# Waugzee in TLA+

Waugzee keeps a vinyl collection: a Go server (Fiber, GORM on Postgres, Valkey
as cache, WebSockets) and a SolidJS client. Its core is the synchronisation of
a user's collection with Discogs, in which the server never calls Discogs
itself: it asks the user's *browser* to, over a WebSocket, and gets the answers
back over a WebSocket (`docs/DISCOGS_API_PROXY_ARCHITECTURE.md`). This directory
holds TLA+ models of that program, configurations that check them with TLC, and
theorems about them checked by TLAPS.

Paths below are relative to `src/server/internal/` unless they start with
`client/` or `docs/`.

## 1. Inventory

| Component | State | Operations | Talks to |
|---|---|---|---|
| Collection sync: `services/orchestration`, `folders`, `releaseSync`, `folderValidation`, `folderDataExtraction` | `collection_sync:{user}` and `api_request:{id}` in Valkey; `user_releases`, `releases`, `folders`, `user_configurations` | POST `/sync/syncCollection`; handlers of the folders, folder-page and release responses; validation, reconciliation, completion | browser (event bus, hub), rate limiter, database |
| Discogs rate limiter: `services/discogsRateLimiter` | a sorted set of request times per user | check-and-add, wait for a slot, throttle | sync; sleeps in the caller's goroutine |
| WebSocket manager and hub: `websockets/*` | map of clients, per-client `send` channel and status | register, unregister, broadcast, send to a user, read and write pumps, authentication and its timeout | event bus, orchestration |
| Event bus: `events/events.go` | local handlers per channel, Valkey pub/sub | publish, subscribe, listen | hub |
| Monthly data pipeline: `jobs/discogsDownload`, `jobs/discogsXMLParser`, `services/download`, `services/discogsXMLParser` | one `discogs_data_processings` row per month, files on disk | download with retries, checksum, parse in steps | scheduler, administration |
| Scheduler, file cleanup, administration: `services/scheduler`, `services/fileCleanup`, `controllers/admin` | registered jobs, that same row, files | run at a time or on a trigger, reset, reprocess, delete files | pipeline |
| Cache-aside repositories: `database/cacheBuilder`, `services/transaction`, `repositories/*` | cached copies of query results | read through, write and invalidate | every controller |
| History, styluses, recommendations, users: `controllers/*` | plays and cleanings, the primary stylus, the recommendation of the day, users | log, edit, delete; choose; find or create | repositories |
| Client proxy: `client/src/components/ProxyService.tsx` | none (requests in flight) | call Discogs, answer | WebSocket context |
| Client WebSocket context: `client/src/context/WebSocketContext.tsx` | connection state, last message | authenticate, send, reconnect | hub |
| Authentication, Kleio import, catalogue upserts, routing, logging, migrations, user interface | | | |

What is hard in it, and what would make each component correct:

* **Collection sync.** One user's sync runs in several goroutines (the POST and
  the read pumps of the user's connections) that read, change and write back
  one cached record with no lock. Answers come in any order, late, twice over
  (for two syncs) or never. Correct means: no release its owner still has is
  deleted; at completion the rows are those at Discogs; rows refer to existing
  releases; two syncs do not run at once; a sync that starts ends.
* **Rate limiter.** Remove, count and add are separate commands. Correct means a
  bound on the requests of any window for one caller, and a weaker one for many;
  everyone who waits gets a slot.
* **Hub.** A channel is closed while others send to it; authentication races its
  timeout; a browser reconnects while its last connection winds down. Correct
  means that map and channels agree, that goroutines end with their connection,
  that only its user gets a user's event, and that the process survives.
* **Pipeline.** Jobs work on copies of a row that an administrator's handlers
  change too; the process may die. Correct means that a record says no more than
  what was done for it, that no job takes the record of another month's attempt
  over, and that no month is stuck for ever.
* **Cache-aside.** A reader may store what it read before a write that has
  already invalidated; in a transaction the entry is dropped before the commit.
  Correct means that an entry only ever holds an answer of the database, that in
  the rows it is cleared for only requests that overlap leave it old, and that no
  update is lost to a cached copy.
* **Recommendations and streaks.** Several sessions find, create and listen;
  dates and hours are compared. Correct means one recommendation per window,
  played once, and a streak that is the run of days it stands for.

`PROJECT.json` lists these hazards line by line with the properties that cover
them.

## 2. Plan

What the project set out to model, the most important first:

1. `CollectionSync`: the sync, with its proofs (section 3).
2. `DiscogsRateLimiter`: the sliding window, its commands interleaved, with
   bounds on what it stores and what it grants, both proved (section 4).
3. `WebSocketHub`: clients, channels, pumps, hub, authentication timeout and the
   client's reconnection; with the event bus (section 5).
4. `DataProcessing`: the month's record, the two jobs, administration, cleanup
   and crashes (section 6).
5. `CacheAside`, the abstract entry of a cache, and `UserData`, the repositories
   and controllers of users, folders, releases, plays, cleanings and styluses,
   which implements it entry by entry (section 7).
6. `DailyRecommendation`: the recommendation of the day and the streaks, the
   streak query against a reference definition (section 8).

Each has one to three configurations that should pass, with two or three
processes, one or two records and the smallest limits at which the interesting
case happens; a module of proofs; and a configuration expected to fail where the
code does not do what it says. Recursion stays out of modules with theorems.
What is not modelled, and why, is in section 9.

## 3. Collection sync

### How the model corresponds to the code

`CollectionSync` is one user's sync. Its **workers** are goroutines: a `Poster`
handles POSTs, a `Conn` is the read pump of one WebSocket connection, which
handles one message at a time (`websockets/websocket.go:188`). A step extends
from one access to shared state (Valkey, the database, the event bus) to the
next; between two steps other workers may run, so check-then-store and
read-change-write sequences are exactly as interruptible as in the code. `pc`
says where a worker is, `mem`, `read`, `cur`, `todo`, `sent`, `ops` are the local
variables of its handler.

| Variables | Code |
|---|---|
| `state` | `CollectionSyncState` in Valkey; `scope`/`completed` stand for `TotalFolders`/`CompletedFolders`, `merged` for `MergedReleases`, `op` for `SyncOperationID`, `stale` for an age above `MaxCollectionSyncTTL` |
| `meta` | `api_request:{requestID}` entries |
| `wire`, `inbox` | requests on their way to the browser, answers on their way back (sets: any order) |
| `rows`, `folders`, `selected`, `owned` | tables `releases`, `folders`, `user_configurations`, `user_releases`; `Tombstone` is a soft-deleted row |
| `event` | the last of `sync_start`, `sync_complete`, `sync_error` published |
| `mixed` | history: some page was merged into the state of another operation than the one it was requested for |

| Actions | Code |
|---|---|
| `PostSync`, `RequestUserFolders` | `SyncUserFoldersAndCollection` |
| `CheckInProgress`, `StoreSyncState`, `RequestFolderReleases` | `SyncAllUserFolders`, run by the POST *and* by the handler of the folders response |
| `Answer`, `Lose` | `ProxyService`; requests and answers that find no open connection |
| `ExpireMetadata`, `ExpireState`, `AgeState`, `Crash` | TTLs, `MaxCollectionSyncTTL`, restart of the server |
| `ReceiveUnknown`, `ReceiveFolders`, `ReceivePage`, `ReceiveRelease` | `HandleAPIResponse` and the first part of each handler |
| `UpsertFolders`, `DeleteOrphanFolders`, `SelectDefaultFolder` | the three transactions of `ProcessFoldersResponse` |
| `Paginate`, `SaveProgress`, `ValidateReleases`, `SkipValidation`, `RecordValidation` | `ProcessFolderReleasesResponse`, `performReleaseValidation` |
| `MissingToken`, `RequestRelease`; `ReadPending`, `WritePending` | `RequestMissingReleases`; the Get and the Set of `updateSyncStateWithPendingRequests` |
| `SettlePending`, `TriggerSyncCompletion` | `handleReleaseResponse` and what it triggers |
| `AnalyzeDifferentialSync`, `ExecuteSyncOperations`, `ExtractBasicInformation`, `CompleteSync` | the completion, which `TriggerSyncCompletion` repeats line for line |

The collection at Discogs is a constant: `Collection` gives the folder of each
instance, `PageOf` and `LastPage` how its listing is cut into pages; it does not
change during a sync. The set `Faults` says which of ten kinds of fault may
happen, each as an extra alternative of the actions where the code meets it; one
of them, `"url"`, is a page that is not the last and names no next URL, which the
code stores and asks for nothing after (`services/folders.service.go:518`).
`EchoesSyncStateId` says whether the browser copies `syncStateId` into the answer
for a release, as the server expects (`services/orchestration.service.go:255`);
today's `ProxyService` does not, so the value FALSE is the program as shipped,
and TRUE is what the server was written for.

Two things can keep an instance of a page out of the state, without any fault.
An instance listed with no release id (`Unidentified`) is skipped
(`services/folders.service.go:231`). And a sync holds at most
`MaxReleasesPerSync` instances (`MaxReleases`): at the limit the loop over the
page breaks off (`:266`), so what the state takes is the part of the page that
happens to be listed first (`Taken`). In both cases the folder is complete with
its last page all the same (`:526`), and `analyzeDifferentialSync` takes what was
not merged for gone: *past the limit the program deletes rows of releases that
are still in the collection*. The properties below are stated up to the limit,
and for instances with a release id.

Left out: `processIndividualFolder` beyond dropping the page, since it changes
no state the sync reads; the release queue, written and never read; ratings,
notes and dates (an instance's row is only its folder); caches other than the
sync's. A rate limiter refusal is the fault `"request"`. A POST by a user with
no token changes nothing, and is not modelled.

### Runs

All use the instances of `MCCollectionSync`: at most two folders, f1 with two
pages and f2 with one, each page with an instance of another release, and an
instance i4 its owner has parted with. That is the least with pagination, two
folders in flight, a move between folders, a create, a delete and a conflict.
`SyncReconcile` has two instances more, i5 without a release id and i6 in f2 for
the limit: its rows are those of an earlier sync, i1 in a wrong folder and i4
still there, and four instances do not fit in a sync of three.
`CHECK_DEADLOCK FALSE`, because the system rightly stops when nobody presses the
button any more (`MaxPosts`) and everything is answered. The bounds are
`MaxRequests` (API requests) and `MaxPosts`; `MaxPending` and `MaxReleases` are
the code's `MaxPendingAPIRequests` and `MaxReleasesPerSync`, made small enough to
be reached (`MaxReleases` is 3 in `SyncReconcile`, 2 in `SyncLiveness`, 1 in
`SyncFaults`). Each `MaxRequests` lets a full sync with all its
pages run at least once, and in the first two runs twice (the POST and the
folders response may both start one).

| Run | Setting | Shows |
|---|---|---|
| `SyncLiveness` | echo, fault `token`, stored folders one or both, rows all or few | `InProgressIsDriven`: a sync in progress always has a worker or an unanswered message; `SyncEnds`: every `sync_start` is followed by `sync_complete` or `sync_error` |
| `SyncReconcile` | no echo, faults `lost`, `network`, `request`, `url`; the rows an earlier sync left | `CompleteFoldersKeepReleases`: while the sync has room, nothing identified that is in a folder marked complete is deleted; `CompletionReconciles`: at completion every active row is in its place in a complete folder, and each identified instance of one has a row, or there are as many rows as the limit |
| `SyncFaults` | two connections, all ten faults, one folder and one instance | `TypeOK`, `RowsReferToReleases` |
| `SyncNoEcho` | the browser as shipped, no fault | finding: `SyncEnds` is violated when a release is missing from the database |
| `SyncHttpError` | fault `http` | finding: `CompleteFoldersKeepReleases` is violated, an HTTP error body passes for the last page of its folder |

The POST and the handler of the folders response both check for a sync in
progress before either stores one (`services/folders.service.go:777`, `:849`), so
the second may replace the first, whose requests are out already. All runs start
syncs in this way; the properties hold of the sync that replaces the other.

`CompletionReconciles` and `CompleteFoldersKeepReleases` are conditional on
`~mixed`. The code never compares an answer with the operation it was requested
for, and a late page of an earlier operation counts as a page of the present
one; what then goes wrong is listed among the hazards. Two further hazards are
outside their settings and known to break them: two connections of one user that
overwrite each other's copy of the state, and a crash between the publication of
the next-page request and the write of the page before it.

**Fairness** (`FairSpec`, in `SyncLiveness` and `SyncNoEcho`): each goroutine
that has something to do other than accept a new POST eventually does it (the Go
scheduler), and the browser eventually answers each request on the wire (axios
has a 30 s time limit and both outcomes answer). Nothing forces a user to press
the button, and no fault is ever forced.

### Proofs

`CollectionSyncProofs`, for every value of the constants and with every fault:

* `TypeCorrect`: `Spec => []TypeOK`. The inductive invariant adds to `TypeOK`
  what the types of locals need: a worker past a read of the state has one in
  `mem`, one that handles a message has one in `cur`, and of the right kind.
* `RowsAlwaysReferToReleases`: `Spec => []RowsReferToReleases`. The invariant
  needed is that the creates and updates a worker has *planned* refer to existing
  releases too (`PlanStep`); it survives other workers because release rows only
  grow (`RowsGrow`) and only `ExecuteSyncOperations` writes `owned`
  (`OwnedWrites`).

`CollectionSyncSafety`:

* `CompleteFoldersAreKept`: `Undisturbed` implies
  `Spec => []CompleteFoldersKeepReleases`, where `Undisturbed` says that there is
  at most one connection and that the faults `http`, `cache` and `crash` do not
  happen. Everything else may: losses, network errors, requests that cannot be
  made, missing next URLs, expiry, database failures, any number of POSTs, folders
  and pages, and any limit on a sync. The statement is about identified instances
  and a sync below its limit, where the code keeps its promise.

  The property alone is far from inductive. `SafeInv` says, besides that
  POST handlers only start syncs and that no error body is around, that while
  `~mixed`: (`OneChain`) for each operation and folder at most one page request
  is anywhere between `wire`, `inbox`, a worker about to ask for it and a worker
  with its answer; (`StateSound`, `CopiesSound`, `ReadsSound`) the state, each
  worker's copy and what it has read to write back contain every page before the
  outstanding one, and all pages of a folder once it is complete, but for
  unidentified instances and unless the limit has been reached (`InPlace`: a state
  below it has never been at it, since merged instances only grow);
  (`NextPageIsFree`) the next page to ask for is
  not outstanding already. So when all folders count as complete every page has
  been merged, as far as there was room, and a planned delete is of an instance that
  is in none of them
  (`PlannedDeletesAreGone`). The proof has a lemma per action. `SafeInv` was
  model-checked before it was proved.

* `CompletionHasReconciled`: `Undisturbed` implies
  `Spec => []CompletionReconciles`. `ReconcileInv` adds to `SafeInv`, while
  `~mixed`: (`StateTrue`, `CopiesTrue`, `ReadsTrue`) the state and each copy have merged an
  instance only into the folder Discogs has it in, a folder of the sync; they are
  complete exactly when validated, their folders are then done, and when nothing
  is missing every merged release has a row; (`PlansAreCurrent`) the plan of such
  a sync is what the rows still call for, since rows only grow and the one
  handler alone writes `owned`; (`Reconciled`) so what the transaction leaves are
  those of the complete folders that were taken (`PlanReconciles`). `StoredState` and
  `CopiedState` say once where a stored state and a handler's copy come from.

* `InProgressAlwaysDriven`: `Reliable` implies `Spec => []InProgressIsDriven`,
  where `Reliable` says that there is at most one connection and that the faults
  `lost`, `request`, `url`, `cache`, `expire` and `crash` do not happen: each of these
  alone strands a sync until its time to live runs out, as the code has no timeout
  or retry of its own. HTTP errors, network errors, a missing token and a failing
  database are allowed. `DrivenInv` says that requests on their way are
  known and at one place (`Known`); that a state in progress has a folder left
  and, unless a handler holds a page of the operation that it has not stored,
  *every* folder left is asked for (`StateDriven`); and that the same will hold of
  what a handler is going to store (`CopiesDriven`, `ReadsDriven`). Here nothing is said about
  `~mixed`: a foreign page can complete a folder early, but it cannot
  leave the sync without a request.

The three facts each proof rests on (initially true, kept by every step, implies
the property) are named lemmas. The assumptions are `ConstantsAssumption`
(finitely many folders, distinct model values, a listing consistent with its
pages), which TLC checks on every run, and `Undisturbed` or `Reliable` for the
theorems of `CollectionSyncSafety`. `ReconcileInv` and `DrivenInv` were
model-checked before they were proved, the latter with the faults `network`,
`http`, `token` and `db` on two folders.

Only model-checked: `SyncEnds` (liveness under fairness is beyond the prover), and
the two violations.

## 4. Rate limiter

### How the model corresponds to the code

`DiscogsRateLimiter` is one user's sorted set in Valkey and the goroutines that
call `CheckUserRateLimit` for that user. It is a module of its own: all that
`CollectionSync` sees of it is that a request may be refused.

| Variables | Code |
|---|---|
| `members`, `age`, `ttl` | the members of `discogs_rate_limit:{user}`, their scores, the life time of the key |
| `pc`, `reading`, `count`, `wait` | a caller's place in the loop, its `now`, its `currentCount`, what is left of its `time.After` |
| `lapsed` | history: the key has expired with a member that still counts in some window |

| Actions | Code |
|---|---|
| `Call`, `Retry` | the top of the loop; `now` is read |
| `RemoveExpired`, `CountRequests`, `AddRequest`, `ExpireKey` | the four commands of `checkAndAddRequest`: `ZREMRANGEBYSCORE`, `ZCARD`, `ZADD`, `EXPIRE` |
| `WaitForSlot` | after the throttle delay, `calculateNextSlotAvailable` |
| `Cancel` | the context ends during a sleep |
| `Tick` | a second passes, for ages, clock readings, sleeps and the key |

Time is kept as ages, since only differences matter: the state space is finite
without a bound on time. What is bounded is `MaxLag`, the seconds between a
caller's reading of the clock and its `ZADD`; an age of `MaxLag + Window` stands
for all greater ones. Two goroutines of one user, the POST and a read pump, is
what the program has for one connection; each further connection adds one.

### Runs

| Run | Setting | Shows |
|---|---|---|
| `RateLimit` | two callers, limit 1, window 2, lag 1, every fault | `StoredBound`: the set holds at most the limit plus one per further caller; `WindowLimit`: a window holds at most the limit plus *two* per further caller; `WaitersProceed`: nobody waits for ever while no request is granted |

Limit 1 and window 2 are enough for a request to be inside one window and outside
the next, and for both callers to count before either adds. Lag 1 lets a caller
that read the clock a second late remove what a slower caller's window still
held, which is where the second request per caller comes from; both bounds are
reached, and fail with one less. Six request ids are never all in use.

The comment above `CheckUserRateLimit` promises delays from half the capacity on
("proactive throttling"). In the code, and so in the model, a request below the
limit passes at once, and the delay comes only after a refusal.

`WindowLimit` is conditional on `~lapsed`: the result of `EXPIRE` is ignored, and
a request whose own `EXPIRE` fails or is late goes with the life time an earlier
one gave the key. `StoredBound` holds even so.

**Fairness** (`FairSpec`): a goroutine that is in a call is scheduled, and time
passes. `WaitersProceed` promises no slot to any *particular* caller, since the
code keeps no queue: a caller may find the slot it slept for taken each time.

### Proofs

`DiscogsRateLimiterProofs`, from `LimiterAssumption` only, for any number of
callers, limit, window, lag and faults:

* `LimiterTypeCorrect`: `Spec => []TypeOK`, with the fact that only a caller in a
  check has a clock reading.
* `StoredWithinBound`: `Spec => []StoredBound`. Inductive is
  members + callers about to add <= limit + callers - 1 (`StoredInv`): a caller
  that passes the count finds fewer members than the limit, and an add turns one
  of the callers into a member.
* `WindowWithinLimit`: `Spec => []WindowLimit`. For each window either the set
  still has all of it, and `StoredInv` bounds it (`Covered`), or a caller has
  removed a part; that caller's clock is past the window, so from then on it is
  not among those that can add to it, and requests + callers that can add only
  goes down (`Closing`). A tick maps the window that began `n` seconds ago to
  the one that began `n + 1` seconds ago.

Only model-checked: `WaitersProceed`.

## 5. WebSocket hub

### How the model corresponds to the code

`WebSocketHub` is the server's map of clients, the goroutines of each connection,
the event goroutines that send to it, and the browser's end. `CollectionSync` sees
of all this only messages that arrive in any order or not at all.

| Variables | Code |
|---|---|
| `conn`, `uplink` | the connection; messages on their way to the server |
| `socket`, `wsAuthenticated` | `wsInstance`, `wsAuthenticated` of `WebSocketContext` |
| `status`, `user`, `send`, `shut` | `Client.Status`, `UserID`, the channel `send` and whether it is closed |
| `handler`, `reader`, `timer` | where `HandleWebSocket`/`writePump`, `readPump` and the goroutine of `startAuthTimeout` are |
| `clients`, `hub` | `Hub.clients`, what `run` is doing |
| `task`, `target`, `todo` | where an event's goroutine is, `targetClient`, the clients still to look at |
| `got` | history: the events a browser received |
| `crashed` | history: the goroutine that ended the process |

| Actions | Code |
|---|---|
| `Connect`, `Register` | `HandleWebSocket` with `sendAuthRequest`; the browser's `handleAuthRequest` |
| `Leave`, `SendAnswer`, `HandleMessage` | every way a browser gives a connection up; `sendMessage`; `handleMessage` |
| `Insert`, `CloseSend`, `Delete` | `registerClient`; the two parts of an unregistration |
| `Write`, `StopWriting`, `UnregisterHandler` | `writePump`, the deferred function of `HandleWebSocket` |
| `Read`, `Validate`, `Identify`, `Reply` | `readPump`, `routeMessage`, `handleAuthResponse` (its two assignments are two steps), `sendAuthFailure`, `handleUnauthenticatedMessage` |
| `ReadError`, `PongTimeout`, `UnregisterReader`, `CloseReader` | how the read pump ends; the rendezvous with the hub and the close of the connection are two steps, as the hub may be busy |
| `TimerFires`, `Notify`, `CloseLater` | `startAuthTimeout`, and the delayed close |
| `Publish`, `FindTarget`, `SendToTarget` | `EventBus`, `sendToSpecificUser` |
| `LockForAdmins`, `SendToAdmin`, `Unlock` | `sendToAdminUsers` |

`HandleWebSocket`, too, closes the connection after it has unregistered
(`websockets/websocket.go:127`), but by then `writePump`, whose return gets it there,
has closed it already; that second close does nothing and is no step.

The Go memory model leaves two things undefined, which are choices here: the
range over the map in `sendToSpecificUser` takes no lock, so while the hub changes
the map it may see any clients or end the process; `Status` and `UserID` are read
while they are being written. A panic ends the process, and the behaviour with it,
since every variable is memory of the process or a connection to it.

### Runs

| Run | Setting | Shows |
|---|---|---|
| `HubSafety` | a browser that connects as one user and then as another, an event for the first | `TypeOK`; `MapMatchesChannels`: a client is in the map exactly while its channel is open, but for one step of the hub; `PrivateDelivery`: the event is only for its user; `AnswersAreRouted`: no answer is blocked as unauthenticated |
| `HubLiveness` | one connection, an event for its user and one for administrators | `ConnectionsEnd`: the hub forgets a connection that has ended and its goroutines return; `UnauthenticatedEnd`: who does not authenticate is disconnected |

The process may end in each of the ways the code allows: by a send on a channel
the hub has closed (of the timer whose client has left, `websockets/auth.websocket.go:43`,
of the read pump, or of an event's goroutine), and by a map read and written at once.

Two connections are what a reconnection needs: the goroutines of the first are
still winding down while the second authenticates. With `Capacity` 1 the channel
is full after one message, so blocked and dropped sends happen; `MaxUplink` is 1.
A connection and an event are used once. That bounds only how often things
happen: new ones start in the same state. `HubSafety` has no event for
administrators; the theorem has. `CHECK_DEADLOCK FALSE`, because the process may
have ended, and because all connections may have.

**Fairness** (`FairSpec`): each goroutine is scheduled. The two sends to the
unbuffered channel `unregister`, and that to `register`, are strongly fair: others
may take the hub meanwhile, but Go serves the senders that wait on a channel in
turn. Nothing makes a browser connect, leave or send, and nothing makes a read
deadline pass.

### Proofs

`WebSocketHubProofs`, from `HubAssumption` only, for any number of browsers,
connections, users and events:

* `HubTypeCorrect`: `Spec => []TypeOK`, with the fact that a hub that is not idle
  works on a connection (`HubBusy`).
* `HubMapMatchesChannels`: `Spec => []MapMatchesChannels`. It needs that the hub
  inserts only clients whose channel is open and deletes only those whose channel
  is closed (`HubHonest`), which holds since a client is registered once, before
  its read pump starts, and is unregistered only after (`StartsInOrder`).
* `HubAnswersAreRouted`: `Spec => []AnswersAreRouted`. An `auth_success` in a
  channel, or about to be put there, is true of the server's client
  (`SuccessIsTrue`); what arrives, arrives on the connection the browser uses
  (`OpenIsCurrent`); so its flag is about that one (`BelievesRight`).
* `HubPrivateDelivery`: `Spec => []PrivateDelivery`. `UserID` is either unset or
  the user of the token (`KnowsUser`), so the client an event's goroutine finds
  suits the event (`TargetsSuited`) however late it sends, as does what is already
  in a channel (`CarriesSuited`).

Only model-checked: the two liveness properties.

## 6. Monthly data pipeline

### How the model corresponds to the code

`DataProcessing` is one month: its row and last month's, its files, the executions of the download
job and of the parser that may overlap, and an administrator. A job reads the row
once, works for hours on that copy and saves the whole row from it again and
again; a step extends from one access to the row or the files to the next.

| Variables | Code |
|---|---|
| `row`, `nextId` | the month's `DiscogsDataProcessing`, with the steps completed; `NoRow` when there is none; the sequence of ids |
| `previous` | last month's record, if it left one |
| `file` | the files of the month: absent, partial (being written, or cut off), good, or bad (complete but damaged) |
| `job` | for each execution: where it is (`pc`), its copy of the row (`rec`), the file or step it is at, the attempts failed, the genre manager |
| `admin` | the request in progress, with its copy of the row |
| `genres`, `applied` | what is in the catalogue: the sources whose genres are in the genre table, the steps whose data was stored as a whole |
| `incident` | history: what went wrong so far |

| Actions | Code |
|---|---|
| `StartDownload`, `CreateRecord`, `RetryRecord`, `BeginDownload` | `DiscogsDownloadJob.Execute` up to the download |
| `Checksum`, `BeginFile`, `SaveFileInfo`, `FinishDownload`, `GiveUp` | `performDownload` and what `Execute` does with its error |
| `OpenFile`, `FileWritten`, `AttemptFails`, `NoDirectory` | `downloadFileWithRetry`, `downloadFile` |
| `StartProcessing`, `Claim`, `CheckFiles`, `Complete` | `ParseXMLFiles` |
| `SkipStep`, `RunStep`, `CommitStep`, `StepError` | `executeProcessingStep`, and the step's function in `RunStep` |
| `RequestDownload`, `DeleteRecord`, `RecreateRecord` | `TriggerDownload` |
| `RequestReprocess`; `RequestReset`, `ResetFiles`; `SaveRequested` | `TriggerReprocess`; `ResetStuckDownload`; the save at the end of either |
| `CleanupFiles`, `Crash` | the monthly job and the administrator's removal of files; the end of the process |

`Stores` and `Refuses` are `Save`: every column of the row with the copy's id is
written, a row that was deleted is inserted again, and a copy of a deleted row is
refused once the month has a new one, since `year_month` is unique. They are the
crux of the module, and `SaveOrStop` and `SaveOrWarn` are the two ways the callers
take a refusal.

While the month has no row, the parser takes up the latest one
(`getOrCreateProcessingRecord`), and `TriggerReprocess` always does (`Latest`): that
of last month, whatever state it was left in, but with this month's files. A
removal of files that fails (`RemoveSomeFiles`) ends the reset before its save.

Left out: the change of month during a job, the contents of the checksum file and
the recorded file information (nothing acts on it), retry count and error
messages, database counts and progress events. A stop of the server cancels the
context of scheduled jobs; a job's later saves then fail, so it leaves what a
crash leaves. Two requests of administrators do not overlap. An unreadable row at
the start of a job changes nothing and is not modelled. When the month has no row,
`TriggerDownload` may also return the error of the query (whether
`log.Err` wraps it is up to a library outside the repository); that changes
nothing either.

### Run

`Pipeline` has one execution of each job, two attempts and the last two files,
masters and releases, with the seven steps from `releases_processing` on that end
with the release genre associations: two data steps of one file, and both rounds
of the genre manager. `MaxEvents` 2 bounds what comes from outside, together:
failed attempts, failed saves and batches, damaged files, requests, removals that
fail or not, crashes. Last month left no record or one half processed, the state in
which a parser takes it up. Two are enough for each of the ways a month is known to go wrong (a
request during a job, a crash after a failed attempt). Two executions of *one*
job multiply the states past what a run can visit; that they, too, keep the safety
properties is proved (below). `CHECK_DEADLOCK FALSE`, since a completed month
rests.

* `CompletedHasAllSteps`, `DownloadingIsOwned`, `NoTakeover`: see the proofs.
* `MonthsStayApart`: no step is recorded for last month's record that was not
  there before, unless jobs and requests overlapped, the process was stopped or
  the database refused something. Only the search for the files stands in the way
  (`CheckFiles`): a month without a record has none.
* `CompletedIsLoaded`: when a record is completed and nothing but download
  attempts failed, everything is in the catalogue.
* `OnlyGenresLostByCrash`: crashes and lost saves cost at most the genre
  associations. They do cost those: the collected names are in memory, and the
  step that collects them is not repeated by the job that resumes.
* `CompletedInTheEnd`: the month is completed whatever fails, except in the two
  cases the code has no answer to: a download that was cut off leaves the record
  downloading until an administrator resets it (`CutOff`), and a parser never
  leaves a file whose reader fails (`Caught`, `services/discogsXMLParser.service.go:1172`).
  Its premise `<>[]~Racing` matters for several executions of the download job:
  two that always interleave save failed over each other's downloading. With one,
  as here, it is always true.

**Fairness** (`Fairness`, part of `Spec`): each job is started again and again
while it may start (`services/scheduler.service.go:78`, daily at 02:00 and 03:00),
and a job or a request in progress goes on. Nothing forces a failure, a request or
a removal.

### Proofs

For any number of overlapping executions of both jobs, files, steps, attempts and
events. `DataProcessingProofs`, from `PipelineAssumption`:

* `PipelineTypeCorrect`: `Spec => []TypeOK`.
* `PipelineCompletedHasAllSteps`: `Spec => []CompletedHasAllSteps`.
* `PipelineDownloadingIsOwned`: `Spec => []DownloadingIsOwned`: unless the process
  was stopped or a save failed, some execution still downloads for a record that
  is downloading.
* `PipelineNoTakeover`: `Spec => NoTakeover`: a deleted record never comes back in
  place of the one created after it. This needs no invariant.

The second and third rest on `RecordInv`, which adds to them `Copies`: what a job's
copy may say at each place in the code (a download's is `downloading` from its
first save to its last, a parser's `processing` with every step before its
position completed, a request's never `completed`). Since a save puts a copy in the
row, that is what keeps a stale copy from storing `completed` without its steps, or
`downloading` without a job behind it.

`DataProcessingSafety`, from `StepOrderAssumption` besides: the steps are in the
order of `ParseXMLFiles`, that is, none is repeated, and before the genres of a
source are associated they have been collected and then inserted, with no reset of
the genre manager between collecting and associating. TLC checks it of the steps
of the run and of all thirteen.

* `PipelineOnlyGenresLostByCrash`: `Spec => []OnlyGenresLostByCrash`.
* `PipelineCompletedIsLoaded`: `Spec => []CompletedIsLoaded`.
* `PipelineMonthsStayApart`: `Spec => MonthsStayApart`.

The first two are about a row's list of steps, which travels through copies and is stored
long after the data. `LoadInv` says, as long as only crashes and lost saves have
happened (`CalmInv`): one execution or request is at work at a time (`Alone`); the
files are whole from the end of their download on, so that a parser never reads
half of one (`FilesWhole`, which follows a download file by file); and every list
of steps, in the row or in a copy, names only steps whose data is applied
(`Loaded`). If nothing at all has happened (`FlawlessInv`), moreover, no record
that is not being processed has steps, so a parser starts from the first one and
its genre manager knows what the steps before its position have collected
(`GenresKnown`): this is what a crash destroys, and why the genres are lost by it.
All this is about the parsers at work for this month; one that works for last
month's record only adds to the catalogue. The third theorem rests on `Apart`, true
until there is an overlap, a crash or a refusal: while the month has no record it
has no files, so a parser of last month's record gets no further than looking for
them.

Only model-checked: the liveness property `CompletedInTheEnd`.

## 7. Users, plays, styluses and their caches

### How the model corresponds to the code

`UserData` is one user's rows, the entries of the user cache in front of them
and the requests that read and change both. Go's handlers run to their end one
call after the other, and only the calls to the cache and to the database meet
other requests; so a handler *is* the sequence of those calls. Each function of
a repository is an operator that returns the steps it takes (`CreatePlayHistory`
is the INSERT, then the two deletions in the cache), each handler one that puts
together those of the functions it calls, and the actions execute one step each.

| Variables | Code |
|---|---|
| `rows` | `users`, `folders`, `user_releases` (as one, "collection"), `play_histories`, `cleaning_histories`, `user_styluses`: for each row the number of its changes, 0 for none |
| `config`, `primary` | `user_configurations`; the styluses with `is_primary` |
| `cache` | `user_oidc`, `user_folders`, `user_folder`, `user_releases`, `user_styluses`, `play_history` |
| `todo`, `copy`, `fetched`, `tx` | of a request: the calls left, `user.Configuration`, the answer it is about to store, what its open transaction has done |
| `met`, `suspect` | history: what others have changed since a request read it; entries filled while they were being changed, or left by a fault |

| Steps and actions | Code |
|---|---|
| `Hit`, `Query`, `NotFound`, `Store`, `Skip` | every cached query: `CacheBuilder.Get`, the SELECT, `CacheBuilder.Set`; `GetUser` without a configuration |
| `Statement`, `Refuse`, `Find`, `CommitTransaction` | GORM's statements; `TransactionService.Execute` |
| `Accept` (or `Refuse`) | what a handler checks before it changes anything: input, ownership, Discogs' answer to a token, the identity provider's |
| `ClearEntry` | `CacheBuilder.Delete`, whose error is only logged |
| `SaveConfig`, `NoConfig`, `CreateConfig` | `userConfigurationRepository.Update`, its callers without a configuration, `CreateOrUpdate` |
| `CreateFromOIDC` | `createFromOIDC`, at the first log-in |
| `Expire`, `Crash` | life times; the end of the process |

A statement in a transaction takes effect when it commits; the entry is dropped
where the repository says, which is before. Row locks are left out: a statement
that waits for another transaction has the effect it has here at the commit. A
release's folder is in its row, and `GetUserReleasesByFolderID` asks by folder
but stores under the user alone: an `Answer` for releases keeps the folder it
was asked for.

An `Answer` has two parts. `Own` are the rows whose writers clear the entry
(`Watched`): of plays the plays, of releases the releases, plays and cleanings, and so
on. `Preloads` are the rows GORM preloads into it and whose writers do not clear it
(`Unwatched`): the user's releases and the styluses of the plays in `play_history`
(`repositories/history.repository.go:124`), those styluses in `user_releases`
(`repositories/userRelease.repository.go:179`). `OldRows`, `OldPreloads` and
`OldFolder` are the three ways an entry can be out of date.

Some things the code does that the model shows or that bound it:

* the cached user has no OIDC id (it is not in its JSON), so
  `ClearUserCacheByUserID` looks it up; without that the mutant loses updates;
* `selected_folder_id` has the default 0, so a configuration always has a
  folder, and `updateUserConfigWithUncategorizedFolderIfNotSet` never acts;
* `DeleteOrphanFolders` leaves the entries of the folders it deletes, although
  `docs/CACHE_STRATEGY.md` lists them as cleared: `RowsOldOnlyByOverlap` excepts
  them;
* the cleaning history's entry is cleared but nothing fills it;
* a token for a user who has one is saved as a second configuration without id, an
  INSERT that the unique index refuses (`CreateConfig`): the token is never updated,
  although the profile offers it (`client/src/pages/Profile/Profile.tsx:123`);
* `LogPlay` drops the streak's entry too; that entry is in
  `DailyRecommendation`.

A failed query ends a GET and changes nothing; it is left out. Plays of a
release that leaves the collection in the meantime are left out, too, and so are
the catalogue's rows preloaded into plays and releases (releases with their artists,
genres and labels, and the styluses' makes), which the pipeline changes.

### The abstract specification

`CacheAside` is what the pattern of `docs/CACHE_STRATEGY.md` promises of any one
entry: what is stored in it was an answer of the database to somebody, given
before or now; otherwise it is dropped. Nobody warms it with what they wrote,
and nothing uncommitted gets in. `EntriesAreCacheAside` says that each entry of
`UserData` implements it: `answers` is what the database may say now, `pending`
what requests have been told and not yet stored, `cached` the entry.

### Runs

`MCUserData` runs any two of 22 requests together, and three of those that meet
in one entry (a reader with two writers, two writers of the primary stylus with
a third). They start from a user with one row of each kind or from none. There
is one fault (a failed deletion in the cache, a failed INSERT of a user or
configuration, a crash) and one expiry: each property speaks of one entry, one
copy or one transaction at a time, so what two faults do to it one does already.
Requests are interchangeable once the workload is closed under permutation, as
`SYMMETRY` makes it. Deadlock is checked: `Done` is the only end.

| Run | Shows |
|---|---|
| `UserData` | `TypeOK`; `RowsOldOnlyByOverlap`: in the rows it is cleared for, an entry differs from the database only if it was filled while a request that changes them was at work, if a fault left it, or while the request that made it old is about to drop it; `NoLostUpdate`: saving a folder or a preference undoes the other only if another request wrote the configuration since the copy was read, or while it was cached; `OnePrimary`: a second primary stylus comes only of overlapping transactions; `EntriesAreCacheAside` |
| `StaleData` | finding: `NoStaleData` is violated, a deleted stylus is still in the cached plays |

The exceptions of the first are what the code does, not conservative guesses:
without any one of them the property fails.

`StaleData` has one request after the other (`SerialSpec`) and states its property
for when all have been answered and nothing has failed (`Undisturbed`), so overlap
has no part in it: `docs/CACHE_STRATEGY.md:261` promises no stale data. Any of the
three ways alone violates it: a preloaded row (the trace that is found first, as it
is the shortest), a switch of the selected folder, after which the releases of the
old one are still the answer (:166 promises a fresh query), and the entry of a
folder that is gone. Such an entry stays for as long as it lives, which is why no
property of `UserData` claims that only overlapping requests see old data.

### Proofs

`UserDataProofs`, from the assumptions of `UserData` (`RowsAssumption` says that
rows of different tables differ and that ids are no names of entries), for any
number of requests, rows and entries. For *any* workload of steps, not only the
handlers':

* `UserDataTypeCorrect`: `Spec => []TypeOK`, with the type of the answers in the
  cache and on their way to it (`AnswersTyped`), since a configuration is read
  from there and saved again.
* `EntriesImplementCacheAside`: `Spec => EntriesAreCacheAside`. `Init` maps to
  `Init`; `Query` and the creation of a user are `Ask`, `Store` is `Store`,
  `ClearEntry` and `Expire` are `Drop`; any other step leaves the entry alone
  and asks nothing. A crash forgets pending answers.

For any workload of the code's handlers (`CodeHandlers` names them all, with all
their arguments and branches; a workload is one of `[Req -> CodeHandlers]`):

* `UserDataRowsOldOnlyByOverlap`: `Spec => []RowsOldOnlyByOverlap`. It is about the
  rows whose writers clear the entry, and says nothing of preloaded rows or of the
  selected folder.
* `UserDataNoLostUpdate`: `Spec => NoLostUpdate`.
* `UserDataOnePrimary`: `Spec => OnePrimary`.

They depend on the order of the steps in the handlers, and two facts make them
provable without a case for each pair of places in two handlers. First, what
matters of a handler is said once, of its steps (`Ordered`): `Clearing` (a written
row's entries are cleared right after the statement, or before the transaction
commits; nothing is read in between; a row is read again only after its update),
`Choosing` (a transaction makes at most one stylus primary, and commits) and
`UnsetsAllFirst` (it unsets the others before). `HandlersKeepOrder` shows this of
every function in `CodeHandlers`.

Second, `UserInv` keeps it of what is left of each request (`Orderly`) and relates
a request only to what others have done: everything another request may still
change, and that this one follows, is in its `met` (`Noticed`); a fetched answer, a
cached one and a copy agree with the database, or that is known (`FetchedFresh`,
`CachedFresh`, `CopyFresh`: in `met`, in `suspect`, or about to be cleared); what an
open transaction has changed is uncached, suspect, or still to be cleared before
the commit (`Hidden`); the entry of a user that does not exist is empty
(`Account`). The properties alone are not inductive: an entry is filled with an
answer fetched long before, and a configuration saved from an older copy still.

Only model-checked: nothing but the violation.

## 8. Recommendations and streaks

### How the model corresponds to the code

`DailyRecommendation` is the recommendation part of `GET /users/me` and the POST
that marks a recommendation as listened to, for one user with several sessions,
each of which makes one request at a time and shows what it was answered last.

| Variables | Code |
|---|---|
| `recs` | `daily_recommendations` in the order of `created_at`; `plays` counts the plays recorded for each |
| `recent`, `streak` | `recent_recommendation`, `user_streak` in the cache, with the time they end |
| `pc`, `got`, `counted` | where a session's request is, and what it found |
| `view` | what the session shows |
| `overtaken`, `outdated`, `suspect` | history: requests that others have overtaken, sessions that show what has changed, entries filled by such requests or left by a fault |

| Actions | Code |
|---|---|
| `GetUser`, `Answer` | the part of `GetUser` after the play history |
| `HitRecent`, `QueryRecent`, `StoreRecent`, `NoneFound` | `GetMostRecentRecommendation` |
| `Decide` | `getOrCreateRecommendation`: 24 hours, 18 if listened to |
| `GenerateNothing`, `CreateRecommendation`, `ClearRecent` | `generateNewRecommendation`, `CreateRecommendation` |
| `HitStreak`, `CalculateStreak`, `StoreStreak` | `calculateUserStreak` |
| `PostListened`, `ClearStreak`, `MarkAsListened`, `Commit` | `RecommendationController.MarkAsListened` |
| `Fail`, `Crash`, `Tick` | failed statements; the end of the process; the clock |

`Streaks` is the query of `CalculateUserStreaks`, window function by window
function. `ROW_NUMBER() OVER (ORDER BY date)` numbers rows of one date in any
order, and two recommendations can share a date, so the query has a set of
possible answers. `StreaksAreRuns` compares it with a definition that knows no
row numbers: the longest, and the last, run of listened days without an
unlistened one between.

Left out: which release is chosen, and its weights; the entries of plays and
releases (`UserData`); `daily_recommendations`, cleared and never filled.
Recommendations are created in the order of their clock readings, and one user's
dates in one time zone. Whether the controller recognises "no rows" once the
error has passed through the logger (`controllers/users/user.controller.go:243`)
depends on the logging library; both outcomes are modelled. The controller
computes the streak, but the handler's JSON has no field for it
(`handlers/user.handler.go:68`): the properties are about what the controller
returns and caches.

### Run

`Recommend`: two sessions, four requests, a clock of five readings six hours
apart, one fault, and a user with no recommendation, or with two of the days
before, each listened to or not, each listened one with its play. Eighteen hours
are three ticks, a day four: a recommendation can be a tick too young, and due,
in both windows; entries expire; one day has two recommendations. A request
takes no time of that clock. `CHECK_DEADLOCK FALSE`: the requests run out.

* `RecentIsLast`, `StreakLagsBehind`: what is cached is the last recommendation,
  and the streak up to recommendations nobody has listened to. Creating one does
  not drop the streak (`repositories/dailyRecommendation.repository.go:217`), so
  a broken streak may be shown for up to a day.
* `OnePerWindow`, `PlayedOnce`: a second recommendation too early, or a second
  play, needs a request that another overtakes, or a session that shows an old
  answer.
* `StreaksAreRuns`, while no two recommendations share a date.

### Proofs

`DailyRecommendationProofs`, from `DailyAssumption`, for any number of sessions,
any windows and any history:

* `DailyTypeCorrect`, `RecentIsTheLast`, `StreakOnlyLagsBehind`,
  `OneRecommendationPerWindow`, `RecommendationPlayedOnce`: the type invariant
  and all properties of the run but one.

They rest on `IInv`, which TLC checked before it was proved. A request that
nobody overtakes and that has read the last recommendation still has it
(`FoundIsLast`), and only creates another when that is due (`CreatesWhenDue`); a
session that shows something fresh shows it unheard (`ShownUnheard`), so what it
posts is unheard (`PostedUnheard`) and has no plays (`PlayedIsHeard`); a
transaction about to commit has dropped the entries (`Forgotten`), unless a
fault or another request put them back; a streak that was counted lags as little
as one that is stored (`CountedLags`).

Only model-checked: `StreaksAreRuns`. It compares cardinalities of sets made by
a fold over dates, which takes induction over data.

## 9. Not modelled

* Identity provider and token cryptography (`services/zitadel.service.go`):
  calls of a service and a library, with a key cache of their own. `UserData`
  has what follows from them: the user found, updated, created or refused.
* Catalogue repositories: upserts and queries without control. Their effect is
  in `DataProcessing` and `CollectionSync`.
* Track durations and XML field conversion, and the weights of the
  recommendation: arithmetic on text and numbers, sequential, and within reach
  of unit tests.
* The Kleio import: run once, sequentially, over another program's export.
* Routing, logging, configuration, migrations: no state the rest depends on.
* The user interface, but for the proxy, the WebSocket context and the button
  that marks a recommendation as listened to.

What the prover cannot do and TLC does: liveness under fairness (`SyncEnds`,
`WaitersProceed`, `ConnectionsEnd`, `UnauthenticatedEnd`, `CompletedInTheEnd`),
and induction over data (`StreaksAreRuns`).

## 10. Running

    tlc -workers 2 -config SyncReconcile.cfg MCCollectionSync
    tlc -workers 2 -config RateLimit.cfg DiscogsRateLimiter
    tlc -workers 2 -config HubSafety.cfg MCWebSocketHub
    tlc -workers 2 -config Pipeline.cfg MCDataProcessing
    tlc -workers 2 -config UserData.cfg MCUserData
    tlc -workers 2 -config Recommend.cfg MCDailyRecommendation
    tlapm CollectionSyncSafety.tla

    tlc -workers 2 -config StaleData.cfg MCUserData

The longest passes (`HubSafety`, `Pipeline`, `Recommend`) take about two minutes
each; the proofs take about twenty minutes from nothing. The three findings are the
runs `SyncNoEcho`, `SyncHttpError` and `StaleData`, which TLC is expected to end with
a violation.
