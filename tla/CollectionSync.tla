--------------------------- MODULE CollectionSync ---------------------------
(***************************************************************************)
(* One user's collection sync: the server asks the user's browser, over a  *)
(* WebSocket, to call the Discogs API; the answers come back over a        *)
(* WebSocket, are accumulated in a cached sync state and, once every       *)
(* folder is complete, reconciled with the user's releases in the database *)
(* (services/orchestration, folders, releaseSync, folderValidation).       *)
(*                                                                         *)
(* Workers are the goroutines that run this code: HTTP handlers of POST    *)
(* /sync/syncCollection (Poster) and the read pumps of the user's          *)
(* WebSocket connections (Conn), each of which handles one message at a    *)
(* time.  A step ends where the code reads or writes the cache, the        *)
(* database or the event bus and another worker may run before it goes on. *)
(***************************************************************************)
EXTENDS Naturals, FiniteSets

CONSTANTS
  Folder,          \* Discogs folder ids other than 0, the virtual "All"
  Item,            \* instance ids
  Release,         \* release ids
  Poster, Conn,    \* HTTP handlers and WebSocket read pumps
  NoFolder, NoState, NoMessage, Tombstone,
  Uncategorized,   \* UncategorizedFolderID
  ReleaseOf,       \* the release an instance is a copy of
  Collection,      \* the folder that holds an instance at Discogs, or NoFolder
  PageOf,          \* the page of its folder's listing an instance is on
  Unidentified,    \* instances that are listed without a release id
  LastPage,        \* pages.total of a folder's listing
  InitialRows, InitialFolders, InitialOwned,  \* possible databases at the start
  EchoesSyncStateId,  \* the browser copies syncStateId into its response
  Faults,          \* which of FaultKinds may happen
  MaxRequests,     \* bound: API requests issued
  MaxPosts,        \* bound: calls of POST /sync/syncCollection
  MaxPending,      \* MaxPendingAPIRequests
  MaxReleases      \* MaxReleasesPerSync

FaultKinds ==
  {"lost",      \* a request or its answer never arrives (no connection, closed tab)
   "network",   \* the browser's HTTP call throws: the answer has an "error" field
   "http",      \* Discogs answers 4xx/5xx: axios resolves and "data" is the error body
   "request",   \* a request cannot be made: rate limiter, metadata store or publish
   "url",       \* a page that is not the last one names no next URL
   "token",     \* the user's Discogs token is gone when releases are requested
   "db",        \* a database query or transaction fails
   "cache",     \* a Valkey command on the sync state fails
   "expire",    \* TTLs run out, or the sync outlives MaxCollectionSyncTTL
   "crash"}     \* the server process restarts

Worker == Poster \cup Conn
Held == Folder \cup {NoFolder, Tombstone}

ASSUME ConstantsAssumption ==
  /\ IsFiniteSet(Folder) /\ IsFiniteSet(Item)
  /\ Poster \cap Conn = {}
  /\ NoFolder \notin Folder /\ Tombstone \notin Folder /\ NoFolder # Tombstone
  /\ ReleaseOf \in [Item -> Release]
  /\ Collection \in [Item -> Folder \cup {NoFolder}]
  /\ PageOf \in [Item -> Nat \ {0}]
  /\ LastPage \in [Folder -> Nat \ {0}]
  /\ \A i \in Item : Collection[i] \in Folder => PageOf[i] <= LastPage[Collection[i]]
  /\ Uncategorized \in Folder
  /\ InitialRows \subseteq SUBSET Release
  /\ InitialFolders \subseteq SUBSET Folder
  /\ InitialOwned \subseteq [Item -> Held]
  /\ EchoesSyncStateId \in BOOLEAN
  /\ Faults \subseteq FaultKinds
  /\ Unidentified \subseteq Item
  /\ MaxRequests \in Nat /\ MaxPosts \in Nat /\ MaxPending \in Nat
  /\ MaxReleases \in Nat

VARIABLES
  rows,       \* release rows in the database
  folders,    \* the user's folder rows
  selected,   \* UserConfiguration.SelectedFolderID
  owned,      \* user_releases: folder of an instance's row, NoFolder if it has
              \*   none, Tombstone if it is soft-deleted (DeletedAt is set)
  state,      \* cached collection_sync:{userID}, or NoState
  meta,       \* ids of the cached api_request:{requestID} entries
  wire,       \* requests on their way to, or worked on by, the browser
  inbox,      \* answers on their way to the server
  issued,     \* number of API requests made so far
  begun,      \* number of sync operations started so far
  posts,      \* number of POSTs handled so far
  event,      \* the last sync event published for the user
  pc,         \* where each worker is
  mem,        \* the worker's local syncState
  read,       \* the syncStateData it read to add request ids to
  cur,        \* the message a read pump is handling
  todo,       \* folders or releases its loop has still to request
  sent,       \* requestIDs of RequestMissingReleases
  ops,        \* the worker's SyncCollectionOperations
  mixed       \* history: a page was merged into the state of another operation

database == <<rows, folders, selected, owned>>
network  == <<meta, wire, inbox, issued>>
locals   == <<mem, read, cur, todo, sent, ops>>
vars == <<rows, folders, selected, owned, state, meta, wire, inbox, issued,
          begun, posts, event, pc, mem, read, cur, todo, sent, ops, mixed>>

-----------------------------------------------------------------------------
(* Data *)

RequestId == 1..MaxRequests

\* RequestMetadata and the url.  "op" is history: the operation asked for.
Request ==
  [id : RequestId, type : {"folders", "folder_releases", "release"},
   folder : Folder \cup {NoFolder}, page : Nat,
   release : Release \cup {NoFolder}, op : Nat]

Message == [req : Request, kind : {"ok", "http", "network"}]

\* CollectionSyncState.  TotalFolders is the cardinality of scope, the folders
\* the operation asks for; ProcessedFolders that of completed; op stands for
\* SyncOperationID, stale for an age above MaxCollectionSyncTTL.
SyncState ==
  [op : Nat, scope : SUBSET Folder, completed : SUBSET Folder,
   merged : [Item -> Folder \cup {NoFolder}], complete : BOOLEAN,
   validated : BOOLEAN, ready : BOOLEAN, missing : SUBSET Release,
   pending : SUBSET RequestId, stale : BOOLEAN]

Operations == [create : SUBSET Item, update : SUBSET Item, delete : SUBSET Item]
NoOperations == [create |-> {}, update |-> {}, delete |-> {}]

Labels == {"idle", "discover", "check", "store", "request", "folders",
           "orphans", "default", "paginate", "decide", "missing", "pend", "record", "analyze",
           "execute", "extract", "cleanup", "settle", "trigger"}

Events == {"none", "sync_start", "sync_complete", "sync_error"}

\* Mutant: the state counts the virtual folder too.
NewStateWithAll(op, scope) ==
  [op |-> op, scope |-> scope \cup {NoFolder}, completed |-> {},
   merged |-> [i \in Item |-> NoFolder], complete |-> FALSE,
   validated |-> FALSE, ready |-> FALSE, missing |-> {}, pending |-> {},
   stale |-> FALSE]

NewState(op, scope) ==
  [op |-> op, scope |-> scope, completed |-> {},
   merged |-> [i \in Item |-> NoFolder], complete |-> FALSE,
   validated |-> FALSE, ready |-> FALSE, missing |-> {}, pending |-> {},
   stale |-> FALSE]

\* The instances a page lists with a release id; an HTTP error body unmarshals to
\* a page with no releases, page number 0 and 0 pages.
ItemsOn(m) ==
  IF m.kind = "ok"
  THEN {i \in Item \ Unidentified : Collection[i] = m.req.folder /\ PageOf[i] = m.req.page}
  ELSE {}
HasNextPage(m) == m.kind = "ok" /\ m.req.page < LastPage[m.req.folder]

MergedItems(s) == {i \in Item : s.merged[i] # NoFolder}
MergedReleases(s) == {ReleaseOf[i] : i \in MergedItems(s)}
FoldersDone(s) == Cardinality(s.completed) >= Cardinality(s.scope)

\* The state has not reached the limit on what it may hold.
Roomy(s) == Cardinality(MergedItems(s)) < MaxReleases

\* What processReleasesToSyncState may take from a page: everything, or, when the
\* limit is reached on the way, the part of it that happens to be listed first.
Taken(s, m) ==
  IF Roomy(s)
  THEN {T \in SUBSET ItemsOn(m) :
          LET n == Cardinality(MergedItems(s) \cup T)
          IN n = MaxReleases \/ (n < MaxReleases /\ T = ItemsOn(m))}
  ELSE {{}}

\* Mutants: a folder is complete with its first page; a folder of one page is
\* never complete.
MergeEager(s, m, T) ==
  [s EXCEPT !.merged = [i \in Item |-> IF i \in T THEN m.req.folder ELSE s.merged[i]],
            !.completed = @ \cup {m.req.folder}]
MergePagedOnly(s, m, T) ==
  [s EXCEPT !.merged = [i \in Item |-> IF i \in T THEN m.req.folder ELSE s.merged[i]],
            !.completed = IF HasNextPage(m) \/ m.req.page = 1
                          THEN @ ELSE @ \cup {m.req.folder}]

\* The taken instances are added, and with its last page the folder is complete,
\* whether or not all of it was taken.
Merge(s, m, T) ==
  [s EXCEPT !.merged = [i \in Item |-> IF i \in T THEN m.req.folder ELSE s.merged[i]],
            !.completed = IF HasNextPage(m) THEN @ ELSE @ \cup {m.req.folder}]

\* Mutants: instances are created whether or not their release has a row;
\* instances that moved to another folder are left where they were.
DifferenceUnchecked(s) ==
  LET current == {i \in Item : owned[i] \in Folder}
  IN [create |-> MergedItems(s) \ current, update |-> {},
      delete |-> current \ MergedItems(s)]
DifferenceWithoutMoves(s) ==
  LET current == {i \in Item : owned[i] \in Folder}
      usable  == {i \in MergedItems(s) : ReleaseOf[i] \in rows}
  IN [create |-> usable \ current, update |-> {}, delete |-> current \ usable]

\* analyzeDifferentialSync against the user's active rows.
Difference(s) ==
  LET current == {i \in Item : owned[i] \in Folder}
      usable  == {i \in MergedItems(s) : ReleaseOf[i] \in rows}
  IN [create |-> usable \ current,
      update |-> {i \in usable \cap current : owned[i] # s.merged[i]},
      delete |-> current \ usable]

-----------------------------------------------------------------------------
(* Helpers *)

Fault(k) == k \in Faults

Goto(w, l) == pc' = [pc EXCEPT ![w] = l]

\* The worker returns: its locals are gone.
Return(w) ==
  /\ Goto(w, "idle")
  /\ mem' = [mem EXCEPT ![w] = NoState]
  /\ read' = [read EXCEPT ![w] = NoState]
  /\ cur' = [cur EXCEPT ![w] = NoMessage]
  /\ todo' = [todo EXCEPT ![w] = {}]
  /\ sent' = [sent EXCEPT ![w] = {}]
  /\ ops' = [ops EXCEPT ![w] = NoOperations]

\* Store a request's metadata and publish it to the user's browser.
Issue(type, f, p, r, op) ==
  /\ issued < MaxRequests
  /\ issued' = issued + 1
  /\ meta' = meta \cup {issued + 1}
  /\ wire' = wire \cup {[id |-> issued + 1, type |-> type, folder |-> f,
                         page |-> p, release |-> r, op |-> op]}
  /\ UNCHANGED inbox

\* Delete the sync state, whichever it is by now; a failure is ignored.
ClearState == state' = NoState \/ (Fault("cache") /\ UNCHANGED state)

\* clearSyncStateOnError, then return.
FailSync(w) ==
  /\ ClearState
  /\ event' = "sync_error"
  /\ Return(w)

-----------------------------------------------------------------------------
(* POST /sync/syncCollection *)

\* HandleSyncRequest of a user with a Discogs token: publish sync_start.
PostSync(w) ==
  /\ w \in Poster /\ pc[w] = "idle" /\ posts < MaxPosts
  /\ posts' = posts + 1
  /\ event' = "sync_start"
  /\ Goto(w, "discover")
  /\ UNCHANGED <<database, network, locals, state, begun, mixed>>

\* RequestUserFolders; on failure sync_error is published and the POST fails.
RequestUserFolders(w) ==
  /\ pc[w] = "discover"
  /\ \/ /\ Issue("folders", NoFolder, 0, NoFolder, 0)
        /\ Goto(w, "check")
        /\ UNCHANGED <<locals, event>>
     \/ /\ Fault("request")
        /\ event' = "sync_error"
        /\ Return(w)
        /\ UNCHANGED network
  /\ UNCHANGED <<database, state, begun, posts, mixed>>

-----------------------------------------------------------------------------
(* SyncAllUserFolders, run by the POST and by the folders response *)

InProgress == state # NoState /\ ~state.complete

\* The idempotency check.
CheckInProgress(w) ==
  /\ pc[w] = "check"
  /\ \/ /\ InProgress /\ ~state.stale
        /\ Return(w)
        /\ UNCHANGED state
     \/ /\ InProgress /\ state.stale
        /\ ClearState
        /\ Goto(w, "store")
        /\ UNCHANGED locals
     \/ /\ ~InProgress \/ Fault("cache")
        /\ Goto(w, "store")
        /\ UNCHANGED <<state, locals>>
  /\ UNCHANGED <<database, network, begun, posts, event, mixed>>

\* Read the stored folders and store a fresh sync state for them.
StoreSyncState(w) ==
  /\ pc[w] = "store"
  /\ \/ /\ folders # {}
        /\ LET s == NewState(begun + 1, folders)
           IN /\ state' = s
              /\ mem' = [mem EXCEPT ![w] = s]
        /\ begun' = begun + 1
        /\ todo' = [todo EXCEPT ![w] = folders]
        /\ Goto(w, "request")
        /\ UNCHANGED <<read, cur, sent, ops>>
     \/ /\ folders = {} \/ Fault("db") \/ Fault("cache")
        /\ Return(w)
        /\ UNCHANGED <<state, begun>>
  /\ UNCHANGED <<database, network, posts, event, mixed>>

\* RequestFolderReleases(folder, 1) for each folder; a failure is only logged.
RequestFolderReleases(w) ==
  /\ pc[w] = "request"
  /\ \E f \in todo[w] :
       /\ \/ Issue("folder_releases", f, 1, NoFolder, mem[w].op)
          \/ Fault("request") /\ UNCHANGED network
       /\ IF todo[w] = {f}
          THEN Return(w)
          ELSE /\ todo' = [todo EXCEPT ![w] = @ \ {f}]
               /\ UNCHANGED <<pc, mem, read, cur, sent, ops>>
  /\ UNCHANGED <<database, state, begun, posts, event, mixed>>

-----------------------------------------------------------------------------
(* The browser and the network *)

\* ProxyService answers a request; several are worked on at a time, so answers
\* come back in any order.  validateStatus accepts every HTTP status.
Answer ==
  /\ \E r \in wire, k \in {"ok", "http", "network"} :
       /\ k = "ok" \/ Fault(k)
       /\ wire' = wire \ {r}
       /\ inbox' = inbox \cup {[req |-> r, kind |-> k]}
  /\ UNCHANGED <<database, locals, state, meta, issued, begun, posts, event, pc, mixed>>

\* The request finds no authenticated connection, or sendMessage drops the
\* answer because the socket is not open.  Its metadata can only time out.
Lose ==
  /\ Fault("lost")
  /\ \E r \in wire :
       /\ wire' = wire \ {r}
       /\ meta' = meta \ {r.id}
  /\ UNCHANGED <<database, locals, state, inbox, issued, begun, posts, event, pc, mixed>>

\* APIRequestTTL runs out before the answer comes.
ExpireMetadata ==
  /\ Fault("expire")
  /\ \E id \in meta : meta' = meta \ {id}
  /\ UNCHANGED <<database, locals, state, wire, inbox, issued, begun, posts, event, pc, mixed>>

\* Each request is followed within APIRequestTTL by a write of the state or by
\* its own expiry, and SyncStateTTL is three times as long: the state outlives
\* the metadata of the requests made for it.
ExpireState ==
  /\ Fault("expire") /\ state # NoState
  /\ \A r \in wire \cup {m.req : m \in inbox} : r.op = state.op => r.id \notin meta
  /\ state' = NoState
  /\ UNCHANGED <<database, network, locals, begun, posts, event, pc, mixed>>

\* The sync gets older than MaxCollectionSyncTTL.
AgeState ==
  /\ Fault("expire") /\ state # NoState /\ ~state.stale
  /\ state' = [state EXCEPT !.stale = TRUE]
  /\ UNCHANGED <<database, network, locals, begun, posts, event, pc, mixed>>

\* The server restarts: goroutines and the messages they were sent are gone,
\* the cache, the database and the browser are not.
Crash ==
  /\ Fault("crash")
  /\ \E w \in Worker : pc[w] # "idle"
  /\ pc' = [w \in Worker |-> "idle"]
  /\ mem' = [w \in Worker |-> NoState]
  /\ read' = [w \in Worker |-> NoState]
  /\ cur' = [w \in Worker |-> NoMessage]
  /\ todo' = [w \in Worker |-> {}]
  /\ sent' = [w \in Worker |-> {}]
  /\ ops' = [w \in Worker |-> NoOperations]
  /\ inbox' = {}
  /\ UNCHANGED <<database, state, meta, wire, issued, begun, posts, event, mixed>>

-----------------------------------------------------------------------------
(* HandleAPIResponse, run by a read pump that is free *)

\* Take a message whose request is still known, and forget the request.
Receive(w, m) ==
  /\ w \in Conn /\ pc[w] = "idle" /\ m \in inbox
  /\ m.req.id \in meta
  /\ inbox' = inbox \ {m}
  /\ meta' = meta \ {m.req.id}
  /\ UNCHANGED <<wire, issued>>

\* The answer comes too late, or its metadata cannot be read.
ReceiveUnknown(w) ==
  /\ w \in Conn /\ pc[w] = "idle"
  /\ \E m \in inbox : /\ m.req.id \notin meta \/ Fault("cache")
                    /\ inbox' = inbox \ {m}
  /\ UNCHANGED <<database, locals, state, meta, wire, issued, begun, posts, event, pc, mixed>>

ReceiveFolders(w) ==
  /\ \E m \in inbox :
       /\ Receive(w, m) /\ m.req.type = "folders"
       /\ IF m.kind = "network"
          THEN UNCHANGED <<pc, cur>>
          ELSE Goto(w, "folders") /\ cur' = [cur EXCEPT ![w] = m]
  /\ UNCHANGED <<database, mem, read, todo, sent, ops, state, begun, posts, event, mixed>>

\* ProcessFoldersResponse writes in three transactions of its own and goes on with
\* SyncAllUserFolders; when one fails the handler returns, and what was written
\* before stays.  An error body lists no folder.
Listed(w) == IF cur[w].kind = "ok" THEN Folder ELSE {}

UpsertFolders(w) ==
  /\ pc[w] = "folders"
  /\ \/ /\ folders' = folders \cup Listed(w)
        /\ Goto(w, "orphans")
        /\ UNCHANGED locals
     \/ /\ Fault("db")
        /\ Return(w)
        /\ UNCHANGED folders
  /\ UNCHANGED <<rows, selected, owned, network, state, begun, posts, event, mixed>>

DeleteOrphanFolders(w) ==
  /\ pc[w] = "orphans"
  /\ \/ /\ folders' = folders \cap Listed(w)
        /\ Goto(w, "default")
        /\ UNCHANGED locals
     \/ /\ Fault("db")
        /\ Return(w)
        /\ UNCHANGED folders
  /\ UNCHANGED <<rows, selected, owned, network, state, begun, posts, event, mixed>>

\* The user is read again after the transaction, which may fail too.
SelectDefaultFolder(w) ==
  /\ pc[w] = "default"
  /\ \/ /\ selected' = IF selected = NoFolder THEN Uncategorized ELSE selected
        /\ \/ Goto(w, "check") /\ UNCHANGED locals
           \/ Fault("db") /\ Return(w)
     \/ /\ Fault("db")
        /\ Return(w)
        /\ UNCHANGED selected
  /\ UNCHANGED <<rows, folders, owned, network, state, begun, posts, event, mixed>>

\* ProcessFolderReleasesResponse up to the point where the page is merged into
\* a local copy of the sync state.  Without a state the page is dropped.
ReceivePage(w) ==
  /\ \E m \in inbox :
       /\ Receive(w, m) /\ m.req.type = "folder_releases"
       /\ \/ /\ m.kind = "network" \/ Fault("cache")
             /\ FailSync(w)
             /\ UNCHANGED mixed
          \/ /\ m.kind # "network" /\ state = NoState
             /\ UNCHANGED <<locals, state, event, pc, mixed>>
          \/ /\ m.kind # "network" /\ state # NoState
             /\ \E T \in Taken(state, m) : mem' = [mem EXCEPT ![w] = Merge(state, m, T)]
             /\ cur' = [cur EXCEPT ![w] = m]
             /\ Goto(w, IF HasNextPage(m) THEN "paginate" ELSE "decide")
             /\ mixed' = (mixed \/ m.req.op # state.op)
             /\ UNCHANGED <<state, event, read, todo, sent, ops>>
  /\ UNCHANGED <<database, begun, posts>>

\* Ask for the next page.  A failure before the publish returns at once, and
\* the page just merged is not saved; a failed publish and a page without the URL
\* of the next one are only logged.
Paginate(w) ==
  /\ pc[w] = "paginate"
  /\ \/ /\ Issue("folder_releases", cur[w].req.folder, cur[w].req.page + 1,
                 NoFolder, mem[w].op)
        /\ Goto(w, "decide")
        /\ UNCHANGED locals
     \/ /\ Fault("request")
        /\ Return(w)
        /\ UNCHANGED network
     \/ /\ Fault("request") \/ Fault("url")
        /\ Goto(w, "decide")
        /\ UNCHANGED <<locals, network>>
  /\ UNCHANGED <<database, state, begun, posts, event, mixed>>

\* Folders are left: store the local copy back.
SaveProgress(w) ==
  /\ pc[w] = "decide" /\ ~FoldersDone(mem[w])
  /\ state' = mem[w] \/ (Fault("cache") /\ UNCHANGED state)
  /\ Return(w)
  /\ UNCHANGED <<database, network, begun, posts, event, mixed>>

-----------------------------------------------------------------------------
(* performReleaseValidation, once every folder is complete *)

\* Look the merged releases up and find the ones with no row.
ValidateReleases(w) ==
  /\ pc[w] = "decide" /\ FoldersDone(mem[w]) /\ ~mem[w].validated
  /\ LET absent == MergedReleases(mem[w]) \ rows
     IN \/ /\ mem' = [mem EXCEPT ![w].complete = TRUE, ![w].validated = TRUE,
                                 ![w].missing = absent, ![w].ready = (absent = {})]
           /\ todo' = [todo EXCEPT ![w] = absent]
           /\ Goto(w, IF absent = {} THEN "record" ELSE "missing")
           /\ UNCHANGED <<state, event, read, cur, sent, ops>>
        \/ Fault("db") /\ FailSync(w)
  /\ UNCHANGED <<database, network, begun, posts, mixed>>

\* A later page of a state that is validated already.
SkipValidation(w) ==
  /\ pc[w] = "decide" /\ FoldersDone(mem[w]) /\ mem[w].validated
  /\ IF ~mem[w].ready /\ mem[w].pending # {}
     THEN Return(w)
     ELSE Goto(w, "analyze") /\ UNCHANGED locals
  /\ UNCHANGED <<database, network, state, begun, posts, event, mixed>>

\* RequestMissingReleases without a token fails, and the sync goes on with
\* the releases it has.
MissingToken(w) ==
  /\ pc[w] = "missing" /\ Fault("token") /\ sent[w] = {}
  /\ mem' = [mem EXCEPT ![w].ready = TRUE]
  /\ todo' = [todo EXCEPT ![w] = {}]
  /\ Goto(w, "record")
  /\ UNCHANGED <<database, network, state, begun, posts, event, read, cur, sent, ops, mixed>>

\* One round of its loop: a request that cannot be made is skipped.
RequestRelease(w) ==
  /\ pc[w] = "missing" /\ Cardinality(sent[w]) < MaxPending
  /\ \E r \in todo[w] :
       /\ \/ /\ Issue("release", NoFolder, 0, r, mem[w].op)
             /\ sent' = [sent EXCEPT ![w] = @ \cup {issued + 1}]
          \/ /\ Fault("request")
             /\ UNCHANGED <<network, sent>>
       /\ todo' = [todo EXCEPT ![w] = @ \ {r}]
  /\ UNCHANGED <<database, state, begun, posts, event, pc, mem, read, cur, ops, mixed>>

\* updateSyncStateWithPendingRequests: read the state, add the request ids, write it
\* back.  The local copy in mem does not get them; failures are only logged.
ReadPending(w) ==
  /\ pc[w] = "missing"
  /\ todo[w] = {} \/ Cardinality(sent[w]) >= MaxPending
  /\ todo' = [todo EXCEPT ![w] = {}]
  /\ \/ /\ sent[w] # {} /\ state # NoState
        /\ read' = [read EXCEPT ![w] = state]
        /\ Goto(w, "pend")
     \/ /\ sent[w] = {} \/ state = NoState \/ Fault("cache")
        /\ Goto(w, "record")
        /\ UNCHANGED read
  /\ UNCHANGED <<database, network, state, begun, posts, event, mem, cur, sent, ops, mixed>>

WritePending(w) ==
  /\ pc[w] = "pend"
  /\ \/ state' = [read[w] EXCEPT !.pending = @ \cup sent[w]]
     \/ Fault("cache") /\ UNCHANGED state
  /\ Goto(w, "record")
  /\ UNCHANGED <<database, network, locals, begun, posts, event, mixed>>

\* Store the validated local copy; wait if releases are missing.
RecordValidation(w) ==
  /\ pc[w] = "record"
  /\ \/ state' = mem[w] /\ UNCHANGED event
     \/ Fault("cache") /\ ClearState /\ event' = "sync_error"
  /\ IF mem[w].missing # {} /\ ~mem[w].ready
     THEN Return(w)
     ELSE Goto(w, "analyze") /\ UNCHANGED locals
  /\ UNCHANGED <<database, network, begun, posts, mixed>>

-----------------------------------------------------------------------------
(* Responses for missing releases *)

\* ProcessReleaseResponse upserts the release; the sync state is looked at only
\* if the response names it.
ReceiveRelease(w) ==
  /\ \E m \in inbox :
       /\ Receive(w, m) /\ m.req.type = "release"
       /\ \/ m.kind = "ok" /\ rows' = rows \cup {m.req.release}
          \/ (m.kind # "ok" \/ Fault("db")) /\ UNCHANGED rows
       /\ \/ /\ EchoesSyncStateId /\ state # NoState
             /\ mem' = [mem EXCEPT ![w] =
                          [state EXCEPT !.pending = @ \ {m.req.id}]]
             /\ Goto(w, "settle")
          \/ /\ ~EchoesSyncStateId \/ state = NoState \/ Fault("cache")
             /\ UNCHANGED <<mem, pc>>
  /\ UNCHANGED <<folders, selected, owned, read, cur, todo, sent, ops, state, begun,
                 posts, event, mixed>>

\* Mutant: the last answer is recorded, and nothing follows.
SettlePendingOnly(w) ==
  /\ pc[w] = "settle"
  /\ state' = mem[w]
  /\ Return(w)
  /\ UNCHANGED <<database, network, begun, posts, event, mixed>>

\* Store the remaining requests, or that there is none.
SettlePending(w) ==
  /\ pc[w] = "settle"
  /\ \/ /\ mem[w].pending # {}
        /\ state' = mem[w] \/ (Fault("cache") /\ UNCHANGED state)
        /\ Return(w)
     \/ /\ mem[w].pending = {}
        /\ state' = [mem[w] EXCEPT !.ready = TRUE]
        /\ Goto(w, "trigger")
        /\ UNCHANGED locals
     \/ /\ mem[w].pending = {} /\ Fault("cache")
        /\ Return(w)
        /\ UNCHANGED state
  /\ UNCHANGED <<database, network, begun, posts, event, mixed>>

ReadyToComplete == state # NoState /\ state.complete /\ state.ready

TriggerSyncCompletion(w) ==
  /\ pc[w] = "trigger"
  /\ \/ /\ ReadyToComplete
        /\ mem' = [mem EXCEPT ![w] = state]
        /\ Goto(w, "analyze")
        /\ UNCHANGED <<read, cur, todo, sent, ops>>
     \/ /\ ~ReadyToComplete \/ Fault("cache")
        /\ Return(w)
  /\ UNCHANGED <<database, network, state, begun, posts, event, mixed>>

-----------------------------------------------------------------------------
(* Completion *)

AnalyzeDifferentialSync(w) ==
  /\ pc[w] = "analyze"
  /\ \/ /\ ops' = [ops EXCEPT ![w] = Difference(mem[w])]
        /\ Goto(w, "execute")
        /\ UNCHANGED <<mem, read, cur, todo, sent, state, event>>
     \/ Fault("db") /\ FailSync(w)
  /\ UNCHANGED <<database, network, begun, posts, mixed>>

\* The unique index on (user, instance) counts soft-deleted rows too.
Conflict(w) == \E i \in ops[w].create : owned[i] # NoFolder

\* executeSyncOperations: creates, updates and soft deletes in one transaction.
ExecuteSyncOperations(w) ==
  /\ pc[w] = "execute"
  /\ \/ /\ ~Conflict(w)
        /\ owned' = [i \in Item |->
             IF i \in ops[w].create \cup ops[w].update THEN mem[w].merged[i]
             ELSE IF i \in ops[w].delete /\ owned[i] \in Folder THEN Tombstone
             ELSE owned[i]]
        /\ Goto(w, "extract")
        /\ UNCHANGED <<locals, state, event>>
     \/ /\ Conflict(w) \/ Fault("db")
        /\ FailSync(w)
        /\ UNCHANGED owned
  /\ UNCHANGED <<rows, folders, selected, network, begun, posts, mixed>>

\* Upsert the releases named by the pages, in a transaction of its own whose
\* failure is only logged: the reconciliation above has not seen these rows.
ExtractBasicInformation(w) ==
  /\ pc[w] = "extract"
  /\ rows' = rows \cup MergedReleases(mem[w]) \/ (Fault("db") /\ UNCHANGED rows)
  /\ Goto(w, "cleanup")
  /\ UNCHANGED <<folders, selected, owned, network, locals, state, begun, posts,
                 event, mixed>>

\* Clear the sync state and publish sync_complete.
CompleteSync(w) ==
  /\ pc[w] = "cleanup"
  /\ ClearState
  /\ event' = "sync_complete"
  /\ Return(w)
  /\ UNCHANGED <<database, network, begun, posts, mixed>>

-----------------------------------------------------------------------------
(* Specification *)

Init ==
  /\ rows \in InitialRows
  /\ folders \in InitialFolders
  /\ selected = NoFolder
  /\ owned \in {o \in InitialOwned : \A i \in Item :
                  o[i] # NoFolder => ReleaseOf[i] \in rows}
  /\ state = NoState
  /\ meta = {} /\ wire = {} /\ inbox = {} /\ issued = 0
  /\ begun = 0 /\ posts = 0 /\ event = "none"
  /\ pc = [w \in Worker |-> "idle"]
  /\ mem = [w \in Worker |-> NoState]
  /\ read = [w \in Worker |-> NoState]
  /\ cur = [w \in Worker |-> NoMessage]
  /\ todo = [w \in Worker |-> {}]
  /\ sent = [w \in Worker |-> {}]
  /\ ops = [w \in Worker |-> NoOperations]
  /\ mixed = FALSE

Post(w) == PostSync(w) \/ RequestUserFolders(w)

StartSync(w) == CheckInProgress(w) \/ StoreSyncState(w) \/ RequestFolderReleases(w)

HandleResponse(w) ==
  \/ ReceiveUnknown(w) \/ ReceiveFolders(w)
  \/ UpsertFolders(w) \/ DeleteOrphanFolders(w) \/ SelectDefaultFolder(w)
  \/ ReceivePage(w) \/ Paginate(w) \/ SaveProgress(w)
  \/ ValidateReleases(w) \/ SkipValidation(w) \/ MissingToken(w)
  \/ RequestRelease(w) \/ ReadPending(w) \/ WritePending(w) \/ RecordValidation(w)
  \/ ReceiveRelease(w) \/ SettlePending(w) \/ TriggerSyncCompletion(w)
  \/ AnalyzeDifferentialSync(w) \/ ExecuteSyncOperations(w)
  \/ ExtractBasicInformation(w) \/ CompleteSync(w)

Work(w) == Post(w) \/ StartSync(w) \/ HandleResponse(w)

Environment == Answer \/ Lose \/ ExpireMetadata \/ ExpireState \/ AgeState \/ Crash

Next == (\E w \in Worker : Work(w)) \/ Environment

Spec == Init /\ [][Next]_vars

\* Goroutines are scheduled and the browser gets round to every request; a
\* user need not press the button.
Fairness ==
  /\ \A w \in Worker : WF_vars(Work(w) /\ ~PostSync(w))
  /\ WF_vars(Answer)

FairSpec == Spec /\ Fairness

-----------------------------------------------------------------------------
(* Properties *)

\* Types of the variables: the rows, the cached entries and the locals.
TypeOK ==
  /\ rows \subseteq Release /\ folders \subseteq Folder
  /\ selected \in Folder \cup {NoFolder}
  /\ owned \in [Item -> Held]
  /\ state \in SyncState \cup {NoState}
  /\ meta \subseteq RequestId /\ issued \in 0..MaxRequests
  /\ wire \subseteq Request /\ inbox \subseteq Message
  /\ begun \in Nat /\ posts \in 0..MaxPosts /\ event \in Events
  /\ pc \in [Worker -> Labels]
  /\ mem \in [Worker -> SyncState \cup {NoState}]
  /\ read \in [Worker -> SyncState \cup {NoState}]
  /\ cur \in [Worker -> Message \cup {NoMessage}]
  /\ todo \in [Worker -> SUBSET (Folder \cup Release)]
  /\ sent \in [Worker -> SUBSET RequestId]
  /\ ops \in [Worker -> Operations]
  /\ mixed \in BOOLEAN

\* No reconciliation leaves a row, active or soft-deleted, of a release that is
\* not in the database (the skip in analyzeDifferentialSync, folders.service.go).
RowsReferToReleases == \A i \in Item : owned[i] # NoFolder => ReleaseOf[i] \in rows

\* A sync never deletes a release that its owner still has in a folder the sync
\* has marked complete: every instance of a complete folder was merged, unless it
\* is listed without a release id or the sync holds MaxReleases already
\* (pagination and completion in ProcessFolderReleasesResponse).  Pages answered
\* for one operation must not have been merged into another.
CompleteFoldersKeepReleases ==
  ~mixed => \A w \in Worker, i \in Item \ Unidentified :
    pc[w] = "execute" /\ i \in ops[w].delete /\ Collection[i] \in mem[w].completed
      => ~Roomy(mem[w])

ActiveRows == {i \in Item : owned[i] \in Folder}

\* When a sync that lacked no release row is about to report completion, every
\* active row is where Discogs has its instance, in a complete folder; and of the
\* complete folders no identified instance has no row, unless there are as many
\* rows as a sync may have.
CompletionReconciles ==
  ~mixed => \A w \in Worker : pc[w] \in {"extract", "cleanup"} /\ mem[w].missing = {} =>
    LET promised == {i \in Item \ Unidentified : Collection[i] \in mem[w].completed}
    IN /\ ActiveRows \subseteq promised
       /\ \A i \in ActiveRows : owned[i] = Collection[i]
       /\ promised \subseteq ActiveRows \/ Cardinality(ActiveRows) >= MaxReleases

\* A sync in progress is never stranded: some worker is on it, or some request
\* made for it is still to be answered (no fault interferes).
InProgressIsDriven ==
  InProgress => \/ \E w \in Worker : pc[w] # "idle"
                \/ wire # {} \/ inbox # {}

\* The user sees an end of every sync that started.
SyncEnds == (event = "sync_start") ~> (event \in {"sync_complete", "sync_error"})

=============================================================================
