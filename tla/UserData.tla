------------------------------ MODULE UserData ------------------------------
(***************************************************************************)
(* One user's data behind the requests of the API: the rows of the         *)
(* database, the cache in front of them (database/cacheBuilder.go and the  *)
(* repositories), and the handlers that read and change both               *)
(* (controllers/users, history, stylus and auth, folders.service.go).      *)
(*                                                                         *)
(* A handler is a sequence of steps, each one call to the cache or to the  *)
(* database, and the steps of concurrent requests interleave.  The         *)
(* functions of the repositories are written as the steps they take, those *)
(* of the controllers as the functions they call, and the actions execute  *)
(* one step.  The statements of a transaction take effect when it commits, *)
(* but the cache is cleared where the repository says so, which is before. *)
(*                                                                         *)
(* A row is represented by the number of changes made to it, 0 standing    *)
(* for no row: that is all the staleness of a cached answer depends on.    *)
(***************************************************************************)
EXTENDS Naturals, Sequences, FiniteSets, Functions

CONSTANTS
  Req,        \* requests, each used once
  Folder,     \* Discogs folder ids
  All,        \* folder 0, the default of selected_folder_id
  Play, Cleaning, Stylus,  \* ids of play_histories, cleaning_histories and user_styluses
  Used,       \* the styluses that plays were logged with
  Existing,   \* the rows a user has at first
  None,
  Workload,   \* the handlers that may run together, by request
  MaxFaults,  \* bound: failed deletions in the cache, failed INSERTs, crashes of the server
  MaxExpiries \* bound: entries that expire

Row == {"account", "collection"} \cup Folder \cup Play \cup Cleaning \cup Stylus

\* user_oidc, user_folders, user_releases, user_styluses and play_history; user_folder
\* has an entry for each folder.
Key == {"user", "folders", "releases", "styluses", "plays"} \cup Folder

ASSUME UserDataAssumption ==
  /\ All \in Folder /\ Used \subseteq Stylus /\ Existing \subseteq Row
  /\ None \notin Key \cup Row
  /\ MaxFaults \in Nat /\ MaxExpiries \in Nat

\* Rows of different tables are different, and ids are not words of the model.
ASSUME RowsAssumption ==
  /\ Folder \cap (Play \cup Cleaning \cup Stylus) = {} /\ Play \cap (Cleaning \cup Stylus) = {}
  /\ Cleaning \cap Stylus = {}
  /\ (Folder \cup Play \cup Cleaning \cup Stylus) \cap
       {"account", "collection", "user", "folder", "folders", "releases", "styluses", "plays"} = {}

\* The steps of handlers, each an operation and what it is about.
Effect == {"insert", "update", "upsert", "delete", "set", "unset"} \X Row
Steps ==
  ({"get"} \X (Key \cup {"folder"})) \cup ({"clear"} \X Key) \cup ({"write"} \X SUBSET Effect)
    \cup ({"reread"} \X Row) \cup ({"selectedFolderID"} \X Folder) \cup ({"preferences"} \X (0..1))
    \cup ({"unset all", "insert configuration", "insert user", "verify", "commit"} \X {None})

ASSUME WorkloadAssumption == Workload \subseteq [Req -> Seq(Steps)]

VARIABLES
  rows,
  config,   \* user_configurations: None, or the selected folder and the preferences
  primary,  \* the styluses with is_primary
  cache,
  todo,     \* the steps a request has still to take
  fresh,    \* requests not yet made
  copy,     \* user.Configuration of a request, as the middleware found it
  fetched,  \* the answer of the database that a request is about to store
  tx,       \* the effects of a request's open transaction
  met,      \* history: entries that others may have changed since the request read them
  suspect,  \* history: entries filled while they were changed, or left by a fault
  faults, expiries

database == <<rows, config, primary>>
locals == <<copy, fetched, tx>>
bounds == <<faults, expiries>>
vars == <<database, cache, todo, fresh, locals, met, suspect, bounds>>

-----------------------------------------------------------------------------
(* Steps and their effects *)

Get(k) == <<"get", k>>            \* look in the cache, on a miss ask the database
Clear(k) == <<"clear", k>>
Write(E) == <<"write", E>>        \* a statement with the effects E
UnsetAll == <<"unset all", None>>
Reread(x) == <<"reread", x>>
SaveFolder(f) == <<"selectedFolderID", f>>
SavePreferences(p) == <<"preferences", p>>
InsertConfig == <<"insert configuration", None>>
InsertUser == <<"insert user", None>>
Verify == <<"verify", None>>      \* what may refuse a request before it changes anything
Commit == <<"commit", None>>

Insert(x) == <<"insert", x>>
Update(x) == <<"update", x>>      \* without effect if there is no such row
Upsert(x) == <<"upsert", x>>
Delete(x) == <<"delete", x>>
SetPrimary(s) == <<"set", s>>
UnsetPrimary(s) == <<"unset", s>>

-----------------------------------------------------------------------------
(* Repositories *)

GetByOIDCUserID == <<Get("user")>>
GetUserFolders == <<Get("folders")>>
GetFolderByID == <<Get("folder")>>  \* the selected one
GetUserReleasesByFolderID == <<Get("releases")>>
GetUserStyluses == <<Get("styluses")>>
GetUserPlayHistory == <<Get("plays")>>

\* The cached copy has no OIDC id: the repository looks it up.
\* Mutant: it does not.
ClearUserCacheOfCopy == <<>>
ClearUserCacheByUserID == <<Clear("user")>>
UpdateConfiguration(save) == <<save>> \o ClearUserCacheByUserID
CreateOrUpdate == <<InsertConfig>> \o ClearUserCacheByUserID

UpdateFromOIDC == {Update("account")}
UpdateUser == <<Write(UpdateFromOIDC), Clear("user")>>
\* If there is no such user, createFromOIDC takes over.
FindOrCreateOIDCUser == GetByOIDCUserID \o UpdateUser

ClearUserPlayHistoryCache == <<Clear("plays")>>
ClearAllUserReleasesCache == <<Clear("releases")>>
\* Mutant: the releases are forgotten.
CreatePlayOnly(p) == <<Write({Insert(p)})>> \o ClearUserPlayHistoryCache
CreatePlayHistory(p) ==
  <<Write({Insert(p)})>> \o ClearUserPlayHistoryCache \o ClearAllUserReleasesCache
UpdatePlayHistory(p) ==
  <<Write({Update(p)}), Reread(p)>> \o ClearUserPlayHistoryCache \o ClearAllUserReleasesCache
DeletePlayHistory(p) ==
  <<Write({Delete(p)})>> \o ClearUserPlayHistoryCache \o ClearAllUserReleasesCache
\* The cache of the cleaning history is cleared too, but nothing ever fills it.
CreateCleaningHistory(c) == <<Write({Insert(c)})>> \o ClearAllUserReleasesCache
UpdateCleaningHistory(c) == <<Write({Update(c)}), Reread(c)>> \o ClearAllUserReleasesCache
DeleteCleaningHistory(c) == <<Write({Delete(c)})>> \o ClearAllUserReleasesCache

ClearUserStylusCache == <<Clear("styluses")>>
UnsetAllPrimary == <<UnsetAll>> \o ClearUserStylusCache
\* Updates writes no zero value, so a primary stylus stays primary.
Primary(s, isPrimary) == IF isPrimary THEN {SetPrimary(s)} ELSE {}
CreateStylus(s, isPrimary) ==
  <<Write({Insert(s)} \cup Primary(s, isPrimary))>> \o ClearUserStylusCache
UpdateStylus(s, isPrimary) ==
  <<Write({Update(s)} \cup Primary(s, isPrimary))>> \o ClearUserStylusCache
DeleteStylus(s) == <<Write({Delete(s)})>> \o ClearUserStylusCache

ClearUserFoldersCache == <<Clear("folders")>>
ClearIndividualFolderCaches(folders) == [i \in DOMAIN folders |-> Clear(folders[i])]
UpsertFolders(folders) ==
  IF folders = <<>> THEN <<>>
  ELSE <<Write({Upsert(f) : f \in Range(folders)})>>
         \o ClearUserFoldersCache \o ClearIndividualFolderCaches(folders)
\* The entries of the deleted folders stay.
DeleteOrphanFolders(keep) ==
  <<Write({Delete(f) : f \in Folder \ Range(keep)})>> \o ClearUserFoldersCache

\* CreateBatch, UpdateBatch and DeleteBatch
ReleaseBatch == <<Write({Upsert("collection")}), Clear("releases")>>

-----------------------------------------------------------------------------
(* Handlers; all but the first log-in and the synchronisation pass RequireAuth *)

RequireAuth == GetByOIDCUserID

\* Without a configuration neither folder nor releases are asked for, and without the
\* folder no releases.
GetUser ==
  RequireAuth \o GetUserFolders \o GetFolderByID \o GetUserReleasesByFolderID
    \o GetUserStyluses \o GetUserPlayHistory
ListStyluses == RequireAuth \o GetUserStyluses

UpdateDiscogsToken == RequireAuth \o <<Verify>> \o CreateOrUpdate
UpdateSelectedFolder(f) ==
  RequireAuth \o UpdateConfiguration(SaveFolder(f)) \o ClearUserFoldersCache
UpdateUserPreferences(p) ==
  RequireAuth \o <<Verify>> \o UpdateConfiguration(SavePreferences(p))

GetOrCreateOIDCUser == FindOrCreateOIDCUser
HandleOIDCCallback == <<Verify>> \o GetOrCreateOIDCUser
LogoutUser(valid) ==
  RequireAuth \o (IF valid THEN <<Clear("user")>> ELSE <<>>)
    \o ClearUserPlayHistoryCache \o ClearUserStylusCache

LogPlay(p) == RequireAuth \o <<Verify>> \o CreatePlayHistory(p)
UpdatePlay(p) == RequireAuth \o <<Verify>> \o UpdatePlayHistory(p)
DeletePlay(p) == RequireAuth \o <<Verify>> \o DeletePlayHistory(p)
LogCleaning(c) == RequireAuth \o <<Verify>> \o CreateCleaningHistory(c)
UpdateCleaning(c) == RequireAuth \o <<Verify>> \o UpdateCleaningHistory(c)
DeleteCleaning(c) == RequireAuth \o <<Verify>> \o DeleteCleaningHistory(c)
LogBoth(p, c) ==
  RequireAuth \o <<Verify>> \o CreatePlayHistory(p) \o CreateCleaningHistory(c) \o <<Commit>>

\* Mutant: the others stay primary.
NeverUnset(isPrimary) == <<>>
IfPrimary(isPrimary) == IF isPrimary THEN UnsetAllPrimary ELSE <<>>
CreateUserStylus(s, isPrimary) ==
  RequireAuth \o <<Verify>> \o IfPrimary(isPrimary) \o CreateStylus(s, isPrimary) \o <<Commit>>
UpdateUserStylus(s, isPrimary) ==
  RequireAuth \o <<Verify>> \o IfPrimary(isPrimary) \o UpdateStylus(s, isPrimary) \o <<Commit>>
DeleteUserStylus(s) == RequireAuth \o DeleteStylus(s)

\* updateUserConfigWithUncategorizedFolderIfNotSet finds a folder: the column has a default.
ProcessFoldersResponse(folders) ==
  UpsertFolders(folders) \o <<Commit>> \o DeleteOrphanFolders(folders) \o <<Commit>>
    \o ClearUserFoldersCache
ExecuteSyncOperations == ReleaseBatch \o <<Commit>>

-----------------------------------------------------------------------------
(* Answers of the database *)

\* The rows whose writers clear an entry.
Watched(k) ==
  CASE k = "user" -> {"account"}
    [] k = "folders" -> Folder
    [] k = "releases" -> {"collection"} \cup Play \cup Cleaning
    [] k = "styluses" -> Stylus
    [] k = "plays" -> Play
    [] OTHER -> {k}

\* The rows that are preloaded into an entry and whose writers do not clear it.
Unwatched(k) ==
  CASE k = "plays" -> {"collection"} \cup Used
    [] k = "releases" -> Used
    [] OTHER -> {}

\* The releases are asked for by folder, and cached without it.
Own(k, folder) ==
  [rows |-> Restrict(rows, Watched(k)),
   config |-> IF k = "user" THEN config ELSE None,
   primary |-> IF k = "styluses" THEN primary ELSE {},
   folder |-> IF k = "releases" THEN folder ELSE None]
Preloads(k) == [rows |-> Restrict(rows, Unwatched(k)), primary |-> primary \cap Unwatched(k)]
Answer(k, folder) == [own |-> Own(k, folder), preloads |-> Preloads(k)]

Missing(k) == k \in {"user"} \cup Folder /\ \A x \in Watched(k) : rows[x] = 0

\* An entry is old: in the rows it is cleared for, in what is preloaded into it, or
\* because it was filled for another folder than the selected one.
OldRows(k) == cache[k] # None /\ cache[k].own # Own(k, cache[k].own.folder)
OldPreloads(k) == cache[k] # None /\ cache[k].preloads # Preloads(k)
OldFolder ==
  /\ cache["releases"] # None /\ config # None
  /\ cache["releases"].own.folder # config.selectedFolderID

-----------------------------------------------------------------------------
(* What a request may still change *)

Target(step) ==
  CASE step[1] = "write" -> {e[2] : e \in step[2]}
    [] step[1] = "unset all" -> Stylus
    [] step[1] \in {"selectedFolderID", "preferences", "insert configuration", "insert user"} -> {"account"}
    [] OTHER -> {}

InTransaction(r) == Commit \in Range(todo[r])

\* The entries a request has to clear for what it has written: those it goes on to
\* clear before it writes again.
Owed(r) ==
  {k \in Key : r \notin fresh /\ \E i \in DOMAIN todo[r] :
     todo[r][i] = Clear(k) /\ \A j \in 1..i : todo[r][j][1] \in {"clear", "reread"}}

\* The entries a request has made stale and not cleared, or may yet make stale.
Unsettled(r) ==
  IF r \in fresh THEN {} ELSE
  Owed(r) \cup
  {k \in Key : Watched(k) \cap ((UNION {Target(todo[r][i]) : i \in DOMAIN todo[r]})
                                \cup {e[2] : e \in tx[r]}) # {}}
UnsettledByOthers(r) == UNION {Unsettled(q) : q \in Req \ {r}}

\* The entries whose changes are of interest to a request: one it is about to store, its
\* copy of the user, and the styluses it may change.
Followed(r) == {"user", "styluses"} \cup (IF fetched[r] = None THEN {} ELSE {fetched[r].key})

-----------------------------------------------------------------------------
(* Actions *)

Init ==
  /\ \E E \in {{}, Existing} : rows = [x \in Row |-> IF x \in E THEN 1 ELSE 0]
  /\ config \in {None} \cup
       {[selectedFolderID |-> All, preferences |-> 0] : u \in {"account"} \cap {x \in Row : rows[x] = 1}}
  /\ primary = {}
  /\ cache = [k \in Key |-> None]
  /\ todo \in Workload /\ fresh = {r \in Req : todo[r] # <<>>}
  /\ copy = [r \in Req |-> None] /\ fetched = [r \in Req |-> None] /\ tx = [r \in Req |-> {}]
  /\ met = [r \in Req |-> {}] /\ suspect = {}
  /\ faults = 0 /\ expiries = 0

Running(r) == r \notin fresh /\ (todo[r] # <<>> \/ fetched[r] # None)

\* A request arrives.
Start(r) ==
  /\ r \in fresh /\ fresh' = fresh \ {r}
  /\ UNCHANGED <<database, cache, todo, locals, suspect, bounds>>
  /\ met' = [q \in Req |->
       IF q = r THEN UnsettledByOthers(r) \cap Followed(r)
       ELSE IF Running(q) THEN met[q] \cup (Unsettled(r)' \cap Followed(q)) ELSE {}]

Step(r) == Head(todo[r])
Doing(r, op) == Running(r) /\ todo[r] # <<>> /\ fetched[r] = None /\ Step(r)[1] = op

\* The steps that are left, and the request's copy; a request that is over leaves nothing.
Continue(r, steps, c, m) ==
  LET over == steps = <<>> /\ fetched'[r] = None IN
  /\ todo' = [todo EXCEPT ![r] = steps]
  /\ copy' = [copy EXCEPT ![r] = IF over THEN None ELSE c]
  /\ met' = [met EXCEPT ![r] = IF over THEN {} ELSE m]
  /\ UNCHANGED fresh
Proceed(r) == Continue(r, Tail(todo[r]), copy[r], met[r])
End(r) == Continue(r, <<>>, copy[r], met[r])

\* The entry a step looks for; none if the user has no configuration.
Wanted(r) ==
  LET k == Step(r)[2] IN
  IF k \in {"folder", "releases"} /\ copy[r] = None THEN None
  ELSE IF k = "folder" THEN copy[r].selectedFolderID ELSE k
FolderOf(r) == IF copy[r] = None THEN None ELSE copy[r].selectedFolderID

\* The request has read an entry; that of the user gives it its copy.  It may act on
\* what others change from here on, or were changing when the entry was filled.
Read(r, k, answer) ==
  Continue(r, Tail(todo[r]), IF k = "user" THEN answer.own.config ELSE copy[r],
           (met[r] \ {k}) \cup ((UnsettledByOthers(r) \cup (suspect \cap {"user"})) \cap {k}))

Skip(r) ==
  /\ Doing(r, "get") /\ Wanted(r) = None /\ UNCHANGED <<database, cache, fetched, tx, suspect, bounds>>
  /\ Proceed(r)

\* CacheBuilder.Get finds the entry.
Hit(r) ==
  /\ Doing(r, "get")
  /\ UNCHANGED <<database, cache, fetched, tx, suspect, bounds>>
  /\ LET k == Wanted(r) IN k # None /\ cache[k] # None /\ Read(r, k, cache[k])

\* It does not, and the database answers.
Query(r) ==
  /\ Doing(r, "get")
  /\ LET k == Wanted(r) IN
       /\ k # None /\ cache[k] = None /\ ~Missing(k)
       /\ LET answer == Answer(k, FolderOf(r)) IN
            /\ fetched' = [fetched EXCEPT ![r] = [key |-> k, answer |-> answer]]
            /\ Read(r, k, answer)
  /\ UNCHANGED <<database, cache, tx, suspect, bounds>>

\* There is no such row: an unknown user is refused or, logging in, created, and
\* without the folder there are no releases.
NotFound(r) ==
  /\ Doing(r, "get")
  /\ UNCHANGED <<database, cache, fetched, tx, suspect, bounds>>
  /\ LET k == Wanted(r) IN
       /\ k # None /\ cache[k] = None /\ Missing(k)
       /\ \/ k = "user" /\ todo[r] = FindOrCreateOIDCUser
             /\ Continue(r, <<InsertUser>>, None, met[r])
          \/ k = "user" /\ todo[r] # FindOrCreateOIDCUser /\ End(r)
          \/ k # "user" /\ Continue(r, SubSeq(todo[r], 3, Len(todo[r])), copy[r], met[r])

\* CacheBuilder.Set
Store(r) ==
  /\ fetched[r] # None
  /\ LET k == fetched[r].key IN
       /\ cache' = [cache EXCEPT ![k] = fetched[r].answer]
       /\ suspect' = (suspect \ {k}) \cup (met[r] \cap {k})
  /\ fetched' = [fetched EXCEPT ![r] = None]
  /\ Continue(r, todo[r], copy[r], met[r] \cap {"user", "styluses"})
  /\ UNCHANGED <<database, tx, bounds>>

\* The effects of statements on the rows.
Apply(E) ==
  /\ rows' = [x \in Row |->
       IF Delete(x) \in E THEN 0
       ELSE IF Insert(x) \in E \/ Upsert(x) \in E \/ (Update(x) \in E /\ rows[x] # 0)
            THEN rows[x] + 1 ELSE rows[x]]
  /\ primary' = {s \in Stylus : /\ rows'[s] # 0
                                /\ \/ SetPrimary(s) \in E
                                   \/ s \in primary /\ UnsetPrimary(s) \notin E}

\* A statement: at once, or when the transaction commits.
Execute(r, E) ==
  IF InTransaction(r)
  THEN tx' = [tx EXCEPT ![r] = @ \cup E] /\ UNCHANGED <<rows, primary>>
  ELSE Apply(E) /\ UNCHANGED tx

\* Ids are new; an update or a deletion without a row is refused.
Executable(r, E) ==
  /\ \A x \in Row : Insert(x) \in E => rows[x] = 0 /\ \A q \in Req : Insert(x) \notin tx[q]
  /\ \A x \in Row : Update(x) \in E => rows[x] # 0
  /\ \A x \in Row \ Folder : Delete(x) \in E => rows[x] # 0

Statement(r) ==
  /\ \/ Doing(r, "write") /\ Executable(r, Step(r)[2]) /\ Execute(r, Step(r)[2])
     \/ /\ Doing(r, "unset all")
        /\ Execute(r, {UnsetPrimary(s) : s \in {x \in Stylus : rows[x] # 0}})
  /\ UNCHANGED <<config, cache, fetched, suspect, bounds>>
  /\ Proceed(r)

\* The input is not valid, or the statement fails: the transaction is rolled back.  An
\* INSERT that fails for any reason but the one modelled below is counted as a fault.
Refuse(r) ==
  /\ \/ /\ \E op \in {"verify", "write", "unset all", "selectedFolderID", "preferences"} : Doing(r, op)
        /\ UNCHANGED faults
     \/ /\ Doing(r, "insert configuration") \/ Doing(r, "insert user")
        /\ faults < MaxFaults /\ faults' = faults + 1
  /\ UNCHANGED <<database, cache, fetched, suspect, expiries>>
  /\ End(r) /\ tx' = [tx EXCEPT ![r] = {}]

Accept(r) ==
  /\ Doing(r, "verify") /\ UNCHANGED <<database, cache, fetched, tx, suspect, bounds>>
  /\ Proceed(r)

\* The row that was updated is read again to find whose cache to clear.
Find(r) ==
  /\ Doing(r, "reread") /\ UNCHANGED <<database, cache, fetched, tx, suspect, bounds>>
  /\ IF rows[Step(r)[2]] # 0 THEN Proceed(r) ELSE End(r)

CommitTransaction(r) ==
  /\ Doing(r, "commit") /\ Apply(tx[r]) /\ tx' = [tx EXCEPT ![r] = {}]
  /\ UNCHANGED <<config, cache, fetched, suspect, bounds>>
  /\ Proceed(r)

\* The whole row is saved from the request's copy.
\* Mutant: the new configuration is put in the cache.
SaveAndCache(r) ==
  /\ Doing(r, "selectedFolderID") \/ Doing(r, "preferences")
  /\ copy[r] # None
  /\ config' = [copy[r] EXCEPT ![Step(r)[1]] = Step(r)[2]]
  /\ cache' = [cache EXCEPT !["user"] =
       [Answer("user", None) EXCEPT !.own.config = config']]
  /\ UNCHANGED <<rows, primary, fetched, tx, suspect, bounds>>
  /\ Continue(r, Tail(todo[r]), config', met[r])

SaveConfig(r) ==
  /\ Doing(r, "selectedFolderID") \/ Doing(r, "preferences")
  /\ copy[r] # None
  /\ config' = [copy[r] EXCEPT ![Step(r)[1]] = Step(r)[2]]
  /\ UNCHANGED <<rows, primary, cache, fetched, tx, suspect, bounds>>
  /\ Continue(r, Tail(todo[r]), config', met[r])

NoConfig(r) ==
  /\ Doing(r, "selectedFolderID") \/ Doing(r, "preferences")
  /\ copy[r] = None /\ UNCHANGED <<database, cache, fetched, tx, suspect, bounds>>
  /\ End(r)

\* Mutant: without the default of the column.
CreateConfigWithoutFolder(r) ==
  /\ Doing(r, "insert configuration")
  /\ UNCHANGED <<rows, primary, cache, fetched, tx, suspect, bounds>>
  /\ IF config = None
     THEN config' = [selectedFolderID |-> None, preferences |-> 0] /\ Proceed(r)
     ELSE UNCHANGED config /\ End(r)

\* The new configuration has no id, so Save inserts it, even when the user has one:
\* user_id is unique, and a second token is refused.
CreateConfig(r) ==
  /\ Doing(r, "insert configuration")
  /\ UNCHANGED <<rows, primary, cache, fetched, tx, suspect, bounds>>
  /\ IF config = None
     THEN config' = [selectedFolderID |-> All, preferences |-> 0] /\ Proceed(r)
     ELSE UNCHANGED config /\ End(r)

\* createFromOIDC; oidc_user_id is unique.
CreateFromOIDC(r) ==
  /\ Doing(r, "insert user")
  /\ IF rows["account"] = 0
     THEN /\ Apply({Insert("account")})
          /\ fetched' = [fetched EXCEPT ![r] =
               [key |-> "user", answer |-> [Answer("user", None) EXCEPT !.own.rows = [x \in {"account"} |-> 1]]]]
     ELSE UNCHANGED <<rows, primary, fetched>>
  /\ UNCHANGED <<config, cache, tx, suspect, bounds>>
  /\ End(r)

\* CacheBuilder.Delete; an error is only logged.
ClearEntry(r) ==
  /\ Doing(r, "clear")
  /\ \/ /\ cache' = [cache EXCEPT ![Step(r)[2]] = None]
        /\ suspect' = suspect \ {Step(r)[2]} /\ UNCHANGED faults
     \/ /\ faults < MaxFaults /\ faults' = faults + 1
        /\ suspect' = suspect \cup {Step(r)[2]} /\ UNCHANGED cache
  /\ UNCHANGED <<database, fetched, tx, expiries>>
  /\ Proceed(r)

\* The time to live of an entry ends.
Expire(k) ==
  /\ cache[k] # None /\ expiries < MaxExpiries
  /\ cache' = [cache EXCEPT ![k] = None] /\ suspect' = suspect \ {k}
  /\ expiries' = expiries + 1
  /\ UNCHANGED <<database, todo, fresh, locals, met, faults>>

\* The server stops; the cache and the database stay.
Crash ==
  /\ faults < MaxFaults /\ faults' = faults + 1
  /\ \E r \in Req : Running(r)
  /\ todo' = [r \in Req |-> IF r \in fresh THEN todo[r] ELSE <<>>]
  /\ copy' = [r \in Req |-> None] /\ fetched' = [r \in Req |-> None]
  /\ tx' = [r \in Req |-> {}] /\ met' = [r \in Req |-> {}]
  /\ suspect' = suspect \cup UNION {Owed(r) : r \in Req}
  /\ UNCHANGED <<database, cache, fresh, expiries>>

\* All requests have been answered.
Done == fresh = {} /\ (\A r \in Req : ~Running(r)) /\ UNCHANGED vars

Next ==
  \/ \E r \in Req :
       \/ Start(r) \/ Skip(r) \/ Hit(r) \/ Query(r) \/ NotFound(r) \/ Store(r)
       \/ Statement(r) \/ Refuse(r) \/ Accept(r) \/ Find(r) \/ CommitTransaction(r)
       \/ SaveConfig(r) \/ NoConfig(r) \/ CreateConfig(r) \/ CreateFromOIDC(r) \/ ClearEntry(r)
  \/ \E k \in Key : Expire(k)
  \/ Crash \/ Done

Spec == Init /\ [][Next]_vars

\* One request after the other.
SerialSpec == Init /\ [][Next /\ \A r, q \in Req : Running(r)' /\ Running(q)' => r = q]_vars

-----------------------------------------------------------------------------
(* Properties *)

Configuration == [selectedFolderID : Folder, preferences : 0..1]

\* Types.  A configuration always has a folder: a token saves one without, and the
\* default of the column fills it in.
TypeOK ==
  /\ todo \in [Req -> Seq(Steps)] /\ rows \in [Row -> Nat]
  /\ config \in Configuration \cup {None} /\ primary \subseteq Stylus
  /\ copy \in [Req -> Configuration \cup {None}]
  /\ \A r \in Req : fetched[r] = None \/ fetched[r].key \in Key
  /\ fresh \subseteq Req /\ met \in [Req -> SUBSET Key] /\ suspect \subseteq Key
  /\ faults \in 0..MaxFaults /\ expiries \in 0..MaxExpiries

\* In the rows whose writers clear an entry, it is old only by overlap: if it was filled
\* while a request that changes them was at work, if a fault kept it from being cleared,
\* or while the request that made it old is about to clear it.  The entry of a folder
\* that is gone is the exception, DeleteOrphanFolders leaves it.
RowsOldOnlyByOverlap ==
  \A k \in Key : OldRows(k) =>
    \/ k \in suspect
    \/ \E r \in Req : k \in Owed(r)
    \/ k \in Folder /\ rows[k] = 0

\* Saving the folder or the preferences saves the whole row from a copy that may come
\* from the cache: it changes another field, back to what it was, only if another
\* request wrote the configuration after the copy was read or while it was cached.
NoLostUpdate ==
  [][\A r \in Req :
       /\ Doing(r, "selectedFolderID") \/ Doing(r, "preferences")
       /\ todo'[r] # todo[r] /\ config' # config
       => config' = [config EXCEPT ![Step(r)[1]] = Step(r)[2]] \/ "user" \in met[r]]_vars

\* A user has one primary stylus at most, unless two transactions on the user's
\* styluses overlap: UnsetAllPrimary does not see what the other has not committed.
OnePrimary ==
  [][Cardinality(primary') > 1 /\ Cardinality(primary) <= 1 =>
       \E r \in Req : Doing(r, "commit") /\ todo'[r] # todo[r] /\ "styluses" \in met[r]]_vars

\* Every entry is used as CacheAside says: it only ever holds an answer the database
\* gave, no writer fills it, and no transaction shows in it before it commits.
Entry(k) == INSTANCE CacheAside WITH
  answers <- {Answer(k, f) : f \in IF k = "releases" THEN Folder ELSE {None}},
  pending <- {fetched[r].answer : r \in {q \in Req : fetched[q] # None /\ fetched[q].key = k}},
  cached <- cache[k]

EntriesAreCacheAside ==
  /\ \A k \in Key : Entry(k)!Init
  /\ [][\A k \in Key : [Entry(k)!Next]_(Entry(k)!vars)]_vars

\* Every request has been answered, and without a fault.
Undisturbed == faults = 0 /\ \A r \in Req : ~Running(r)

\* Expected to fail: after requests that came one after the other, none of which failed,
\* what is cached is what the database holds, for the folder the user has selected
\* ("No risk of returning stale data", CACHE_STRATEGY.md:261; "a fresh query when they
\* switch", :166).
NoStaleData ==
  Undisturbed => ~OldFolder /\ \A k \in Key : ~OldRows(k) /\ ~OldPreloads(k)

=============================================================================
