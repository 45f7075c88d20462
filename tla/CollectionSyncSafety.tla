------------------------ MODULE CollectionSyncSafety ------------------------
(***************************************************************************)
(* A sync never deletes a release that its owner still has in a folder the *)
(* sync has marked complete, reports completion only when rows and         *)
(* complete folders agree, and is never stranded while it is in progress.  *)
(* The proofs assume what the code relies on without saying so.  For the   *)
(* first two (Undisturbed): the user has one connection, Discogs answers   *)
(* no page request with an HTTP error, the cache does not fail and the     *)
(* server does not restart in the middle of a handler.  For the third      *)
(* (Reliable): one connection, and no request, answer, cached entry or     *)
(* goroutine is lost. Any of the other faults, any number of syncs and any *)
(* interleaving with them are allowed.                                     *)
(***************************************************************************)
EXTENDS CollectionSyncProofs

\* What the code relies on.
OneConnection == \A c, d \in Conn : c = d
NoFaultsOf(kinds) == Faults \cap kinds = {}
Undisturbed == OneConnection /\ NoFaultsOf({"http", "cache", "crash"})

-----------------------------------------------------------------------------
(* The inductive invariant *)

\* Page requests on their way, to the browser or back.
Outstanding ==
  {r \in wire \cup {m.req : m \in inbox} : r.type = "folder_releases"}

\* The merged instances are fewer than a sync may hold.
Fits(merged) == Cardinality({i \in Item : merged[i] # NoFolder}) < MaxReleases

\* An instance with a release id has been merged, if there was room for it.
InPlace(s, i) == Fits(s.merged) /\ i \notin Unidentified => s.merged[i] = Collection[i]

\* A sync state whose folders and instances are what they should be: folders
\* that are still asked for are in scope and not complete, and every instance of
\* a complete folder is in place.
Sound(s) ==
  /\ s.op <= begun
  /\ s.completed \subseteq s.scope
  /\ \A i \in Item : Collection[i] \in s.completed => InPlace(s, i)
  /\ \A r \in Outstanding : r.op = s.op => r.folder \in s.scope \ s.completed
  /\ \A w \in Worker : pc[w] = "request" /\ mem[w].op = s.op
                         => todo[w] \subseteq s.scope \ s.completed

\* The instances on the pages of folder f before page p are in place.
Covers(s, f, p) ==
  \A i \in Item : Collection[i] = f /\ PageOf[i] < p => InPlace(s, i)

\* The labels of a handler that works on a copy of a sync state.
Works == HoldsState \ {"request"}

\* A folder of an operation is asked for by one request, by one worker that has
\* still to request it, or by one handler about to request its next page.
OneChain ==
  /\ \A m \in inbox : m.req.type = "folder_releases" =>
       m.req \notin wire /\ \A n \in inbox : n.req = m.req => n = m
  /\ \A r, q \in Outstanding : r.op = q.op /\ r.folder = q.folder => r = q
  /\ \A r \in Outstanding : r.op <= begun
  /\ \A w \in Worker : pc[w] = "request" =>
       /\ mem[w].op <= begun
       /\ \A r \in Outstanding : r.op = mem[w].op => r.folder \notin todo[w]
       /\ \A v \in Worker : pc[v] = "request" /\ mem[v].op = mem[w].op => v = w

StateSound ==
  state # NoState =>
    /\ Sound(state)
    /\ \A r \in Outstanding : r.op = state.op =>
         \/ Covers(state, r.folder, r.page)
         \/ \E c \in Conn : pc[c] = "decide" /\ mem[c].op = r.op

CopiesSound ==
  \A c \in Conn : pc[c] \in Works =>
    /\ Sound(mem[c])
    /\ \A r \in Outstanding : r.op = mem[c].op => Covers(mem[c], r.folder, r.page)

\* What has been read to be written back is as good.
ReadsSound ==
  \A c \in Conn : pc[c] = "pend" =>
    /\ Sound(read[c])
    /\ \A r \in Outstanding : r.op = read[c].op => Covers(read[c], r.folder, r.page)

NextPageIsFree ==
  \A c \in Conn : pc[c] = "paginate" =>
    LET f == cur[c].req.folder
    IN /\ Covers(mem[c], f, cur[c].req.page + 1)
       /\ f \in mem[c].scope \ mem[c].completed
       /\ \A r \in Outstanding : r.op = mem[c].op => r.folder # f
       /\ \A w \in Worker : pc[w] = "request" /\ mem[w].op = mem[c].op => f \notin todo[w]
       /\ state # NoState /\ state.op = mem[c].op => f \in state.scope \ state.completed

PlannedDeletesAreGone ==
  \A c \in Conn : pc[c] = "execute" =>
    \A i \in ops[c].delete \ Unidentified :
      Collection[i] \in mem[c].completed => ~Fits(mem[c].merged)

PostersOnlyStart ==
  \A p \in Poster : pc[p] \in {"idle", "discover", "check", "store", "request"}

NoErrorPages == \A m \in inbox : m.kind # "http"

-----------------------------------------------------------------------------
(* Steps that neither ask for a page nor merge one *)

SameCore(s, t) ==
  s.op = t.op /\ s.scope = t.scope /\ s.completed = t.completed /\ s.merged = t.merged

Unmoved(v) ==
  /\ pc'[v] = pc[v] /\ mem'[v] = mem[v] /\ read'[v] = read[v]
  /\ cur'[v] = cur[v] /\ todo'[v] = todo[v]

\* A worker that gives up folders to request, goes on with its copies, takes a
\* copy of the cached state, or returns.
MovesQuietly(v) ==
  /\ pc'[v] = "request" => /\ pc[v] = "request" /\ mem'[v] = mem[v]
                           /\ todo'[v] \subseteq todo[v]
  /\ pc'[v] # "paginate"
  /\ pc'[v] \in Works =>
       \/ pc[v] \in Works /\ SameCore(mem'[v], mem[v])
       \/ /\ state # NoState /\ SameCore(mem'[v], state)
          /\ v \in Conn /\ pc[v] # "decide"
  /\ pc'[v] = "pend" =>
       \/ pc[v] = "pend" /\ read'[v] = read[v]
       \/ state # NoState /\ read'[v] = state /\ pc[v] # "decide"
  /\ pc[v] = "decide" =>
       state' = NoState \/ SameCore(state', mem[v]) \/ FoldersDone(mem[v])

\* The cached state is cleared, kept, or one that a handler holds.
StoresQuietly ==
  \/ state' = NoState
  \/ state # NoState /\ SameCore(state', state)
  \/ \E c \in Conn : pc[c] \in Works /\ SameCore(state', mem[c])
  \/ \E c \in Conn : pc[c] = "pend" /\ SameCore(state', read[c])

QuietStep ==
  /\ inbox' \subseteq inbox
  /\ \A r \in wire' : r \in wire \/ r.type # "folder_releases"
  /\ begun' = begun /\ mixed' = mixed
  /\ StoresQuietly
  /\ \A v \in Worker : Unmoved(v) \/ MovesQuietly(v)

\* A sync state that counts every folder as complete has every folder complete.
LEMMA FoldersDoneMeansAll ==
  ASSUME NEW s \in SyncState, s.completed \subseteq s.scope, FoldersDone(s)
  PROVE  s.completed = s.scope
<1>1. s.scope \subseteq Folder
  BY DEF SyncState
<1>2. IsFiniteSet(s.scope) /\ IsFiniteSet(s.completed)
  BY <1>1, FS_Subset, ConstantsAssumption
<1>3. Cardinality(s.completed) \in Nat /\ Cardinality(s.scope) \in Nat
  BY <1>2, FS_CardinalityType
<1>4. Cardinality(s.completed) <= Cardinality(s.scope)
  BY <1>2, FS_Subset
<1>5. Cardinality(s.completed) = Cardinality(s.scope)
  BY <1>3, <1>4 DEF FoldersDone
<1> QED
  BY <1>2, <1>5, FS_Subset

\* No page is asked for in a sync whose folders are all complete.
LEMMA DoneAsksNothing ==
  ASSUME NEW s \in SyncState, Sound(s), FoldersDone(s),
         NEW r \in Outstanding, r.op = s.op
  PROVE  FALSE
BY FoldersDoneMeansAll DEF Sound

LEMMA QuietOutstanding ==
  ASSUME QuietStep
  PROVE  Outstanding' \subseteq Outstanding
BY DEF QuietStep, Outstanding

LEMMA QuietChain ==
  ASSUME QuietStep, OneChain
  PROVE  OneChain'
<1>1. Outstanding' \subseteq Outstanding
  BY QuietOutstanding
<1>2. \A w \in Worker : pc'[w] = "request" =>
        pc[w] = "request" /\ mem'[w] = mem[w] /\ todo'[w] \subseteq todo[w]
  BY DEF QuietStep, Unmoved, MovesQuietly
<1>3. \A m \in inbox' : m.req.type = "folder_releases" =>
        m.req \notin wire' /\ \A n \in inbox' : n.req = m.req => n = m
  BY DEF QuietStep, OneChain
<1> QED
  BY <1>1, <1>2, <1>3 DEF QuietStep, OneChain

\* A quiet step leaves a sound sync state, or a copy of one, sound.
LEMMA QuietSound ==
  ASSUME QuietStep, NEW s, NEW t, Sound(s), SameCore(t, s)
  PROVE  /\ t.op <= begun'
         /\ t.completed \subseteq t.scope
         /\ \A i \in Item : Collection[i] \in t.completed => InPlace(t, i)
         /\ \A r \in Outstanding' : r.op = t.op => r.folder \in t.scope \ t.completed
         /\ \A w \in Worker : pc'[w] = "request" /\ mem'[w].op = t.op
                               => todo'[w] \subseteq t.scope \ t.completed
<1>1. Outstanding' \subseteq Outstanding
  BY QuietOutstanding
<1>2. \A w \in Worker : pc'[w] = "request" =>
        pc[w] = "request" /\ mem'[w] = mem[w] /\ todo'[w] \subseteq todo[w]
  BY DEF QuietStep, Unmoved, MovesQuietly
<1> QED
  BY <1>1, <1>2 DEF QuietStep, Sound, InPlace, SameCore

LEMMA QuietState ==
  ASSUME QuietStep, TypeInv, OneConnection, StateSound, CopiesSound, ReadsSound
  PROVE  StateSound'
<1> SUFFICES ASSUME state' # NoState PROVE StateSound'
  BY DEF StateSound
<1>1. Outstanding' \subseteq Outstanding
  BY QuietOutstanding
<1>2. ASSUME NEW s, Sound(s), SameCore(state', s),
             \A r \in Outstanding' : r.op = s.op =>
               \/ Covers(s, r.folder, r.page)
               \/ \E c \in Conn : pc'[c] = "decide" /\ mem'[c].op = r.op
      PROVE  StateSound'
  <2>1. Sound(state)'
    BY <1>2, QuietSound DEF Sound
  <2>2. \A r \in Outstanding' : r.op = state'.op =>
               \/ Covers(state, r.folder, r.page)'
               \/ \E c \in Conn : pc'[c] = "decide" /\ mem'[c].op = r.op
    BY <1>2 DEF Covers, InPlace, SameCore
  <2> QED
    BY <2>1, <2>2 DEF StateSound
<1>3. CASE \E c \in Conn : pc[c] \in Works /\ SameCore(state', mem[c])
  <2>1. PICK c \in Conn : pc[c] \in Works /\ SameCore(state', mem[c])
    BY <1>3
  <2>2. \A r \in Outstanding' : r.op = mem[c].op => Covers(mem[c], r.folder, r.page)
    BY <1>1, <2>1 DEF CopiesSound
  <2> QED
    BY <1>2, <2>1, <2>2 DEF CopiesSound
<1>4. CASE state # NoState /\ SameCore(state', state)
  <2>1. Sound(state)
    BY <1>4 DEF StateSound
  <2>2. ASSUME NEW r \in Outstanding', r.op = state.op
        PROVE  \/ Covers(state, r.folder, r.page)
               \/ \E c \in Conn : pc'[c] = "decide" /\ mem'[c].op = r.op
    <3>1. CASE Covers(state, r.folder, r.page)
      BY <3>1
    <3>2. ASSUME NEW c \in Conn, pc[c] = "decide", mem[c].op = r.op
          PROVE  \/ Covers(state, r.folder, r.page)
                 \/ \E d \in Conn : pc'[d] = "decide" /\ mem'[d].op = r.op
      <4>1. CASE Unmoved(c)
        BY <3>2, <4>1 DEF Unmoved
      <4>2. CASE FoldersDone(mem[c])
        <5>1. mem[c] \in SyncState /\ Sound(mem[c])
          BY <3>2 DEF TypeInv, LocalsOK, HoldsWhatItNeeds, HoldsState, CopiesSound,
                      Works, Worker
        <5> QED
          BY <1>1, <2>2, <3>2, <4>2, <5>1, DoneAsksNothing
      <4>3. CASE SameCore(state', mem[c])
        <5>1. Covers(mem[c], r.folder, r.page)
          BY <1>1, <2>2, <3>2 DEF CopiesSound, Works, HoldsState
        <5> QED
          BY <1>4, <4>3, <5>1 DEF Covers, InPlace, SameCore
      <4> QED
        BY <3>2, <4>1, <4>2, <4>3 DEF QuietStep, MovesQuietly, Worker
    <3> QED
      BY <1>1, <1>4, <2>2, <3>1, <3>2 DEF StateSound
  <2> QED
    BY <1>2, <1>4, <2>1, <2>2
<1>5. CASE \E c \in Conn : pc[c] = "pend" /\ SameCore(state', read[c])
  <2>1. PICK c \in Conn : pc[c] = "pend" /\ SameCore(state', read[c])
    BY <1>5
  <2>2. \A r \in Outstanding' : r.op = read[c].op => Covers(read[c], r.folder, r.page)
    BY <1>1, <2>1 DEF ReadsSound
  <2> QED
    BY <1>2, <2>1, <2>2 DEF ReadsSound
<1> QED
  BY <1>3, <1>4, <1>5 DEF QuietStep, StoresQuietly

LEMMA QuietCopies ==
  ASSUME QuietStep, TypeInv, OneConnection, StateSound, CopiesSound
  PROVE  CopiesSound'
<1>1. Outstanding' \subseteq Outstanding
  BY QuietOutstanding
<1> SUFFICES ASSUME NEW c \in Conn, pc'[c] \in Works
             PROVE  /\ Sound(mem[c])'
                    /\ \A r \in Outstanding' : r.op = mem'[c].op =>
                         Covers(mem[c], r.folder, r.page)'
  BY DEF CopiesSound
<1>2. ASSUME NEW s, Sound(s), SameCore(mem'[c], s),
             \A r \in Outstanding' : r.op = s.op => Covers(s, r.folder, r.page)
      PROVE  /\ Sound(mem[c])'
             /\ \A r \in Outstanding' : r.op = mem'[c].op =>
                         Covers(mem[c], r.folder, r.page)'
  <2>1. Sound(mem[c])'
    BY <1>2, QuietSound DEF Sound
  <2> QED
    BY <1>2, <2>1 DEF Covers, InPlace, SameCore
<1>3. CASE pc[c] \in Works /\ SameCore(mem'[c], mem[c])
  BY <1>1, <1>2, <1>3 DEF CopiesSound
<1>4. CASE state # NoState /\ SameCore(mem'[c], state) /\ pc[c] # "decide"
  <2>1. \A r \in Outstanding' : r.op = state.op => Covers(state, r.folder, r.page)
    BY <1>1, <1>4 DEF StateSound, OneConnection
  <2> QED
    BY <1>2, <1>4, <2>1 DEF StateSound
<1> QED
  BY <1>3, <1>4 DEF QuietStep, Unmoved, MovesQuietly, SameCore, Worker

LEMMA QuietReads ==
  ASSUME QuietStep, OneConnection, StateSound, ReadsSound
  PROVE  ReadsSound'
<1>1. Outstanding' \subseteq Outstanding
  BY QuietOutstanding
<1> SUFFICES ASSUME NEW c \in Conn, pc'[c] = "pend"
             PROVE  /\ Sound(read[c])'
                    /\ \A r \in Outstanding' : r.op = read'[c].op =>
                         Covers(read[c], r.folder, r.page)'
  BY DEF ReadsSound
<1>2. ASSUME NEW s, Sound(s), read'[c] = s,
             \A r \in Outstanding' : r.op = s.op => Covers(s, r.folder, r.page)
      PROVE  /\ Sound(read[c])'
             /\ \A r \in Outstanding' : r.op = read'[c].op =>
                         Covers(read[c], r.folder, r.page)'
  <2>1. Sound(read[c])'
    BY <1>2, QuietSound DEF Sound, SameCore
  <2> QED
    BY <1>2, <2>1 DEF Covers, InPlace
<1>3. CASE pc[c] = "pend" /\ read'[c] = read[c]
  BY <1>1, <1>2, <1>3 DEF ReadsSound
<1>4. CASE state # NoState /\ read'[c] = state /\ pc[c] # "decide"
  <2>1. \A r \in Outstanding' : r.op = state.op => Covers(state, r.folder, r.page)
    BY <1>1, <1>4 DEF StateSound, OneConnection
  <2> QED
    BY <1>2, <1>4, <2>1 DEF StateSound
<1> QED
  BY <1>3, <1>4 DEF QuietStep, Unmoved, MovesQuietly, Worker

LEMMA QuietNextPage ==
  ASSUME QuietStep, OneConnection, NextPageIsFree
  PROVE  NextPageIsFree'
<1>1. Outstanding' \subseteq Outstanding
  BY QuietOutstanding
<1> SUFFICES ASSUME NEW c \in Conn, pc'[c] = "paginate"
             PROVE  LET f == cur'[c].req.folder
                    IN /\ Covers(mem[c], cur[c].req.folder, cur[c].req.page + 1)'
                       /\ f \in mem'[c].scope \ mem'[c].completed
                       /\ \A r \in Outstanding' : r.op = mem'[c].op => r.folder # f
                       /\ \A w \in Worker : pc'[w] = "request" /\ mem'[w].op = mem'[c].op
                                             => f \notin todo'[w]
                       /\ state' # NoState /\ state'.op = mem'[c].op
                            => f \in state'.scope \ state'.completed
  BY DEF NextPageIsFree
<1>2. pc[c] = "paginate" /\ mem'[c] = mem[c] /\ cur'[c] = cur[c]
  BY DEF QuietStep, Unmoved, MovesQuietly, Worker
<1>3. \A w \in Worker : pc'[w] = "request" =>
        pc[w] = "request" /\ mem'[w] = mem[w] /\ todo'[w] \subseteq todo[w]
  BY DEF QuietStep, Unmoved, MovesQuietly
<1>4. \/ state' = NoState
      \/ state # NoState /\ SameCore(state', state)
      \/ SameCore(state', mem[c])
  BY <1>2 DEF QuietStep, StoresQuietly, OneConnection
<1>5. Covers(mem[c], cur[c].req.folder, cur[c].req.page + 1)'
  BY <1>2 DEF NextPageIsFree, Covers
<1> QED
  BY <1>1, <1>2, <1>3, <1>4, <1>5 DEF NextPageIsFree, SameCore

-----------------------------------------------------------------------------
(* Which steps are quiet *)

LEMMA PostSyncIsQuiet ==
  ASSUME TypeInv, PostersOnlyStart, Undisturbed, NEW w \in Worker, PostSync(w)
  PROVE  QuietStep
<1> USE DEF TypeInv, LocalsOK, LocalsType
<1>1. ASSUME NEW v \in Worker \ {w} PROVE Unmoved(v)
  BY DEF Unmoved, PostSync, FailSync, Return, Goto, locals
<1>2. MovesQuietly(w)
  BY DEF MovesQuietly, Works, HoldsState, SameCore, PostersOnlyStart, Worker, Undisturbed,
     NoFaultsOf, Fault, PostSync, FailSync, ClearState, Return, Goto, locals
<1>3. StoresQuietly
  BY DEF StoresQuietly, SameCore, Works, HoldsState, PostersOnlyStart, Worker, Undisturbed,
     NoFaultsOf,
     Fault, DataType, PostSync, FailSync, ClearState
<1> QED
  BY <1>1, <1>2, <1>3 DEF QuietStep, PostSync, Issue, Receive, network

LEMMA RequestUserFoldersIsQuiet ==
  ASSUME TypeInv, PostersOnlyStart, Undisturbed, NEW w \in Worker, RequestUserFolders(w)
  PROVE  QuietStep
<1> USE DEF TypeInv, LocalsOK, LocalsType
<1>1. ASSUME NEW v \in Worker \ {w} PROVE Unmoved(v)
  BY DEF Unmoved, RequestUserFolders, FailSync, Return, Goto, locals
<1>2. MovesQuietly(w)
  BY DEF MovesQuietly, Works, HoldsState, SameCore, PostersOnlyStart, Worker, Undisturbed,
     NoFaultsOf, Fault, RequestUserFolders, FailSync, ClearState, Return, Goto, locals
<1>3. StoresQuietly
  BY DEF StoresQuietly, SameCore, Works, HoldsState, PostersOnlyStart, Worker, Undisturbed,
     NoFaultsOf,
     Fault, DataType, RequestUserFolders, FailSync, ClearState
<1> QED
  BY <1>1, <1>2, <1>3 DEF QuietStep, RequestUserFolders, Issue, Receive, network

LEMMA CheckInProgressIsQuiet ==
  ASSUME TypeInv, PostersOnlyStart, Undisturbed, NEW w \in Worker, CheckInProgress(w)
  PROVE  QuietStep
<1> USE DEF TypeInv, LocalsOK, LocalsType
<1>1. ASSUME NEW v \in Worker \ {w} PROVE Unmoved(v)
  BY DEF Unmoved, CheckInProgress, FailSync, Return, Goto, locals
<1>2. MovesQuietly(w)
  BY DEF MovesQuietly, Works, HoldsState, SameCore, PostersOnlyStart, Worker, Undisturbed,
     NoFaultsOf, Fault, CheckInProgress, FailSync, ClearState, Return, Goto, locals
<1>3. StoresQuietly
  BY DEF StoresQuietly, SameCore, Works, HoldsState, PostersOnlyStart, Worker, Undisturbed,
     NoFaultsOf,
     Fault, DataType, CheckInProgress, FailSync, ClearState
<1> QED
  BY <1>1, <1>2, <1>3 DEF QuietStep, CheckInProgress, Issue, Receive, network

LEMMA ReceiveUnknownIsQuiet ==
  ASSUME TypeInv, PostersOnlyStart, Undisturbed, NEW w \in Worker, ReceiveUnknown(w)
  PROVE  QuietStep
<1> USE DEF TypeInv, LocalsOK, LocalsType
<1>1. ASSUME NEW v \in Worker \ {w} PROVE Unmoved(v)
  BY DEF Unmoved, ReceiveUnknown, FailSync, Return, Goto, locals
<1>2. MovesQuietly(w)
  BY DEF MovesQuietly, Works, HoldsState, SameCore, PostersOnlyStart, Worker, Undisturbed,
     NoFaultsOf, Fault, ReceiveUnknown, FailSync, ClearState, Return, Goto, locals
<1>3. StoresQuietly
  BY DEF StoresQuietly, SameCore, Works, HoldsState, PostersOnlyStart, Worker, Undisturbed,
     NoFaultsOf,
     Fault, DataType, ReceiveUnknown, FailSync, ClearState
<1> QED
  BY <1>1, <1>2, <1>3 DEF QuietStep, ReceiveUnknown, Issue, Receive, network

LEMMA ReceiveFoldersIsQuiet ==
  ASSUME TypeInv, PostersOnlyStart, Undisturbed, NEW w \in Worker, ReceiveFolders(w)
  PROVE  QuietStep
<1> USE DEF TypeInv, LocalsOK, LocalsType
<1>1. ASSUME NEW v \in Worker \ {w} PROVE Unmoved(v)
  BY DEF Unmoved, ReceiveFolders, FailSync, Return, Goto, locals
<1>2. MovesQuietly(w)
  <2>1. pc[w] = "idle" /\ pc'[w] \in {"idle", "folders"}
    BY DEF ReceiveFolders, Receive, Goto
  <2> QED
    BY <2>1 DEF MovesQuietly, Works, HoldsState
<1>3. StoresQuietly
  BY DEF StoresQuietly, SameCore, Works, HoldsState, PostersOnlyStart, Worker, Undisturbed,
     NoFaultsOf,
     Fault, DataType, ReceiveFolders, FailSync, ClearState
<1> QED
  BY <1>1, <1>2, <1>3 DEF QuietStep, ReceiveFolders, Issue, Receive, network

LEMMA UpsertFoldersIsQuiet ==
  ASSUME TypeInv, PostersOnlyStart, Undisturbed, NEW w \in Worker, UpsertFolders(w)
  PROVE  QuietStep
<1> USE DEF TypeInv, LocalsOK, LocalsType
<1>1. ASSUME NEW v \in Worker \ {w} PROVE Unmoved(v)
  BY DEF Unmoved, UpsertFolders, FailSync, Return, Goto, locals
<1>2. MovesQuietly(w)
  BY DEF MovesQuietly, Works, HoldsState, SameCore, PostersOnlyStart, Worker, Undisturbed,
     NoFaultsOf, Fault, UpsertFolders, FailSync, ClearState, Return, Goto, locals
<1>3. StoresQuietly
  BY DEF StoresQuietly, SameCore, Works, HoldsState, PostersOnlyStart, Worker, Undisturbed,
     NoFaultsOf,
     Fault, DataType, UpsertFolders, FailSync, ClearState
<1> QED
  BY <1>1, <1>2, <1>3 DEF QuietStep, UpsertFolders, Issue, Receive, network

LEMMA DeleteOrphanFoldersIsQuiet ==
  ASSUME TypeInv, PostersOnlyStart, Undisturbed, NEW w \in Worker, DeleteOrphanFolders(w)
  PROVE  QuietStep
<1> USE DEF TypeInv, LocalsOK, LocalsType
<1>1. ASSUME NEW v \in Worker \ {w} PROVE Unmoved(v)
  BY DEF Unmoved, DeleteOrphanFolders, FailSync, Return, Goto, locals
<1>2. MovesQuietly(w)
  BY DEF MovesQuietly, Works, HoldsState, SameCore, PostersOnlyStart, Worker, Undisturbed,
     NoFaultsOf, Fault, DeleteOrphanFolders, FailSync, ClearState, Return, Goto, locals
<1>3. StoresQuietly
  BY DEF StoresQuietly, SameCore, Works, HoldsState, PostersOnlyStart, Worker, Undisturbed,
     NoFaultsOf,
     Fault, DataType, DeleteOrphanFolders, FailSync, ClearState
<1> QED
  BY <1>1, <1>2, <1>3 DEF QuietStep, DeleteOrphanFolders, Issue, Receive, network

LEMMA SelectDefaultFolderIsQuiet ==
  ASSUME TypeInv, PostersOnlyStart, Undisturbed, NEW w \in Worker, SelectDefaultFolder(w)
  PROVE  QuietStep
<1> USE DEF TypeInv, LocalsOK, LocalsType
<1>1. ASSUME NEW v \in Worker \ {w} PROVE Unmoved(v)
  BY DEF Unmoved, SelectDefaultFolder, FailSync, Return, Goto, locals
<1>2. MovesQuietly(w)
  BY DEF MovesQuietly, Works, HoldsState, SameCore, PostersOnlyStart, Worker, Undisturbed,
     NoFaultsOf, Fault, SelectDefaultFolder, FailSync, ClearState, Return, Goto, locals
<1>3. StoresQuietly
  BY DEF StoresQuietly, SameCore, Works, HoldsState, PostersOnlyStart, Worker, Undisturbed,
     NoFaultsOf,
     Fault, DataType, SelectDefaultFolder, FailSync, ClearState
<1> QED
  BY <1>1, <1>2, <1>3 DEF QuietStep, SelectDefaultFolder, Issue, Receive, network

LEMMA SaveProgressIsQuiet ==
  ASSUME TypeInv, PostersOnlyStart, Undisturbed, NEW w \in Worker, SaveProgress(w)
  PROVE  QuietStep
<1> USE DEF TypeInv, LocalsOK, LocalsType
<1>1. ASSUME NEW v \in Worker \ {w} PROVE Unmoved(v)
  BY DEF Unmoved, SaveProgress, FailSync, Return, Goto, locals
<1>2. MovesQuietly(w)
  BY DEF MovesQuietly, Works, HoldsState, SameCore, PostersOnlyStart, Worker, Undisturbed,
     NoFaultsOf, Fault, SaveProgress, FailSync, ClearState, Return, Goto, locals
<1>3. StoresQuietly
  BY DEF StoresQuietly, SameCore, Works, HoldsState, PostersOnlyStart, Worker, Undisturbed,
     NoFaultsOf,
     Fault, DataType, SaveProgress, FailSync, ClearState
<1> QED
  BY <1>1, <1>2, <1>3 DEF QuietStep, SaveProgress, Issue, Receive, network

LEMMA ValidateReleasesIsQuiet ==
  ASSUME TypeInv, PostersOnlyStart, Undisturbed, NEW w \in Worker, ValidateReleases(w)
  PROVE  QuietStep
<1> USE DEF TypeInv, LocalsOK, LocalsType
<1>1. ASSUME NEW v \in Worker \ {w} PROVE Unmoved(v)
  BY DEF Unmoved, ValidateReleases, FailSync, Return, Goto, locals
<1>2. MovesQuietly(w)
  <2>1. pc[w] = "decide" /\ FoldersDone(mem[w]) /\ mem[w] \in SyncState
    BY DEF ValidateReleases, HoldsWhatItNeeds, HoldsState
  <2>2. CASE FailSync(w)
    BY <2>1, <2>2 DEF MovesQuietly, Works, HoldsState, FailSync, Return, Goto
  <2>3. CASE ~FailSync(w)
    <3>1. pc'[w] \in {"record", "missing"}
      BY <2>3 DEF ValidateReleases, Goto
    <3>2. SameCore(mem'[w], mem[w])
      BY <2>1, <2>3 DEF ValidateReleases, SameCore, SyncState
    <3> QED
      BY <2>1, <3>1, <3>2 DEF MovesQuietly, Works, HoldsState
  <2> QED
    BY <2>2, <2>3
<1>3. StoresQuietly
  BY DEF StoresQuietly, SameCore, Works, HoldsState, PostersOnlyStart, Worker, Undisturbed,
     NoFaultsOf,
     Fault, DataType, ValidateReleases, FailSync, ClearState
<1> QED
  BY <1>1, <1>2, <1>3 DEF QuietStep, ValidateReleases, Issue, Receive, network

LEMMA SkipValidationIsQuiet ==
  ASSUME TypeInv, PostersOnlyStart, Undisturbed, NEW w \in Worker, SkipValidation(w)
  PROVE  QuietStep
<1> USE DEF TypeInv, LocalsOK, LocalsType
<1>1. ASSUME NEW v \in Worker \ {w} PROVE Unmoved(v)
  BY DEF Unmoved, SkipValidation, FailSync, Return, Goto, locals
<1>2. MovesQuietly(w)
  BY DEF MovesQuietly, Works, HoldsState, SameCore, PostersOnlyStart, Worker, Undisturbed,
     NoFaultsOf, Fault, SkipValidation, FailSync, ClearState, Return, Goto, locals
<1>3. StoresQuietly
  BY DEF StoresQuietly, SameCore, Works, HoldsState, PostersOnlyStart, Worker, Undisturbed,
     NoFaultsOf,
     Fault, DataType, SkipValidation, FailSync, ClearState
<1> QED
  BY <1>1, <1>2, <1>3 DEF QuietStep, SkipValidation, Issue, Receive, network

LEMMA MissingTokenIsQuiet ==
  ASSUME TypeInv, PostersOnlyStart, Undisturbed, NEW w \in Worker, MissingToken(w)
  PROVE  QuietStep
<1> USE DEF TypeInv, LocalsOK, LocalsType
<1>1. ASSUME NEW v \in Worker \ {w} PROVE Unmoved(v)
  BY DEF Unmoved, MissingToken, FailSync, Return, Goto, locals
<1>2. MovesQuietly(w)
  BY DEF MovesQuietly, Works, HoldsState, SameCore, PostersOnlyStart, Worker, Undisturbed,
     NoFaultsOf, Fault, MissingToken, FailSync, ClearState, Return, Goto, locals
<1>3. StoresQuietly
  BY DEF StoresQuietly, SameCore, Works, HoldsState, PostersOnlyStart, Worker, Undisturbed,
     NoFaultsOf,
     Fault, DataType, MissingToken, FailSync, ClearState
<1> QED
  BY <1>1, <1>2, <1>3 DEF QuietStep, MissingToken, Issue, Receive, network

LEMMA RequestReleaseIsQuiet ==
  ASSUME TypeInv, PostersOnlyStart, Undisturbed, NEW w \in Worker, RequestRelease(w)
  PROVE  QuietStep
<1> USE DEF TypeInv, LocalsOK, LocalsType
<1>1. ASSUME NEW v \in Worker \ {w} PROVE Unmoved(v)
  BY DEF Unmoved, RequestRelease, FailSync, Return, Goto, locals
<1>2. MovesQuietly(w)
  BY DEF MovesQuietly, Works, HoldsState, SameCore, PostersOnlyStart, Worker, Undisturbed,
     NoFaultsOf, Fault, RequestRelease, FailSync, ClearState, Return, Goto, locals
<1>3. StoresQuietly
  BY DEF StoresQuietly, SameCore, Works, HoldsState, PostersOnlyStart, Worker, Undisturbed,
     NoFaultsOf,
     Fault, DataType, RequestRelease, FailSync, ClearState
<1> QED
  BY <1>1, <1>2, <1>3 DEF QuietStep, RequestRelease, Issue, Receive, network

LEMMA ReadPendingIsQuiet ==
  ASSUME TypeInv, PostersOnlyStart, Undisturbed, NEW w \in Worker, ReadPending(w)
  PROVE  QuietStep
<1> USE DEF TypeInv, LocalsOK, LocalsType
<1>1. ASSUME NEW v \in Worker \ {w} PROVE Unmoved(v)
  BY DEF Unmoved, ReadPending, Goto, locals
<1>2. MovesQuietly(w)
  BY DEF MovesQuietly, Works, HoldsState, SameCore, PostersOnlyStart, Worker, ReadPending,
     Goto, locals
<1>3. StoresQuietly
  BY DEF StoresQuietly, SameCore, ReadPending
<1> QED
  BY <1>1, <1>2, <1>3 DEF QuietStep, ReadPending, network

LEMMA WritePendingIsQuiet ==
  ASSUME TypeInv, PostersOnlyStart, Undisturbed, NEW w \in Worker, WritePending(w)
  PROVE  QuietStep
<1> USE DEF TypeInv, LocalsOK, LocalsType
<1>1. ASSUME NEW v \in Worker \ {w} PROVE Unmoved(v)
  BY DEF Unmoved, WritePending, Goto, locals
<1>2. MovesQuietly(w)
  BY DEF MovesQuietly, Works, HoldsState, SameCore, PostersOnlyStart, Worker, WritePending,
     Goto, locals
<1>3. StoresQuietly
  <2>1. pc[w] = "pend" /\ w \in Conn /\ read[w] \in SyncState
    BY DEF WritePending, PostersOnlyStart, Worker, HoldsWhatItNeeds
  <2>2. SameCore([read[w] EXCEPT !.pending = @ \cup sent[w]], read[w])
    BY <2>1 DEF SameCore, SyncState
  <2> QED
    BY <2>1, <2>2 DEF WritePending, StoresQuietly, SameCore
<1> QED
  BY <1>1, <1>2, <1>3 DEF QuietStep, WritePending, network

LEMMA RecordValidationIsQuiet ==
  ASSUME TypeInv, PostersOnlyStart, Undisturbed, NEW w \in Worker, RecordValidation(w)
  PROVE  QuietStep
<1> USE DEF TypeInv, LocalsOK, LocalsType
<1>1. ASSUME NEW v \in Worker \ {w} PROVE Unmoved(v)
  BY DEF Unmoved, RecordValidation, FailSync, Return, Goto, locals
<1>2. MovesQuietly(w)
  BY DEF MovesQuietly, Works, HoldsState, SameCore, PostersOnlyStart, Worker, Undisturbed,
     NoFaultsOf, Fault, RecordValidation, FailSync, ClearState, Return, Goto, locals
<1>3. StoresQuietly
  BY DEF StoresQuietly, SameCore, Works, HoldsState, PostersOnlyStart, Worker, Undisturbed,
     NoFaultsOf,
     Fault, DataType, RecordValidation, FailSync, ClearState
<1> QED
  BY <1>1, <1>2, <1>3 DEF QuietStep, RecordValidation, Issue, Receive, network

LEMMA ReceiveReleaseIsQuiet ==
  ASSUME TypeInv, PostersOnlyStart, Undisturbed, NEW w \in Worker, ReceiveRelease(w)
  PROVE  QuietStep
<1> USE DEF TypeInv, LocalsOK, LocalsType
<1>1. ASSUME NEW v \in Worker \ {w} PROVE Unmoved(v)
  BY DEF Unmoved, ReceiveRelease, FailSync, Return, Goto, locals
<1>2. MovesQuietly(w)
  <2>1. pc[w] = "idle" /\ w \in Conn
    BY DEF ReceiveRelease, Receive
  <2>2. CASE pc' = pc
    BY <2>1, <2>2 DEF MovesQuietly, Works, HoldsState
  <2>3. CASE pc' # pc
    <3>1. PICK m \in inbox : mem' = [mem EXCEPT ![w] =
                                       [state EXCEPT !.pending = @ \ {m.req.id}]]
      BY <2>3 DEF ReceiveRelease
    <3>2. state # NoState /\ pc'[w] = "settle"
      BY <2>3 DEF ReceiveRelease, Goto
    <3>3. SameCore(mem'[w], state)
      BY <3>1, <3>2 DEF SameCore, DataType, SyncState
    <3> QED
      BY <2>1, <3>2, <3>3 DEF MovesQuietly, Works, HoldsState
  <2> QED
    BY <2>2, <2>3
<1>3. StoresQuietly
  BY DEF StoresQuietly, SameCore, Works, HoldsState, PostersOnlyStart, Worker, Undisturbed,
     NoFaultsOf,
     Fault, DataType, ReceiveRelease, FailSync, ClearState
<1> QED
  BY <1>1, <1>2, <1>3 DEF QuietStep, ReceiveRelease, Issue, Receive, network

LEMMA SettlePendingIsQuiet ==
  ASSUME TypeInv, PostersOnlyStart, Undisturbed, NEW w \in Worker, SettlePending(w)
  PROVE  QuietStep
<1> USE DEF TypeInv, LocalsOK, LocalsType
<1>1. ASSUME NEW v \in Worker \ {w} PROVE Unmoved(v)
  BY DEF Unmoved, SettlePending, FailSync, Return, Goto, locals
<1>2. MovesQuietly(w)
  BY DEF MovesQuietly, Works, HoldsState, SameCore, PostersOnlyStart, Worker, Undisturbed,
     NoFaultsOf, Fault, SettlePending, FailSync, ClearState, Return, Goto, locals
<1>3. StoresQuietly
  <2>1. w \in Conn /\ pc[w] \in Works /\ mem[w] \in SyncState
    BY DEF SettlePending, PostersOnlyStart, Worker, Works, HoldsState, HoldsWhatItNeeds
  <2>2. SameCore([mem[w] EXCEPT !.ready = TRUE], mem[w])
    BY <2>1 DEF SameCore, SyncState
  <2> QED
    BY <2>1, <2>2 DEF SettlePending, StoresQuietly, SameCore, Undisturbed, NoFaultsOf, Fault
<1> QED
  BY <1>1, <1>2, <1>3 DEF QuietStep, SettlePending, Issue, Receive, network

LEMMA TriggerSyncCompletionIsQuiet ==
  ASSUME TypeInv, PostersOnlyStart, Undisturbed, NEW w \in Worker, TriggerSyncCompletion(w)
  PROVE  QuietStep
<1> USE DEF TypeInv, LocalsOK, LocalsType
<1>1. ASSUME NEW v \in Worker \ {w} PROVE Unmoved(v)
  BY DEF Unmoved, TriggerSyncCompletion, FailSync, Return, Goto, locals
<1>2. MovesQuietly(w)
  <2>1. pc[w] = "trigger" /\ w \in Conn
    BY DEF TriggerSyncCompletion, PostersOnlyStart, Worker
  <2>2. CASE Return(w)
    BY <2>1, <2>2 DEF MovesQuietly, Works, HoldsState, Return, Goto
  <2>3. CASE /\ ReadyToComplete /\ Goto(w, "analyze")
             /\ mem' = [mem EXCEPT ![w] = state]
    BY <2>1, <2>3 DEF MovesQuietly, Works, HoldsState, SameCore, ReadyToComplete, Goto
  <2> QED
    BY <2>2, <2>3 DEF TriggerSyncCompletion
<1>3. StoresQuietly
  BY DEF StoresQuietly, SameCore, Works, HoldsState, PostersOnlyStart, Worker, Undisturbed,
     NoFaultsOf,
     Fault, DataType, TriggerSyncCompletion, FailSync, ClearState
<1> QED
  BY <1>1, <1>2, <1>3 DEF QuietStep, TriggerSyncCompletion, Issue, Receive, network

LEMMA AnalyzeDifferentialSyncIsQuiet ==
  ASSUME TypeInv, PostersOnlyStart, Undisturbed, NEW w \in Worker, AnalyzeDifferentialSync(w)
  PROVE  QuietStep
<1> USE DEF TypeInv, LocalsOK, LocalsType
<1>1. ASSUME NEW v \in Worker \ {w} PROVE Unmoved(v)
  BY DEF Unmoved, AnalyzeDifferentialSync, FailSync, Return, Goto, locals
<1>2. MovesQuietly(w)
  BY DEF MovesQuietly, Works, HoldsState, SameCore, PostersOnlyStart, Worker, Undisturbed,
     NoFaultsOf, Fault, AnalyzeDifferentialSync, FailSync, ClearState, Return, Goto,
     locals
<1>3. StoresQuietly
  BY DEF StoresQuietly, SameCore, Works, HoldsState, PostersOnlyStart, Worker, Undisturbed,
     NoFaultsOf,
     Fault, DataType, AnalyzeDifferentialSync, FailSync, ClearState
<1> QED
  BY <1>1, <1>2, <1>3 DEF QuietStep, AnalyzeDifferentialSync, Issue, Receive, network

LEMMA ExecuteSyncOperationsIsQuiet ==
  ASSUME TypeInv, PostersOnlyStart, Undisturbed, NEW w \in Worker, ExecuteSyncOperations(w)
  PROVE  QuietStep
<1> USE DEF TypeInv, LocalsOK, LocalsType
<1>1. ASSUME NEW v \in Worker \ {w} PROVE Unmoved(v)
  BY DEF Unmoved, ExecuteSyncOperations, FailSync, Return, Goto, locals
<1>2. MovesQuietly(w)
  BY DEF MovesQuietly, Works, HoldsState, SameCore, PostersOnlyStart, Worker, Undisturbed,
     NoFaultsOf, Fault, ExecuteSyncOperations, FailSync, ClearState, Return, Goto, locals
<1>3. StoresQuietly
  BY DEF StoresQuietly, SameCore, Works, HoldsState, PostersOnlyStart, Worker, Undisturbed,
     NoFaultsOf,
     Fault, DataType, ExecuteSyncOperations, FailSync, ClearState
<1> QED
  BY <1>1, <1>2, <1>3 DEF QuietStep, ExecuteSyncOperations, Issue, Receive, network

LEMMA ExtractBasicInformationIsQuiet ==
  ASSUME TypeInv, PostersOnlyStart, Undisturbed, NEW w \in Worker, ExtractBasicInformation(w)
  PROVE  QuietStep
<1> USE DEF TypeInv, LocalsOK, LocalsType
<1>1. ASSUME NEW v \in Worker \ {w} PROVE Unmoved(v)
  BY DEF Unmoved, ExtractBasicInformation, FailSync, Return, Goto, locals
<1>2. MovesQuietly(w)
  BY DEF MovesQuietly, Works, HoldsState, SameCore, PostersOnlyStart, Worker, Undisturbed,
     NoFaultsOf, Fault, ExtractBasicInformation, FailSync, ClearState, Return, Goto,
     locals
<1>3. StoresQuietly
  BY DEF StoresQuietly, SameCore, Works, HoldsState, PostersOnlyStart, Worker, Undisturbed,
     NoFaultsOf,
     Fault, DataType, ExtractBasicInformation, FailSync, ClearState
<1> QED
  BY <1>1, <1>2, <1>3 DEF QuietStep, ExtractBasicInformation, Issue, Receive, network

LEMMA CompleteSyncIsQuiet ==
  ASSUME TypeInv, PostersOnlyStart, Undisturbed, NEW w \in Worker, CompleteSync(w)
  PROVE  QuietStep
<1> USE DEF TypeInv, LocalsOK, LocalsType
<1>1. ASSUME NEW v \in Worker \ {w} PROVE Unmoved(v)
  BY DEF Unmoved, CompleteSync, FailSync, Return, Goto, locals
<1>2. MovesQuietly(w)
  BY DEF MovesQuietly, Works, HoldsState, SameCore, PostersOnlyStart, Worker, Undisturbed,
     NoFaultsOf, Fault, CompleteSync, FailSync, ClearState, Return, Goto, locals
<1>3. StoresQuietly
  BY DEF StoresQuietly, SameCore, Works, HoldsState, PostersOnlyStart, Worker, Undisturbed,
     NoFaultsOf,
     Fault, DataType, CompleteSync, FailSync, ClearState
<1> QED
  BY <1>1, <1>2, <1>3 DEF QuietStep, CompleteSync, Issue, Receive, network

-----------------------------------------------------------------------------
(* Every step keeps the chains and the states sound *)

ChainInv == OneChain /\ StateSound /\ CopiesSound /\ ReadsSound /\ NextPageIsFree

LEMMA QuietKeeps ==
  ASSUME QuietStep, TypeInv, OneConnection, ChainInv
  PROVE  ChainInv'
BY QuietChain, QuietState, QuietCopies, QuietReads, QuietNextPage DEF ChainInv

\* Operations are numbered by naturals.
LEMMA OpTypes ==
  ASSUME TypeInv
  PROVE  /\ begun \in Nat
         /\ \A r \in Outstanding : r \in Request /\ r.op \in Nat /\ r.folder \in Folder
         /\ state # NoState => state \in SyncState /\ state.op \in Nat
         /\ \A w \in Worker : pc[w] \in HoldsState =>
              mem[w] \in SyncState /\ mem[w].op \in Nat
         /\ \A w \in Worker : pc[w] = "pend" => read[w].op \in Nat
<1>1. \A r \in Outstanding : r \in Request
  BY DEF TypeInv, NetworkType, Outstanding, Message
<1>2. \A r \in Outstanding : r.op \in Nat /\ r.folder \in Folder
  BY <1>1 DEF TypeInv, NetworkType, NamesItsObject, Outstanding, Request
<1> QED
  BY <1>1, <1>2 DEF TypeInv, DataType, LocalsOK, HoldsWhatItNeeds, SyncState

\* A fresh sync state has an operation number that nothing else has.
LEMMA StoreKeeps ==
  ASSUME TypeInv, OneConnection, ChainInv, NEW w \in Worker, StoreSyncState(w)
  PROVE  ChainInv'
<1> USE DEF TypeInv, LocalsOK, LocalsType
<1>1. ASSUME NEW v \in Worker \ {w} PROVE Unmoved(v)
  BY DEF Unmoved, StoreSyncState, Return, Goto
<1>2. Outstanding' = Outstanding /\ wire' = wire /\ inbox' = inbox
  BY DEF StoreSyncState, network, Outstanding
<1>3. CASE Return(w) /\ UNCHANGED <<state, begun>>
  <2>1. MovesQuietly(w)
    BY <1>3 DEF MovesQuietly, Works, HoldsState, StoreSyncState, Return, Goto
  <2>2. QuietStep
    BY <1>1, <1>2, <1>3, <2>1 DEF QuietStep, StoresQuietly, SameCore, StoreSyncState
  <2> QED
    BY <2>2, QuietKeeps
<1>4. CASE ~(Return(w) /\ UNCHANGED <<state, begun>>)
  <2>1. /\ state' = NewState(begun + 1, folders) /\ begun' = begun + 1
        /\ mem'[w] = NewState(begun + 1, folders)
        /\ todo'[w] = folders /\ pc'[w] = "request"
    BY <1>4 DEF StoreSyncState, Goto
  <2>2. /\ NewState(begun + 1, folders).op = begun + 1
        /\ NewState(begun + 1, folders).scope = folders
        /\ NewState(begun + 1, folders).completed = {}
    BY DEF NewState
  <2>3. /\ \A r \in Outstanding : r.op \in Nat /\ r.op <= begun
        /\ \A v \in Worker : pc[v] = "request" =>
             mem[v].op \in Nat /\ mem[v].op <= begun
        /\ \A c \in Conn : pc[c] \in Works =>
             mem[c].op \in Nat /\ mem[c].op <= begun
        /\ \A c \in Conn : pc[c] = "pend" =>
             read[c].op \in Nat /\ read[c].op <= begun
        /\ begun \in Nat
    BY OpTypes DEF ChainInv, OneChain, CopiesSound, ReadsSound, Sound, Works, HoldsState, Worker
  <2>4. OneChain'
    BY <1>1, <1>2, <2>1, <2>2, <2>3 DEF ChainInv, OneChain, Unmoved
  <2>5. StateSound'
    BY <1>1, <1>2, <2>1, <2>2, <2>3 DEF StateSound, Sound, Unmoved
  <2>6. CopiesSound'
    <3> SUFFICES ASSUME NEW c \in Conn, pc'[c] \in Works
                 PROVE  /\ Sound(mem[c])'
                        /\ \A r \in Outstanding' : r.op = mem'[c].op =>
                             Covers(mem[c], r.folder, r.page)'
      BY DEF CopiesSound
    <3>1. c # w /\ Unmoved(c) /\ pc[c] \in Works
      BY <1>1, <2>1 DEF Works, HoldsState, Unmoved, Worker
    <3>2. Sound(mem[c])'
      BY <1>1, <1>2, <2>1, <2>2, <2>3, <3>1
         DEF ChainInv, CopiesSound, Sound, Unmoved
    <3> QED
      BY <1>2, <3>1, <3>2 DEF ChainInv, CopiesSound, Covers, Unmoved
  <2>7. NextPageIsFree'
    <3> SUFFICES ASSUME NEW c \in Conn, pc'[c] = "paginate"
                 PROVE  NextPageIsFree'
      BY DEF NextPageIsFree
    <3>1. c # w /\ Unmoved(c) /\ pc[c] = "paginate" /\ pc[c] \in Works
      BY <1>1, <2>1 DEF Works, HoldsState, Unmoved, Worker
    <3>2. \A d \in Conn : d = c
      BY DEF OneConnection
    <3> QED
      BY <1>1, <1>2, <2>1, <2>2, <2>3, <3>1, <3>2
         DEF ChainInv, NextPageIsFree, Covers, Unmoved
  <2>8. ReadsSound'
    <3> SUFFICES ASSUME NEW c \in Conn, pc'[c] = "pend"
                 PROVE  /\ Sound(read[c])'
                        /\ \A r \in Outstanding' : r.op = read'[c].op =>
                             Covers(read[c], r.folder, r.page)'
      BY DEF ReadsSound
    <3>1. c # w /\ Unmoved(c) /\ pc[c] = "pend"
      BY <1>1, <2>1 DEF Unmoved, Worker
    <3>2. Sound(read[c])'
      BY <1>1, <1>2, <2>1, <2>2, <2>3, <3>1
         DEF ChainInv, ReadsSound, Sound, Unmoved
    <3> QED
      BY <1>2, <3>1, <3>2 DEF ChainInv, ReadsSound, Covers, Unmoved
  <2> QED
    BY <2>4, <2>5, <2>6, <2>7, <2>8 DEF ChainInv
<1> QED
  BY <1>3, <1>4

\* A page request is one more outstanding request.
LEMMA Asked ==
  ASSUME NEW f, NEW p, NEW op, Issue("folder_releases", f, p, NoFolder, op)
  PROVE  \E new : /\ new.type = "folder_releases"
                  /\ new.op = op /\ new.folder = f /\ new.page = p
                  /\ wire' = wire \cup {new} /\ inbox' = inbox
                  /\ Outstanding' = Outstanding \cup {new}
<1> DEFINE new == [id |-> issued + 1, type |-> "folder_releases", folder |-> f,
                   page |-> p, release |-> NoFolder, op |-> op]
<1>1. /\ new.type = "folder_releases"
      /\ new.op = op /\ new.folder = f /\ new.page = p
  OBVIOUS
<1>2. wire' = wire \cup {new} /\ inbox' = inbox
  BY DEF Issue
<1>3. Outstanding' = Outstanding \cup {new}
  BY <1>1, <1>2 DEF Outstanding
<1> HIDE DEF new
<1> QED
  BY <1>1, <1>2, <1>3

\* The first page of a folder is asked for once, and before any of its pages.
LEMMA RequestKeeps ==
  ASSUME TypeInv, OneConnection, ChainInv, NEW w \in Worker, RequestFolderReleases(w)
  PROVE  ChainInv'
<1> USE DEF TypeInv, LocalsOK, LocalsType
<1>1. ASSUME NEW v \in Worker \ {w} PROVE Unmoved(v)
  BY DEF Unmoved, RequestFolderReleases, Return, Goto
<1>2. PICK f \in todo[w] :
        /\ \/ Issue("folder_releases", f, 1, NoFolder, mem[w].op)
           \/ UNCHANGED network
        /\ \/ Return(w)
           \/ todo' = [todo EXCEPT ![w] = @ \ {f}] /\ UNCHANGED <<pc, mem, cur>>
  BY DEF RequestFolderReleases
<1>3. /\ pc[w] = "request" /\ state' = state /\ begun' = begun /\ mixed' = mixed
      /\ pc'[w] = "request" => mem'[w] = mem[w] /\ todo'[w] = todo[w] \ {f}
      /\ pc'[w] \in {"idle", "request"}
  BY <1>2 DEF RequestFolderReleases, Return, Goto
<1>4. CASE UNCHANGED network
  <2>1. MovesQuietly(w)
    BY <1>3 DEF MovesQuietly, Works, HoldsState
  <2>2. QuietStep
    BY <1>1, <1>3, <1>4, <2>1 DEF QuietStep, StoresQuietly, SameCore, network
  <2> QED
    BY <2>2, QuietKeeps
<1>5. CASE Issue("folder_releases", f, 1, NoFolder, mem[w].op)
  <2>1. PICK new : /\ new.type = "folder_releases"
                   /\ new.op = mem[w].op /\ new.folder = f /\ new.page = 1
                   /\ wire' = wire \cup {new} /\ inbox' = inbox
                   /\ Outstanding' = Outstanding \cup {new}
    BY <1>5, Asked
  <2>2. /\ \A r \in Outstanding : r.op = mem[w].op => r.folder # f
        /\ mem[w].op <= begun
        /\ \A v \in Worker : pc[v] = "request" /\ mem[v].op = mem[w].op => v = w
    BY <1>2, <1>3 DEF ChainInv, OneChain
  <2>3. \A m \in inbox : m.req.type = "folder_releases" => m.req \in Outstanding
    BY DEF Outstanding
  <2>4. OneChain'
    <3>1. \A m \in inbox' : m.req.type = "folder_releases" =>
            m.req \notin wire' /\ \A n \in inbox' : n.req = m.req => n = m
      BY <2>1, <2>2, <2>3 DEF ChainInv, OneChain
    <3>2. \A r, q \in Outstanding' : r.op = q.op /\ r.folder = q.folder => r = q
      BY <2>1, <2>2 DEF ChainInv, OneChain
    <3>3. \A r \in Outstanding' : r.op <= begun'
      BY <1>3, <2>1, <2>2 DEF ChainInv, OneChain
    <3>4. \A v \in Worker : pc'[v] = "request" =>
            /\ pc[v] = "request" /\ mem'[v] = mem[v]
            /\ todo'[v] \subseteq todo[v] /\ (v = w => f \notin todo'[v])
      BY <1>1, <1>3 DEF Unmoved
    <3>5. \A v \in Worker : pc'[v] = "request" =>
       /\ mem'[v].op <= begun'
       /\ \A r \in Outstanding' : r.op = mem'[v].op => r.folder \notin todo'[v]
       /\ \A u \in Worker : pc'[u] = "request" /\ mem'[u].op = mem'[v].op => u = v
      BY <1>3, <2>1, <2>2, <3>4 DEF ChainInv, OneChain
    <3> QED
      BY <3>1, <3>2, <3>3, <3>5 DEF OneChain
  <2>5. ASSUME NEW s, Sound(s)
        PROVE  /\ s.op <= begun'
               /\ s.completed \subseteq s.scope
               /\ \A i \in Item : Collection[i] \in s.completed => InPlace(s, i)
               /\ \A r \in Outstanding' : r.op = s.op => r.folder \in s.scope \ s.completed
               /\ \A v \in Worker : pc'[v] = "request" /\ mem'[v].op = s.op
                                      => todo'[v] \subseteq s.scope \ s.completed
    <3>1. \A r \in Outstanding' : r.op = s.op => r.folder \in s.scope \ s.completed
      BY <1>2, <1>3, <2>1, <2>5 DEF Sound
    <3>2. \A v \in Worker : pc'[v] = "request" =>
            pc[v] = "request" /\ mem'[v] = mem[v] /\ todo'[v] \subseteq todo[v]
      BY <1>1, <1>3 DEF Unmoved
    <3> QED
      BY <1>3, <2>5, <3>1, <3>2 DEF Sound
  <2>6. \A s : Covers(s, f, 1)
    BY ConstantsAssumption DEF Covers
  <2>7. ASSUME NEW c \in Conn, pc'[c] \in Works PROVE Unmoved(c) /\ c # w
    BY <1>1, <1>3, <2>7 DEF Works, HoldsState, Worker
  <2>8. StateSound'
    <3> SUFFICES ASSUME state' # NoState PROVE StateSound'
      BY DEF StateSound
    <3>1. Sound(state)'
      BY <1>3, <2>5 DEF ChainInv, StateSound, Sound
    <3>2. \A c \in Conn : pc[c] = "decide" => pc'[c] = "decide" /\ mem'[c] = mem[c]
      BY <1>1, <1>3 DEF Unmoved, Worker
    <3>3. \A r \in Outstanding' : r.op = state'.op =>
         \/ Covers(state, r.folder, r.page)
         \/ \E c \in Conn : pc'[c] = "decide" /\ mem'[c].op = r.op
      BY <1>3, <2>1, <2>6, <3>2 DEF ChainInv, StateSound
    <3> QED
      BY <1>3, <3>1, <3>3 DEF StateSound, Covers
  <2>9. CopiesSound'
    <3> SUFFICES ASSUME NEW c \in Conn, pc'[c] \in Works
                 PROVE  /\ Sound(mem[c])'
                        /\ \A r \in Outstanding' : r.op = mem'[c].op =>
                             Covers(mem[c], r.folder, r.page)'
      BY DEF CopiesSound
    <3>1. pc[c] \in Works /\ mem'[c] = mem[c]
      BY <2>7 DEF Unmoved
    <3>2. Sound(mem[c])'
      BY <2>5, <3>1 DEF ChainInv, CopiesSound, Sound
    <3>3. \A r \in Outstanding' : r.op = mem[c].op => Covers(mem[c], r.folder, r.page)
      BY <2>1, <2>6, <3>1 DEF ChainInv, CopiesSound
    <3> QED
      BY <3>1, <3>2, <3>3 DEF Covers
  <2>10. NextPageIsFree'
    <3> SUFFICES ASSUME NEW c \in Conn, pc'[c] = "paginate"
                 PROVE  NextPageIsFree'
      BY DEF NextPageIsFree
    <3>1. Unmoved(c) /\ pc[c] = "paginate"
      BY <2>7 DEF Works, HoldsState, Unmoved
    <3>2. \A d \in Conn : d = c
      BY DEF OneConnection
    <3>3. \A v \in Worker : pc'[v] = "request" =>
            pc[v] = "request" /\ mem'[v] = mem[v] /\ todo'[v] \subseteq todo[v]
      BY <1>1, <1>3 DEF Unmoved
    <3>4. mem[w].op = mem[c].op => cur[c].req.folder # f
      BY <1>2, <1>3, <3>1 DEF ChainInv, NextPageIsFree
    <3> QED
      BY <1>3, <2>1, <3>1, <3>2, <3>3, <3>4
         DEF ChainInv, NextPageIsFree, Covers, Unmoved
  <2>11. ReadsSound'
    <3> SUFFICES ASSUME NEW c \in Conn, pc'[c] = "pend"
                 PROVE  /\ Sound(read[c])'
                        /\ \A r \in Outstanding' : r.op = read'[c].op =>
                             Covers(read[c], r.folder, r.page)'
      BY DEF ReadsSound
    <3>1. pc[c] = "pend" /\ read'[c] = read[c]
      BY <2>7 DEF Unmoved, Works, HoldsState
    <3>2. Sound(read[c])'
      BY <2>5, <3>1 DEF ChainInv, ReadsSound, Sound
    <3>3. \A r \in Outstanding' : r.op = read[c].op => Covers(read[c], r.folder, r.page)
      BY <2>1, <2>6, <3>1 DEF ChainInv, ReadsSound
    <3> QED
      BY <3>1, <3>2, <3>3 DEF Covers
  <2> QED
    BY <2>4, <2>8, <2>9, <2>10, <2>11 DEF ChainInv
<1> QED
  BY <1>2, <1>4, <1>5

\* The next page of a folder is asked for when the page before it is merged.
LEMMA PaginateKeeps ==
  ASSUME TypeInv, PostersOnlyStart, OneConnection, ChainInv,
         NEW w \in Worker, Paginate(w)
  PROVE  ChainInv'
<1> USE DEF TypeInv, LocalsOK, LocalsType
<1> DEFINE f == cur[w].req.folder
           p == cur[w].req.page + 1
<1>1. ASSUME NEW v \in Worker \ {w} PROVE Unmoved(v)
  BY DEF Unmoved, Paginate, Return, Goto, locals
<1>2. /\ pc[w] = "paginate" /\ w \in Conn
      /\ state' = state /\ begun' = begun /\ mixed' = mixed
      /\ pc'[w] \in {"idle", "decide"}
      /\ pc'[w] = "decide" => mem'[w] = mem[w]
  BY DEF Paginate, PostersOnlyStart, Worker, Return, Goto, locals
<1>3. CASE UNCHANGED network
  <2>1. MovesQuietly(w)
    BY <1>2 DEF MovesQuietly, Works, HoldsState, SameCore
  <2>2. QuietStep
    BY <1>1, <1>2, <1>3, <2>1 DEF QuietStep, StoresQuietly, SameCore, network
  <2> QED
    BY <2>2, QuietKeeps
<1>4. CASE Issue("folder_releases", f, p, NoFolder, mem[w].op) /\ UNCHANGED locals
           /\ pc'[w] = "decide"
  <2>1. PICK new : /\ new.type = "folder_releases"
                   /\ new.op = mem[w].op /\ new.folder = f /\ new.page = p
                   /\ wire' = wire \cup {new} /\ inbox' = inbox
                   /\ Outstanding' = Outstanding \cup {new}
    BY <1>4, Asked
  <2>2. /\ Covers(mem[w], f, p)
        /\ f \in mem[w].scope \ mem[w].completed
        /\ \A r \in Outstanding : r.op = mem[w].op => r.folder # f
        /\ \A v \in Worker : pc[v] = "request" /\ mem[v].op = mem[w].op => f \notin todo[v]
        /\ state # NoState /\ state.op = mem[w].op => f \in state.scope \ state.completed
    BY <1>2 DEF ChainInv, NextPageIsFree
  <2>3. \A m \in inbox : m.req.type = "folder_releases" => m.req \in Outstanding
    BY DEF Outstanding
  <2>4. Sound(mem[w]) /\ mem[w].op <= begun
    BY <1>2 DEF ChainInv, CopiesSound, Works, HoldsState, Sound
  <2>5. \A v \in Worker : pc'[v] = "request" =>
          pc[v] = "request" /\ mem'[v] = mem[v] /\ todo'[v] = todo[v]
    BY <1>1, <1>2 DEF Unmoved
  <2>6. OneChain'
    <3>1. \A m \in inbox' : m.req.type = "folder_releases" =>
            m.req \notin wire' /\ \A n \in inbox' : n.req = m.req => n = m
      BY <2>1, <2>2, <2>3 DEF ChainInv, OneChain
    <3>2. \A r, q \in Outstanding' : r.op = q.op /\ r.folder = q.folder => r = q
      BY <2>1, <2>2 DEF ChainInv, OneChain
    <3>3. \A r \in Outstanding' : r.op <= begun'
      BY <1>2, <2>1, <2>4 DEF ChainInv, OneChain
    <3>4. \A v \in Worker : pc'[v] = "request" =>
       /\ mem'[v].op <= begun'
       /\ \A r \in Outstanding' : r.op = mem'[v].op => r.folder \notin todo'[v]
       /\ \A u \in Worker : pc'[u] = "request" /\ mem'[u].op = mem'[v].op => u = v
      BY <1>2, <2>1, <2>2, <2>5 DEF ChainInv, OneChain
    <3> QED
      BY <3>1, <3>2, <3>3, <3>4 DEF OneChain
  <2>7. ASSUME NEW s, Sound(s), s.op = mem[w].op => f \in s.scope \ s.completed
        PROVE  /\ s.op <= begun'
               /\ s.completed \subseteq s.scope
               /\ \A i \in Item : Collection[i] \in s.completed => InPlace(s, i)
               /\ \A r \in Outstanding' : r.op = s.op => r.folder \in s.scope \ s.completed
               /\ \A v \in Worker : pc'[v] = "request" /\ mem'[v].op = s.op
                                      => todo'[v] \subseteq s.scope \ s.completed
    BY <1>2, <2>1, <2>5, <2>7 DEF Sound
  <2>8. StateSound'
    <3> SUFFICES ASSUME state' # NoState PROVE StateSound'
      BY DEF StateSound
    <3>1. Sound(state)'
      BY <1>2, <2>2, <2>7 DEF ChainInv, StateSound, Sound
    <3>2. pc'[w] = "decide" /\ mem'[w] = mem[w]
      BY <1>2, <1>4
    <3>3. \A c \in Conn : c = w
      BY <1>2 DEF OneConnection
    <3>4. \A r \in Outstanding' : r.op = state'.op =>
         \/ Covers(state, r.folder, r.page)
         \/ \E c \in Conn : pc'[c] = "decide" /\ mem'[c].op = r.op
      BY <1>2, <2>1, <3>2, <3>3 DEF ChainInv, StateSound
    <3> QED
      BY <1>2, <3>1, <3>4 DEF StateSound, Covers
  <2>9. CopiesSound'
    <3> SUFFICES ASSUME NEW c \in Conn, pc'[c] \in Works
                 PROVE  /\ Sound(mem[c])'
                        /\ \A r \in Outstanding' : r.op = mem'[c].op =>
                             Covers(mem[c], r.folder, r.page)'
      BY DEF CopiesSound
    <3>1. c = w /\ mem'[c] = mem[w] /\ pc[w] \in Works
      BY <1>2, <1>4 DEF OneConnection, Works, HoldsState
    <3>2. Sound(mem[c])'
      BY <2>2, <2>4, <2>7, <3>1 DEF Sound
    <3>3. \A r \in Outstanding' : r.op = mem[w].op => Covers(mem[w], r.folder, r.page)
      BY <1>2, <2>1, <2>2, <3>1 DEF ChainInv, CopiesSound
    <3> QED
      BY <3>1, <3>2, <3>3 DEF Covers
  <2>10. NextPageIsFree'
    BY <1>2 DEF NextPageIsFree, OneConnection
  <2>11. ReadsSound'
    BY <1>2, <1>4 DEF ReadsSound, OneConnection
  <2> QED
    BY <2>6, <2>8, <2>9, <2>10, <2>11 DEF ChainInv
<1> QED
  BY <1>3, <1>4 DEF Paginate, Goto

\* What is taken of a page fills the state, or is all of the page.
LEMMA MergeFits ==
  ASSUME TypeInv, state # NoState, NEW m \in inbox, m.req.folder \in Folder,
         NEW T \in Taken(state, m),
         NEW s, s.merged = [i \in Item |-> IF i \in T THEN m.req.folder ELSE state.merged[i]]
  PROVE  /\ T \subseteq ItemsOn(m)
         /\ Fits(s.merged) => Fits(state.merged) /\ T = ItemsOn(m)
<1>1. T \subseteq ItemsOn(m) /\ ItemsOn(m) \subseteq Item
  BY TakenFromPage DEF ItemsOn
<1>2. {i \in Item : s.merged[i] # NoFolder} = MergedItems(state) \cup T
  BY <1>1, ConstantsAssumption DEF MergedItems
<1>3. CASE Roomy(state)
  <2>1. Fits(state.merged)
    BY <1>3 DEF Roomy, Fits, MergedItems
  <2>2. PICK n : n = Cardinality(MergedItems(state) \cup T)
    OBVIOUS
  <2>3. n = MaxReleases \/ (n < MaxReleases /\ T = ItemsOn(m))
    BY <1>3, <2>2 DEF Taken
  <2>4. Fits(s.merged) => n < MaxReleases
    BY <1>2, <2>2 DEF Fits
  <2> QED
    BY <1>1, <2>1, <2>3, <2>4, ConstantsAssumption
<1>4. CASE ~Roomy(state)
  <2>1. T = {}
    BY <1>4 DEF Taken
  <2>2. {i \in Item : s.merged[i] # NoFolder} = MergedItems(state)
    BY <1>2, <2>1
  <2>3. ~Fits(s.merged)
    BY <1>4, <2>2 DEF Roomy, Fits
  <2> QED
    BY <1>1, <2>3
<1> QED
  BY <1>3, <1>4

\* A page is merged into the state of its own operation, which holds the
\* instances of all the pages before it, if there was room for them.
LEMMA ReceivePageKeeps ==
  ASSUME TypeInv, PostersOnlyStart, NoErrorPages, Undisturbed, ChainInv,
         NEW w \in Worker, ReceivePage(w), ~mixed'
  PROVE  ChainInv'
<1> USE DEF TypeInv, LocalsOK, LocalsType
<1>1. ASSUME NEW v \in Worker \ {w} PROVE Unmoved(v)
  BY DEF Unmoved, ReceivePage, FailSync, Return, Goto, locals
<1>2. PICK m \in inbox :
        /\ Receive(w, m) /\ m.req.type = "folder_releases"
        /\ \/ FailSync(w) /\ UNCHANGED mixed
           \/ state = NoState /\ UNCHANGED <<locals, state, event, pc, mixed>>
           \/ /\ m.kind # "network" /\ state # NoState
              /\ \E T \in Taken(state, m) : mem' = [mem EXCEPT ![w] = Merge(state, m, T)]
              /\ cur' = [cur EXCEPT ![w] = m]
              /\ Goto(w, IF HasNextPage(m) THEN "paginate" ELSE "decide")
              /\ mixed' = (mixed \/ m.req.op # state.op)
              /\ UNCHANGED <<state, event, read, todo, sent, ops>>
  BY DEF ReceivePage, Undisturbed, NoFaultsOf, Fault
<1>3. /\ w \in Conn /\ pc[w] = "idle" /\ inbox' = inbox \ {m} /\ wire' = wire
      /\ begun' = begun
  BY <1>2 DEF Receive, ReceivePage
<1>4. CASE \/ FailSync(w) /\ UNCHANGED mixed
           \/ state = NoState /\ UNCHANGED <<locals, state, event, pc, mixed>>
  <2>1. MovesQuietly(w)
    BY <1>3, <1>4 DEF MovesQuietly, Works, HoldsState, FailSync, Return, Goto, locals
  <2>2. state' = NoState
    BY <1>4 DEF FailSync, ClearState, Undisturbed, NoFaultsOf, Fault
  <2>3. mixed' = mixed
    BY <1>4
  <2>4. QuietStep
    BY <1>1, <1>3, <2>1, <2>2, <2>3 DEF QuietStep, StoresQuietly
  <2> QED
    BY <2>4, QuietKeeps DEF Undisturbed
<1>5. ASSUME m.kind # "network", state # NoState,
             NEW T \in Taken(state, m), mem' = [mem EXCEPT ![w] = Merge(state, m, T)],
             cur' = [cur EXCEPT ![w] = m],
             Goto(w, IF HasNextPage(m) THEN "paginate" ELSE "decide"),
             mixed' = (mixed \/ m.req.op # state.op),
             UNCHANGED <<state, event, read, todo, sent, ops>>
      PROVE  ChainInv'
  <2> DEFINE f == m.req.folder
             s == Merge(state, m, T)
  <2>1. /\ m.kind = "ok" /\ m.req \in Outstanding /\ m.req.op = state.op
        /\ f \in Folder /\ m.req.page \in Nat
    <3>1. m \in Message /\ f \in Folder
      BY <1>2 DEF NetworkType, NamesItsObject
    <3>2. m.kind = "ok" /\ m.req.page \in Nat
      BY <1>5, <3>1 DEF NoErrorPages, Message, Request
    <3> QED
      BY <1>2, <1>5, <3>1, <3>2 DEF Outstanding
  <2>2. /\ state \in SyncState /\ Sound(state)
        /\ \A r \in Outstanding : r.op = state.op => Covers(state, r.folder, r.page)
    <3>1. \A c \in Conn : pc[c] # "decide"
      BY <1>3 DEF Undisturbed, OneConnection
    <3> QED
      BY <1>5, <3>1 DEF DataType, ChainInv, StateSound
  <2>3. f \in state.scope \ state.completed /\ Covers(state, f, m.req.page)
    BY <2>1, <2>2 DEF Sound
  <2>4. /\ s.op = state.op /\ s.scope = state.scope
        /\ s.completed = IF HasNextPage(m) THEN state.completed
                         ELSE state.completed \cup {f}
        /\ s.merged = [i \in Item |-> IF i \in T THEN f ELSE state.merged[i]]
    BY <2>2 DEF Merge, SyncState
  <2>5. /\ T \subseteq ItemsOn(m)
        /\ Fits(s.merged) => Fits(state.merged) /\ T = ItemsOn(m)
        /\ \A i \in Item \ Unidentified :
             i \in ItemsOn(m) <=> Collection[i] = f /\ PageOf[i] = m.req.page
        /\ \A i \in T : Collection[i] = f
    <3>1. /\ T \subseteq ItemsOn(m)
          /\ Fits(s.merged) => Fits(state.merged) /\ T = ItemsOn(m)
      BY <1>5, <2>1, <2>4, MergeFits
    <3> QED
      BY <2>1, <3>1 DEF ItemsOn
  <2>6. /\ mem'[w] = s /\ cur'[w] = m /\ state' = state
        /\ pc'[w] = IF HasNextPage(m) THEN "paginate" ELSE "decide"
    BY <1>5 DEF Goto
  <2> HIDE DEF s
  <2>7. Outstanding' = Outstanding \ {m.req}
    <3>1. \A n \in inbox : n.req = m.req => n = m
      BY <1>2 DEF ChainInv, OneChain
    <3>2. m.req \notin wire
      BY <1>2 DEF ChainInv, OneChain
    <3> QED
      BY <1>3, <3>1, <3>2 DEF Outstanding
  <2>8. \A r \in Outstanding' : r \in Outstanding /\ (r.op = s.op => r.folder # f)
    BY <2>1, <2>4, <2>7 DEF ChainInv, OneChain
  <2>9. \A v \in Worker : pc'[v] = "request" =>
          /\ pc[v] = "request" /\ mem'[v] = mem[v] /\ todo'[v] = todo[v]
          /\ mem[v].op = s.op => f \notin todo[v]
    <3>1. \A v \in Worker : pc'[v] = "request" =>
            pc[v] = "request" /\ mem'[v] = mem[v] /\ todo'[v] = todo[v]
      BY <1>1, <2>6 DEF Unmoved
    <3> QED
      BY <2>1, <2>4, <3>1 DEF ChainInv, OneChain
  <2>10. Covers(s, f, m.req.page + 1)
    <3> SUFFICES ASSUME NEW i \in Item \ Unidentified, Fits(s.merged),
                        Collection[i] = f, PageOf[i] < m.req.page + 1
                 PROVE  s.merged[i] = f
      BY DEF Covers, InPlace
    <3>1. PageOf[i] \in Nat
      BY ConstantsAssumption
    <3>2. CASE PageOf[i] = m.req.page
      BY <2>4, <2>5, <3>2
    <3>3. CASE PageOf[i] < m.req.page
      BY <2>3, <2>4, <2>5, <3>3 DEF Covers, InPlace
    <3> QED
      BY <2>1, <3>1, <3>2, <3>3
  <2>11. \A i \in Item : Collection[i] \in s.completed => InPlace(s, i)
    <3> SUFFICES ASSUME NEW i \in Item, Collection[i] \in s.completed
                 PROVE  InPlace(s, i)
      OBVIOUS
    <3>1. CASE Collection[i] \in state.completed
      BY <2>2, <2>4, <2>5, <3>1 DEF Sound, InPlace
    <3>2. CASE Collection[i] \notin state.completed
      <4>1. Collection[i] = f /\ ~HasNextPage(m)
        BY <2>4, <3>2
      <4>2. PageOf[i] \in Nat /\ LastPage[f] \in Nat /\ PageOf[i] <= LastPage[f]
        BY <2>1, <4>1, ConstantsAssumption
      <4>3. LastPage[f] <= m.req.page
        BY <2>1, <4>1, <4>2 DEF HasNextPage
      <4> QED
        BY <2>1, <2>10, <4>1, <4>2, <4>3 DEF Covers
    <3> QED
      BY <3>1, <3>2
  <2>12. OneChain'
    <3>1. \A n \in inbox' : n.req.type = "folder_releases" =>
            n.req \notin wire' /\ \A o \in inbox' : o.req = n.req => o = n
      BY <1>3 DEF ChainInv, OneChain
    <3> QED
      BY <1>3, <2>8, <2>9, <3>1 DEF ChainInv, OneChain
  <2>13. StateSound'
    <3>1. Sound(state)'
      BY <1>3, <2>2, <2>6, <2>8, <2>9 DEF Sound
    <3>2. \A r \in Outstanding' : r.op = state.op => Covers(state, r.folder, r.page)
      BY <2>2, <2>8
    <3> QED
      BY <2>6, <3>1, <3>2 DEF StateSound, Covers
  <2>14. CopiesSound'
    <3> SUFFICES ASSUME NEW c \in Conn, pc'[c] \in Works
                 PROVE  /\ Sound(mem[c])'
                        /\ \A r \in Outstanding' : r.op = mem'[c].op =>
                             Covers(mem[c], r.folder, r.page)'
      BY DEF CopiesSound
    <3>1. mem'[c] = s
      BY <1>3, <2>6 DEF Undisturbed, OneConnection
    <3>2. /\ s.op <= begun' /\ s.completed \subseteq s.scope
          /\ \A r \in Outstanding' : r.op = s.op => r.folder \in s.scope \ s.completed
          /\ \A v \in Worker : pc'[v] = "request" /\ mem'[v].op = s.op
                                 => todo'[v] \subseteq s.scope \ s.completed
      BY <1>3, <2>2, <2>3, <2>4, <2>8, <2>9 DEF Sound
    <3>3. \A r \in Outstanding' : r.op = s.op => Covers(s, r.folder, r.page)
      BY <2>2, <2>4, <2>5, <2>8 DEF Covers, InPlace
    <3> QED
      BY <2>11, <3>1, <3>2, <3>3 DEF Sound, Covers
  <2>15. NextPageIsFree'
    <3> SUFFICES ASSUME NEW c \in Conn, pc'[c] = "paginate"
                 PROVE  NextPageIsFree'
      BY DEF NextPageIsFree
    <3>1. c = w /\ \A d \in Conn : d = w
      BY <1>3 DEF Undisturbed, OneConnection
    <3>2. HasNextPage(m)
      BY <2>6, <3>1
    <3>3. f \in s.scope \ s.completed /\ f \in state.scope \ state.completed
      BY <2>3, <2>4, <3>2
    <3> QED
      BY <2>6, <2>8, <2>9, <2>10, <3>1, <3>3 DEF NextPageIsFree, Covers
  <2>16. ReadsSound'
    BY <1>3, <2>6 DEF ReadsSound, Undisturbed, OneConnection
  <2> QED
    BY <2>12, <2>13, <2>14, <2>15, <2>16 DEF ChainInv
<1> QED
  BY <1>2, <1>4, <1>5

LEMMA EnvironmentKeeps ==
  ASSUME TypeInv, Undisturbed, ChainInv, Environment \/ UNCHANGED vars
  PROVE  ChainInv'
<1>1. CASE Answer
  <2>1. PICK r \in wire, k \in {"ok", "http", "network"} :
          wire' = wire \ {r} /\ inbox' = inbox \cup {[req |-> r, kind |-> k]}
    BY <1>1 DEF Answer
  <2>2. /\ begun' = begun /\ state' = state /\ pc' = pc /\ mem' = mem
        /\ read' = read /\ cur' = cur /\ todo' = todo
    BY <1>1 DEF Answer, locals
  <2>3. Outstanding' = Outstanding
    <3> DEFINE a == [req |-> r, kind |-> k]
    <3>1. a.req = r /\ inbox' = inbox \cup {a}
      BY <2>1
    <3> HIDE DEF a
    <3>2. {m.req : m \in inbox'} = {m.req : m \in inbox} \cup {r}
      BY <3>1
    <3>3. wire' \cup {m.req : m \in inbox'} = wire \cup {m.req : m \in inbox}
      BY <2>1, <3>2
    <3> QED
      BY <3>3 DEF Outstanding
  <2>4. \A m \in inbox' : m.req.type = "folder_releases" =>
            m.req \notin wire' /\ \A n \in inbox' : n.req = m.req => n = m
    BY <2>1 DEF ChainInv, OneChain
  <2>5. OneChain'
    BY <2>2, <2>3, <2>4 DEF ChainInv, OneChain
  <2>6. StateSound'
    BY <2>2, <2>3 DEF ChainInv, StateSound, Sound, Covers
  <2>7. CopiesSound'
    BY <2>2, <2>3 DEF ChainInv, CopiesSound, Sound, Covers
  <2>8. NextPageIsFree'
    BY <2>2, <2>3 DEF ChainInv, NextPageIsFree, Covers
  <2>9. ReadsSound'
    BY <2>2, <2>3 DEF ChainInv, ReadsSound, Sound, Covers
  <2> QED
    BY <2>5, <2>6, <2>7, <2>8, <2>9 DEF ChainInv
<1>2. CASE ~Answer
  <2>1. ~Crash
    BY DEF Crash, Undisturbed, NoFaultsOf, Fault
  <2>2. \A v \in Worker : Unmoved(v)
    BY <1>2, <2>1 DEF Environment, Lose, ExpireMetadata, ExpireState, AgeState,
                      vars, Unmoved, locals
  <2>3. /\ inbox' \subseteq inbox /\ wire' \subseteq wire
        /\ begun' = begun /\ mixed' = mixed
    BY <1>2, <2>1 DEF Environment, Lose, ExpireMetadata, ExpireState, AgeState,
                      vars, network
  <2>4. state' = NoState \/ (state # NoState /\ SameCore(state', state))
    <3>1. CASE AgeState
      BY <3>1 DEF AgeState, SameCore, TypeInv, DataType, SyncState
    <3>2. CASE ~AgeState
      BY <1>2, <2>1, <3>2 DEF Environment, Lose, ExpireMetadata, ExpireState, vars, SameCore
    <3> QED
      BY <3>1, <3>2
  <2>5. QuietStep
    BY <2>2, <2>3, <2>4 DEF QuietStep, StoresQuietly
  <2> QED
    BY <2>5, QuietKeeps DEF Undisturbed
<1> QED
  BY <1>1, <1>2

\* Posters run the start of a sync only.
LEMMA PostersStep ==
  ASSUME TypeInv, PostersOnlyStart, [Next]_vars
  PROVE  PostersOnlyStart'
<1> SUFFICES ASSUME NEW p \in Poster
             PROVE  pc'[p] \in {"idle", "discover", "check", "store", "request"}
  BY DEF PostersOnlyStart
<1> USE ConstantsAssumption DEF TypeInv, LocalsOK, LocalsType, Worker
<1>1. CASE Environment \/ UNCHANGED vars
  BY <1>1 DEF PostersOnlyStart, vars, Environment, Answer, Lose, ExpireMetadata,
              ExpireState, AgeState, Crash
<1>2. ASSUME NEW w \in Worker, Post(w) \/ StartSync(w)
      PROVE  pc'[p] \in {"idle", "discover", "check", "store", "request"}
  BY <1>2 DEF PostersOnlyStart, Post, PostSync, RequestUserFolders, StartSync,
              CheckInProgress, StoreSyncState, RequestFolderReleases, Return, Goto
<1>3. ASSUME NEW w \in Worker, HandleResponse(w)
      PROVE  pc'[p] \in {"idle", "discover", "check", "store", "request"}
  <2>1. CASE w # p
    <3>1. CASE \/ ReceiveUnknown(w) \/ ReceiveFolders(w) \/ UpsertFolders(w)
               \/ DeleteOrphanFolders(w) \/ SelectDefaultFolder(w)
               \/ ReceivePage(w) \/ Paginate(w) \/ SaveProgress(w)
      BY <2>1, <3>1 DEF PostersOnlyStart, ReceiveUnknown, ReceiveFolders,
         UpsertFolders, DeleteOrphanFolders, SelectDefaultFolder, ReceivePage, Paginate,
         SaveProgress, FailSync, Return, Goto
    <3>2. CASE \/ ValidateReleases(w) \/ SkipValidation(w) \/ MissingToken(w)
               \/ RequestRelease(w) \/ ReadPending(w) \/ WritePending(w) \/ RecordValidation(w)
      BY <2>1, <3>2 DEF PostersOnlyStart, ValidateReleases, SkipValidation,
         MissingToken, RequestRelease, ReadPending, WritePending, RecordValidation, FailSync,
         Return, Goto
    <3>3. CASE \/ ReceiveRelease(w) \/ SettlePending(w) \/ TriggerSyncCompletion(w)
               \/ AnalyzeDifferentialSync(w) \/ ExecuteSyncOperations(w)
               \/ ExtractBasicInformation(w) \/ CompleteSync(w)
      BY <2>1, <3>3 DEF PostersOnlyStart, ReceiveRelease, SettlePending,
         TriggerSyncCompletion, AnalyzeDifferentialSync, ExecuteSyncOperations,
         ExtractBasicInformation, CompleteSync, FailSync, Return, Goto
    <3> QED
      BY <1>3, <3>1, <3>2, <3>3 DEF HandleResponse
  <2>2. CASE w = p
    <3>1. w \notin Conn /\ pc[w] \in {"idle", "discover", "check", "store", "request"}
      BY <2>2 DEF PostersOnlyStart
    <3>2. ~(\/ ReceiveUnknown(w) \/ ReceiveFolders(w) \/ ReceivePage(w)
            \/ ReceiveRelease(w))
      BY <3>1 DEF ReceiveUnknown, ReceiveFolders, ReceivePage, ReceiveRelease, Receive
    <3>3. ~(\/ UpsertFolders(w) \/ DeleteOrphanFolders(w) \/ SelectDefaultFolder(w) \/ Paginate(w) \/ SaveProgress(w)
            \/ ValidateReleases(w) \/ SkipValidation(w) \/ MissingToken(w)
            \/ RequestRelease(w) \/ ReadPending(w) \/ WritePending(w) \/ RecordValidation(w))
      BY <3>1 DEF UpsertFolders, DeleteOrphanFolders, SelectDefaultFolder, Paginate,
         SaveProgress, ValidateReleases,
         SkipValidation, MissingToken, RequestRelease, ReadPending, WritePending,
         RecordValidation
    <3>4. ~(\/ SettlePending(w) \/ TriggerSyncCompletion(w)
            \/ AnalyzeDifferentialSync(w) \/ ExecuteSyncOperations(w)
            \/ ExtractBasicInformation(w) \/ CompleteSync(w))
      BY <3>1 DEF SettlePending, TriggerSyncCompletion, AnalyzeDifferentialSync,
         ExecuteSyncOperations, ExtractBasicInformation, CompleteSync
    <3> QED
      BY <1>3, <3>2, <3>3, <3>4 DEF HandleResponse
  <2> QED
    BY <2>1, <2>2
<1> QED
  BY <1>1, <1>2, <1>3 DEF Next, Work

\* No answer is an HTTP error if Discogs answers none.
LEMMA NoErrorPagesStep ==
  ASSUME NoErrorPages, Undisturbed, [Next]_vars
  PROVE  NoErrorPages'
<1>1. CASE Answer
  BY <1>1 DEF NoErrorPages, Answer, Undisturbed, NoFaultsOf, Fault
<1>2. ASSUME NEW w \in Worker, Work(w) PROVE inbox' \subseteq inbox
  BY <1>2 DEF Work, Post, PostSync, RequestUserFolders, StartSync,
     CheckInProgress, StoreSyncState, RequestFolderReleases, HandleResponse,
     ReceiveUnknown, ReceiveFolders, UpsertFolders, DeleteOrphanFolders, SelectDefaultFolder,
     ReceivePage, Paginate,
     SaveProgress, ValidateReleases, SkipValidation, MissingToken, RequestRelease,
     ReadPending, WritePending, RecordValidation, ReceiveRelease, SettlePending,
     TriggerSyncCompletion, AnalyzeDifferentialSync, ExecuteSyncOperations,
     ExtractBasicInformation, CompleteSync, Receive, Issue, network
<1>3. CASE (Environment \/ UNCHANGED vars) /\ ~Answer
  BY <1>3 DEF NoErrorPages, Environment, Lose, ExpireMetadata, ExpireState,
              AgeState, Crash, network, vars
<1> QED
  BY <1>1, <1>2, <1>3 DEF NoErrorPages, Next

LEMMA ChainStep ==
  ASSUME TypeInv, PostersOnlyStart, NoErrorPages, Undisturbed, ChainInv,
         [Next]_vars, ~mixed'
  PROVE  ChainInv'
<1> USE DEF Undisturbed
<1>1. CASE Environment \/ UNCHANGED vars
  BY <1>1, EnvironmentKeeps
<1>2. ASSUME NEW w \in Worker, Post(w) \/ StartSync(w) PROVE ChainInv'
  BY <1>2, QuietKeeps, PostSyncIsQuiet, RequestUserFoldersIsQuiet,
     CheckInProgressIsQuiet, StoreKeeps, RequestKeeps DEF Post, StartSync
<1>3. ASSUME NEW w \in Worker, HandleResponse(w) PROVE ChainInv'
  BY <1>3, QuietKeeps, ReceiveUnknownIsQuiet, ReceiveFoldersIsQuiet,
     UpsertFoldersIsQuiet, DeleteOrphanFoldersIsQuiet, SelectDefaultFolderIsQuiet,
     ReceivePageKeeps, PaginateKeeps, SaveProgressIsQuiet,
     ValidateReleasesIsQuiet, SkipValidationIsQuiet, MissingTokenIsQuiet,
     RequestReleaseIsQuiet, ReadPendingIsQuiet, WritePendingIsQuiet, RecordValidationIsQuiet,
     ReceiveReleaseIsQuiet, SettlePendingIsQuiet, TriggerSyncCompletionIsQuiet,
     AnalyzeDifferentialSyncIsQuiet, ExecuteSyncOperationsIsQuiet,
     ExtractBasicInformationIsQuiet, CompleteSyncIsQuiet
     DEF HandleResponse
<1> QED
  BY <1>1, <1>2, <1>3 DEF Next, Work

-----------------------------------------------------------------------------
(* The theorem *)

\* What is about to be deleted is in no complete folder, or there was no room for
\* it: an active row of a complete folder's instance has been merged, and its
\* release has a row.
LEMMA PlannedDeletesStep ==
  ASSUME TypeInv, RowsReferToReleases, CopiesSound, PlannedDeletesAreGone, [Next]_vars
  PROVE  PlannedDeletesAreGone'
<1> SUFFICES ASSUME NEW c \in Conn, pc'[c] = "execute", NEW i \in ops'[c].delete,
                    i \notin Unidentified
             PROVE  Collection[i] \in mem'[c].completed => ~Fits(mem'[c].merged)
  BY DEF PlannedDeletesAreGone
<1>1. CASE pc[c] = "execute" /\ ops'[c] = ops[c] /\ mem'[c] = mem[c]
  BY <1>1 DEF PlannedDeletesAreGone
<1>2. CASE pc[c] = "analyze" /\ mem'[c] = mem[c] /\ ops'[c] = Difference(mem[c])
  <2>1. Sound(mem[c]) /\ mem[c].completed \subseteq Folder
    BY <1>2 DEF CopiesSound, Works, HoldsState, TypeInv, LocalsOK,
                HoldsWhatItNeeds, SyncState, Worker
  <2>2. /\ i \in Item /\ owned[i] \in Folder
        /\ mem[c].merged[i] = NoFolder \/ ReleaseOf[i] \notin rows
    BY <1>2 DEF Difference, MergedItems
  <2>3. ReleaseOf[i] \in rows
    BY <2>2, ConstantsAssumption DEF RowsReferToReleases
  <2> QED
    BY <1>2, <2>1, <2>2, <2>3, ConstantsAssumption DEF Sound, InPlace
<1> QED
  BY <1>1, <1>2, PlanStep DEF Worker

SafeInv ==
  /\ PostersOnlyStart /\ NoErrorPages
  /\ ~mixed => ChainInv /\ PlannedDeletesAreGone

\* Nothing clears the history variable.
LEMMA MixedStays == mixed \in BOOLEAN /\ mixed /\ [Next]_vars => mixed'
<1> SUFFICES ASSUME mixed, [Next]_vars PROVE mixed'
  OBVIOUS
<1>1. CASE Environment \/ UNCHANGED vars
  BY <1>1 DEF vars, Environment, Answer, Lose, ExpireMetadata, ExpireState,
              AgeState, Crash
<1>2. ASSUME NEW w \in Worker, Work(w) PROVE mixed'
  BY <1>2 DEF Work, Post, PostSync, RequestUserFolders, StartSync,
     CheckInProgress, StoreSyncState, RequestFolderReleases, HandleResponse,
     ReceiveUnknown, ReceiveFolders, UpsertFolders, DeleteOrphanFolders, SelectDefaultFolder,
     ReceivePage, Paginate,
     SaveProgress, ValidateReleases, SkipValidation, MissingToken, RequestRelease,
     ReadPending, WritePending, RecordValidation, ReceiveRelease, SettlePending,
     TriggerSyncCompletion, AnalyzeDifferentialSync, ExecuteSyncOperations,
     ExtractBasicInformation, CompleteSync
<1> QED
  BY <1>1, <1>2 DEF Next

LEMMA SafeInvInit == Init => SafeInv
<1> SUFFICES ASSUME Init PROVE SafeInv
  OBVIOUS
<1>1. /\ Outstanding = {} /\ inbox = {} /\ state = NoState
      /\ \A w \in Worker : pc[w] = "idle"
  BY DEF Init, Outstanding
<1>2. PostersOnlyStart /\ NoErrorPages
  BY <1>1 DEF PostersOnlyStart, NoErrorPages, Worker
<1>3. ChainInv /\ PlannedDeletesAreGone
  BY <1>1 DEF ChainInv, OneChain, StateSound, CopiesSound, ReadsSound, NextPageIsFree,
              PlannedDeletesAreGone, Works, HoldsState, Worker
<1> QED
  BY <1>2, <1>3 DEF SafeInv

LEMMA SafeInvInductive ==
  ASSUME TypeInv, RowsReferToReleases, Undisturbed, SafeInv, [Next]_vars
  PROVE  SafeInv'
<1>1. PostersOnlyStart' /\ NoErrorPages'
  BY PostersStep, NoErrorPagesStep DEF SafeInv
<1>2. ASSUME ~mixed' PROVE ChainInv' /\ PlannedDeletesAreGone'
  <2>1. ~mixed
    BY <1>2, MixedStays DEF TypeInv, DataType
  <2>2. ChainInv'
    BY <1>2, <2>1, ChainStep DEF SafeInv
  <2>3. PlannedDeletesAreGone'
    BY <2>1, PlannedDeletesStep DEF SafeInv, ChainInv
  <2> QED
    BY <2>2, <2>3
<1> QED
  BY <1>1, <1>2 DEF SafeInv

\* No sync that holds fewer than MaxReleases instances deletes a release which is
\* listed with an id and which its owner has in a folder marked complete
\* (pagination, completion and analyzeDifferentialSync in folders.service.go),
\* whatever the collection and the number of syncs, and although requests are lost
\* or fail, entries expire and the database fails, under what the code relies on.
THEOREM CompleteFoldersAreKept ==
  ASSUME Undisturbed
  PROVE  Spec => []CompleteFoldersKeepReleases
<1>1. SafeInv => CompleteFoldersKeepReleases
  <2> SUFFICES ASSUME SafeInv, ~mixed, NEW w \in Worker, NEW i \in Item \ Unidentified,
                      pc[w] = "execute", i \in ops[w].delete,
                      Collection[i] \in mem[w].completed
               PROVE  ~Roomy(mem[w])
    BY DEF CompleteFoldersKeepReleases
  <2>1. w \in Conn
    BY DEF SafeInv, PostersOnlyStart, Worker
  <2>2. ~Fits(mem[w].merged)
    BY <2>1 DEF SafeInv, PlannedDeletesAreGone
  <2> QED
    BY <2>2 DEF Roomy, Fits, MergedItems
<1>2. TypeInv /\ RowsReferToReleases /\ SafeInv /\ [Next]_vars => SafeInv'
  BY SafeInvInductive
<1> QED
  BY <1>1, <1>2, SafeInvInit, TypeInvHolds, RowsAlwaysReferToReleases, PTL DEF Spec

-----------------------------------------------------------------------------
(* What is merged is true, and what is planned is current                  *)

SameRecord(s, t) ==
  /\ SameCore(s, t)
  /\ s.complete = t.complete /\ s.validated = t.validated /\ s.missing = t.missing

\* The instances merged into a sync state are listed with an id, in the folders Discogs has
\* them in, folders of the sync.
TrueMerges(s) ==
  \A i \in Item : s.merged[i] # NoFolder =>
    i \notin Unidentified /\ s.merged[i] = Collection[i] /\ Collection[i] \in s.scope

\* A sync state is complete when its releases have been validated; then its folders are
\* complete, and a release that is not known is missing.
Checked(s, known) ==
  /\ s.complete = s.validated
  /\ s.validated => FoldersDone(s)
  /\ s.validated /\ s.missing = {} => MergedReleases(s) \subseteq known

\* The labels of a handler whose copy is validated.
Late == {"missing", "pend", "record", "analyze", "execute", "extract", "cleanup"}

StateTrue == state # NoState => TrueMerges(state) /\ Checked(state, rows)

CopiesTrue ==
  \A c \in Conn : pc[c] \in Works =>
    /\ TrueMerges(mem[c]) /\ Checked(mem[c], rows)
    /\ pc[c] \in Late => mem[c].validated

ReadsTrue ==
  \A c \in Conn : pc[c] = "pend" => TrueMerges(read[c]) /\ Checked(read[c], rows)

\* What was planned is still what the rows need.
PlansAreCurrent ==
  \A c \in Conn : pc[c] = "execute" /\ mem[c].missing = {} => ops[c] = Difference(mem[c])

\* Where a stored sync state comes from.
LEMMA StoredState ==
  ASSUME TypeInv, PostersOnlyStart, [Next]_vars, state' # NoState
  PROVE  \/ state # NoState /\ SameRecord(state', state)
         \/ \E c \in Conn : pc[c] \in Works /\ SameRecord(state', mem[c])
         \/ \E c \in Conn : pc[c] = "pend" /\ SameRecord(state', read[c])
         \/ state' = NewState(begun + 1, folders)
<1> USE DEF SameRecord, SameCore
<1>1. CASE Environment \/ UNCHANGED vars
  <2>1. CASE AgeState
    BY <2>1 DEF AgeState, TypeInv, DataType, SyncState
  <2>2. CASE ~AgeState
    BY <1>1, <2>2 DEF Environment, Answer, Lose, ExpireMetadata, ExpireState, Crash, vars
  <2> QED
    BY <2>1, <2>2
<1>2. ASSUME NEW w \in Worker, Post(w) \/ StartSync(w)
      PROVE  state' \in {NoState, state, NewState(begun + 1, folders)}
  BY <1>2 DEF Post, PostSync, RequestUserFolders, StartSync, CheckInProgress, StoreSyncState,
              RequestFolderReleases, ClearState
<1>3. ASSUME NEW w \in Worker,
             \/ ReceiveUnknown(w) \/ ReceiveFolders(w)
             \/ UpsertFolders(w) \/ DeleteOrphanFolders(w) \/ SelectDefaultFolder(w)
             \/ ReceivePage(w) \/ Paginate(w) \/ ValidateReleases(w) \/ SkipValidation(w)
             \/ MissingToken(w) \/ RequestRelease(w) \/ ReadPending(w) \/ ReceiveRelease(w)
             \/ TriggerSyncCompletion(w) \/ AnalyzeDifferentialSync(w)
             \/ ExecuteSyncOperations(w) \/ ExtractBasicInformation(w) \/ CompleteSync(w)
      PROVE  state' \in {NoState, state}
  BY <1>3 DEF ReceiveUnknown, ReceiveFolders, UpsertFolders, DeleteOrphanFolders,
     SelectDefaultFolder, ReceivePage, Paginate, ValidateReleases, SkipValidation, MissingToken,
     RequestRelease, ReadPending, ReceiveRelease, TriggerSyncCompletion,
     AnalyzeDifferentialSync, ExecuteSyncOperations, ExtractBasicInformation, CompleteSync,
     FailSync, ClearState
<1>4. ASSUME NEW w \in Worker, SaveProgress(w) \/ RecordValidation(w) \/ SettlePending(w)
      PROVE  \/ w \in Conn /\ pc[w] \in Works /\ SameRecord(state', mem[w])
             \/ state' \in {state, NoState}
  <2>1. w \in Conn /\ pc[w] \in Works /\ mem[w] \in SyncState
    BY <1>4 DEF SaveProgress, RecordValidation, SettlePending, PostersOnlyStart, Worker, Works,
                HoldsState, TypeInv, LocalsOK, HoldsWhatItNeeds
  <2>2. SameRecord([mem[w] EXCEPT !.ready = TRUE], mem[w])
    BY <2>1 DEF SyncState
  <2> QED
    BY <1>4, <2>1, <2>2 DEF SaveProgress, RecordValidation, SettlePending, ClearState
<1>5. ASSUME NEW w \in Worker, WritePending(w)
      PROVE  \/ state' = state
             \/ w \in Conn /\ pc[w] = "pend" /\ SameRecord(state', read[w])
  <2>1. w \in Conn /\ pc[w] = "pend" /\ read[w] \in SyncState
    BY <1>5 DEF WritePending, PostersOnlyStart, Worker, TypeInv, LocalsOK, HoldsWhatItNeeds
  <2>2. SameRecord([read[w] EXCEPT !.pending = @ \cup sent[w]], read[w])
    BY <2>1 DEF SyncState
  <2> QED
    BY <1>5, <2>1, <2>2 DEF WritePending
<1> QED
  BY <1>1, <1>2, <1>3, <1>4, <1>5 DEF Next, Work, HandleResponse

\* A page is merged into a handler's copy of the state.
MergesPage(c, m) ==
  /\ m \in inbox /\ m.req.type = "folder_releases" /\ state # NoState
  /\ \E T \in Taken(state, m) : mem'[c] = Merge(state, m, T)
  /\ pc'[c] \in {"paginate", "decide"}
  /\ mixed' = (mixed \/ m.req.op # state.op)

\* A handler validates its copy.
Validates(c, ready) ==
  /\ pc[c] = "decide" /\ FoldersDone(mem[c])
  /\ mem'[c] = [mem[c] EXCEPT !.complete = TRUE, !.validated = TRUE,
                              !.missing = MergedReleases(mem[c]) \ rows, !.ready = ready]

Keeps(c) ==
  /\ pc[c] \in Works /\ SameRecord(mem'[c], mem[c])
  /\ pc'[c] \in Late => pc[c] \in Late \/ mem[c].validated

Copies(c) ==
  /\ state # NoState /\ SameRecord(mem'[c], state)
  /\ pc'[c] \in Late => state.complete

\* Where a handler's copy of the state comes from.
LEMMA CopiedState ==
  ASSUME TypeInv, PostersOnlyStart, [Next]_vars, NEW c \in Conn, pc'[c] \in Works
  PROVE  \/ Keeps(c) \/ Copies(c)
         \/ \E m : MergesPage(c, m)
         \/ \E ready : Validates(c, ready)
<1> USE DEF TypeInv, LocalsOK, LocalsType, Worker, SameRecord, SameCore, Works, HoldsState, Late
<1>1. CASE Environment \/ UNCHANGED vars
  BY <1>1 DEF Environment, Answer, Lose, ExpireMetadata, ExpireState, AgeState, Crash, vars,
     locals,
              Keeps
<1>2. ASSUME NEW w \in Worker, Post(w) \/ StartSync(w)
      PROVE  Keeps(c)
  BY <1>2, SMTT(30) DEF Post, PostSync, RequestUserFolders, StartSync, CheckInProgress,
              StoreSyncState, RequestFolderReleases, Return, Goto, locals, Keeps
<1>3. ASSUME NEW w \in Worker, w # c, HandleResponse(w)
      PROVE  Keeps(c)
  BY <1>3 DEF HandleResponse, ReceiveUnknown, ReceiveFolders, UpsertFolders,
     DeleteOrphanFolders, SelectDefaultFolder, ReceivePage, Paginate,
     SaveProgress, ValidateReleases, SkipValidation, MissingToken, RequestRelease, ReadPending,
     WritePending,
     RecordValidation, ReceiveRelease, SettlePending, TriggerSyncCompletion,
     AnalyzeDifferentialSync, ExecuteSyncOperations, ExtractBasicInformation, CompleteSync,
     locals, FailSync, Return, Goto, Keeps
<1>4. CASE \/ ReceiveUnknown(c) \/ ReceiveFolders(c) \/ UpsertFolders(c)
           \/ DeleteOrphanFolders(c) \/ SelectDefaultFolder(c) \/ Paginate(c)
           \/ SaveProgress(c) \/ SkipValidation(c) \/ RequestRelease(c) \/ ReadPending(c)
           \/ WritePending(c)
           \/ RecordValidation(c) \/ SettlePending(c) \/ AnalyzeDifferentialSync(c)
           \/ ExecuteSyncOperations(c) \/ ExtractBasicInformation(c) \/ CompleteSync(c)
  BY <1>4 DEF ReceiveUnknown, ReceiveFolders, UpsertFolders, DeleteOrphanFolders,
     SelectDefaultFolder, Paginate, SaveProgress, SkipValidation,
     RequestRelease, ReadPending, WritePending, RecordValidation, SettlePending,
     AnalyzeDifferentialSync,
     ExecuteSyncOperations, ExtractBasicInformation, CompleteSync, Receive, locals, FailSync,
     Return, Goto, Keeps
<1>5. CASE MissingToken(c)
  <2>1. pc[c] = "missing" /\ mem[c] \in SyncState
    BY <1>5 DEF MissingToken, HoldsWhatItNeeds
  <2>2. SameRecord([mem[c] EXCEPT !.ready = TRUE], mem[c])
    BY <2>1 DEF SyncState
  <2> QED
    BY <1>5, <2>1, <2>2 DEF MissingToken, Keeps
<1>6. CASE ReceivePage(c)
  BY <1>6 DEF ReceivePage, Receive, MergesPage, Keeps, FailSync, Return, Goto, locals
<1>7. CASE ValidateReleases(c)
  <2>1. CASE FailSync(c)
    BY <2>1 DEF FailSync, Return, Goto
  <2>2. CASE ~FailSync(c)
    <3> DEFINE absent == MergedReleases(mem[c]) \ rows
               s == [mem[c] EXCEPT !.complete = TRUE, !.validated = TRUE,
                                   !.missing = absent, !.ready = (absent = {})]
    <3>1. mem' = [mem EXCEPT ![c] = s]
      BY <1>7, <2>2 DEF ValidateReleases
    <3>2. mem'[c] = s /\ pc[c] = "decide" /\ FoldersDone(mem[c])
      BY <1>7, <3>1 DEF ValidateReleases
    <3> QED
      BY <3>2 DEF Validates
  <2> QED
    BY <2>1, <2>2
<1>8. CASE ReceiveRelease(c)
  <2>1. pc[c] = "idle"
    BY <1>8 DEF ReceiveRelease, Receive
  <2>2. PICK m \in inbox : /\ state # NoState /\ pc'[c] = "settle"
                           /\ mem'[c] = [state EXCEPT !.pending = @ \ {m.req.id}]
    BY <1>8, <2>1 DEF ReceiveRelease, Goto
  <2>3. SameRecord(mem'[c], state)
    BY <2>2 DEF DataType, SyncState
  <2> QED
    BY <2>2, <2>3 DEF Copies
<1>9. CASE TriggerSyncCompletion(c)
  BY <1>9 DEF TriggerSyncCompletion, ReadyToComplete, Return, Goto, Copies
<1> QED
  BY <1>1, <1>2, <1>3, <1>4, <1>5, <1>6, <1>7, <1>8, <1>9 DEF Next, Work, HandleResponse

\* What holds of a state holds of its copies, and goes on to hold as releases are added.
LEMMA SameTruth ==
  ASSUME NEW s, NEW t, NEW known, NEW more, known \subseteq more, SameRecord(t, s),
         TrueMerges(s), Checked(s, known)
  PROVE  TrueMerges(t) /\ Checked(t, more)
BY DEF SameRecord, SameCore, TrueMerges, Checked, FoldersDone, MergedReleases, MergedItems

LEMMA NewTruth ==
  ASSUME NEW op, NEW scope, NEW known
  PROVE  TrueMerges(NewState(op, scope)) /\ Checked(NewState(op, scope), known)
BY DEF NewState, TrueMerges, Checked

\* A page belongs to a folder that is not complete, so the state is not validated.
LEMMA MergeTruth ==
  ASSUME TypeInv, state # NoState, Sound(state), TrueMerges(state), Checked(state, rows),
         NEW m \in inbox, m.req.type = "folder_releases", m.req.op = state.op,
         NEW T \in Taken(state, m), NEW known
  PROVE  TrueMerges(Merge(state, m, T)) /\ Checked(Merge(state, m, T), known)
<1> DEFINE f == m.req.folder
           s == Merge(state, m, T)
<1>1. m.req \in Outstanding /\ state \in SyncState /\ f \in state.scope
  BY DEF Outstanding, TypeInv, DataType, Sound
<1>2. ~state.validated /\ ~state.complete
  BY <1>1, DoneAsksNothing DEF Checked
<1>3. /\ s.scope = state.scope /\ s.validated = state.validated /\ s.complete = state.complete
      /\ s.merged = [i \in Item |-> IF i \in T THEN f ELSE state.merged[i]]
  BY <1>1 DEF Merge, SyncState
<1>4. \A i \in T : i \notin Unidentified /\ Collection[i] = f
  BY TakenFromPage DEF ItemsOn
<1> HIDE DEF s
<1>5. TrueMerges(s) /\ Checked(s, known)
  BY <1>1, <1>2, <1>3, <1>4 DEF TrueMerges, Checked
<1> QED
  BY <1>5 DEF s

LEMMA StateTrueStep ==
  ASSUME TypeInv, PostersOnlyStart, StateTrue, CopiesTrue, ReadsTrue, [Next]_vars
  PROVE  StateTrue'
<1> SUFFICES ASSUME state' # NoState PROVE TrueMerges(state') /\ Checked(state', rows')
  BY DEF StateTrue
<1>1. rows \subseteq rows'
  BY RowsGrow
<1>2. PICK s, known : s = state' /\ known = rows'
  OBVIOUS
<1>3. CASE state # NoState /\ SameRecord(s, state)
  BY <1>1, <1>2, <1>3, SameTruth DEF StateTrue
<1>4. ASSUME NEW c \in Conn, pc[c] \in Works, SameRecord(s, mem[c])
      PROVE  TrueMerges(s) /\ Checked(s, known)
  BY <1>1, <1>2, <1>4, SameTruth DEF CopiesTrue
<1>5. CASE s = NewState(begun + 1, folders)
  BY <1>2, <1>5, NewTruth
<1>6. ASSUME NEW c \in Conn, pc[c] = "pend", SameRecord(s, read[c])
      PROVE  TrueMerges(s) /\ Checked(s, known)
  BY <1>1, <1>2, <1>6, SameTruth DEF ReadsTrue
<1> QED
  BY <1>2, <1>3, <1>4, <1>5, <1>6, StoredState

\* What is read to be written back is the state, or what was read before.
LEMMA ReadState ==
  ASSUME TypeInv, [Next]_vars, NEW c \in Conn, pc'[c] = "pend"
  PROVE  /\ mem'[c] = mem[c]
         /\ \/ pc[c] = "pend" /\ read'[c] = read[c]
            \/ pc[c] = "missing" /\ state # NoState /\ read'[c] = state
<1> USE DEF TypeInv, LocalsOK, LocalsType, Worker
<1>1. CASE Environment \/ UNCHANGED vars
  BY <1>1 DEF Environment, Answer, Lose, ExpireMetadata, ExpireState, AgeState, Crash, vars,
     locals
<1>2. ASSUME NEW w \in Worker, Post(w) \/ StartSync(w)
      PROVE  mem'[c] = mem[c] /\ pc[c] = "pend" /\ read'[c] = read[c]
  BY <1>2 DEF Post, PostSync, RequestUserFolders, StartSync, CheckInProgress, StoreSyncState,
              RequestFolderReleases, Return, Goto, locals
<1>3. ASSUME NEW w \in Worker, HandleResponse(w)
      PROVE  /\ mem'[c] = mem[c]
             /\ \/ pc[c] = "pend" /\ read'[c] = read[c]
                \/ pc[c] = "missing" /\ state # NoState /\ read'[c] = state
  BY <1>3 DEF HandleResponse, ReceiveUnknown, ReceiveFolders, UpsertFolders,
     DeleteOrphanFolders,
     SelectDefaultFolder, ReceivePage, Paginate, SaveProgress, ValidateReleases, SkipValidation,
     MissingToken, RequestRelease, ReadPending, WritePending, RecordValidation, ReceiveRelease,
     SettlePending, TriggerSyncCompletion, AnalyzeDifferentialSync, ExecuteSyncOperations,
     ExtractBasicInformation, CompleteSync, locals, FailSync, Return, Goto
<1> QED
  BY <1>1, <1>2, <1>3 DEF Next, Work

LEMMA ReadsTrueStep ==
  ASSUME TypeInv, StateTrue, ReadsTrue, [Next]_vars
  PROVE  ReadsTrue'
<1> SUFFICES ASSUME NEW c \in Conn, pc'[c] = "pend"
             PROVE  TrueMerges(read'[c]) /\ Checked(read'[c], rows')
  BY DEF ReadsTrue
<1>1. PICK s, known : s = read'[c] /\ known = rows'
  OBVIOUS
<1>2. rows \subseteq known
  BY <1>1, RowsGrow
<1>3. TrueMerges(s) /\ Checked(s, rows)
  BY <1>1, ReadState DEF StateTrue, ReadsTrue
<1>4. TrueMerges(s) /\ Checked(s, known)
  BY <1>2, <1>3, SameTruth DEF SameRecord, SameCore
<1> QED
  BY <1>1, <1>4

LEMMA CopiesTrueStep ==
  ASSUME TypeInv, PostersOnlyStart, ChainInv, StateTrue, CopiesTrue,
         [Next]_vars, ~mixed'
  PROVE  CopiesTrue'
<1> SUFFICES ASSUME NEW c \in Conn, pc'[c] \in Works
             PROVE  /\ TrueMerges(mem'[c]) /\ Checked(mem'[c], rows')
                    /\ pc'[c] \in Late => mem'[c].validated
  BY DEF CopiesTrue
<1>1. rows \subseteq rows'
  BY RowsGrow
<1>2. PICK s, known : s = mem'[c] /\ known = rows'
  OBVIOUS
<1>3. CASE Keeps(c)
  <2>1. SameRecord(s, mem[c]) /\ TrueMerges(mem[c]) /\ Checked(mem[c], rows)
    BY <1>2, <1>3 DEF Keeps, CopiesTrue
  <2>2. TrueMerges(s) /\ Checked(s, known)
    BY <1>1, <1>2, <2>1, SameTruth
  <2>3. pc'[c] \in Late => s.validated
    BY <1>3, <2>1 DEF Keeps, CopiesTrue, SameRecord
  <2> QED
    BY <1>2, <2>2, <2>3
<1>4. CASE Copies(c)
  <2>1. SameRecord(s, state) /\ TrueMerges(state) /\ Checked(state, rows)
    BY <1>2, <1>4 DEF Copies, StateTrue
  <2>2. TrueMerges(s) /\ Checked(s, known)
    BY <1>1, <1>2, <2>1, SameTruth
  <2>3. pc'[c] \in Late => s.validated
    BY <1>4, <2>1 DEF Copies, Checked, SameRecord
  <2> QED
    BY <1>2, <2>2, <2>3
<1>5. ASSUME NEW m, MergesPage(c, m)
      PROVE  TrueMerges(s) /\ Checked(s, known) /\ pc'[c] \notin Late
  <2>1. /\ m \in inbox /\ m.req.type = "folder_releases" /\ state # NoState
        /\ m.req.op = state.op /\ pc'[c] \notin Late
        /\ \E T \in Taken(state, m) : s = Merge(state, m, T)
    BY <1>2, <1>5 DEF MergesPage, Late
  <2>2. Sound(state) /\ TrueMerges(state) /\ Checked(state, rows)
    BY <2>1 DEF ChainInv, StateSound, StateTrue
  <2> QED
    BY <2>1, <2>2, MergeTruth
<1>6. ASSUME NEW ready, Validates(c, ready)
      PROVE  TrueMerges(s) /\ Checked(s, known) /\ s.validated
  <2>1. mem[c] \in SyncState /\ TrueMerges(mem[c]) /\ FoldersDone(mem[c])
    BY <1>6 DEF Validates, CopiesTrue, Works, HoldsState, TypeInv, LocalsOK, HoldsWhatItNeeds,
                Worker
  <2>2. /\ s.scope = mem[c].scope /\ s.completed = mem[c].completed /\ s.merged = mem[c].merged
        /\ s.complete = TRUE /\ s.validated = TRUE
        /\ s.missing = MergedReleases(mem[c]) \ rows
    BY <1>2, <1>6, <2>1 DEF Validates, SyncState
  <2>3. MergedReleases(s) = MergedReleases(mem[c]) /\ FoldersDone(s)
    BY <2>1, <2>2 DEF MergedReleases, MergedItems, FoldersDone
  <2> QED
    BY <1>1, <1>2, <2>1, <2>2, <2>3 DEF TrueMerges, Checked
<1> QED
  BY <1>2, <1>3, <1>4, <1>5, <1>6, CopiedState

\* A plan depends on the merged instances, their rows and the user's rows alone.
LEMMA SamePlan ==
  ASSUME NEW s, MergedReleases(s) \subseteq rows, rows \subseteq rows', owned' = owned
  PROVE  Difference(s)' = Difference(s)
<1>1. \A i \in MergedItems(s) : ReleaseOf[i] \in rows /\ ReleaseOf[i] \in rows'
  BY DEF MergedReleases
<1> QED
  BY <1>1 DEF Difference, MergedItems

\* The user's rows stay as they are while a handler of the only connection has a plan, or
\* has carried it out.
LEMMA OwnedStays ==
  ASSUME TypeInv, PostersOnlyStart, OneConnection, [Next]_vars, NEW c \in Conn,
         ~ExecuteSyncOperations(c)
  PROVE  owned' = owned
<1>1. ASSUME NEW w \in Worker, ExecuteSyncOperations(w) PROVE w = c
  BY <1>1 DEF ExecuteSyncOperations, PostersOnlyStart, OneConnection, Worker
<1> QED
  BY <1>1, OwnedWrites

LEMMA PlansStep ==
  ASSUME TypeInv, PostersOnlyStart, OneConnection, CopiesTrue, PlansAreCurrent, [Next]_vars
  PROVE  PlansAreCurrent'
<1> SUFFICES ASSUME NEW c \in Conn, pc'[c] = "execute", mem'[c].missing = {}
             PROVE  ops'[c] = Difference(mem[c])'
  BY DEF PlansAreCurrent
<1>1. PICK s : s = mem[c]
  OBVIOUS
<1>2. /\ mem'[c] = s /\ pc[c] \in {"analyze", "execute"} /\ s.missing = {}
      /\ ops'[c] = Difference(s)
  BY <1>1, PlanStep DEF PlansAreCurrent, Worker
<1>3. MergedReleases(s) \subseteq rows
  BY <1>1, <1>2 DEF CopiesTrue, Checked, Works, HoldsState, Late
<1>4. ~ExecuteSyncOperations(c)
  BY DEF ExecuteSyncOperations, FailSync, Return, Goto, TypeInv, LocalsOK, LocalsType, Worker
<1>5. owned' = owned /\ rows \subseteq rows'
  BY <1>4, OwnedStays, RowsGrow
<1>6. Difference(s)' = Difference(s)
  BY <1>3, <1>5, SamePlan
<1>7. Difference(mem[c])' = Difference(s)'
  BY <1>2 DEF Difference, MergedItems
<1> QED
  BY <1>2, <1>6, <1>7

\* A handler that is finishing has just carried out its plan, or was finishing before.
LEMMA FinishStep ==
  ASSUME TypeInv, [Next]_vars, NEW c \in Conn, pc'[c] \in {"extract", "cleanup"}
  PROVE  \/ pc[c] \in {"extract", "cleanup"} /\ mem'[c] = mem[c]
         \/ /\ ExecuteSyncOperations(c) /\ pc[c] = "execute" /\ mem'[c] = mem[c]
            /\ owned' = [i \in Item |->
                 IF i \in ops[c].create \cup ops[c].update THEN mem[c].merged[i]
                 ELSE IF i \in ops[c].delete /\ owned[i] \in Folder THEN Tombstone
                 ELSE owned[i]]
<1> USE DEF TypeInv, LocalsOK, LocalsType, Worker
<1>1. CASE Environment \/ UNCHANGED vars
  BY <1>1 DEF Environment, Answer, Lose, ExpireMetadata, ExpireState, AgeState, Crash, vars,
     locals
<1>2. ASSUME NEW w \in Worker, Post(w) \/ StartSync(w)
      PROVE  pc[c] \in {"extract", "cleanup"} /\ mem'[c] = mem[c]
  BY <1>2 DEF Post, PostSync, RequestUserFolders, StartSync, CheckInProgress, StoreSyncState,
              RequestFolderReleases, Return, Goto, locals
<1>3. ASSUME NEW w \in Worker, HandleResponse(w), ~ExecuteSyncOperations(w)
      PROVE  pc[c] \in {"extract", "cleanup"} /\ mem'[c] = mem[c]
  BY <1>3 DEF HandleResponse, ReceiveUnknown, ReceiveFolders, UpsertFolders,
     DeleteOrphanFolders, SelectDefaultFolder, ReceivePage, Paginate,
     SaveProgress, ValidateReleases, SkipValidation, MissingToken, RequestRelease, ReadPending,
     WritePending,
     RecordValidation, ReceiveRelease, SettlePending, TriggerSyncCompletion,
     AnalyzeDifferentialSync, ExtractBasicInformation, CompleteSync,
     locals, FailSync, Return, Goto
<1>4. ASSUME NEW w \in Worker, w # c, ExecuteSyncOperations(w)
      PROVE  pc[c] \in {"extract", "cleanup"} /\ mem'[c] = mem[c]
  BY <1>4 DEF ExecuteSyncOperations, locals, FailSync, Return, Goto
<1>5. CASE ExecuteSyncOperations(c)
  BY <1>5 DEF ExecuteSyncOperations, locals, FailSync, Return, Goto
<1> QED
  BY <1>1, <1>2, <1>3, <1>4, <1>5 DEF Next, Work

\* The active rows are those of the merged instances, in the folders they were merged from.
Reconciles(s, held) ==
  \A i \in Item : /\ held[i] \in Folder <=> s.merged[i] # NoFolder
                  /\ held[i] \in Folder => held[i] = s.merged[i]

\* Carrying out a plan for a state that has no release without a row.
LEMMA PlanReconciles ==
  ASSUME NEW s \in SyncState, NEW held, MergedReleases(s) \subseteq rows,
         NEW plan, plan = Difference(s),
         held = [i \in Item |->
                  IF i \in plan.create \cup plan.update THEN s.merged[i]
                  ELSE IF i \in plan.delete /\ owned[i] \in Folder THEN Tombstone
                  ELSE owned[i]]
  PROVE  Reconciles(s, held)
<1> SUFFICES ASSUME NEW i \in Item
             PROVE  /\ held[i] \in Folder <=> s.merged[i] # NoFolder
                    /\ held[i] \in Folder => held[i] = s.merged[i]
  BY DEF Reconciles
<1>1. s.merged[i] \in Folder \cup {NoFolder} /\ Tombstone \notin Folder /\ NoFolder \notin Folder
  BY ConstantsAssumption DEF SyncState
<1>2. \A k \in Item : s.merged[k] # NoFolder => ReleaseOf[k] \in rows
  BY DEF MergedReleases, MergedItems
<1>3. /\ i \in plan.create <=> s.merged[i] # NoFolder /\ owned[i] \notin Folder
      /\ i \in plan.update <=>
           s.merged[i] # NoFolder /\ owned[i] \in Folder /\ owned[i] # s.merged[i]
      /\ i \in plan.delete <=> owned[i] \in Folder /\ s.merged[i] = NoFolder
  BY <1>2 DEF Difference, MergedItems
<1> QED
  BY <1>1, <1>3

Reconciled ==
  \A c \in Conn : pc[c] \in {"extract", "cleanup"} /\ mem[c].missing = {} =>
    Reconciles(mem[c], owned)

LEMMA ReconciledStep ==
  ASSUME TypeInv, PostersOnlyStart, OneConnection, CopiesTrue, PlansAreCurrent, Reconciled,
         [Next]_vars
  PROVE  Reconciled'
<1> SUFFICES ASSUME NEW c \in Conn, pc'[c] \in {"extract", "cleanup"}, mem'[c].missing = {}
             PROVE  Reconciles(mem'[c], owned')
  BY DEF Reconciled
<1>1. CASE pc[c] \in {"extract", "cleanup"} /\ mem'[c] = mem[c]
  <2>1. ~ExecuteSyncOperations(c)
    BY <1>1 DEF ExecuteSyncOperations
  <2>2. owned' = owned
    BY <2>1, OwnedStays
  <2> QED
    BY <1>1, <2>2 DEF Reconciled
<1>2. CASE /\ pc[c] = "execute" /\ mem'[c] = mem[c]
           /\ owned' = [i \in Item |->
                IF i \in ops[c].create \cup ops[c].update THEN mem[c].merged[i]
                ELSE IF i \in ops[c].delete /\ owned[i] \in Folder THEN Tombstone
                ELSE owned[i]]
  <2>1. PICK s, held, plan : s = mem[c] /\ held = owned' /\ plan = ops[c]
    OBVIOUS
  <2>2. s \in SyncState /\ Checked(s, rows) /\ s.validated
    BY <1>2, <2>1 DEF CopiesTrue, Works, HoldsState, Late, TypeInv, LocalsOK, HoldsWhatItNeeds,
                      Worker
  <2>3. MergedReleases(s) \subseteq rows
    BY <1>2, <2>1, <2>2 DEF Checked
  <2>5. plan = Difference(s)
    BY <1>2, <2>1 DEF PlansAreCurrent
  <2>6. Reconciles(s, held)
    BY <1>2, <2>1, <2>2, <2>3, <2>5, PlanReconciles
  <2> QED
    BY <1>2, <2>1, <2>6
<1> QED
  BY <1>1, <1>2, FinishStep

TrueInv == StateTrue /\ CopiesTrue /\ ReadsTrue /\ PlansAreCurrent /\ Reconciled

ReconcileInv == SafeInv /\ (~mixed => TrueInv)

LEMMA ReconcileInvInit == Init => ReconcileInv
<1> SUFFICES ASSUME Init PROVE ReconcileInv
  OBVIOUS
<1>1. state = NoState /\ \A w \in Worker : pc[w] = "idle"
  BY DEF Init
<1>2. TrueInv
  BY <1>1 DEF TrueInv, StateTrue, CopiesTrue, ReadsTrue, PlansAreCurrent, Reconciled, Works,
               HoldsState, Worker
<1> QED
  BY <1>2, SafeInvInit DEF ReconcileInv

LEMMA ReconcileInvInductive ==
  ASSUME TypeInv, RowsReferToReleases, Undisturbed, ReconcileInv, [Next]_vars
  PROVE  ReconcileInv'
<1>1. SafeInv'
  BY SafeInvInductive DEF ReconcileInv
<1>2. ASSUME ~mixed' PROVE TrueInv'
  <2>1. ~mixed
    BY <1>2, MixedStays DEF TypeInv, DataType
  <2>2. PostersOnlyStart /\ OneConnection /\ ChainInv /\ TrueInv
    BY <2>1 DEF ReconcileInv, SafeInv, Undisturbed
  <2>3. StateTrue' /\ CopiesTrue' /\ ReadsTrue'
    BY <1>2, <2>2, StateTrueStep, CopiesTrueStep, ReadsTrueStep DEF TrueInv
  <2>4. PlansAreCurrent' /\ Reconciled'
    BY <2>2, PlansStep, ReconciledStep DEF TrueInv
  <2> QED
    BY <2>3, <2>4 DEF TrueInv
<1> QED
  BY <1>1, <1>2 DEF ReconcileInv

\* When a sync that lacked no release reports completion, the user's active rows are where
\* Discogs has their instances, in complete folders, and of the complete folders no instance
\* listed with an id has no row, unless there are MaxReleases rows (the merge of pages,
\* performReleaseValidation, analyzeDifferentialSync and executeSyncOperations), whatever the
\* collection, the rows before and the number of syncs, and although requests are lost or fail,
\* entries expire and the database fails, under what the code relies on.
THEOREM CompletionHasReconciled ==
  ASSUME Undisturbed
  PROVE  Spec => []CompletionReconciles
<1>1. TypeInv /\ ReconcileInv => CompletionReconciles
  <2> SUFFICES ASSUME TypeInv, ReconcileInv, ~mixed, NEW w \in Worker,
                      pc[w] \in {"extract", "cleanup"}, mem[w].missing = {}
               PROVE  LET promised == {i \in Item \ Unidentified :
                                         Collection[i] \in mem[w].completed}
                      IN /\ ActiveRows \subseteq promised
                         /\ \A i \in ActiveRows : owned[i] = Collection[i]
                         /\ promised \subseteq ActiveRows \/ Cardinality(ActiveRows) >= MaxReleases
    BY DEF CompletionReconciles
  <2>1. PICK s : s = mem[w]
    OBVIOUS
  <2>2. w \in Conn /\ pc[w] \in Works /\ pc[w] \in Late
    BY DEF ReconcileInv, SafeInv, PostersOnlyStart, Worker, Works, HoldsState, Late
  <2>3. s \in SyncState /\ Sound(s) /\ TrueMerges(s) /\ Checked(s, rows) /\ s.validated
    BY <2>1, <2>2 DEF ReconcileInv, SafeInv, ChainInv, CopiesSound, TrueInv, CopiesTrue, Works,
       TypeInv, LocalsOK, HoldsWhatItNeeds, Worker
  <2>4. s.completed = s.scope
    BY <2>3, FoldersDoneMeansAll DEF Checked, Sound
  <2>5. Reconciles(s, owned)
    BY <2>1, <2>2 DEF ReconcileInv, TrueInv, Reconciled
  <2>6. \A i \in ActiveRows : /\ owned[i] = Collection[i] /\ i \notin Unidentified
                              /\ Collection[i] \in s.completed
    BY <2>3, <2>4, <2>5 DEF ActiveRows, Reconciles, TrueMerges
  <2>7. ActiveRows = {i \in Item : s.merged[i] # NoFolder}
    BY <2>5 DEF ActiveRows, Reconciles
  <2>8. CASE Fits(s.merged)
    <3>1. \A i \in Item \ Unidentified :
            Collection[i] \in s.completed => s.merged[i] = Collection[i]
      BY <2>3, <2>8 DEF Sound, InPlace
    <3>2. s.completed \subseteq Folder /\ NoFolder \notin Folder
      BY <2>3, ConstantsAssumption DEF SyncState
    <3> QED
      BY <2>1, <2>6, <2>7, <3>1, <3>2 DEF ActiveRows
  <2>9. CASE ~Fits(s.merged)
    <3>1. PICK n : n = Cardinality(ActiveRows)
      OBVIOUS
    <3>2. ~(n < MaxReleases)
      BY <2>7, <2>9, <3>1 DEF Fits
    <3>3. n \in Nat
      BY <3>1, FS_Subset, FS_CardinalityType, ConstantsAssumption DEF ActiveRows
    <3>4. n >= MaxReleases
      BY <3>2, <3>3, ConstantsAssumption
    <3> QED
      BY <2>1, <2>6, <3>1, <3>4 DEF ActiveRows
  <2> QED
    BY <2>8, <2>9
<1>2. TypeInv /\ RowsReferToReleases /\ ReconcileInv /\ [Next]_vars => ReconcileInv'
  BY ReconcileInvInductive
<1> QED
  BY <1>1, <1>2, ReconcileInvInit, TypeInvHolds, RowsAlwaysReferToReleases, PTL DEF Spec

-----------------------------------------------------------------------------
(* A sync in progress is driven                                            *)

\* What the code relies on to go on with a sync: one connection, and no request, answer,
\* entry or goroutine that is lost.
Reliable == OneConnection /\ NoFaultsOf({"lost", "request", "url", "cache", "expire", "crash"})

Requests == wire \cup {m.req : m \in inbox}

\* The requests on their way are known by their ids, and each is at one place.
Known ==
  /\ \A r \in Requests : r.id \in meta /\ r.id <= issued
  /\ \A r, q \in Requests : r.id = q.id => r = q
  /\ \A m \in inbox : m.req \notin wire /\ \A n \in inbox : n.req = m.req => n = m

\* A page of the folder has been or is to be requested.
AskedFor(op, f) ==
  \/ \E r \in Outstanding : r.op = op /\ r.folder = f
  \/ \E w \in Worker : pc[w] = "request" /\ mem[w].op = op /\ f \in todo[w]

AllAsked(s) == \A f \in s.scope \ s.completed : AskedFor(s.op, f)

\* A handler has taken a page of the operation, and not yet stored its copy.
Holding(c, op) ==
  pc[c] \in {"paginate", "decide", "missing", "pend", "record"} /\ mem[c].op = op

Driven(s) ==
  /\ s.op <= begun /\ s.complete = s.validated
  /\ ~s.complete => ~FoldersDone(s) /\ (AllAsked(s) \/ \E c \in Conn : Holding(c, s.op))

StateDriven == state # NoState => Driven(state)

\* The labels of a handler that may store its copy.
Storing == {"paginate", "decide", "missing", "pend", "record", "settle"}

\* Storing the copy s of handler c leaves a state that is driven.
DrivenCopy(c, s) ==
  /\ s.op <= begun /\ s.complete = s.validated
  /\ pc[c] \in {"missing", "pend", "record"} => s.complete
  /\ pc[c] \in {"paginate", "decide"} =>
       /\ ~s.complete => \A f \in s.scope \ s.completed :
            AskedFor(s.op, f) \/ (pc[c] = "paginate" /\ f = cur[c].req.folder)
       /\ s.complete /\ state # NoState /\ state.op = s.op => state.complete
  /\ pc[c] = "settle" /\ ~s.complete => ~FoldersDone(s) /\ AllAsked(s)

CopiesDriven == \A c \in Conn : pc[c] \in Storing => DrivenCopy(c, mem[c])

\* What is read to be written back is driven, too.
ReadsDriven == \A c \in Conn : pc[c] = "pend" => Driven(read[c])

\* Steps on the network.
LEMMA NetworkStep ==
  ASSUME Known, Reliable, [Next]_vars
  PROVE  \/ UNCHANGED network
         \/ Answer
         \/ \E type, f, p, r, op : Issue(type, f, p, r, op)
         \/ \E w \in Worker, m \in inbox :
              Receive(w, m) /\ (m.req.type = "folder_releases" => ReceivePage(w))
<1>1. CASE Environment \/ UNCHANGED vars
  BY <1>1 DEF Environment, Lose, ExpireMetadata, ExpireState, AgeState, Crash, vars, network,
              Reliable, NoFaultsOf, Fault
<1>2. ASSUME NEW w \in Worker, Post(w) \/ StartSync(w)
      PROVE  UNCHANGED network \/ \E type, f, p, r, op : Issue(type, f, p, r, op)
  BY <1>2 DEF Post, PostSync, RequestUserFolders, StartSync, CheckInProgress, StoreSyncState,
              RequestFolderReleases
<1>3. ASSUME NEW w \in Worker, ReceiveFolders(w) \/ ReceivePage(w) \/ ReceiveRelease(w)
      PROVE  \E m \in inbox :
               Receive(w, m) /\ (m.req.type = "folder_releases" => ReceivePage(w))
  BY <1>3 DEF ReceiveFolders, ReceivePage, ReceiveRelease
<1>4. ASSUME NEW w \in Worker PROVE ~ReceiveUnknown(w)
  BY DEF ReceiveUnknown, Known, Requests, Reliable, NoFaultsOf, Fault
<1>5. ASSUME NEW w \in Worker, HandleResponse(w),
             ~(ReceiveFolders(w) \/ ReceivePage(w) \/ ReceiveRelease(w))
      PROVE  UNCHANGED network \/ \E type, f, p, r, op : Issue(type, f, p, r, op)
  BY <1>4, <1>5 DEF HandleResponse, UpsertFolders, DeleteOrphanFolders, SelectDefaultFolder,
     Paginate, SaveProgress, ValidateReleases,
     SkipValidation, MissingToken, RequestRelease, ReadPending, WritePending, RecordValidation,
     SettlePending,
     TriggerSyncCompletion, AnalyzeDifferentialSync, ExecuteSyncOperations,
     ExtractBasicInformation, CompleteSync
<1> QED
  BY <1>1, <1>2, <1>3, <1>5 DEF Next, Work

\* An answer is on its way in place of its request.
LEMMA AnswerMoves ==
  ASSUME Answer
  PROVE  \E r \in wire : \E a :
           /\ a.req = r /\ wire' = wire \ {r} /\ inbox' = inbox \cup {a} /\ Requests' = Requests
<1>1. PICK r \in wire, k \in {"ok", "http", "network"} :
        wire' = wire \ {r} /\ inbox' = inbox \cup {[req |-> r, kind |-> k]}
  BY DEF Answer
<1> DEFINE a == [req |-> r, kind |-> k]
<1>2. a.req = r /\ inbox' = inbox \cup {a}
  BY <1>1
<1> HIDE DEF a
<1>3. Requests' = Requests
  BY <1>1, <1>2 DEF Requests
<1> QED
  BY <1>1, <1>2, <1>3

\* An answer that is received was the only trace of its request.
LEMMA ReceivedGone ==
  ASSUME Known, NEW w, NEW m \in inbox, Receive(w, m)
  PROVE  Requests' = Requests \ {m.req} /\ inbox' \subseteq inbox /\ wire' = wire
BY DEF Known, Receive, Requests

LEMMA KnownStep ==
  ASSUME TypeInv, Known, Reliable, [Next]_vars
  PROVE  Known'
<1>1. CASE UNCHANGED network
  BY <1>1 DEF Known, Requests, network
<1>2. CASE Answer
  <2>1. PICK r \in wire : \E a :
          /\ a.req = r /\ wire' = wire \ {r} /\ inbox' = inbox \cup {a} /\ Requests' = Requests
    BY <1>2, AnswerMoves
  <2>2. meta' = meta /\ issued' = issued
    BY <1>2 DEF Answer
  <2> QED
    BY <2>1, <2>2 DEF Known
<1>3. ASSUME NEW type, NEW f, NEW p, NEW r, NEW op, Issue(type, f, p, r, op)
      PROVE  Known'
  <2> DEFINE new == [id |-> issued + 1, type |-> type, folder |-> f, page |-> p,
                     release |-> r, op |-> op]
  <2>1. /\ new.id = issued + 1 /\ wire' = wire \cup {new} /\ inbox' = inbox
        /\ meta' = meta \cup {issued + 1} /\ issued' = issued + 1
    BY <1>3 DEF Issue
  <2> HIDE DEF new
  <2>2. Requests' = Requests \cup {new}
    BY <2>1 DEF Requests
  <2>3. issued \in Nat /\ \A q \in Requests : q.id \in Nat /\ q.id <= issued
    BY ConstantsAssumption DEF TypeInv, NetworkType, Known, Requests, Request, Message,
       RequestId
  <2>4. new \notin Requests /\ \A m \in inbox : m.req \in Requests
    BY <2>1, <2>3 DEF Requests
  <2>5. \A q \in Requests' : q.id \in meta' /\ q.id <= issued'
    BY <2>1, <2>2, <2>3 DEF Known
  <2>6. \A q, s \in Requests' : q.id = s.id => q = s
    BY <2>1, <2>2, <2>3 DEF Known
  <2>7. \A m \in inbox' : m.req \notin wire' /\ \A n \in inbox' : n.req = m.req => n = m
    BY <2>1, <2>4 DEF Known
  <2> QED
    BY <2>5, <2>6, <2>7 DEF Known
<1>4. ASSUME NEW w \in Worker, NEW m \in inbox, Receive(w, m) PROVE Known'
  <2>1. Requests' = Requests \ {m.req} /\ inbox' \subseteq inbox /\ wire' = wire
    BY <1>4, ReceivedGone
  <2>2. meta' = meta \ {m.req.id} /\ issued' = issued /\ m.req \in Requests
    BY <1>4 DEF Receive, Requests
  <2> QED
    BY <2>1, <2>2 DEF Known
<1> QED
  BY <1>1, <1>2, <1>3, <1>4, NetworkStep

\* A request for a page stays on its way until it is received.
LEMMA OutstandingStays ==
  ASSUME Known, Reliable, [Next]_vars, \A w \in Worker : ~ReceivePage(w)
  PROVE  Outstanding \subseteq Outstanding'
<1>1. Outstanding = {r \in Requests : r.type = "folder_releases"}
  BY DEF Outstanding, Requests
<1>2. Outstanding' = {r \in Requests' : r.type = "folder_releases"}
  BY DEF Outstanding, Requests
<1>3. CASE UNCHANGED network
  BY <1>3 DEF network, Outstanding
<1>4. CASE Answer
  BY <1>1, <1>2, <1>4, AnswerMoves
<1>5. ASSUME NEW type, NEW f, NEW p, NEW r, NEW op, Issue(type, f, p, r, op)
      PROVE  Requests \subseteq Requests'
  BY <1>5 DEF Issue, Requests
<1>6. ASSUME NEW w \in Worker, NEW m \in inbox, Receive(w, m), m.req.type # "folder_releases"
      PROVE  Outstanding \subseteq Outstanding'
  BY <1>1, <1>2, <1>6, ReceivedGone
<1> QED
  BY <1>1, <1>2, <1>3, <1>4, <1>5, <1>6, NetworkStep

\* A worker that asks for the folders of a sync goes on to ask for them.
LEMMA RequestingStep ==
  ASSUME TypeInv, Reliable, [Next]_vars, NEW w \in Worker, pc[w] = "request"
  PROVE  \/ pc'[w] = "request" /\ mem'[w] = mem[w] /\ todo'[w] = todo[w]
         \/ RequestFolderReleases(w)
<1> USE DEF TypeInv, LocalsOK, LocalsType, locals, FailSync, Return, Goto
<1>1. CASE Environment \/ UNCHANGED vars
  BY <1>1 DEF vars, Environment, Answer, Lose, ExpireMetadata, ExpireState, AgeState, Crash,
              Reliable, NoFaultsOf, Fault
<1>2. ASSUME NEW v \in Worker, Post(v) \/ StartSync(v)
      PROVE  \/ pc'[w] = "request" /\ mem'[w] = mem[w] /\ todo'[w] = todo[w]
             \/ RequestFolderReleases(w)
  <2>1. CASE RequestFolderReleases(v)
    BY <2>1 DEF RequestFolderReleases
  <2>2. CASE Post(v) \/ CheckInProgress(v) \/ StoreSyncState(v)
    BY <2>2 DEF Post, PostSync, RequestUserFolders, CheckInProgress, StoreSyncState
  <2> QED
    BY <1>2, <2>1, <2>2 DEF StartSync
<1>3. ASSUME NEW v \in Worker, HandleResponse(v)
      PROVE  pc'[w] = "request" /\ mem'[w] = mem[w] /\ todo'[w] = todo[w]
  <2>1. CASE \/ ReceiveUnknown(v) \/ ReceiveFolders(v) \/ UpsertFolders(v)
             \/ DeleteOrphanFolders(v) \/ SelectDefaultFolder(v)
             \/ ReceivePage(v) \/ Paginate(v) \/ SaveProgress(v)
    BY <2>1 DEF ReceiveUnknown, ReceiveFolders, UpsertFolders, DeleteOrphanFolders,
       SelectDefaultFolder, ReceivePage, Paginate, SaveProgress,
                Receive
  <2>2. CASE \/ ValidateReleases(v) \/ SkipValidation(v) \/ MissingToken(v)
             \/ RequestRelease(v) \/ ReadPending(v) \/ WritePending(v) \/ RecordValidation(v)
    BY <2>2 DEF ValidateReleases, SkipValidation, MissingToken, RequestRelease, ReadPending,
       WritePending,
                RecordValidation
  <2>3. CASE \/ ReceiveRelease(v) \/ SettlePending(v) \/ TriggerSyncCompletion(v)
             \/ AnalyzeDifferentialSync(v) \/ ExecuteSyncOperations(v)
             \/ ExtractBasicInformation(v) \/ CompleteSync(v)
    BY <2>3 DEF ReceiveRelease, SettlePending, TriggerSyncCompletion, AnalyzeDifferentialSync,
                ExecuteSyncOperations, ExtractBasicInformation, CompleteSync, Receive
  <2> QED
    BY <1>3, <2>1, <2>2, <2>3 DEF HandleResponse
<1> QED
  BY <1>1, <1>2, <1>3 DEF Next, Work

\* A page that is asked for is asked for until it is received.
LEMMA AskedStays ==
  ASSUME TypeInv, Known, Reliable, [Next]_vars, \A w \in Worker : ~ReceivePage(w),
         NEW op, NEW f, AskedFor(op, f)
  PROVE  AskedFor(op, f)'
<1>1. CASE \E r \in Outstanding : r.op = op /\ r.folder = f
  BY <1>1, OutstandingStays DEF AskedFor
<1>2. CASE \E w \in Worker : pc[w] = "request" /\ mem[w].op = op /\ f \in todo[w]
  <2>1. PICK w \in Worker : pc[w] = "request" /\ mem[w].op = op /\ f \in todo[w]
    BY <1>2
  <2>2. CASE RequestFolderReleases(w)
    <3>1. PICK g \in todo[w] :
            /\ Issue("folder_releases", g, 1, NoFolder, mem[w].op)
            /\ IF todo[w] = {g}
               THEN Return(w)
               ELSE /\ todo' = [todo EXCEPT ![w] = todo[w] \ {g}]
                    /\ UNCHANGED <<pc, mem, cur, sent, ops>>
      BY <2>2 DEF RequestFolderReleases, Reliable, NoFaultsOf, Fault
    <3>2. CASE g = f
      <4> DEFINE r == [id |-> issued + 1, type |-> "folder_releases", folder |-> g, page |-> 1,
                       release |-> NoFolder, op |-> mem[w].op]
      <4>1. r \in wire' /\ r.type = "folder_releases" /\ r.op = op /\ r.folder = f
        BY <2>1, <3>1, <3>2 DEF Issue
      <4> QED
        BY <4>1 DEF AskedFor, Outstanding
    <3>3. CASE g # f
      <4>1. pc'[w] = "request" /\ mem'[w] = mem[w] /\ f \in todo'[w]
        BY <2>1, <3>1, <3>3 DEF TypeInv, LocalsOK, LocalsType
      <4> QED
        BY <2>1, <4>1 DEF AskedFor
    <3> QED
      BY <3>2, <3>3
  <2>3. CASE pc'[w] = "request" /\ mem'[w] = mem[w] /\ todo'[w] = todo[w]
    BY <2>1, <2>3 DEF AskedFor
  <2> QED
    BY <2>1, <2>2, <2>3, RequestingStep
<1> QED
  BY <1>1, <1>2 DEF AskedFor

\* The handler of a page goes on with its copy, or works on something else.
Away(c) == pc[c] \notin Storing /\ pc'[c] \notin Storing

GoesOn(c) ==
  /\ pc[c] \in Storing /\ SameRecord(mem'[c], mem[c]) /\ cur'[c] = cur[c]
  /\ \/ pc'[c] = pc[c]
     \/ pc[c] = "missing" /\ pc'[c] \in {"pend", "record"}
     \/ pc[c] = "pend" /\ pc'[c] = "record"

\* Steps that neither start a sync nor store, take or leave a handler's copy.
PlainStep ==
  /\ begun' = begun
  /\ state' # NoState => \/ state # NoState /\ SameRecord(state', state)
                         \/ \E c \in Conn : pc[c] = "pend" /\ SameRecord(state', read[c])
  /\ \A c \in Conn : Away(c) \/ GoesOn(c)

\* What the promise needs of a step that takes no page.
AskedRemain == \A op, f : AskedFor(op, f) => AskedFor(op, f)'

LEMMA PlainKeeps ==
  ASSUME PlainStep, AskedRemain, OneConnection, StateDriven, CopiesDriven, ReadsDriven
  PROVE  StateDriven' /\ CopiesDriven'
<1> USE DEF SameRecord, SameCore
<1>1. StateDriven'
  <2> SUFFICES ASSUME state' # NoState PROVE StateDriven'
    BY DEF StateDriven
  <2>1. PICK x, s : s = state' /\ SameRecord(s, x) /\ Driven(x)
    BY DEF PlainStep, StateDriven, ReadsDriven
  <2>2. ASSUME ~s.complete
        PROVE  /\ ~FoldersDone(s)
               /\ AllAsked(s)' \/ \E c \in Conn : Holding(c, s.op)'
    <3>1. ~FoldersDone(x) /\ (AllAsked(x) \/ \E c \in Conn : Holding(c, x.op))
      BY <2>1, <2>2 DEF Driven
    <3>2. CASE AllAsked(x)
      BY <2>1, <3>1, <3>2 DEF AllAsked, AskedRemain, FoldersDone
    <3>3. ASSUME NEW c \in Conn, Holding(c, x.op) PROVE Holding(c, s.op)'
      BY <2>1, <3>3 DEF Holding, PlainStep, Away, GoesOn, Storing
    <3> QED
      BY <2>1, <3>1, <3>2, <3>3 DEF FoldersDone
  <2>3. Driven(s)'
    BY <2>1, <2>2 DEF Driven, PlainStep
  <2> QED
    BY <2>1, <2>3 DEF StateDriven, Driven, AllAsked
<1>2. ASSUME NEW c \in Conn, pc'[c] \in Storing
      PROVE  DrivenCopy(c, mem[c])'
  <2>1. GoesOn(c) /\ DrivenCopy(c, mem[c])
    BY <1>2 DEF PlainStep, Away, GoesOn, CopiesDriven
  <2>2. PICK s, t : s = mem[c] /\ t = mem'[c]
    OBVIOUS
  <2>3. SameRecord(t, s) /\ DrivenCopy(c, s)
    BY <2>1, <2>2 DEF GoesOn
  <2>4. \A f : AskedFor(s.op, f) => AskedFor(t.op, f)'
    BY <2>3 DEF AskedRemain
  <2>5. t.op <= begun' /\ t.complete = t.validated
    BY <2>3 DEF DrivenCopy, PlainStep
  <2>6. pc'[c] \in {"missing", "pend", "record"} => t.complete
    BY <2>1, <2>3 DEF DrivenCopy, GoesOn
  <2>7. ASSUME pc'[c] \in {"paginate", "decide"}
        PROVE  /\ ~t.complete => \A f \in t.scope \ t.completed :
                     AskedFor(t.op, f)' \/ (pc'[c] = "paginate" /\ f = cur'[c].req.folder)
               /\ t.complete /\ state' # NoState /\ state'.op = t.op => state'.complete
    <3>1. pc'[c] = pc[c] /\ cur'[c] = cur[c]
      BY <2>1, <2>7 DEF GoesOn
    <3>2. state' # NoState => state # NoState /\ SameRecord(state', state)
      BY <2>7, <3>1 DEF PlainStep, OneConnection
    <3> QED
      BY <2>3, <2>4, <2>7, <3>1, <3>2 DEF DrivenCopy
  <2>8. pc'[c] = "settle" /\ ~t.complete => ~FoldersDone(t) /\ AllAsked(t)'
    BY <2>1, <2>3, <2>4 DEF DrivenCopy, GoesOn, AllAsked, FoldersDone
  <2>9. DrivenCopy(c, t)'
    BY <2>5, <2>6, <2>7, <2>8 DEF DrivenCopy
  <2> QED
    BY <2>2, <2>9 DEF DrivenCopy, AllAsked
<1> QED
  BY <1>1, <1>2 DEF CopiesDriven

\* Operations are numbered upwards.
LEMMA BegunGrows ==
  ASSUME TypeInv, [Next]_vars
  PROVE  begun' \in {begun, begun + 1}
<1>1. CASE Environment \/ UNCHANGED vars
  BY <1>1 DEF vars, Environment, Answer, Lose, ExpireMetadata, ExpireState, AgeState, Crash
<1>2. ASSUME NEW w \in Worker, Work(w) PROVE begun' \in {begun, begun + 1}
  BY <1>2 DEF Work, Post, PostSync, RequestUserFolders, StartSync, CheckInProgress,
     StoreSyncState, RequestFolderReleases, HandleResponse, ReceiveUnknown, ReceiveFolders,
     UpsertFolders, DeleteOrphanFolders, SelectDefaultFolder, ReceivePage, Paginate,
     SaveProgress,
     ValidateReleases, SkipValidation, MissingToken, RequestRelease, ReadPending, WritePending,
     RecordValidation, ReceiveRelease, SettlePending, TriggerSyncCompletion,
     AnalyzeDifferentialSync, ExecuteSyncOperations, ExtractBasicInformation, CompleteSync
<1> QED
  BY <1>1, <1>2 DEF Next

\* What is read to be written back stays driven: no page is taken in between.
LEMMA ReadsDrivenStep ==
  ASSUME TypeInv, OneConnection, StateDriven, ReadsDriven, [Next]_vars,
         (\A w \in Worker : ~ReceivePage(w)) => AskedRemain
  PROVE  ReadsDriven'
<1> SUFFICES ASSUME NEW c \in Conn, pc'[c] = "pend" PROVE Driven(read[c])'
  BY DEF ReadsDriven
<1>1. /\ mem'[c] = mem[c] /\ pc[c] \in {"missing", "pend"}
      /\ \/ pc[c] = "pend" /\ read'[c] = read[c]
         \/ state # NoState /\ read'[c] = state
  BY ReadState
<1>2. AskedRemain
  BY <1>1 DEF ReceivePage, Receive, OneConnection
<1>3. PICK s : s = read'[c] /\ Driven(s) /\ s.op \in Nat
  BY <1>1, OpTypes DEF StateDriven, ReadsDriven, Worker
<1>4. s.op <= begun'
  BY <1>3, BegunGrows DEF Driven, TypeInv, DataType
<1>5. AllAsked(s) => AllAsked(s)'
  BY <1>2 DEF AllAsked, AskedRemain
<1>6. ASSUME NEW d \in Conn, Holding(d, s.op) PROVE Holding(d, s.op)'
  BY <1>1, <1>6 DEF Holding, OneConnection
<1>7. Driven(s)'
  BY <1>3, <1>4, <1>5, <1>6 DEF Driven
<1> QED
  BY <1>3, <1>7 DEF Driven, AllAsked

\* Posters hold no copy of a sync state that they may store.
LEMMA StoringIsConn ==
  ASSUME PostersOnlyStart, NEW w \in Worker, pc[w] \in Storing \cup {"folders",
  "trigger"} \cup Late
  PROVE  w \in Conn
BY DEF PostersOnlyStart, Worker, Storing, Late

LEMMA OtherWorkersPlain ==
  ASSUME TypeInv, Reliable, [Next]_vars,
         \/ Environment \/ UNCHANGED vars
         \/ \E w \in Worker : Post(w) \/ CheckInProgress(w) \/ RequestFolderReleases(w)
  PROVE  PlainStep
<1> USE ConstantsAssumption DEF TypeInv, DataType, LocalsOK, LocalsType, HoldsWhatItNeeds,
        SyncState, Worker, SameRecord, SameCore, Reliable, NoFaultsOf, Fault, Storing, Away,
        GoesOn
<1>1. CASE Environment \/ UNCHANGED vars
  BY <1>1 DEF PlainStep, vars, Environment, Answer, Lose, ExpireMetadata, ExpireState, AgeState,
              Crash, locals
<1>2. ASSUME NEW w \in Worker, Post(w) \/ CheckInProgress(w) \/ RequestFolderReleases(w)
      PROVE  PlainStep
  BY <1>2 DEF PlainStep, Post, PostSync, RequestUserFolders, CheckInProgress,
              RequestFolderReleases, ClearState, locals, Return, Goto
<1> QED
  BY <1>1, <1>2

LEMMA HandlersPlain ==
  ASSUME TypeInv, Reliable, NEW w \in Worker,
         \/ ReceiveUnknown(w) \/ ReceiveFolders(w) \/ UpsertFolders(w)
         \/ DeleteOrphanFolders(w) \/ SelectDefaultFolder(w) \/ RequestRelease(w)
         \/ TriggerSyncCompletion(w) \/ AnalyzeDifferentialSync(w) \/ ExecuteSyncOperations(w)
         \/ ExtractBasicInformation(w) \/ CompleteSync(w)
  PROVE  PlainStep
<1> USE DEF TypeInv, LocalsOK, LocalsType, Worker, SameRecord, SameCore, Storing, Away, GoesOn,
        Reliable, NoFaultsOf, Fault
<1>1. CASE \/ ReceiveUnknown(w) \/ ReceiveFolders(w) \/ UpsertFolders(w)
           \/ DeleteOrphanFolders(w) \/ SelectDefaultFolder(w) \/ RequestRelease(w)
  BY <1>1 DEF PlainStep, ReceiveUnknown, ReceiveFolders, UpsertFolders, DeleteOrphanFolders,
     SelectDefaultFolder, RequestRelease, Receive,
              locals, Return, Goto
<1>2. CASE \/ TriggerSyncCompletion(w) \/ AnalyzeDifferentialSync(w) \/ ExecuteSyncOperations(w)
           \/ ExtractBasicInformation(w) \/ CompleteSync(w)
  BY <1>2 DEF PlainStep, TriggerSyncCompletion, AnalyzeDifferentialSync, ExecuteSyncOperations,
              ExtractBasicInformation, CompleteSync, FailSync, ClearState, locals, Return, Goto
<1> QED
  BY <1>1, <1>2

\* The requests for missing releases leave the copy as it is; the state is at most written back.
LEMMA MissingPlain ==
  ASSUME TypeInv, PostersOnlyStart, Reliable, NEW w \in Worker, MissingToken(w) \/ ReadPending(w) \/ WritePending(w)
  PROVE  PlainStep
<1> USE DEF TypeInv, LocalsOK, LocalsType, Worker, SameRecord, SameCore, Storing, Away, GoesOn,
        Reliable, NoFaultsOf, Fault
<1>1. CASE MissingToken(w)
  <2>1. mem[w] \in SyncState
    BY <1>1 DEF MissingToken, HoldsWhatItNeeds, HoldsState
  <2>2. SameRecord([mem[w] EXCEPT !.ready = TRUE], mem[w])
    BY <2>1 DEF SyncState
  <2> QED
    BY <1>1, <2>2 DEF PlainStep, MissingToken, Goto
<1>2. CASE ReadPending(w)
  BY <1>2 DEF PlainStep, ReadPending, Goto
<1>3. CASE WritePending(w)
  <2>1. w \in Conn /\ pc[w] = "pend" /\ read[w] \in SyncState
    BY <1>3 DEF WritePending, PostersOnlyStart, HoldsWhatItNeeds
  <2>2. SameRecord([read[w] EXCEPT !.pending = @ \cup sent[w]], read[w])
    BY <2>1 DEF SyncState
  <2>3. SameRecord(state', read[w])
    BY <1>3, <2>2 DEF WritePending
  <2> QED
    BY <1>3, <2>1, <2>3 DEF PlainStep, WritePending, Goto, locals
<1> QED
  BY <1>1, <1>2, <1>3

\* With one connection, no other handler has a copy that it may store.
LEMMA OneCopy ==
  ASSUME OneConnection, NEW c \in Conn,
         pc'[c] \notin Storing \/ \E s : s = mem'[c] /\ DrivenCopy(c, s)'
  PROVE  CopiesDriven'
BY DEF OneConnection, CopiesDriven, DrivenCopy, AllAsked

LEMMA StoredIsDriven ==
  ASSUME NEW s, s = state', Driven(s)'
  PROVE  StateDriven'
BY DEF StateDriven, Driven, AllAsked

\* If the read pump is free, every page the state lacks is asked for.
LEMMA FreeAsks ==
  ASSUME OneConnection, StateDriven, NEW c \in Conn, pc[c] = "idle", state # NoState
  PROVE  ~state.complete => ~FoldersDone(state) /\ AllAsked(state)
BY DEF OneConnection, StateDriven, Driven, Holding

\* A new sync asks for every folder.
LEMMA StoreDriven ==
  ASSUME TypeInv, Reliable, PostersOnlyStart, AskedRemain, StateDriven, CopiesDriven,
         ReadsDriven, NEW w \in Worker, StoreSyncState(w)
  PROVE  StateDriven' /\ CopiesDriven'
<1> USE DEF TypeInv, DataType, LocalsOK, LocalsType
<1>1. pc[w] = "store"
  BY DEF StoreSyncState
<1>2. CASE state' = state /\ begun' = begun
  <2>1. PlainStep
    BY <1>1, <1>2 DEF PlainStep, StoreSyncState, Worker, SameRecord, SameCore, Storing, Away,
                      GoesOn, Return, Goto
  <2> QED
    BY <2>1, PlainKeeps DEF Reliable
<1>3. CASE ~(state' = state /\ begun' = begun)
  <2>1. PICK s : s = NewState(begun + 1, folders)
    OBVIOUS
  <2>2. /\ s = state' /\ mem' = [mem EXCEPT ![w] = s] /\ begun' = begun + 1 /\ folders # {}
        /\ todo' = [todo EXCEPT ![w] = folders] /\ pc' = [pc EXCEPT ![w] = "request"]
        /\ cur' = cur
    BY <1>3, <2>1 DEF StoreSyncState, Return, Goto
  <2>3. /\ s.op = begun + 1 /\ s.scope = folders /\ s.completed = {}
        /\ s.complete = FALSE /\ s.validated = FALSE
    BY <2>1 DEF NewState
  <2>4. ~FoldersDone(s)
    <3>1. IsFiniteSet(folders)
      BY FS_Subset, ConstantsAssumption
    <3>2. Cardinality(folders) \in Nat /\ Cardinality(folders) # 0 /\ Cardinality({}) = 0
      BY <2>2, <3>1, FS_CardinalityType, FS_EmptySet
    <3> QED
      BY <2>3, <3>2 DEF FoldersDone
  <2>5. AllAsked(s)'
    BY <2>2, <2>3 DEF AllAsked, AskedFor
  <2>6. StateDriven'
    <3>1. s.op <= begun'
      BY <2>2, <2>3
    <3>2. Driven(s)'
      BY <2>3, <2>4, <2>5, <3>1 DEF Driven
    <3> QED
      BY <2>2, <3>2, StoredIsDriven
  <2>7. ASSUME NEW c \in Conn, pc'[c] \in Storing
        PROVE  DrivenCopy(c, mem[c])'
    <3>1. /\ pc'[c] = pc[c] /\ mem'[c] = mem[c] /\ cur'[c] = cur[c]
          /\ pc[c] \in Storing
      BY <1>1, <2>2, <2>7 DEF Worker, Storing
    <3>2. PICK t : t = mem[c]
      OBVIOUS
    <3>3. DrivenCopy(c, t) /\ t \in SyncState
      BY <3>1, <3>2 DEF CopiesDriven, HoldsWhatItNeeds, HoldsState, Storing, Worker
    <3>4. t.op \in Nat /\ t.op <= begun
      BY <3>3 DEF DrivenCopy, SyncState
    <3>5. t.op <= begun' /\ state'.op # t.op
      BY <2>2, <2>3, <3>4
    <3>6. DrivenCopy(c, t)'
      BY <3>1, <3>3, <3>5 DEF DrivenCopy, AllAsked, AskedRemain
    <3> QED
      BY <3>1, <3>2, <3>6 DEF DrivenCopy, AllAsked
  <2> QED
    BY <2>6, <2>7 DEF CopiesDriven
<1> QED
  BY <1>2, <1>3

\* A page that is taken is held until the copy is stored, or names the next one.
LEMMA ReceivePageDriven ==
  ASSUME TypeInv, Reliable, Known, StateDriven, NEW c \in Worker, ReceivePage(c)
  PROVE  StateDriven' /\ CopiesDriven'
<1> USE DEF TypeInv, DataType, NetworkType, LocalsOK, LocalsType
<1>1. PICK m \in inbox :
        /\ Receive(c, m) /\ m.req.type = "folder_releases"
        /\ \/ FailSync(c)
           \/ state = NoState /\ UNCHANGED <<locals, state, pc>>
           \/ /\ state # NoState
              /\ \E T \in Taken(state, m) : mem' = [mem EXCEPT ![c] = Merge(state, m, T)]
              /\ cur' = [cur EXCEPT ![c] = m]
              /\ Goto(c, IF HasNextPage(m) THEN "paginate" ELSE "decide")
              /\ UNCHANGED <<state, todo>>
  BY DEF ReceivePage
<1>2. c \in Conn /\ pc[c] = "idle" /\ OneConnection /\ begun' = begun
  BY <1>1 DEF Receive, Reliable, ReceivePage
<1>3. CASE state' = NoState /\ pc'[c] \notin Storing
  BY <1>2, <1>3, OneCopy DEF StateDriven
<1>4. ASSUME state # NoState, NEW T, mem' = [mem EXCEPT ![c] = Merge(state, m, T)],
             cur' = [cur EXCEPT ![c] = m],
             Goto(c, IF HasNextPage(m) THEN "paginate" ELSE "decide"),
             state' = state, todo' = todo
      PROVE  StateDriven' /\ CopiesDriven'
  <2>1. PICK s, t : s = state /\ t = Merge(state, m, T)
    OBVIOUS
  <2>2. s \in SyncState /\ Driven(s) /\ (~s.complete => ~FoldersDone(s) /\ AllAsked(s))
    BY <1>2, <1>4, <2>1, FreeAsks DEF StateDriven
  <2>3. /\ t.op = s.op /\ t.scope = s.scope /\ t.complete = s.complete
        /\ t.validated = s.validated
        /\ t.completed = IF HasNextPage(m) THEN s.completed ELSE s.completed \cup {m.req.folder}
    BY <2>1, <2>2 DEF Merge, SyncState
  <2>4. /\ mem'[c] = t /\ cur'[c] = m
        /\ pc' = [pc EXCEPT ![c] = IF HasNextPage(m) THEN "paginate" ELSE "decide"]
    BY <1>4, <2>1 DEF Goto
  <2>5. Driven(s)'
    <3>1. Holding(c, s.op)'
      BY <2>3, <2>4 DEF Holding
    <3> QED
      BY <1>2, <2>2, <3>1 DEF Driven
  <2>6. ASSUME ~s.complete, NEW f \in t.scope \ t.completed
        PROVE  AskedFor(t.op, f)' \/ (pc'[c] = "paginate" /\ f = cur'[c].req.folder)
    <3>1. AskedFor(s.op, f)
      BY <2>2, <2>3, <2>6 DEF AllAsked
    <3>2. ASSUME NEW r \in Outstanding, r.op = s.op, r.folder = f
          PROVE  AskedFor(t.op, f)' \/ (pc'[c] = "paginate" /\ f = cur'[c].req.folder)
      <4>1. CASE r = m.req
        BY <2>3, <2>4, <2>6, <3>2, <4>1
      <4>2. CASE r # m.req
        <5>1. Requests' = Requests \ {m.req}
          BY <1>1, ReceivedGone
        <5>2. r \in Outstanding'
          BY <3>2, <4>2, <5>1 DEF Outstanding, Requests
        <5> QED
          BY <2>3, <3>2, <5>2 DEF AskedFor
      <4> QED
        BY <4>1, <4>2
    <3>3. ASSUME NEW w \in Worker, pc[w] = "request", mem[w].op = s.op, f \in todo[w]
          PROVE  AskedFor(t.op, f)'
      <4>1. pc'[w] = "request" /\ mem'[w] = mem[w] /\ todo'[w] = todo[w]
        BY <1>2, <1>4, <3>3 DEF Goto
      <4> QED
        BY <2>3, <3>3, <4>1 DEF AskedFor
    <3> QED
      BY <3>1, <3>2, <3>3 DEF AskedFor
  <2>7. DrivenCopy(c, t)'
    <3>1. pc'[c] \in {"paginate", "decide"} /\ t.op <= begun' /\ t.complete = t.validated
      BY <1>2, <2>2, <2>3, <2>4 DEF Driven
    <3>2. t.complete => state'.complete
      BY <1>4, <2>1, <2>3
    <3> QED
      BY <2>3, <2>6, <3>1, <3>2 DEF DrivenCopy
  <2> QED
    BY <1>2, <1>4, <2>1, <2>4, <2>5, <2>7, OneCopy, StoredIsDriven
<1> QED
  BY <1>1, <1>2, <1>3, <1>4 DEF FailSync, ClearState, Return, Goto, Storing, Reliable,
     NoFaultsOf,
     Fault, locals

\* The next page of the folder is asked for.
LEMMA PaginateDriven ==
  ASSUME TypeInv, Reliable, AskedRemain, StateDriven, CopiesDriven,
         NEW c \in Conn, Paginate(c)
  PROVE  StateDriven' /\ CopiesDriven'
<1> USE DEF TypeInv, LocalsOK, LocalsType
<1>1. /\ pc[c] = "paginate" /\ pc' = [pc EXCEPT ![c] = "decide"]
      /\ UNCHANGED <<locals, state, begun>> /\ OneConnection
      /\ Issue("folder_releases", cur[c].req.folder, cur[c].req.page + 1, NoFolder, mem[c].op)
  BY DEF Paginate, Goto, Reliable, NoFaultsOf, Fault
<1>2. pc'[c] = "decide" /\ mem' = mem /\ cur' = cur /\ todo' = todo
  BY <1>1 DEF locals, Worker
<1>3. PICK t, f : t = mem[c] /\ f = cur[c].req.folder
  OBVIOUS
<1>4. DrivenCopy(c, t)
  BY <1>1, <1>3 DEF CopiesDriven, Storing
<1>5. AskedFor(t.op, f)'
  <2> DEFINE r == [id |-> issued + 1, type |-> "folder_releases", folder |-> cur[c].req.folder,
                   page |-> cur[c].req.page + 1, release |-> NoFolder, op |-> mem[c].op]
  <2>1. r \in wire' /\ r.type = "folder_releases" /\ r.op = t.op /\ r.folder = f
    BY <1>1, <1>3 DEF Issue
  <2> QED
    BY <2>1 DEF AskedFor, Outstanding
<1>6. DrivenCopy(c, t)'
  <2>1. ~t.complete => \A g \in t.scope \ t.completed : AskedFor(t.op, g)'
    BY <1>1, <1>3, <1>4, <1>5 DEF DrivenCopy, AskedRemain
  <2> QED
    BY <1>1, <1>2, <1>4, <2>1 DEF DrivenCopy
<1>7. StateDriven'
  <2> SUFFICES ASSUME state # NoState PROVE StateDriven'
    BY <1>1 DEF StateDriven
  <2>1. PICK s : s = state
    OBVIOUS
  <2>2. Driven(s)
    BY <2>1 DEF StateDriven
  <2>3. AllAsked(s) => AllAsked(s)'
    BY DEF AllAsked, AskedRemain
  <2>4. Holding(c, s.op) => Holding(c, s.op)'
    BY <1>2 DEF Holding
  <2>5. Driven(s)'
    BY <1>1, <2>2, <2>3, <2>4 DEF Driven, OneConnection
  <2> QED
    BY <1>1, <2>1, <2>5, StoredIsDriven
<1> QED
  BY <1>1, <1>2, <1>3, <1>6, <1>7, OneCopy

\* A copy with folders left is stored; its folders are asked for.
LEMMA SaveProgressDriven ==
  ASSUME TypeInv, Reliable, AskedRemain, CopiesDriven, NEW c \in Conn, SaveProgress(c)
  PROVE  StateDriven' /\ CopiesDriven'
<1>1. /\ pc[c] = "decide" /\ ~FoldersDone(mem[c]) /\ state' = mem[c] /\ begun' = begun
      /\ pc'[c] \notin Storing /\ OneConnection
  BY DEF SaveProgress, Return, Goto, Reliable, NoFaultsOf, Fault, Storing, TypeInv, LocalsOK,
         LocalsType, Worker
<1>2. PICK s : s = mem[c]
  OBVIOUS
<1>3. DrivenCopy(c, s)
  BY <1>1, <1>2 DEF CopiesDriven, Storing
<1>4. ~s.complete => AllAsked(s)'
  BY <1>1, <1>3 DEF DrivenCopy, AllAsked, AskedRemain
<1>5. Driven(s)'
  BY <1>1, <1>2, <1>3, <1>4 DEF Driven, DrivenCopy, FoldersDone
<1> QED
  BY <1>1, <1>2, <1>5, OneCopy, StoredIsDriven

\* A copy whose folders are complete is complete once it is validated, and held until it is stored.
LEMMA ValidateDriven ==
  ASSUME TypeInv, Reliable, AskedRemain, StateDriven, CopiesDriven,
         NEW c \in Conn, ValidateReleases(c)
  PROVE  StateDriven' /\ CopiesDriven'
<1> USE DEF TypeInv, LocalsOK, LocalsType
<1>1. pc[c] = "decide" /\ begun' = begun /\ OneConnection
  BY DEF ValidateReleases, Reliable
<1>2. CASE FailSync(c)
  <2>1. state' = NoState /\ pc'[c] \notin Storing
    BY <1>2 DEF FailSync, ClearState, Return, Goto, Reliable, NoFaultsOf, Fault, Storing, Worker
  <2> QED
    BY <1>1, <2>1, OneCopy DEF StateDriven
<1>3. CASE ~FailSync(c)
  <2> DEFINE absent == MergedReleases(mem[c]) \ rows
             u == [mem[c] EXCEPT !.complete = TRUE, !.validated = TRUE,
                                 !.missing = absent, !.ready = (absent = {})]
  <2>1. mem' = [mem EXCEPT ![c] = u]
    BY <1>3 DEF ValidateReleases
  <2>2. state' = state /\ Goto(c, IF absent = {} THEN "record" ELSE "missing")
    BY <1>3 DEF ValidateReleases
  <2>3. PICK t : t = u
    OBVIOUS
  <2>4. mem[c] \in SyncState /\ DrivenCopy(c, mem[c])
    BY <1>1 DEF HoldsWhatItNeeds, HoldsState, CopiesDriven, Storing, Worker
  <2>5. t.op = mem[c].op /\ t.complete /\ t.complete = t.validated
    BY <2>3, <2>4 DEF SyncState
  <2>6. mem'[c] = t /\ pc'[c] \in {"record", "missing"}
    BY <2>1, <2>2, <2>3 DEF Worker, Goto
  <2> HIDE DEF u
  <2>7. DrivenCopy(c, t)'
    BY <1>1, <2>4, <2>5, <2>6 DEF DrivenCopy
  <2>8. StateDriven'
    <3> SUFFICES ASSUME state # NoState PROVE StateDriven'
      BY <2>2 DEF StateDriven
    <3>1. PICK s : s = state
      OBVIOUS
    <3>2. Driven(s)
      BY <3>1 DEF StateDriven
    <3>3. AllAsked(s) => AllAsked(s)'
      BY DEF AllAsked, AskedRemain
    <3>4. Holding(c, s.op) => Holding(c, s.op)'
      BY <2>5, <2>6 DEF Holding
    <3>5. Driven(s)'
      BY <1>1, <3>2, <3>3, <3>4 DEF Driven, OneConnection
    <3> QED
      BY <2>2, <3>1, <3>5, StoredIsDriven
  <2> QED
    BY <1>1, <2>6, <2>7, <2>8, OneCopy
<1> QED
  BY <1>2, <1>3

\* What is validated already was taken from a complete state: nothing waits for the copy.
LEMMA SkipDriven ==
  ASSUME TypeInv, Reliable, AskedRemain, StateDriven, CopiesDriven,
         NEW c \in Conn, SkipValidation(c)
  PROVE  StateDriven' /\ CopiesDriven'
<1>1. /\ pc[c] = "decide" /\ mem[c].validated /\ state' = state /\ begun' = begun
      /\ pc'[c] \notin Storing /\ OneConnection
  BY DEF SkipValidation, Return, Goto, Reliable, Storing, TypeInv, LocalsOK, LocalsType, Worker
<1>2. DrivenCopy(c, mem[c])
  BY <1>1 DEF CopiesDriven, Storing
<1>3. StateDriven'
  <2> SUFFICES ASSUME state # NoState PROVE StateDriven'
    BY <1>1 DEF StateDriven
  <2>1. PICK s : s = state
    OBVIOUS
  <2>2. Driven(s)
    BY <2>1 DEF StateDriven
  <2>3. AllAsked(s) => AllAsked(s)'
    BY DEF AllAsked, AskedRemain
  <2>4. Holding(c, s.op) => s.complete
    BY <1>1, <1>2, <2>1 DEF DrivenCopy, Holding
  <2>5. Driven(s)'
    BY <1>1, <2>2, <2>3, <2>4 DEF Driven, OneConnection
  <2> QED
    BY <1>1, <2>1, <2>5, StoredIsDriven
<1> QED
  BY <1>1, <1>3, OneCopy

\* A validated copy is stored.
LEMMA RecordDriven ==
  ASSUME TypeInv, Reliable, CopiesDriven, NEW c \in Conn, RecordValidation(c)
  PROVE  StateDriven' /\ CopiesDriven'
<1>1. /\ pc[c] = "record" /\ state' = mem[c] /\ begun' = begun
      /\ pc'[c] \notin Storing /\ OneConnection
  BY DEF RecordValidation, Return, Goto, Reliable, NoFaultsOf, Fault, Storing, TypeInv,
     LocalsOK,
         LocalsType, Worker
<1>2. PICK s : s = mem[c]
  OBVIOUS
<1>3. DrivenCopy(c, s)
  BY <1>1, <1>2 DEF CopiesDriven, Storing
<1>4. Driven(s)'
  BY <1>1, <1>3 DEF Driven, DrivenCopy
<1> QED
  BY <1>1, <1>2, <1>4, OneCopy, StoredIsDriven

\* The answer for a missing release takes a copy while the read pump is free.
LEMMA ReceiveReleaseDriven ==
  ASSUME TypeInv, Reliable, AskedRemain, StateDriven, CopiesDriven, ReadsDriven,
         NEW c \in Worker, ReceiveRelease(c)
  PROVE  StateDriven' /\ CopiesDriven'
<1> USE DEF TypeInv, DataType, LocalsOK, LocalsType
<1>1. c \in Conn /\ pc[c] = "idle" /\ state' = state /\ begun' = begun /\ OneConnection
  BY DEF ReceiveRelease, Receive, Reliable
<1>2. CASE pc' = pc /\ mem' = mem
  <2>1. PlainStep
    BY <1>1, <1>2 DEF PlainStep, ReceiveRelease, Worker, SameRecord, SameCore, Away, GoesOn
  <2> QED
    BY <1>1, <2>1, PlainKeeps
<1>3. CASE ~(pc' = pc /\ mem' = mem)
  <2>1. PICK m \in inbox :
          /\ state # NoState /\ pc' = [pc EXCEPT ![c] = "settle"]
          /\ mem' = [mem EXCEPT ![c] = [state EXCEPT !.pending = @ \ {m.req.id}]]
    BY <1>3 DEF ReceiveRelease, Goto
  <2>2. PICK s, t : s = state /\ t = [state EXCEPT !.pending = @ \ {m.req.id}]
    OBVIOUS
  <2>3. SameRecord(t, s) /\ mem'[c] = t /\ pc'[c] = "settle"
    BY <1>1, <2>1, <2>2 DEF SameRecord, SameCore, SyncState, Worker
  <2>4. Driven(s) /\ (~s.complete => ~FoldersDone(s) /\ AllAsked(s))
    BY <1>1, <2>1, <2>2, FreeAsks DEF StateDriven
  <2>5. AllAsked(s) => AllAsked(s)' /\ AllAsked(t)'
    BY <2>3 DEF AllAsked, AskedRemain, SameRecord, SameCore
  <2>6. Driven(s)' /\ DrivenCopy(c, t)'
    BY <1>1, <2>3, <2>4, <2>5 DEF Driven, DrivenCopy, SameRecord, SameCore, FoldersDone
  <2> QED
    BY <1>1, <2>2, <2>3, <2>6, OneCopy, StoredIsDriven
<1> QED
  BY <1>2, <1>3

LEMMA SettleDriven ==
  ASSUME TypeInv, Reliable, AskedRemain, CopiesDriven, NEW c \in Conn, SettlePending(c)
  PROVE  StateDriven' /\ CopiesDriven'
<1> USE DEF TypeInv, LocalsOK, LocalsType
<1>1. pc[c] = "settle" /\ begun' = begun /\ pc'[c] \notin Storing /\ OneConnection
  BY DEF SettlePending, Return, Goto, Reliable, Storing, Worker
<1>2. mem[c] \in SyncState
  BY <1>1 DEF HoldsWhatItNeeds, HoldsState, Worker
<1>3. SameRecord(state', mem[c])
  BY <1>2 DEF SettlePending, SameRecord, SameCore, SyncState, Reliable, NoFaultsOf, Fault
<1>4. PICK s, t : s = mem[c] /\ t = state'
  OBVIOUS
<1>5. DrivenCopy(c, s) /\ SameRecord(t, s)
  BY <1>1, <1>3, <1>4 DEF CopiesDriven, Storing
<1>6. ~t.complete => ~FoldersDone(t) /\ AllAsked(t)'
  BY <1>1, <1>5 DEF DrivenCopy, SameRecord, SameCore, FoldersDone, AllAsked, AskedRemain
<1>7. Driven(t)'
  BY <1>1, <1>5, <1>6 DEF Driven, DrivenCopy, SameRecord, SameCore
<1> QED
  BY <1>1, <1>4, <1>7, OneCopy, StoredIsDriven

DrivenInv == PostersOnlyStart /\ Known /\ StateDriven /\ CopiesDriven /\ ReadsDriven

LEMMA DrivenInvInit == Init => DrivenInv
<1> SUFFICES ASSUME Init PROVE DrivenInv
  OBVIOUS
<1>1. PostersOnlyStart
  BY DEF Init, PostersOnlyStart, Worker
<1>2. Known
  BY DEF Init, Known, Requests
<1>3. StateDriven /\ CopiesDriven /\ ReadsDriven
  BY DEF Init, StateDriven, CopiesDriven, ReadsDriven, Storing, Worker
<1> QED
  BY <1>1, <1>2, <1>3 DEF DrivenInv

LEMMA DrivenInvInductive ==
  ASSUME TypeInv, Reliable, DrivenInv, [Next]_vars
  PROVE  DrivenInv'
<1> USE DEF DrivenInv
<1>1. PostersOnlyStart' /\ Known'
  BY PostersStep, KnownStep
<1>2. (\A w \in Worker : ~ReceivePage(w)) => AskedRemain
  BY AskedStays DEF AskedRemain
<1>5. OneConnection /\ ReadsDriven'
  BY <1>2, ReadsDrivenStep DEF Reliable
<1>3. ASSUME NEW w \in Worker, ReceivePage(w) PROVE StateDriven' /\ CopiesDriven'
  BY <1>3, ReceivePageDriven
<1>4. ASSUME \A w \in Worker : ~ReceivePage(w) PROVE StateDriven' /\ CopiesDriven'
  <2>1. AskedRemain
    BY <1>2, <1>4
  <2>2. CASE \/ Environment \/ UNCHANGED vars
             \/ \E w \in Worker : Post(w) \/ CheckInProgress(w) \/ RequestFolderReleases(w)
    BY <1>5, <2>1, <2>2, OtherWorkersPlain, PlainKeeps
  <2>3. ASSUME NEW w \in Worker, StoreSyncState(w) PROVE StateDriven' /\ CopiesDriven'
    BY <2>1, <2>3, StoreDriven
  <2>4. ASSUME NEW w \in Worker, ReceiveRelease(w) PROVE StateDriven' /\ CopiesDriven'
    BY <2>1, <2>4, ReceiveReleaseDriven
  <2>5. ASSUME NEW w \in Worker,
               \/ ReceiveUnknown(w) \/ ReceiveFolders(w) \/ UpsertFolders(w)
               \/ DeleteOrphanFolders(w) \/ SelectDefaultFolder(w) \/ RequestRelease(w)
               \/ TriggerSyncCompletion(w) \/ AnalyzeDifferentialSync(w)
               \/ ExecuteSyncOperations(w) \/ ExtractBasicInformation(w) \/ CompleteSync(w)
               \/ MissingToken(w) \/ ReadPending(w) \/ WritePending(w)
        PROVE  StateDriven' /\ CopiesDriven'
    BY <1>5, <2>1, <2>5, HandlersPlain, MissingPlain, PlainKeeps
  <2>6. ASSUME NEW w \in Worker,
               \/ Paginate(w) \/ SaveProgress(w) \/ ValidateReleases(w) \/ SkipValidation(w)
               \/ RecordValidation(w) \/ SettlePending(w)
        PROVE  StateDriven' /\ CopiesDriven'
    <3>1. w \in Conn
      BY <2>6, StoringIsConn DEF Paginate, SaveProgress, ValidateReleases, SkipValidation,
         RecordValidation, SettlePending, Storing
    <3> QED
      BY <2>1, <2>6, <3>1, PaginateDriven, SaveProgressDriven, ValidateDriven, SkipDriven,
         RecordDriven, SettleDriven
  <2> QED
    BY <1>4, <2>2, <2>3, <2>4, <2>5, <2>6 DEF Next, Work, StartSync, HandleResponse
<1> QED
  BY <1>1, <1>3, <1>4, <1>5

\* Folders that are left are a folder that is left.
LEMMA FolderLeft ==
  ASSUME NEW s \in SyncState, ~FoldersDone(s)
  PROVE  \E f \in s.scope : f \notin s.completed
<1> SUFFICES ASSUME s.scope \subseteq s.completed PROVE FALSE
  OBVIOUS
<1>1. IsFiniteSet(s.scope) /\ IsFiniteSet(s.completed)
  BY FS_Subset, ConstantsAssumption DEF SyncState
<1>2. Cardinality(s.scope) <= Cardinality(s.completed)
  BY <1>1, FS_Subset
<1>3. Cardinality(s.completed) \in Nat /\ Cardinality(s.scope) \in Nat
  BY <1>1, FS_CardinalityType
<1> QED
  BY <1>2, <1>3 DEF FoldersDone

\* A sync in progress is never stranded: some worker is on it, or some request
\* made for it is still to be answered; pages that are HTTP errors or cannot be
\* fetched, a missing token and a failing database do not strand it
\* (ProcessFolderReleasesResponse and SyncAllUserFolders, folders.service.go).
THEOREM InProgressAlwaysDriven ==
  ASSUME Reliable
  PROVE  Spec => []InProgressIsDriven
<1>1. TypeInv /\ DrivenInv => InProgressIsDriven
  <2> SUFFICES ASSUME TypeInv, DrivenInv, InProgress,
                      \A w \in Worker : pc[w] = "idle", wire = {}, inbox = {}
               PROVE  FALSE
    BY DEF InProgressIsDriven
  <2>1. state \in SyncState /\ ~FoldersDone(state) /\ AllAsked(state)
    BY DEF InProgress, DrivenInv, StateDriven, Driven, Holding, Worker, TypeInv, DataType
  <2>2. PICK f \in state.scope : f \notin state.completed
    BY <2>1, FolderLeft
  <2>3. AskedFor(state.op, f)
    BY <2>1, <2>2 DEF AllAsked
  <2> QED
    BY <2>3 DEF AskedFor, Outstanding
<1>2. TypeInv /\ DrivenInv /\ [Next]_vars => DrivenInv'
  BY DrivenInvInductive
<1> QED
  BY <1>1, <1>2, DrivenInvInit, TypeInvHolds, PTL DEF Spec

=============================================================================
