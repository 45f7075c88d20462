------------------------ MODULE CollectionSyncProofs ------------------------
(***************************************************************************)
(* What holds of every collection sync, whatever the folders, instances,   *)
(* connections and faults: types, and that no row of the user refers to a  *)
(* release the database does not have.                                     *)
(***************************************************************************)
EXTENDS CollectionSync, FiniteSetTheorems, TLAPS

\* Where a handler is, and what it therefore holds: the facts about locals and
\* messages that make TypeOK inductive.
HoldsState == {"request", "paginate", "decide", "missing", "pend", "record",
               "analyze", "execute", "extract", "cleanup", "settle"}

NamesItsObject(r) ==
  /\ r.type = "folder_releases" => r.folder \in Folder
  /\ r.type = "release" => r.release \in Release

DataType ==
  /\ rows \subseteq Release /\ folders \subseteq Folder
  /\ selected \in Folder \cup {NoFolder}
  /\ owned \in [Item -> Held]
  /\ state \in SyncState \cup {NoState}
  /\ begun \in Nat /\ posts \in 0..MaxPosts /\ event \in Events
  /\ mixed \in BOOLEAN

NetworkType ==
  /\ meta \subseteq RequestId /\ issued \in 0..MaxRequests
  /\ wire \subseteq Request /\ inbox \subseteq Message
  /\ \A r \in wire : NamesItsObject(r)
  /\ \A m \in inbox : NamesItsObject(m.req)

LocalsType ==
  /\ pc \in [Worker -> Labels]
  /\ mem \in [Worker -> SyncState \cup {NoState}]
  /\ read \in [Worker -> SyncState \cup {NoState}]
  /\ cur \in [Worker -> Message \cup {NoMessage}]
  /\ todo \in [Worker -> SUBSET (Folder \cup Release)]
  /\ sent \in [Worker -> SUBSET RequestId]
  /\ ops \in [Worker -> Operations]

HoldsWhatItNeeds(w) ==
  /\ pc[w] \in HoldsState => mem[w] \in SyncState
  /\ pc[w] = "pend" => read[w] \in SyncState
  /\ pc[w] \in {"folders", "paginate"} => cur[w] \in Message
  /\ pc[w] = "paginate" => cur[w].req.folder \in Folder
  /\ pc[w] = "request" => todo[w] \subseteq Folder
  /\ pc[w] = "missing" => todo[w] \subseteq Release

LocalsOK == LocalsType /\ \A w \in Worker : HoldsWhatItNeeds(w)

TypeInv == DataType /\ NetworkType /\ LocalsOK

-----------------------------------------------------------------------------
(* Lemmas about the data *)

\* A fresh state is a sync state.
LEMMA NewStateType ==
  ASSUME NEW op \in Nat, NEW scope \in SUBSET Folder
  PROVE  NewState(op, scope) \in SyncState
BY DEF NewState, SyncState

\* Merging a page of a folder into a sync state gives a sync state.
LEMMA MergeType ==
  ASSUME NEW s \in SyncState, NEW m \in Message, m.req.folder \in Folder,
         NEW T \in SUBSET Item
  PROVE  Merge(s, m, T) \in SyncState
<1>1. s.merged \in [Item -> Folder \cup {NoFolder}] /\ s.completed \subseteq Folder
  BY DEF SyncState
<1>2. [i \in Item |-> IF i \in T THEN m.req.folder ELSE s.merged[i]]
        \in [Item -> Folder \cup {NoFolder}]
  BY <1>1
<1>3. (IF HasNextPage(m) THEN s.completed ELSE s.completed \cup {m.req.folder})
        \subseteq Folder
  BY <1>1
<1> QED
  BY <1>2, <1>3 DEF Merge, SyncState

\* What is taken from a page is listed on it.
LEMMA TakenFromPage ==
  ASSUME NEW s, NEW m, NEW T \in Taken(s, m)
  PROVE  T \subseteq ItemsOn(m) /\ ItemsOn(m) \subseteq Item
BY DEF Taken, ItemsOn

\* Reconciling sorts instances only.
LEMMA DifferenceType ==
  ASSUME NEW s
  PROVE  Difference(s) \in Operations
BY DEF Difference, Operations, MergedItems

\* What merging and reconciling are told by: releases of instances.
LEMMA MergedReleasesType ==
  ASSUME NEW s
  PROVE  MergedReleases(s) \subseteq Release
BY ConstantsAssumption DEF MergedReleases, MergedItems

\* A request is made with the next id, and put on the wire.
LEMMA IssueType ==
  ASSUME NetworkType,
         NEW type \in {"folders", "folder_releases", "release"},
         NEW f \in Folder \cup {NoFolder}, NEW p \in Nat,
         NEW r \in Release \cup {NoFolder}, NEW op \in Nat,
         type = "folder_releases" => f \in Folder,
         type = "release" => r \in Release,
         Issue(type, f, p, r, op)
  PROVE  NetworkType' /\ issued + 1 \in RequestId
<1>1. issued + 1 \in RequestId /\ issued' \in 0..MaxRequests
  BY ConstantsAssumption DEF NetworkType, Issue, RequestId
<1> DEFINE new == [id |-> issued + 1, type |-> type, folder |-> f,
                   page |-> p, release |-> r, op |-> op]
<1>2. new \in Request /\ NamesItsObject(new)
  BY <1>1 DEF Request, NamesItsObject
<1>3. meta' = meta \cup {issued + 1} /\ wire' = wire \cup {new} /\ inbox' = inbox
  BY DEF Issue
<1> QED
  BY <1>1, <1>2, <1>3 DEF NetworkType

\* A worker that returns holds nothing and needs nothing.
LEMMA ReturnType ==
  ASSUME LocalsOK, NEW w \in Worker, Return(w)
  PROVE  LocalsOK'
<1>1. NoOperations \in Operations /\ "idle" \in Labels
  BY DEF NoOperations, Operations, Labels
<1>2. LocalsType'
  BY <1>1 DEF LocalsOK, LocalsType, Return, Goto
<1>3. ASSUME NEW v \in Worker PROVE HoldsWhatItNeeds(v)'
  BY DEF LocalsOK, LocalsType, HoldsWhatItNeeds, HoldsState, Return, Goto
<1> QED
  BY <1>2, <1>3 DEF LocalsOK

\* A worker that moves on changes its own locals only.
LEMMA FrameType ==
  ASSUME LocalsOK, NEW w \in Worker, LocalsType', HoldsWhatItNeeds(w)',
         \A v \in Worker \ {w} :
           /\ pc'[v] = pc[v] /\ mem'[v] = mem[v] /\ read'[v] = read[v]
           /\ cur'[v] = cur[v] /\ todo'[v] = todo[v]
  PROVE  LocalsOK'
BY DEF LocalsOK, HoldsWhatItNeeds

-----------------------------------------------------------------------------
(* Types *)

LEMMA InitType == Init => TypeInv
<1> SUFFICES ASSUME Init PROVE TypeInv
  OBVIOUS
<1>1. DataType
  <2>1. owned \in [Item -> Held] /\ rows \subseteq Release /\ folders \subseteq Folder
    BY ConstantsAssumption DEF Init
  <2>2. 0 \in 0..MaxPosts
    BY ConstantsAssumption
  <2>3. /\ selected = NoFolder /\ state = NoState /\ begun = 0 /\ posts = 0
        /\ event = "none" /\ mixed = FALSE
    BY DEF Init
  <2> QED
    BY <2>1, <2>2, <2>3 DEF DataType, Events
<1>2. NetworkType
  BY ConstantsAssumption DEF Init, NetworkType
<1>3. LocalsOK
  BY DEF Init, LocalsOK, LocalsType, HoldsWhatItNeeds, HoldsState, Labels,
         NoOperations, Operations
<1> QED
  BY <1>1, <1>2, <1>3 DEF TypeInv

LEMMA PostSyncType ==
  ASSUME TypeInv, NEW w \in Worker, PostSync(w)
  PROVE  TypeInv'
<1>1. DataType'
  BY ConstantsAssumption DEF TypeInv, DataType, PostSync, FailSync, ClearState, database, Events
<1>2. NetworkType'
  BY DEF TypeInv, NetworkType, PostSync, network
<1>3. LocalsOK'
  <2>1. CASE Return(w)
    BY <2>1, ReturnType DEF TypeInv
  <2>2. CASE ~Return(w)
    BY <2>2 DEF TypeInv, LocalsOK, LocalsType, HoldsWhatItNeeds, HoldsState, Labels, PostSync, FailSync, Goto, locals
  <2> QED
    BY <2>1, <2>2
<1> QED
  BY <1>1, <1>2, <1>3 DEF TypeInv

LEMMA RequestUserFoldersType ==
  ASSUME TypeInv, NEW w \in Worker, RequestUserFolders(w)
  PROVE  TypeInv'
<1>1. DataType'
  BY ConstantsAssumption DEF TypeInv, DataType, RequestUserFolders, FailSync, ClearState, database, Events
<1>2. NetworkType'
  <2>1. CASE UNCHANGED network
    BY <2>1 DEF TypeInv, NetworkType, network
  <2>2. CASE ~UNCHANGED network
    <3>1. Issue("folders", NoFolder, 0, NoFolder, 0)
      BY <2>2 DEF RequestUserFolders
    <3> QED
      BY <3>1, IssueType DEF TypeInv
  <2> QED
    BY <2>1, <2>2
<1>3. LocalsOK'
  <2>1. CASE Return(w)
    BY <2>1, ReturnType DEF TypeInv
  <2>2. CASE ~Return(w)
    BY <2>2 DEF TypeInv, LocalsOK, LocalsType, HoldsWhatItNeeds, HoldsState, Labels, RequestUserFolders, FailSync, Goto, locals
  <2> QED
    BY <2>1, <2>2
<1> QED
  BY <1>1, <1>2, <1>3 DEF TypeInv

LEMMA CheckInProgressType ==
  ASSUME TypeInv, NEW w \in Worker, CheckInProgress(w)
  PROVE  TypeInv'
<1>1. DataType'
  BY ConstantsAssumption DEF TypeInv, DataType, CheckInProgress, FailSync, ClearState, database, Events
<1>2. NetworkType'
  BY DEF TypeInv, NetworkType, CheckInProgress, network
<1>3. LocalsOK'
  <2>1. CASE Return(w)
    BY <2>1, ReturnType DEF TypeInv
  <2>2. CASE ~Return(w)
    BY <2>2 DEF TypeInv, LocalsOK, LocalsType, HoldsWhatItNeeds, HoldsState, Labels, CheckInProgress, FailSync, Goto, locals
  <2> QED
    BY <2>1, <2>2
<1> QED
  BY <1>1, <1>2, <1>3 DEF TypeInv

LEMMA StoreSyncStateType ==
  ASSUME TypeInv, NEW w \in Worker, StoreSyncState(w)
  PROVE  TypeInv'
<1>0. NewState(begun + 1, folders) \in SyncState /\ begun + 1 \in Nat
  BY NewStateType DEF TypeInv, DataType
<1>1. DataType'
  BY <1>0, ConstantsAssumption DEF TypeInv, DataType, StoreSyncState, FailSync, ClearState, database, Events
<1>2. NetworkType'
  BY DEF TypeInv, NetworkType, StoreSyncState, network
<1>3. LocalsOK'
  <2>1. CASE Return(w)
    BY <2>1, ReturnType DEF TypeInv
  <2>2. CASE ~Return(w)
    <3>1. LocalsType'
      BY <2>2, <1>0 DEF TypeInv, DataType, LocalsOK, LocalsType, Labels, StoreSyncState, FailSync, Goto, locals
    <3>2. HoldsWhatItNeeds(w)'
      BY <2>2, <1>0 DEF TypeInv, DataType, LocalsOK, LocalsType, HoldsWhatItNeeds, HoldsState, StoreSyncState, FailSync, Goto, locals
    <3> QED
      BY <2>2, <3>1, <3>2, FrameType DEF TypeInv, LocalsOK, LocalsType, StoreSyncState, FailSync, Goto, locals
  <2> QED
    BY <2>1, <2>2
<1> QED
  BY <1>1, <1>2, <1>3 DEF TypeInv

LEMMA RequestFolderReleasesType ==
  ASSUME TypeInv, NEW w \in Worker, RequestFolderReleases(w)
  PROVE  TypeInv'
<1>0. mem[w] \in SyncState
  BY DEF TypeInv, LocalsOK, HoldsWhatItNeeds, HoldsState, RequestFolderReleases
<1>1. DataType'
  BY ConstantsAssumption DEF TypeInv, DataType, RequestFolderReleases, FailSync, ClearState, database, Events
<1>2. NetworkType'
  <2>1. CASE UNCHANGED network
    BY <2>1 DEF TypeInv, NetworkType, network
  <2>2. CASE ~UNCHANGED network
    <3>1. PICK f \in todo[w] : Issue("folder_releases", f, 1, NoFolder, mem[w].op)
      BY <2>2 DEF RequestFolderReleases
    <3>2. f \in Folder /\ mem[w].op \in Nat
      BY <1>0 DEF TypeInv, LocalsOK, HoldsWhatItNeeds, RequestFolderReleases, SyncState
    <3> QED
      BY <3>1, <3>2, IssueType DEF TypeInv
  <2> QED
    BY <2>1, <2>2
<1>3. LocalsOK'
  <2>1. CASE Return(w)
    BY <2>1, ReturnType DEF TypeInv
  <2>2. CASE ~Return(w)
    BY <2>2 DEF TypeInv, LocalsOK, LocalsType, HoldsWhatItNeeds, HoldsState, Labels, RequestFolderReleases, FailSync, Goto, locals
  <2> QED
    BY <2>1, <2>2
<1> QED
  BY <1>1, <1>2, <1>3 DEF TypeInv

LEMMA ReceiveUnknownType ==
  ASSUME TypeInv, NEW w \in Worker, ReceiveUnknown(w)
  PROVE  TypeInv'
<1>1. DataType'
  BY ConstantsAssumption DEF TypeInv, DataType, ReceiveUnknown, FailSync, ClearState, database, Events
<1>2. NetworkType'
  BY DEF TypeInv, NetworkType, ReceiveUnknown, network
<1>3. LocalsOK'
  <2>1. CASE Return(w)
    BY <2>1, ReturnType DEF TypeInv
  <2>2. CASE ~Return(w)
    BY <2>2 DEF TypeInv, LocalsOK, LocalsType, HoldsWhatItNeeds, HoldsState, Labels, ReceiveUnknown, FailSync, Goto, locals
  <2> QED
    BY <2>1, <2>2
<1> QED
  BY <1>1, <1>2, <1>3 DEF TypeInv

LEMMA ReceiveFoldersType ==
  ASSUME TypeInv, NEW w \in Worker, ReceiveFolders(w)
  PROVE  TypeInv'
<1>1. DataType'
  BY ConstantsAssumption DEF TypeInv, DataType, ReceiveFolders, FailSync, ClearState, database, Events
<1>2. NetworkType'
  BY DEF TypeInv, NetworkType, ReceiveFolders, Receive
<1>3. LocalsOK'
  <2>1. CASE Return(w)
    BY <2>1, ReturnType DEF TypeInv
  <2>2. CASE ~Return(w)
    <3>1. LocalsType'
      BY <2>2 DEF TypeInv, NetworkType, Receive, LocalsOK, LocalsType, Labels, ReceiveFolders, FailSync, Goto, locals
    <3>2. HoldsWhatItNeeds(w)'
      BY <2>2 DEF TypeInv, NetworkType, Receive, LocalsOK, LocalsType, HoldsWhatItNeeds, HoldsState, ReceiveFolders, FailSync, Goto, locals
    <3> QED
      BY <2>2, <3>1, <3>2, FrameType DEF TypeInv, LocalsOK, LocalsType, ReceiveFolders, FailSync, Goto, locals
  <2> QED
    BY <2>1, <2>2
<1> QED
  BY <1>1, <1>2, <1>3 DEF TypeInv

LEMMA UpsertFoldersType ==
  ASSUME TypeInv, NEW w \in Worker, UpsertFolders(w)
  PROVE  TypeInv'
<1>1. DataType'
  BY ConstantsAssumption DEF TypeInv, DataType, UpsertFolders, Listed, FailSync, ClearState, database, Events
<1>2. NetworkType'
  BY DEF TypeInv, NetworkType, UpsertFolders, network
<1>3. LocalsOK'
  <2>1. CASE Return(w)
    BY <2>1, ReturnType DEF TypeInv
  <2>2. CASE ~Return(w)
    BY <2>2 DEF TypeInv, LocalsOK, LocalsType, HoldsWhatItNeeds, HoldsState, Labels, UpsertFolders, FailSync, Goto, locals
  <2> QED
    BY <2>1, <2>2
<1> QED
  BY <1>1, <1>2, <1>3 DEF TypeInv

LEMMA DeleteOrphanFoldersType ==
  ASSUME TypeInv, NEW w \in Worker, DeleteOrphanFolders(w)
  PROVE  TypeInv'
<1>1. DataType'
  BY ConstantsAssumption DEF TypeInv, DataType, DeleteOrphanFolders, Listed, FailSync, ClearState, database, Events
<1>2. NetworkType'
  BY DEF TypeInv, NetworkType, DeleteOrphanFolders, network
<1>3. LocalsOK'
  <2>1. CASE Return(w)
    BY <2>1, ReturnType DEF TypeInv
  <2>2. CASE ~Return(w)
    BY <2>2 DEF TypeInv, LocalsOK, LocalsType, HoldsWhatItNeeds, HoldsState, Labels, DeleteOrphanFolders, FailSync, Goto, locals
  <2> QED
    BY <2>1, <2>2
<1> QED
  BY <1>1, <1>2, <1>3 DEF TypeInv

LEMMA SelectDefaultFolderType ==
  ASSUME TypeInv, NEW w \in Worker, SelectDefaultFolder(w)
  PROVE  TypeInv'
<1>1. DataType'
  BY ConstantsAssumption DEF TypeInv, DataType, SelectDefaultFolder, FailSync, ClearState, database, Events
<1>2. NetworkType'
  BY DEF TypeInv, NetworkType, SelectDefaultFolder, network
<1>3. LocalsOK'
  <2>1. CASE Return(w)
    BY <2>1, ReturnType DEF TypeInv
  <2>2. CASE ~Return(w)
    BY <2>2 DEF TypeInv, LocalsOK, LocalsType, HoldsWhatItNeeds, HoldsState, Labels, SelectDefaultFolder, FailSync, Goto, locals
  <2> QED
    BY <2>1, <2>2
<1> QED
  BY <1>1, <1>2, <1>3 DEF TypeInv

LEMMA ReceivePageType ==
  ASSUME TypeInv, NEW w \in Worker, ReceivePage(w)
  PROVE  TypeInv'
<1>0. PICK m \in inbox :
        /\ Receive(w, m) /\ m.req.type = "folder_releases"
        /\ \/ FailSync(w) /\ UNCHANGED mixed
           \/ UNCHANGED <<locals, state, event, pc, mixed>>
           \/ /\ state # NoState
              /\ \E T \in Taken(state, m) : mem' = [mem EXCEPT ![w] = Merge(state, m, T)]
              /\ cur' = [cur EXCEPT ![w] = m]
              /\ Goto(w, IF HasNextPage(m) THEN "paginate" ELSE "decide")
              /\ mixed' = (mixed \/ m.req.op # state.op)
              /\ UNCHANGED <<state, event, read, todo, sent, ops>>
  BY DEF ReceivePage
<1>a. m \in Message /\ m.req.folder \in Folder
  BY <1>0 DEF TypeInv, NetworkType, NamesItsObject
<1>b. state # NoState => \A T \in Taken(state, m) : Merge(state, m, T) \in SyncState
  BY <1>a, MergeType, TakenFromPage DEF TypeInv, DataType
<1>1. DataType'
  BY <1>0 DEF TypeInv, DataType, ReceivePage, FailSync, ClearState, database, locals, Events
<1>2. NetworkType'
  BY DEF TypeInv, NetworkType, ReceivePage, Receive
<1>3. LocalsOK'
  <2>1. CASE Return(w)
    BY <2>1, ReturnType DEF TypeInv
  <2>2. CASE UNCHANGED <<locals, pc>>
    BY <2>2 DEF TypeInv, LocalsOK, LocalsType, HoldsWhatItNeeds, locals
  <2>3. CASE /\ state # NoState
             /\ \E T \in Taken(state, m) : mem' = [mem EXCEPT ![w] = Merge(state, m, T)]
             /\ cur' = [cur EXCEPT ![w] = m]
             /\ Goto(w, IF HasNextPage(m) THEN "paginate" ELSE "decide")
             /\ UNCHANGED <<read, todo, sent, ops>>
    <3>1. LocalsType'
      BY <2>3, <1>a, <1>b DEF TypeInv, LocalsOK, LocalsType, Labels, Goto
    <3>2. HoldsWhatItNeeds(w)'
      BY <2>3, <1>a, <1>b DEF TypeInv, LocalsOK, LocalsType, HoldsWhatItNeeds, Goto
    <3> QED
      BY <2>3, <3>1, <3>2, FrameType DEF TypeInv, LocalsOK, LocalsType, Goto
  <2> QED
    BY <1>0, <2>1, <2>2, <2>3 DEF FailSync
<1> QED
  BY <1>1, <1>2, <1>3 DEF TypeInv

LEMMA PaginateType ==
  ASSUME TypeInv, NEW w \in Worker, Paginate(w)
  PROVE  TypeInv'
<1>0. mem[w] \in SyncState
  BY DEF TypeInv, LocalsOK, HoldsWhatItNeeds, HoldsState, Paginate
<1>1. DataType'
  BY ConstantsAssumption DEF TypeInv, DataType, Paginate, FailSync, ClearState, database, Events
<1>2. NetworkType'
  <2>1. CASE UNCHANGED network
    BY <2>1 DEF TypeInv, NetworkType, network
  <2>2. CASE ~UNCHANGED network
    <3>1. Issue("folder_releases", cur[w].req.folder, cur[w].req.page + 1,
                NoFolder, mem[w].op)
      BY <2>2 DEF Paginate
    <3>2. /\ cur[w].req.folder \in Folder /\ cur[w].req.page + 1 \in Nat
          /\ mem[w].op \in Nat
      BY <1>0 DEF TypeInv, LocalsOK, HoldsWhatItNeeds, Paginate, SyncState, Message, Request
    <3> QED
      BY <3>1, <3>2, IssueType DEF TypeInv
  <2> QED
    BY <2>1, <2>2
<1>3. LocalsOK'
  <2>1. CASE Return(w)
    BY <2>1, ReturnType DEF TypeInv
  <2>2. CASE ~Return(w)
    BY <2>2 DEF TypeInv, LocalsOK, LocalsType, HoldsWhatItNeeds, HoldsState, Labels, Paginate, FailSync, Goto, locals
  <2> QED
    BY <2>1, <2>2
<1> QED
  BY <1>1, <1>2, <1>3 DEF TypeInv

LEMMA SaveProgressType ==
  ASSUME TypeInv, NEW w \in Worker, SaveProgress(w)
  PROVE  TypeInv'
<1>0. mem[w] \in SyncState
  BY DEF TypeInv, LocalsOK, HoldsWhatItNeeds, HoldsState, SaveProgress
<1>1. DataType'
  BY <1>0, ConstantsAssumption DEF TypeInv, DataType, SaveProgress, FailSync, ClearState, database, Events
<1>2. NetworkType'
  BY DEF TypeInv, NetworkType, SaveProgress, network
<1>3. LocalsOK'
  <2>1. CASE Return(w)
    BY <2>1, ReturnType DEF TypeInv
  <2>2. CASE ~Return(w)
    BY <2>2 DEF TypeInv, LocalsOK, LocalsType, HoldsWhatItNeeds, HoldsState, Labels, SaveProgress, FailSync, Goto, locals
  <2> QED
    BY <2>1, <2>2
<1> QED
  BY <1>1, <1>2, <1>3 DEF TypeInv

LEMMA ValidateReleasesType ==
  ASSUME TypeInv, NEW w \in Worker, ValidateReleases(w)
  PROVE  TypeInv'
<1>0. mem[w] \in SyncState
  BY DEF TypeInv, LocalsOK, HoldsWhatItNeeds, HoldsState, ValidateReleases
<1> DEFINE absent == MergedReleases(mem[w]) \ rows
        s == [mem[w] EXCEPT !.complete = TRUE, !.validated = TRUE,
                            !.missing = absent, !.ready = (absent = {})]
<1>a. absent \subseteq Release
  BY MergedReleasesType
<1>b. s \in SyncState
  BY <1>0, <1>a DEF SyncState
<1>c. \/ /\ mem' = [mem EXCEPT ![w] = s]
         /\ todo' = [todo EXCEPT ![w] = absent]
         /\ Goto(w, IF absent = {} THEN "record" ELSE "missing")
         /\ UNCHANGED <<state, event, read, cur, sent, ops>>
      \/ FailSync(w)
  BY DEF ValidateReleases
<1> HIDE DEF s, absent
<1>1. DataType'
  BY ConstantsAssumption DEF TypeInv, DataType, ValidateReleases, FailSync, ClearState, database, Events
<1>2. NetworkType'
  BY DEF TypeInv, NetworkType, ValidateReleases, network
<1>3. LocalsOK'
  <2>1. CASE FailSync(w)
    BY <2>1, ReturnType DEF TypeInv, FailSync
  <2>2. CASE ~FailSync(w)
    <3>1. LocalsType'
      BY <2>2, <1>a, <1>b, <1>c DEF TypeInv, LocalsOK, LocalsType, Labels, Goto
    <3>2. HoldsWhatItNeeds(w)'
      BY <2>2, <1>a, <1>b, <1>c DEF TypeInv, LocalsOK, LocalsType, HoldsWhatItNeeds, Goto
    <3> QED
      BY <2>2, <1>c, <3>1, <3>2, FrameType DEF TypeInv, LocalsOK, LocalsType, Goto
  <2> QED
    BY <2>1, <2>2
<1> QED
  BY <1>1, <1>2, <1>3 DEF TypeInv

LEMMA SkipValidationType ==
  ASSUME TypeInv, NEW w \in Worker, SkipValidation(w)
  PROVE  TypeInv'
<1>1. DataType'
  BY ConstantsAssumption DEF TypeInv, DataType, SkipValidation, FailSync, ClearState, database, Events
<1>2. NetworkType'
  BY DEF TypeInv, NetworkType, SkipValidation, network
<1>3. LocalsOK'
  <2>1. CASE Return(w)
    BY <2>1, ReturnType DEF TypeInv
  <2>2. CASE ~Return(w)
    BY <2>2 DEF TypeInv, LocalsOK, LocalsType, HoldsWhatItNeeds, HoldsState, Labels, SkipValidation, FailSync, Goto, locals
  <2> QED
    BY <2>1, <2>2
<1> QED
  BY <1>1, <1>2, <1>3 DEF TypeInv

LEMMA MissingTokenType ==
  ASSUME TypeInv, NEW w \in Worker, MissingToken(w)
  PROVE  TypeInv'
<1>0. mem[w] \in SyncState
  BY DEF TypeInv, LocalsOK, HoldsWhatItNeeds, HoldsState, MissingToken
<1>a. [mem[w] EXCEPT !.ready = TRUE] \in SyncState
  BY <1>0 DEF SyncState
<1>b. mem' = [mem EXCEPT ![w] = [mem[w] EXCEPT !.ready = TRUE]]
  BY DEF MissingToken
<1>1. DataType'
  BY ConstantsAssumption DEF TypeInv, DataType, MissingToken, FailSync, ClearState, database, Events
<1>2. NetworkType'
  BY DEF TypeInv, NetworkType, MissingToken, network
<1>3. LocalsOK'
  <2>1. LocalsType'
    BY <1>a, <1>b DEF TypeInv, LocalsOK, LocalsType, Labels, MissingToken, Goto
  <2>2. HoldsWhatItNeeds(w)'
    BY <1>a, <1>b DEF TypeInv, LocalsOK, LocalsType, HoldsWhatItNeeds, MissingToken, Goto
  <2> QED
    BY <1>b, <2>1, <2>2, FrameType DEF TypeInv, LocalsOK, LocalsType, MissingToken, Goto
<1> QED
  BY <1>1, <1>2, <1>3 DEF TypeInv

LEMMA RequestReleaseType ==
  ASSUME TypeInv, NEW w \in Worker, RequestRelease(w)
  PROVE  TypeInv'
<1>0. mem[w] \in SyncState
  BY DEF TypeInv, LocalsOK, HoldsWhatItNeeds, HoldsState, RequestRelease
<1>a. PICK r \in todo[w] :
        /\ \/ /\ Issue("release", NoFolder, 0, r, mem[w].op)
              /\ sent' = [sent EXCEPT ![w] = @ \cup {issued + 1}]
           \/ UNCHANGED <<network, sent>>
        /\ todo' = [todo EXCEPT ![w] = @ \ {r}]
  BY DEF RequestRelease
<1>b. r \in Release /\ mem[w].op \in Nat
  BY <1>0 DEF TypeInv, LocalsOK, HoldsWhatItNeeds, RequestRelease, SyncState
<1>1. DataType'
  BY ConstantsAssumption DEF TypeInv, DataType, RequestRelease, FailSync, ClearState, database, Events
<1>2. NetworkType' /\ sent' \in [Worker -> SUBSET RequestId]
  <2>1. CASE UNCHANGED <<network, sent>>
    BY <2>1 DEF TypeInv, LocalsOK, LocalsType, NetworkType, network
  <2>2. CASE /\ Issue("release", NoFolder, 0, r, mem[w].op)
             /\ sent' = [sent EXCEPT ![w] = @ \cup {issued + 1}]
    <3>1. NetworkType' /\ issued + 1 \in RequestId
      BY <2>2, <1>b, IssueType DEF TypeInv
    <3> QED
      BY <2>2, <3>1 DEF TypeInv, LocalsOK, LocalsType
  <2> QED
    BY <1>a, <2>1, <2>2
<1>3. LocalsOK'
  <2>1. LocalsType'
    BY <1>a, <1>2 DEF TypeInv, LocalsOK, LocalsType, RequestRelease
  <2>2. HoldsWhatItNeeds(w)'
    BY <1>a DEF TypeInv, LocalsOK, LocalsType, HoldsWhatItNeeds, HoldsState, RequestRelease
  <2> QED
    BY <1>a, <2>1, <2>2, FrameType DEF TypeInv, LocalsOK, LocalsType, RequestRelease
<1> QED
  BY <1>1, <1>2, <1>3 DEF TypeInv

LEMMA ReadPendingType ==
  ASSUME TypeInv, NEW w \in Worker, ReadPending(w)
  PROVE  TypeInv'
<1>1. DataType'
  BY DEF TypeInv, DataType, ReadPending, database
<1>2. NetworkType'
  BY DEF TypeInv, NetworkType, ReadPending, network
<1>3. LocalsOK'
  <2>1. LocalsType'
    BY DEF TypeInv, DataType, LocalsOK, LocalsType, Labels, ReadPending, Goto
  <2>2. HoldsWhatItNeeds(w)'
    BY DEF TypeInv, DataType, LocalsOK, LocalsType, HoldsWhatItNeeds, HoldsState,
           ReadPending, Goto
  <2> QED
    BY <2>1, <2>2, FrameType DEF TypeInv, LocalsOK, LocalsType, ReadPending, Goto
<1> QED
  BY <1>1, <1>2, <1>3 DEF TypeInv

LEMMA WritePendingType ==
  ASSUME TypeInv, NEW w \in Worker, WritePending(w)
  PROVE  TypeInv'
<1>0. [read[w] EXCEPT !.pending = @ \cup sent[w]] \in SyncState
  BY DEF TypeInv, LocalsOK, LocalsType, HoldsWhatItNeeds, SyncState, WritePending
<1>1. DataType'
  BY <1>0 DEF TypeInv, DataType, WritePending, database
<1>2. NetworkType'
  BY DEF TypeInv, NetworkType, WritePending, network
<1>3. LocalsOK'
  BY DEF TypeInv, LocalsOK, LocalsType, HoldsWhatItNeeds, HoldsState, Labels,
         WritePending, Goto, locals
<1> QED
  BY <1>1, <1>2, <1>3 DEF TypeInv

LEMMA RecordValidationType ==
  ASSUME TypeInv, NEW w \in Worker, RecordValidation(w)
  PROVE  TypeInv'
<1>0. mem[w] \in SyncState
  BY DEF TypeInv, LocalsOK, HoldsWhatItNeeds, HoldsState, RecordValidation
<1>1. DataType'
  BY <1>0, ConstantsAssumption DEF TypeInv, DataType, RecordValidation, FailSync, ClearState, database, Events
<1>2. NetworkType'
  BY DEF TypeInv, NetworkType, RecordValidation, network
<1>3. LocalsOK'
  <2>1. CASE Return(w)
    BY <2>1, ReturnType DEF TypeInv
  <2>2. CASE ~Return(w)
    BY <2>2 DEF TypeInv, LocalsOK, LocalsType, HoldsWhatItNeeds, HoldsState, Labels, RecordValidation, FailSync, Goto, locals
  <2> QED
    BY <2>1, <2>2
<1> QED
  BY <1>1, <1>2, <1>3 DEF TypeInv

LEMMA ReceiveReleaseType ==
  ASSUME TypeInv, NEW w \in Worker, ReceiveRelease(w)
  PROVE  TypeInv'
<1>0. PICK m \in inbox :
        /\ Receive(w, m) /\ m.req.type = "release"
        /\ rows' = rows \cup {m.req.release} \/ UNCHANGED rows
        /\ \/ /\ state # NoState
              /\ mem' = [mem EXCEPT ![w] =
                           [state EXCEPT !.pending = @ \ {m.req.id}]]
              /\ Goto(w, "settle")
           \/ UNCHANGED <<mem, pc>>
  BY DEF ReceiveRelease
<1>a. m.req.release \in Release
  BY <1>0 DEF TypeInv, NetworkType, NamesItsObject
<1>b. state # NoState => [state EXCEPT !.pending = @ \ {m.req.id}] \in SyncState
  BY DEF TypeInv, DataType, SyncState
<1>1. DataType'
  BY <1>0, <1>a DEF TypeInv, DataType, ReceiveRelease
<1>2. NetworkType'
  BY DEF TypeInv, NetworkType, ReceiveRelease, Receive
<1>3. LocalsOK'
  <2>1. CASE UNCHANGED <<mem, pc>>
    BY <2>1 DEF TypeInv, LocalsOK, LocalsType, HoldsWhatItNeeds, ReceiveRelease
  <2>2. CASE /\ state # NoState
             /\ mem' = [mem EXCEPT ![w] =
                          [state EXCEPT !.pending = @ \ {m.req.id}]]
             /\ Goto(w, "settle")
    <3>1. LocalsType'
      BY <2>2, <1>b DEF TypeInv, LocalsOK, LocalsType, Labels, ReceiveRelease, Goto
    <3>2. HoldsWhatItNeeds(w)'
      BY <2>2, <1>b DEF TypeInv, LocalsOK, LocalsType, HoldsWhatItNeeds, ReceiveRelease, Goto
    <3> QED
      BY <2>2, <3>1, <3>2, FrameType DEF TypeInv, LocalsOK, LocalsType, ReceiveRelease, Goto
  <2> QED
    BY <1>0, <2>1, <2>2
<1> QED
  BY <1>1, <1>2, <1>3 DEF TypeInv

LEMMA SettlePendingType ==
  ASSUME TypeInv, NEW w \in Worker, SettlePending(w)
  PROVE  TypeInv'
<1>0. mem[w] \in SyncState
  BY DEF TypeInv, LocalsOK, HoldsWhatItNeeds, HoldsState, SettlePending
<1>a. [mem[w] EXCEPT !.ready = TRUE] \in SyncState
  BY <1>0 DEF SyncState
<1>1. DataType'
  BY <1>0, <1>a DEF TypeInv, DataType, SettlePending, database
<1>2. NetworkType'
  BY DEF TypeInv, NetworkType, SettlePending, network
<1>3. LocalsOK'
  <2>1. CASE Return(w)
    BY <2>1, ReturnType DEF TypeInv
  <2>2. CASE ~Return(w)
    BY <2>2 DEF TypeInv, LocalsOK, LocalsType, HoldsWhatItNeeds, HoldsState, Labels, SettlePending, FailSync, Goto, locals
  <2> QED
    BY <2>1, <2>2
<1> QED
  BY <1>1, <1>2, <1>3 DEF TypeInv

LEMMA TriggerSyncCompletionType ==
  ASSUME TypeInv, NEW w \in Worker, TriggerSyncCompletion(w)
  PROVE  TypeInv'
<1>1. DataType'
  BY ConstantsAssumption DEF TypeInv, DataType, TriggerSyncCompletion, FailSync, ClearState, database, Events
<1>2. NetworkType'
  BY DEF TypeInv, NetworkType, TriggerSyncCompletion, network
<1>3. LocalsOK'
  <2>1. CASE Return(w)
    BY <2>1, ReturnType DEF TypeInv
  <2>2. CASE ~Return(w)
    <3>1. LocalsType'
      BY <2>2 DEF TypeInv, DataType, LocalsOK, LocalsType, Labels, TriggerSyncCompletion, ReadyToComplete, Goto, locals
    <3>2. HoldsWhatItNeeds(w)'
      BY <2>2 DEF TypeInv, DataType, LocalsOK, LocalsType, HoldsWhatItNeeds, HoldsState, TriggerSyncCompletion, ReadyToComplete, Goto, locals
    <3> QED
      BY <2>2, <3>1, <3>2, FrameType DEF TypeInv, LocalsOK, LocalsType, TriggerSyncCompletion, ReadyToComplete, Goto, locals
  <2> QED
    BY <2>1, <2>2
<1> QED
  BY <1>1, <1>2, <1>3 DEF TypeInv

LEMMA AnalyzeDifferentialSyncType ==
  ASSUME TypeInv, NEW w \in Worker, AnalyzeDifferentialSync(w)
  PROVE  TypeInv'
<1>0. mem[w] \in SyncState
  BY DEF TypeInv, LocalsOK, HoldsWhatItNeeds, HoldsState, AnalyzeDifferentialSync
<1>a. Difference(mem[w]) \in Operations
  BY DifferenceType
<1>1. DataType'
  BY ConstantsAssumption DEF TypeInv, DataType, AnalyzeDifferentialSync, FailSync, ClearState, database, Events
<1>2. NetworkType'
  BY DEF TypeInv, NetworkType, AnalyzeDifferentialSync, network
<1>3. LocalsOK'
  <2>1. CASE Return(w)
    BY <2>1, ReturnType DEF TypeInv
  <2>2. CASE ~Return(w)
    <3>1. LocalsType'
      BY <2>2, <1>0, <1>a DEF TypeInv, DataType, LocalsOK, LocalsType, Labels, AnalyzeDifferentialSync, FailSync, Goto, locals
    <3>2. HoldsWhatItNeeds(w)'
      BY <2>2, <1>0, <1>a DEF TypeInv, DataType, LocalsOK, LocalsType, HoldsWhatItNeeds, HoldsState, AnalyzeDifferentialSync, FailSync, Goto, locals
    <3> QED
      BY <2>2, <3>1, <3>2, FrameType DEF TypeInv, LocalsOK, LocalsType, AnalyzeDifferentialSync, FailSync, Goto, locals
  <2> QED
    BY <2>1, <2>2
<1> QED
  BY <1>1, <1>2, <1>3 DEF TypeInv

LEMMA ExecuteSyncOperationsType ==
  ASSUME TypeInv, NEW w \in Worker, ExecuteSyncOperations(w)
  PROVE  TypeInv'
<1>0. mem[w] \in SyncState
  BY DEF TypeInv, LocalsOK, HoldsWhatItNeeds, HoldsState, ExecuteSyncOperations
<1>1. DataType'
  <2>1. mem[w].merged \in [Item -> Folder \cup {NoFolder}]
    BY <1>0 DEF SyncState
  <2>2. owned' \in [Item -> Held]
    BY <2>1 DEF TypeInv, DataType, ExecuteSyncOperations, Held
  <2> QED
    BY <2>2 DEF TypeInv, DataType, ExecuteSyncOperations, FailSync, ClearState, Events
<1>2. NetworkType'
  BY DEF TypeInv, NetworkType, ExecuteSyncOperations, network
<1>3. LocalsOK'
  <2>1. CASE Return(w)
    BY <2>1, ReturnType DEF TypeInv
  <2>2. CASE ~Return(w)
    BY <2>2 DEF TypeInv, LocalsOK, LocalsType, HoldsWhatItNeeds, HoldsState, Labels, ExecuteSyncOperations, FailSync, Goto, locals
  <2> QED
    BY <2>1, <2>2
<1> QED
  BY <1>1, <1>2, <1>3 DEF TypeInv

LEMMA ExtractBasicInformationType ==
  ASSUME TypeInv, NEW w \in Worker, ExtractBasicInformation(w)
  PROVE  TypeInv'
<1>0. MergedReleases(mem[w]) \subseteq Release
  BY MergedReleasesType
<1>1. DataType'
  BY <1>0, ConstantsAssumption DEF TypeInv, DataType, ExtractBasicInformation, FailSync, ClearState, database, Events
<1>2. NetworkType'
  BY DEF TypeInv, NetworkType, ExtractBasicInformation, network
<1>3. LocalsOK'
  <2>1. CASE Return(w)
    BY <2>1, ReturnType DEF TypeInv
  <2>2. CASE ~Return(w)
    BY <2>2 DEF TypeInv, LocalsOK, LocalsType, HoldsWhatItNeeds, HoldsState, Labels, ExtractBasicInformation, FailSync, Goto, locals
  <2> QED
    BY <2>1, <2>2
<1> QED
  BY <1>1, <1>2, <1>3 DEF TypeInv

LEMMA CompleteSyncType ==
  ASSUME TypeInv, NEW w \in Worker, CompleteSync(w)
  PROVE  TypeInv'
<1>1. DataType'
  BY ConstantsAssumption DEF TypeInv, DataType, CompleteSync, FailSync, ClearState, database, Events
<1>2. NetworkType'
  BY DEF TypeInv, NetworkType, CompleteSync, network
<1>3. LocalsOK'
  <2>1. CASE Return(w)
    BY <2>1, ReturnType DEF TypeInv
  <2>2. CASE ~Return(w)
    BY <2>2 DEF TypeInv, LocalsOK, LocalsType, HoldsWhatItNeeds, HoldsState, Labels, CompleteSync, FailSync, Goto, locals
  <2> QED
    BY <2>1, <2>2
<1> QED
  BY <1>1, <1>2, <1>3 DEF TypeInv

LEMMA EnvironmentType ==
  ASSUME TypeInv, Environment
  PROVE  TypeInv'
<1>1. CASE Answer
  BY <1>1 DEF TypeInv, DataType, NetworkType, NamesItsObject, Message, LocalsOK,
              LocalsType, HoldsWhatItNeeds, Answer, database, locals
<1>2. CASE Lose
  BY <1>2 DEF TypeInv, DataType, NetworkType, NamesItsObject, LocalsOK,
              LocalsType, HoldsWhatItNeeds, Lose, database, locals
<1>3. CASE ExpireMetadata
  BY <1>3 DEF TypeInv, DataType, NetworkType, NamesItsObject, LocalsOK,
              LocalsType, HoldsWhatItNeeds, ExpireMetadata, database, locals
<1>4. CASE ExpireState
  BY <1>4 DEF TypeInv, DataType, NetworkType, NamesItsObject, LocalsOK,
              LocalsType, HoldsWhatItNeeds, ExpireState, database, network, locals
<1>5. CASE AgeState
  <2>1. state' \in SyncState
    BY <1>5 DEF TypeInv, DataType, SyncState, AgeState
  <2> QED
    BY <1>5, <2>1 DEF TypeInv, DataType, NetworkType, NamesItsObject, LocalsOK,
              LocalsType, HoldsWhatItNeeds, AgeState, database, network, locals
<1>6. CASE Crash
  <2>1. NoOperations \in Operations /\ "idle" \in Labels
    BY DEF NoOperations, Operations, Labels
  <2>2. DataType' /\ NetworkType'
    BY <1>6 DEF TypeInv, DataType, NetworkType, NamesItsObject, Crash, database
  <2>3. LocalsOK'
    BY <1>6, <2>1 DEF LocalsOK, LocalsType, HoldsWhatItNeeds, HoldsState, Crash
  <2> QED
    BY <2>2, <2>3 DEF TypeInv
<1> QED
  BY <1>1, <1>2, <1>3, <1>4, <1>5, <1>6 DEF Environment

LEMMA StutterType ==
  ASSUME TypeInv, UNCHANGED vars
  PROVE  TypeInv'
BY DEF TypeInv, DataType, NetworkType, NamesItsObject, LocalsOK, LocalsType,
       HoldsWhatItNeeds, vars

LEMMA TypeInvInductive == TypeInv /\ [Next]_vars => TypeInv'
<1> SUFFICES ASSUME TypeInv, [Next]_vars PROVE TypeInv'
  OBVIOUS
<1>1. CASE UNCHANGED vars
  BY <1>1, StutterType
<1>2. CASE Environment
  BY <1>2, EnvironmentType
<1>3. ASSUME NEW w \in Worker, Post(w) PROVE TypeInv'
  BY <1>3, PostSyncType, RequestUserFoldersType DEF Post
<1>4. ASSUME NEW w \in Worker, StartSync(w) PROVE TypeInv'
  BY <1>4, CheckInProgressType, StoreSyncStateType, RequestFolderReleasesType
     DEF StartSync
<1>5. ASSUME NEW w \in Worker, HandleResponse(w) PROVE TypeInv'
  BY <1>5, ReceiveUnknownType, ReceiveFoldersType, UpsertFoldersType,
     DeleteOrphanFoldersType, SelectDefaultFolderType, ReceivePageType,
     PaginateType, SaveProgressType, ValidateReleasesType, SkipValidationType,
     MissingTokenType, RequestReleaseType, ReadPendingType,
     WritePendingType, RecordValidationType,
     ReceiveReleaseType, SettlePendingType, TriggerSyncCompletionType,
     AnalyzeDifferentialSyncType, ExecuteSyncOperationsType,
     ExtractBasicInformationType, CompleteSyncType
     DEF HandleResponse
<1> QED
  BY <1>1, <1>2, <1>3, <1>4, <1>5 DEF Next, Work

LEMMA TypeInvHolds == Spec => []TypeInv
BY InitType, TypeInvInductive, PTL DEF Spec

\* The types of all variables, whatever the instance (every service the sync
\* runs through).
THEOREM TypeCorrect == Spec => []TypeOK
<1>1. TypeInv => TypeOK
  BY DEF TypeInv, TypeOK, DataType, NetworkType, LocalsOK, LocalsType
<1> QED
  BY <1>1, TypeInvHolds, PTL

-----------------------------------------------------------------------------
(* Rows of the user refer to releases the database has *)

\* What a reconciliation is about to write refers to releases with a row: the
\* rows it looked at are still there when it writes, as releases are not deleted.
PlannedRowsExist ==
  \A w \in Worker : pc[w] = "execute" =>
    \A i \in ops[w].create \cup ops[w].update : ReleaseOf[i] \in rows

\* No step takes a release row away.
LEMMA RowsGrow == [Next]_vars => rows \subseteq rows'
<1> SUFFICES ASSUME [Next]_vars PROVE rows \subseteq rows'
  OBVIOUS
<1>1. CASE UNCHANGED vars
  BY <1>1 DEF vars
<1>2. CASE Environment
  BY <1>2 DEF Environment, Answer, Lose, ExpireMetadata, ExpireState, AgeState,
              Crash, database
<1>3. ASSUME NEW w \in Worker, Post(w) \/ StartSync(w) PROVE rows \subseteq rows'
  BY <1>3 DEF Post, PostSync, RequestUserFolders, StartSync, CheckInProgress,
              StoreSyncState, RequestFolderReleases, database
<1>4. ASSUME NEW w \in Worker, HandleResponse(w) PROVE rows \subseteq rows'
  BY <1>4 DEF HandleResponse, ReceiveUnknown, ReceiveFolders, UpsertFolders,
     DeleteOrphanFolders, SelectDefaultFolder,
     ReceivePage, Paginate, SaveProgress, ValidateReleases, SkipValidation,
     MissingToken, RequestRelease, ReadPending,
     WritePending, RecordValidation,
     ReceiveRelease, SettlePending, TriggerSyncCompletion,
     AnalyzeDifferentialSync, ExecuteSyncOperations, ExtractBasicInformation,
     CompleteSync, database
<1> QED
  BY <1>1, <1>2, <1>3, <1>4 DEF Next, Work

\* Only executeSyncOperations writes user rows.
LEMMA OwnedWrites ==
  [Next]_vars => owned' = owned \/ \E w \in Worker : ExecuteSyncOperations(w)
<1> SUFFICES ASSUME [Next]_vars, ~\E w \in Worker : ExecuteSyncOperations(w)
             PROVE  owned' = owned
  OBVIOUS
<1>1. CASE UNCHANGED vars
  BY <1>1 DEF vars
<1>2. CASE Environment
  BY <1>2 DEF Environment, Answer, Lose, ExpireMetadata, ExpireState, AgeState,
              Crash, database
<1>3. ASSUME NEW w \in Worker, Post(w) \/ StartSync(w) PROVE owned' = owned
  BY <1>3 DEF Post, PostSync, RequestUserFolders, StartSync, CheckInProgress,
              StoreSyncState, RequestFolderReleases, database
<1>4. ASSUME NEW w \in Worker, HandleResponse(w) PROVE owned' = owned
  BY <1>4 DEF HandleResponse, ReceiveUnknown, ReceiveFolders, UpsertFolders,
     DeleteOrphanFolders, SelectDefaultFolder,
     ReceivePage, Paginate, SaveProgress, ValidateReleases, SkipValidation,
     MissingToken, RequestRelease, ReadPending,
     WritePending, RecordValidation,
     ReceiveRelease, SettlePending, TriggerSyncCompletion,
     AnalyzeDifferentialSync, ExtractBasicInformation, CompleteSync, database
<1> QED
  BY <1>1, <1>2, <1>3, <1>4 DEF Next, Work

\* A worker that is to execute operations has just analyzed them, or was to
\* execute the same operations before.
LEMMA PlanStep ==
  ASSUME TypeInv, [Next]_vars, NEW v \in Worker, pc'[v] = "execute"
  PROVE  \/ pc[v] = "execute" /\ ops'[v] = ops[v] /\ mem'[v] = mem[v]
         \/ /\ pc[v] = "analyze" /\ mem'[v] = mem[v] /\ rows' = rows
            /\ ops'[v] = Difference(mem[v])
<1> USE DEF TypeInv, LocalsOK, LocalsType
<1>1. CASE UNCHANGED vars
  BY <1>1 DEF vars
<1>2. CASE Environment
  BY <1>2 DEF Environment, Answer, Lose, ExpireMetadata, ExpireState, AgeState,
              Crash, locals
<1>3. ASSUME NEW w \in Worker, Post(w) \/ StartSync(w)
      PROVE pc[v] = "execute" /\ ops'[v] = ops[v] /\ mem'[v] = mem[v]
  BY <1>3 DEF Post, PostSync, RequestUserFolders, StartSync, CheckInProgress,
              StoreSyncState, RequestFolderReleases, locals, Return, Goto
<1>4. ASSUME NEW w \in Worker, AnalyzeDifferentialSync(w)
      PROVE \/ pc[v] = "execute" /\ ops'[v] = ops[v] /\ mem'[v] = mem[v]
            \/ /\ pc[v] = "analyze" /\ mem'[v] = mem[v] /\ rows' = rows
               /\ ops'[v] = Difference(mem[v])
  BY <1>4 DEF AnalyzeDifferentialSync, database, FailSync, Return, Goto
<1>5. ASSUME NEW w \in Worker, HandleResponse(w), ~AnalyzeDifferentialSync(w)
      PROVE pc[v] = "execute" /\ ops'[v] = ops[v] /\ mem'[v] = mem[v]
  BY <1>5 DEF HandleResponse, ReceiveUnknown, ReceiveFolders, UpsertFolders,
     DeleteOrphanFolders, SelectDefaultFolder,
     ReceivePage, Paginate, SaveProgress, ValidateReleases, SkipValidation,
     MissingToken, RequestRelease, ReadPending,
     WritePending, RecordValidation,
     ReceiveRelease, SettlePending, TriggerSyncCompletion,
     ExecuteSyncOperations, ExtractBasicInformation, CompleteSync,
     locals, FailSync, Return, Goto
<1> QED
  BY <1>1, <1>2, <1>3, <1>4, <1>5 DEF Next, Work

LEMMA RowsInductive ==
  ASSUME TypeInv, RowsReferToReleases, PlannedRowsExist, [Next]_vars
  PROVE  RowsReferToReleases' /\ PlannedRowsExist'
<1>1. RowsReferToReleases'
  <2>1. CASE owned' = owned
    BY <2>1, RowsGrow DEF RowsReferToReleases
  <2>2. ASSUME NEW w \in Worker, ExecuteSyncOperations(w)
        PROVE  RowsReferToReleases'
    <3>1. CASE owned' = owned
      BY <3>1, RowsGrow DEF RowsReferToReleases
    <3>2. CASE owned' = [i \in Item |->
             IF i \in ops[w].create \cup ops[w].update THEN mem[w].merged[i]
             ELSE IF i \in ops[w].delete /\ owned[i] \in Folder THEN Tombstone
             ELSE owned[i]]
      <4>1. pc[w] = "execute" /\ rows' = rows
        BY <2>2 DEF ExecuteSyncOperations
      <4>2. SUFFICES ASSUME NEW i \in Item, owned'[i] # NoFolder
                     PROVE  ReleaseOf[i] \in rows
        BY <4>1 DEF RowsReferToReleases
      <4>3. CASE i \in ops[w].create \cup ops[w].update
        BY <4>1, <4>3 DEF PlannedRowsExist
      <4>4. CASE i \notin ops[w].create \cup ops[w].update
        BY <3>2, <4>2, <4>4, ConstantsAssumption DEF RowsReferToReleases
      <4> QED
        BY <4>3, <4>4
    <3> QED
      BY <2>2, <3>1, <3>2 DEF ExecuteSyncOperations
  <2> QED
    BY <2>1, <2>2, OwnedWrites
<1>2. PlannedRowsExist'
  <2> SUFFICES ASSUME NEW v \in Worker, pc'[v] = "execute",
                      NEW i \in ops'[v].create \cup ops'[v].update
               PROVE  ReleaseOf[i] \in rows'
    BY DEF PlannedRowsExist
  <2>1. CASE pc[v] = "execute" /\ ops'[v] = ops[v]
    BY <2>1, RowsGrow DEF PlannedRowsExist
  <2>2. CASE rows' = rows /\ ops'[v] = Difference(mem[v])
    BY <2>2 DEF Difference
  <2> QED
    BY <2>1, <2>2, PlanStep
<1> QED
  BY <1>1, <1>2

\* Reconciliation never leaves a row of a release the database has not
\* (analyzeDifferentialSync skips those), however syncs, faults and restarts
\* interleave.
THEOREM RowsAlwaysReferToReleases == Spec => []RowsReferToReleases
<1>1. Init => RowsReferToReleases /\ PlannedRowsExist
  BY DEF Init, RowsReferToReleases, PlannedRowsExist
<1>2. TypeInv /\ RowsReferToReleases /\ PlannedRowsExist /\ [Next]_vars
        => RowsReferToReleases' /\ PlannedRowsExist'
  BY RowsInductive
<1> QED
  BY <1>1, <1>2, TypeInvHolds, PTL DEF Spec

=============================================================================
