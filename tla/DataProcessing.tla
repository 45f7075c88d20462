--------------------------- MODULE DataProcessing ---------------------------
(***************************************************************************)
(* The monthly Discogs data pipeline: the job that downloads the dumps     *)
(* (jobs/discogsDownload.job.go), the job that loads them into the         *)
(* catalogue (services/discogsXMLParser.service.go), the administrator's   *)
(* operations on them and the removal of old files.                        *)
(*                                                                         *)
(* Each works on a copy of the month's record, read once, and saves the    *)
(* whole row from that copy.  Nothing stops a second job from starting     *)
(* while one runs: a job is started by the daily schedule and by an        *)
(* administrator.  A crash ends all of them; the row and the files stay.   *)
(***************************************************************************)
EXTENDS Naturals, Sequences, Functions

CONSTANTS
  Downloader, Parser,  \* executions of the two jobs that may overlap
  FileSeq,             \* the dump's files, in the order they are downloaded
  StepSeq,             \* the processing steps, in the order they are executed
  MaxAttempts,         \* DiscogsMaxRetries
  MaxEvents,           \* bound: failures, crashes, requests and removals together
  LastMonth            \* what last month may have left as its record

AllFiles == <<"artists", "labels", "masters", "releases">>

AllSteps == <<
  "labels_processing", "artists_processing", "masters_processing", "releases_processing",
  "master_genres_collection", "master_genres_upsert", "master_genre_associations",
  "release_genres_collection", "release_genres_upsert", "release_genre_associations",
  "release_label_associations", "master_artist_associations", "release_artist_associations">>

StepFile ==
  [s \in Range(AllSteps) |->
     CASE s = "labels_processing" -> "labels"
       [] s = "artists_processing" -> "artists"
       [] s \in {"masters_processing", "master_genres_collection",
                 "master_genre_associations", "master_artist_associations"} -> "masters"
       [] s \in {"master_genres_upsert", "release_genres_upsert"} -> "none"
       [] OTHER -> "releases"]

File == Range(FileSeq)
Step == Range(StepSeq)
Job == Downloader \cup Parser

ASSUME PipelineAssumption ==
  /\ Downloader \cap Parser = {}
  /\ FileSeq \in Seq(Range(AllFiles)) \ {<<>>} /\ StepSeq \in Seq(Range(AllSteps))
  /\ \A s \in Step : StepFile[s] \in File \cup {"none"}
  /\ MaxAttempts \in Nat \ {0} /\ MaxEvents \in Nat

VARIABLES
  row,       \* the month's record in the database
  previous,  \* last month's record, made before this month's
  nextId,    \* the database's sequence of ids
  file,      \* the files under /app/discogs-data/<month>
  job,       \* what each execution of a job is doing, and what it holds in memory
  admin,     \* the administrator's request in progress
  genres,    \* the sources whose genres are in the genre table
  applied,   \* the steps whose data is in the catalogue
  budget,    \* how many events may still come from outside
  incident   \* history: what went wrong

vars == <<row, previous, nextId, file, job, admin, genres, applied, budget, incident>>

Status == {"not_started", "downloading", "ready_for_processing", "processing",
           "completed", "failed"}
Record == [id : Nat, status : Status \cup {"none"}, steps : SUBSET Step]
NoRow == [id |-> 0, status |-> "none", steps |-> {}]
PreviousId == 1

\* Last month may have left a record in any state, or none.
ASSUME LastMonthAssumption ==
  LastMonth \subseteq {NoRow} \cup {r \in Record : r.id = PreviousId /\ r.status # "none"}

\* An execution that does nothing: its place in the code, its copy of the row, the
\* file or step it is at, the attempts failed, whether the directory it made, with the
\* file it writes, is still there, and the genre manager's lowNames and nameToID.
Idle == [pc |-> "idle", rec |-> NoRow, pos |-> 1, tries |-> 0, linked |-> FALSE,
         names |-> {}, ids |-> {}]

Init ==
  /\ row = NoRow /\ previous \in LastMonth /\ nextId = PreviousId + 1
  /\ file = [f \in File |-> "absent"]
  /\ job = [j \in Job |-> Idle]
  /\ admin = [pc |-> "idle", rec |-> NoRow]
  /\ genres = {} /\ applied = {}
  /\ budget = MaxEvents
  /\ incident = {}

Busy(j) == job[j].pc # "idle"
Become(j, state) == job' = [job EXCEPT ![j] = state]
Goto(j, pc) == Become(j, [job[j] EXCEPT !.pc = pc])
Spend == budget > 0 /\ budget' = budget - 1
Report(what) == incident' = incident \cup what

-----------------------------------------------------------------------------
(* The repository: Save writes every column of the row with the copy's id, *)
(* and inserts it again if it was deleted; year_month is unique.           *)

\* Mutant: the copy is saved over whatever record the month has.
StoresAnyway(r) ==
  /\ \/ r.id = PreviousId /\ previous' = r /\ row' = row
     \/ r.id # PreviousId /\ row' = r /\ previous' = previous
  /\ UNCHANGED <<budget, incident>>

Stores(r) ==
  /\ \/ r.id = PreviousId /\ previous' = r /\ row' = row
     \/ r.id # PreviousId /\ row.id \in {0, r.id} /\ row' = r /\ previous' = previous
  /\ UNCHANGED <<budget, incident>>

Refuses(r) ==
  /\ row' = row /\ previous' = previous
  /\ \/ r.id # PreviousId /\ row.id \notin {0, r.id} /\ UNCHANGED <<budget, incident>>
     \/ Spend /\ Report({"database"})

\* The caller stops if the save fails, or only logs it.
SaveOrStop(j, r, next) ==
  \/ Stores(r) /\ Become(j, [next EXCEPT !.rec = r])
  \/ Refuses(r) /\ Become(j, Idle)

SaveOrWarn(j, r, next) ==
  /\ Stores(r) \/ Refuses(r)
  /\ Become(j, next)

Inserts ==
  /\ row.id = 0
  /\ row' = [id |-> nextId, status |-> "not_started", steps |-> {}]
  /\ nextId' = nextId + 1
  /\ UNCHANGED <<previous, budget, incident>>

RefusesInsert ==
  /\ UNCHANGED <<row, previous, nextId>>
  /\ \/ row.id # 0 /\ UNCHANGED <<budget, incident>>
     \/ Spend /\ Report({"database"})

\* GetLatestProcessing: the record created last, whatever its month.
Latest == IF row.id # 0 THEN row ELSE previous

WithStatus(r, status) == [r EXCEPT !.status = status]

\* What is reported when something starts beside something else.
Overlap(j) == IF admin.pc # "idle" \/ \E k \in Job \ {j} : Busy(k) THEN {"overlap"} ELSE {}

-----------------------------------------------------------------------------
(* The download job *)

\* Mutant: a failed download is not tried again.
NewOnly == {"not_started"}

\* The states of the record from which Execute goes on.
Downloadable == {"not_started", "failed"}

\* Execute reads the month's record and returns if a job is or was at work on it.
StartDownload(d) ==
  /\ ~Busy(d)
  /\ \/ row.id = 0 /\ Goto(d, "create")
     \/ /\ row.id # 0 /\ row.status \in Downloadable
        /\ Become(d, [Idle EXCEPT !.rec = row, !.pc = IF row.status = "failed" THEN "retry" ELSE "begin"])
  /\ Report(Overlap(d))
  /\ UNCHANGED <<row, previous, nextId, file, admin, genres, applied, budget>>

CreateRecord(d) ==
  /\ job[d].pc = "create"
  /\ \/ Inserts /\ Become(d, [Idle EXCEPT !.rec = row', !.pc = "begin"])
     \/ RefusesInsert /\ Become(d, Idle)
  /\ UNCHANGED <<file, admin, genres, applied>>

\* The failed record's retry count, error and start are saved before its status.
RetryRecord(d) ==
  /\ job[d].pc = "retry"
  /\ SaveOrStop(d, job[d].rec, [job[d] EXCEPT !.pc = "begin"])
  /\ UNCHANGED <<nextId, file, admin, genres, applied>>

BeginDownload(d) ==
  /\ job[d].pc = "begin"
  /\ SaveOrStop(d, WithStatus(job[d].rec, "downloading"),
       [job[d] EXCEPT !.pc = "checksum", !.linked = TRUE])
  /\ UNCHANGED <<nextId, file, admin, genres, applied>>

\* CHECKSUM.txt is downloaded, parsed and its contents saved.
Checksum(d) ==
  /\ job[d].pc = "checksum"
  /\ \/ Stores(job[d].rec) /\ Become(d, [job[d] EXCEPT !.pc = "file", !.tries = 0])
     \/ Refuses(job[d].rec) /\ Goto(d, "failed")
  /\ UNCHANGED <<nextId, file, admin, genres, applied>>

\* Mutant: one attempt more.
OneMoreAttempt(d) == job[d].tries < MaxAttempts

MoreAttempts(d) == job[d].tries + 1 < MaxAttempts

\* An attempt fails: after the last one the job gives the download up, or, if the
\* server's answer was 404, leaves it to the next day.
AttemptFails(d) ==
  /\ job[d].pc \in {"checksum", "open", "write"}
  /\ Spend
  /\ \/ /\ MoreAttempts(d)
        /\ Become(d, [job[d] EXCEPT !.tries = @ + 1, !.pc = IF @ = "write" THEN "open" ELSE @])
     \/ /\ ~MoreAttempts(d)
        /\ Goto(d, "failed")
     \/ /\ ~MoreAttempts(d) /\ job[d].pc # "write"
        /\ Goto(d, "unavailable")
     \/ /\ job[d].pc = "checksum"  \* its contents cannot be parsed
        /\ Goto(d, "failed")
  /\ UNCHANGED <<row, previous, nextId, file, admin, genres, applied, incident>>

\* The directory is made once for each file: an attempt after its removal fails, unless
\* another job has made it again.
NoDirectory(d) ==
  /\ job[d].pc \in {"checksum", "open"} /\ ~job[d].linked
  /\ \/ MoreAttempts(d) /\ Become(d, [job[d] EXCEPT !.tries = @ + 1])
     \/ (MoreAttempts(d) => job[d].pc = "checksum") /\ Goto(d, "failed")
  /\ UNCHANGED <<row, previous, nextId, file, admin, genres, applied, budget, incident>>

BeginFile(d) ==
  /\ job[d].pc = "file"
  /\ SaveOrWarn(d, job[d].rec, [job[d] EXCEPT !.pc = "open", !.tries = 0, !.linked = TRUE])
  /\ UNCHANGED <<nextId, file, admin, genres, applied>>

\* os.Create makes the file or empties it, whoever else is writing it.
OpenFile(d) ==
  /\ job[d].pc = "open"
  /\ file' = [file EXCEPT ![FileSeq[job[d].pos]] = "partial"]
  /\ Become(d, [job[d] EXCEPT !.pc = "write", !.linked = TRUE])
  /\ UNCHANGED <<row, previous, nextId, admin, genres, applied, budget, incident>>

\* The last byte is written.  What the file then holds depends on the server and on
\* another writer of it; a file that was removed meanwhile stays removed.
FileWritten(d) ==
  LET f == FileSeq[job[d].pos]
      shared == \E k \in Downloader \ {d} :
                  job[k].pc = "write" /\ job[k].linked /\ job[k].pos = job[d].pos
  IN /\ job[d].pc = "write"
     /\ \/ /\ job[d].linked
           /\ \/ /\ \E content \in {"good"} \cup (IF shared THEN {"partial"} ELSE {}) :
                      file' = [file EXCEPT ![f] = content]
                 /\ UNCHANGED <<budget, incident>>
              \/ /\ file' = [file EXCEPT ![f] = "bad"]
                 /\ Spend /\ Report({"corrupt"})
        \/ ~job[d].linked /\ UNCHANGED <<file, budget, incident>>
     /\ Become(d, [job[d] EXCEPT !.pc = "info", !.linked = FALSE])
     /\ UNCHANGED <<row, previous, nextId, admin, genres, applied>>

\* The file's size and whether its checksum is right are saved; neither is acted on.
SaveFileInfo(d) ==
  /\ job[d].pc = "info"
  /\ SaveOrWarn(d, job[d].rec,
       IF job[d].pos < Len(FileSeq) THEN [job[d] EXCEPT !.pc = "file", !.pos = @ + 1]
                                    ELSE [job[d] EXCEPT !.pc = "ready"])
  /\ UNCHANGED <<nextId, file, admin, genres, applied>>

FinishDownload(d) ==
  /\ job[d].pc = "ready"
  /\ LET r == WithStatus(job[d].rec, "ready_for_processing")
     IN \/ Stores(r) /\ Become(d, Idle)
        \/ Refuses(r) /\ Goto(d, "failed")
  /\ UNCHANGED <<nextId, file, admin, genres, applied>>

\* Mutant: the record keeps the status it has.
LeaveAsItIs(d) ==
  /\ job[d].pc \in {"failed", "unavailable"}
  /\ Become(d, Idle)
  /\ UNCHANGED <<row, previous, nextId, file, admin, genres, applied, budget, incident>>

\* The download is given up: the record says so, unless that save fails too.
GiveUp(d) ==
  /\ job[d].pc \in {"failed", "unavailable"}
  /\ SaveOrWarn(d, WithStatus(job[d].rec, IF job[d].pc = "failed" THEN "failed" ELSE "not_started"), Idle)
  /\ UNCHANGED <<nextId, file, admin, genres, applied>>

-----------------------------------------------------------------------------
(* The processing job *)

\* Mutant: a download that was cut off is processed as far as it goes.
ProcessableOrCutOff == {"ready_for_processing", "processing", "downloading"}

Processable == {"ready_for_processing", "processing"}

\* A record that is "processing" is taken up again: it may be another execution's.  While
\* the month has no record, last month's is taken, to be worked on with this month's files.
StartProcessing(p) ==
  /\ ~Busy(p)
  /\ Latest.status \in Processable
  /\ Become(p, [Idle EXCEPT !.rec = Latest,
                 !.pc = IF Latest.status = "processing" THEN "check" ELSE "claim"])
  /\ Report(Overlap(p))
  /\ UNCHANGED <<row, previous, nextId, file, admin, genres, applied, budget>>

Claim(p) ==
  /\ job[p].pc = "claim"
  /\ SaveOrStop(p, WithStatus(job[p].rec, "processing"), [job[p] EXCEPT !.pc = "check"])
  /\ UNCHANGED <<nextId, file, admin, genres, applied>>

\* Mutant: the files are not looked for.
CheckNothing(p) ==
  /\ job[p].pc = "check"
  /\ Goto(p, "step")
  /\ UNCHANGED <<row, previous, nextId, file, admin, genres, applied, budget, incident>>

\* Every file must exist before the first step.
CheckFiles(p) ==
  /\ job[p].pc = "check"
  /\ \/ /\ \A f \in File : file[f] # "absent"
        /\ Goto(p, "step")
        /\ UNCHANGED <<row, previous, budget, incident>>
     \/ /\ \E f \in File : file[f] = "absent"
        /\ SaveOrWarn(p, WithStatus(job[p].rec, "failed"), Idle)
  /\ UNCHANGED <<nextId, file, admin, genres, applied>>

Current(p) == StepSeq[job[p].pos]

\* executeProcessingStep returns at once if the copy says the step is completed.
SkipStep(p) ==
  /\ job[p].pc = "step" /\ job[p].pos <= Len(StepSeq)
  /\ Current(p) \in job[p].rec.steps
  /\ Become(p, [job[p] EXCEPT !.pos = @ + 1])
  /\ UNCHANGED <<row, previous, nextId, file, admin, genres, applied, budget, incident>>

\* What reading a file comes to: all of it; nothing, when it cannot be opened or
\* does not begin as gzip; or an error that the decoder's loop meets again for ever.
Reading(f) ==
  CASE f = "none" -> {"all"}
    [] f = "absent" -> {"nothing"}
    [] f = "partial" -> {"nothing", "stuck"}
    [] f = "good" -> {"all"}
    [] f = "bad" -> {"all", "nothing", "stuck"}

Source(s) == StepFile[s]
Collects(s) == s \in {"master_genres_collection", "release_genres_collection"}
Upserts(s) == s \in {"master_genres_upsert", "release_genres_upsert"}
Associates(s) == s \in {"master_genre_associations", "release_genre_associations"}

\* The genres of step c's source are still collected when the first n steps are done.
CollectedIn(seq, c, n) ==
  /\ c \in 1 .. n /\ Collects(seq[c])
  /\ \A k \in c + 1 .. n : seq[k] # "release_genres_collection"

\* No step is repeated, and genres are collected and then inserted before they are
\* associated.
InOrder(seq) ==
  /\ \A i, k \in DOMAIN seq : seq[i] = seq[k] => i = k
  /\ \A i \in DOMAIN seq : Associates(seq[i]) =>
       \E c \in DOMAIN seq :
         /\ CollectedIn(seq, c, i - 1) /\ Source(seq[c]) = Source(seq[i])
         /\ \E u \in c + 1 .. i - 1 : Upserts(seq[u])

ASSUME StepOrderAssumption == InOrder(StepSeq) /\ InOrder(AllSteps)

\* BatchUpsertMissingGenres does nothing when no name was collected; else it inserts
\* the names that are missing and then knows the id of every genre there is.
UpsertGenres(p) ==
  IF job[p].names = {}
  THEN genres' = genres /\ Goto(p, "commit")
  ELSE /\ genres' = genres \cup job[p].names
       /\ Become(p, [job[p] EXCEPT !.pc = "commit", !.ids = genres'])

\* Mutant: the second collection does not reset the manager, and finds nothing new.
CollectOnce(p, got) ==
  Become(p, [job[p] EXCEPT !.pc = "commit",
               !.names = IF @ = {} /\ got = "all" THEN {Source(Current(p))} ELSE @])

\* The names of one source; the second collection resets the manager first.
CollectGenres(p, got) ==
  LET found == IF got = "all" THEN {Source(Current(p))} ELSE {}
      reset == Current(p) = "release_genres_collection"
  IN Become(p, [job[p] EXCEPT !.pc = "commit",
                  !.names = IF reset THEN found ELSE @ \cup found,
                  !.ids = IF reset THEN {} ELSE @])

\* A step's function.  Parsing errors and failed batches are only logged.
RunStep(p) ==
  LET s == Current(p)
      content == IF Source(s) = "none" THEN "none" ELSE file[Source(s)]
      whole(got) == got = "all" /\ (Associates(s) => Source(s) \in job[p].ids)
  IN /\ job[p].pc = "step" /\ job[p].pos <= Len(StepSeq) /\ s \notin job[p].rec.steps
     /\ \E got \in Reading(content) :
          \/ got = "stuck" /\ Goto(p, "stuck") /\ UNCHANGED <<genres, applied, budget, incident>>
          \/ /\ got # "stuck" /\ Collects(s)
             /\ CollectGenres(p, got) /\ UNCHANGED <<genres, applied, budget, incident>>
          \/ /\ Upserts(s)
             /\ \/ UpsertGenres(p) /\ UNCHANGED <<budget, incident>>
                \/ Spend /\ Report({"database"}) /\ Goto(p, "steperror") /\ UNCHANGED genres
             /\ UNCHANGED applied
          \/ /\ got # "stuck" /\ ~Collects(s) /\ ~Upserts(s)
             /\ \/ applied' = (IF whole(got) THEN applied \cup {s} ELSE applied)
                   /\ UNCHANGED <<budget, incident>>
                \/ Spend /\ Report({"batch"}) /\ UNCHANGED applied
             /\ Goto(p, "commit") /\ UNCHANGED genres
     /\ UNCHANGED <<row, previous, nextId, file, admin>>

\* MarkStepCompleted, and the row saved.
CommitStep(p) ==
  /\ job[p].pc = "commit"
  /\ SaveOrStop(p, [job[p].rec EXCEPT !.steps = @ \cup {Current(p)}],
                   [job[p] EXCEPT !.pc = "step", !.pos = @ + 1])
  /\ UNCHANGED <<nextId, file, admin, genres, applied>>

\* MarkStepFailed, and the job ends; the status stays "processing".
StepError(p) ==
  /\ job[p].pc = "steperror"
  /\ SaveOrWarn(p, job[p].rec, Idle)
  /\ UNCHANGED <<nextId, file, admin, genres, applied>>

\* Mutant: completed is saved one step early.
CompleteEarly(p) ==
  /\ job[p].pc = "step" /\ job[p].pos >= Len(StepSeq)
  /\ SaveOrStop(p, WithStatus(job[p].rec, "completed"), Idle)
  /\ UNCHANGED <<nextId, file, admin, genres, applied>>

Complete(p) ==
  /\ job[p].pc = "step" /\ job[p].pos > Len(StepSeq)
  /\ \/ Stores(WithStatus(job[p].rec, "completed"))
     \/ Refuses(WithStatus(job[p].rec, "completed"))
  /\ Become(p, Idle)
  /\ UNCHANGED <<nextId, file, admin, genres, applied>>

-----------------------------------------------------------------------------
(* The administrator's operations.  A triggered job starts whenever a job  *)
(* may start, which here is always.                                        *)

AdminIdle == [pc |-> "idle", rec |-> NoRow]
Concurrent == IF \E j \in Job : Busy(j) THEN {"overlap"} ELSE {}

\* Nothing asks whether a job is at work.
RequestDownload ==
  /\ admin.pc = "idle" /\ Spend
  /\ admin' = IF row.id = 0 THEN [pc |-> "create", rec |-> NoRow] ELSE [pc |-> "delete", rec |-> row]
  /\ Report(Concurrent)
  /\ UNCHANGED <<row, previous, nextId, file, job, genres, applied>>

\* The row that was read is deleted (only one request is in progress, so it is there).
DeleteRecord ==
  /\ admin.pc = "delete"
  /\ \/ /\ row.id = admin.rec.id /\ row' = NoRow
        /\ admin' = [pc |-> "create", rec |-> NoRow] /\ UNCHANGED <<budget, incident>>
     \/ Spend /\ Report({"database"}) /\ admin' = AdminIdle /\ UNCHANGED row
  /\ UNCHANGED <<previous, nextId, file, job, genres, applied>>

RecreateRecord ==
  /\ admin.pc = "create"
  /\ Inserts \/ RefusesInsert
  /\ admin' = AdminIdle
  /\ UNCHANGED <<file, job, genres, applied>>

\* A failed record may be one whose files were never downloaded.
Undownloaded == IF \E f \in File : file[f] \in {"absent", "partial"} THEN {"undownloaded"} ELSE {}

\* The record reprocessed is the latest, which may be last month's.
RequestReprocess ==
  /\ admin.pc = "idle" /\ Spend
  /\ Latest.status \in {"ready_for_processing", "processing", "completed", "failed"}
  /\ admin' = [pc |-> "save",
               rec |-> [Latest EXCEPT !.status = "ready_for_processing", !.steps = {}]]
  /\ Report(Concurrent \cup IF row.id # 0 THEN Undownloaded ELSE {})
  /\ UNCHANGED <<row, previous, nextId, file, job, genres, applied>>

RequestReset ==
  /\ admin.pc = "idle" /\ Spend
  /\ row.status \in {"downloading", "processing", "failed"}
  /\ admin' = [pc |-> "clean", rec |-> [row EXCEPT !.status = "not_started", !.steps = {}]]
  /\ Report(Concurrent)
  /\ UNCHANGED <<row, previous, nextId, file, job, genres, applied>>

\* The files lose their names, those being written too.
RemoveFiles ==
  /\ file' = [f \in File |-> "absent"]
  /\ job' = [j \in Job |-> [job[j] EXCEPT !.linked = FALSE]]
  /\ Report({"removed"})

\* A removal that fails may have removed some files, never the directory they are in.
RemoveSomeFiles(gone) ==
  /\ file' = [f \in File |-> IF f \in gone THEN "absent" ELSE file[f]]
  /\ job' = [j \in Job |->
       [job[j] EXCEPT !.linked = @ /\ ~(job[j].pc = "write" /\ FileSeq[job[j].pos] \in gone)]]
  /\ Report({"removed"})

\* A reset whose removal fails ends there, and leaves the record as it is.
ResetFiles ==
  /\ admin.pc = "clean"
  /\ \/ RemoveFiles /\ admin' = [admin EXCEPT !.pc = "save"] /\ UNCHANGED budget
     \/ \E gone \in SUBSET File : RemoveSomeFiles(gone) /\ Spend /\ admin' = AdminIdle
  /\ UNCHANGED <<row, previous, nextId, genres, applied>>

\* The last step of a reset and of a reprocess.
SaveRequested ==
  /\ admin.pc = "save"
  /\ Stores(admin.rec) \/ Refuses(admin.rec)
  /\ admin' = AdminIdle
  /\ UNCHANGED <<nextId, file, job, genres, applied>>

\* The monthly job, and the administrator's removal of files.
CleanupFiles ==
  /\ Spend
  /\ RemoveFiles \/ \E gone \in SUBSET File : RemoveSomeFiles(gone)
  /\ UNCHANGED <<row, previous, nextId, admin, genres, applied>>

Crash ==
  /\ Spend /\ Report({"crash"})
  /\ job' = [j \in Job |-> Idle]
  /\ admin' = AdminIdle
  /\ UNCHANGED <<row, previous, nextId, file, genres, applied>>

-----------------------------------------------------------------------------
DownloadStep(d) ==
  \/ CreateRecord(d) \/ RetryRecord(d) \/ BeginDownload(d) \/ Checksum(d)
  \/ NoDirectory(d) \/ BeginFile(d) \/ OpenFile(d) \/ FileWritten(d) \/ SaveFileInfo(d)
  \/ FinishDownload(d) \/ GiveUp(d)

ProcessingStep(p) ==
  \/ Claim(p) \/ CheckFiles(p) \/ SkipStep(p) \/ RunStep(p) \/ CommitStep(p)
  \/ StepError(p) \/ Complete(p)

AdminStep == DeleteRecord \/ RecreateRecord \/ ResetFiles \/ SaveRequested

Next ==
  \/ \E d \in Downloader : StartDownload(d) \/ DownloadStep(d) \/ AttemptFails(d)
  \/ \E p \in Parser : StartProcessing(p) \/ ProcessingStep(p)
  \/ RequestDownload \/ RequestReprocess \/ RequestReset \/ AdminStep
  \/ CleanupFiles \/ Crash

\* The schedule starts each job every day; what has started goes on.
Fairness ==
  /\ \A d \in Downloader : WF_vars(StartDownload(d)) /\ WF_vars(DownloadStep(d))
  /\ \A p \in Parser : WF_vars(StartProcessing(p)) /\ WF_vars(ProcessingStep(p))
  /\ WF_vars(AdminStep)

Spec == Init /\ [][Next]_vars /\ Fairness

-----------------------------------------------------------------------------
(* Properties *)

Incident == {"database", "batch", "corrupt", "removed", "overlap", "undownloaded", "crash"}

Downloading == {"checksum", "file", "open", "write", "info", "ready", "failed", "unavailable"}
JobPlace == {"idle", "create", "retry", "begin"} \cup Downloading
              \cup {"claim", "check", "step", "commit", "steperror", "stuck"}
Tries == 0 .. MaxAttempts - 1
JobState ==
  [pc : JobPlace, rec : Record, pos : Nat \ {0}, tries : Tries, linked : BOOLEAN,
   names : SUBSET Range(AllFiles), ids : SUBSET Range(AllFiles)]

\* Types; in particular no download is attempted more than MaxAttempts times.
TypeOK ==
  /\ row \in Record /\ previous \in Record /\ nextId \in Nat
  /\ file \in [File -> {"absent", "partial", "good", "bad"}]
  /\ job \in [Job -> JobState]
  /\ admin \in [pc : {"idle", "delete", "create", "clean", "save"}, rec : Record]
  /\ genres \subseteq Range(AllFiles) /\ applied \subseteq Step
  /\ budget \in Nat
  /\ incident \subseteq Incident

\* However jobs and administrators overwrite the row from old copies, a record that is
\* completed has every step completed (AllStepsCompleted, which the code only logs).
CompletedHasAllSteps == row.status = "completed" => Step \subseteq row.steps

\* A record is downloading only while an execution of the job is downloading for it, so
\* nobody need wait for it in vain - unless the process was stopped, or a save was lost.
DownloadingIsOwned ==
  row.status = "downloading" /\ incident \cap {"crash", "database"} = {} =>
    \E d \in Downloader : job[d].pc \in Downloading /\ job[d].rec.id = row.id

\* A job or a request that works for a deleted record never takes over its successor.
NoTakeover == [][row.id # 0 /\ row'.id # 0 => row'.id = row.id]_vars

\* This month's files are loaded on behalf of last month's record - a step is recorded there
\* that was not - only after an overlap, a crash or a refused request.
MonthsStayApart ==
  [][previous'.steps \subseteq previous.steps
       \/ incident' \cap {"overlap", "crash", "database"} # {}]_vars

DataStep == {s \in Step : ~Collects(s) /\ ~Upserts(s)}

\* The month's data is in the catalogue when its record is completed, if nothing went
\* wrong but attempts to download.
CompletedIsLoaded ==
  row.status = "completed" /\ incident = {} => DataStep \subseteq applied

\* A crash or a lost save between two steps costs at most the genre associations, whose
\* names are collected in memory by a step that is not repeated.
OnlyGenresLostByCrash ==
  row.status = "completed" /\ incident \subseteq {"crash", "database"} =>
    {s \in DataStep : ~Associates(s)} \subseteq applied

\* The month is completed in the end, whatever failed, unless a download was cut off with
\* the record left as downloading, or a parser is caught in an unreadable file.  (Two
\* downloads of which one always saves what it read before the other began would not end.)
CutOff ==
  row.status = "downloading" /\ incident \cap {"crash", "database"} # {}
Caught == \E p \in Parser : job[p].pc = "stuck"
Racing == \E d, e \in Downloader : d # e /\ Busy(d) /\ Busy(e)
CompletedInTheEnd == <>[]~Racing => <>[](row.status = "completed" \/ CutOff \/ Caught)

=============================================================================
