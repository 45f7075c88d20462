------------------------ MODULE DataProcessingProofs ------------------------
(***************************************************************************)
(* Type correctness of DataProcessing, and what holds of the month's       *)
(* record however many executions overwrite it from their copies.          *)
(***************************************************************************)
EXTENDS DataProcessing, TLAPS

-----------------------------------------------------------------------------
(* Type correctness *)

LEMMA FileNames ==
  /\ Range(AllFiles) = {"artists", "labels", "masters", "releases"}
  /\ File \subseteq Range(AllFiles)
BY PipelineAssumption DEF Range, AllFiles, File

LEMMA Attempts == MaxAttempts \in Nat \ {0} /\ 0 \in Tries
BY PipelineAssumption DEF Tries

LEMMA InitType == Init => TypeOK
BY PipelineAssumption, LastMonthAssumption
DEF Init, TypeOK, PreviousId, NoRow, Record, Status, Idle, JobState, JobPlace, Tries, Incident

\* A save leaves a record in the row, and in last month's.
LEMMA SaveType ==
  ASSUME TypeOK, NEW r \in Record, Stores(r) \/ Refuses(r)
  PROVE  /\ row' \in Record /\ previous' \in Record
         /\ budget' \in Nat /\ incident' \subseteq Incident
<1>1. CASE Stores(r)
  BY <1>1 DEF TypeOK, Stores
<1>2. CASE Refuses(r)
  <2>1. incident' = incident \/ incident' = incident \cup {"database"}
    BY <1>2 DEF Refuses, Report
  <2>2. budget' \in Nat
    BY <1>2 DEF TypeOK, Refuses, Spend
  <2> QED
    BY <1>2, <2>1, <2>2 DEF TypeOK, Refuses, Incident
<1> QED
  BY <1>1, <1>2

LEMMA BecomeType ==
  ASSUME TypeOK, NEW j \in Job, NEW state \in JobState, Become(j, state)
  PROVE  job' \in [Job -> JobState]
BY DEF TypeOK, Become

LEMMA JobType ==
  ASSUME TypeOK, NEW j \in Job
  PROVE  job[j] \in JobState /\ job[j].rec \in Record
BY DEF TypeOK, JobState

LEMMA IdleType == Idle \in JobState /\ NoRow \in Record
BY PipelineAssumption DEF Idle, JobState, JobPlace, NoRow, Record, Status, Tries

\* A job's next state, by the fields that change.
LEMMA PlaceType ==
  ASSUME NEW s \in JobState, NEW pc \in JobPlace
  PROVE  /\ [s EXCEPT !.pc = pc] \in JobState
         /\ [s EXCEPT !.pos = @ + 1] \in JobState
         /\ [s EXCEPT !.pc = pc, !.pos = @ + 1] \in JobState
<1>1. [s EXCEPT !.pc = pc] \in JobState
  BY DEF JobState
<1>2. \A t \in JobState : [t EXCEPT !.pos = @ + 1] \in JobState
  BY DEF JobState
<1> DEFINE t == [s EXCEPT !.pc = pc]
<1>3. [t EXCEPT !.pos = @ + 1] = [s EXCEPT !.pc = pc, !.pos = @ + 1]
  BY DEF JobState
<1> HIDE DEF t
<1>4. [t EXCEPT !.pos = @ + 1] \in JobState
  BY <1>1, <1>2 DEF t
<1> QED
  BY <1>1, <1>2, <1>3, <1>4

LEMMA AttemptType ==
  ASSUME NEW s \in JobState, NEW pc \in JobPlace, NEW tries \in Tries, NEW linked \in BOOLEAN
  PROVE  /\ [s EXCEPT !.pc = pc, !.tries = tries] \in JobState
         /\ [s EXCEPT !.pc = pc, !.linked = linked] \in JobState
         /\ [s EXCEPT !.tries = tries, !.pc = pc] \in JobState
         /\ [s EXCEPT !.pc = pc, !.tries = tries, !.linked = linked] \in JobState
         /\ [s EXCEPT !.tries = tries] \in JobState
<1>1. [s EXCEPT !.pc = pc, !.tries = tries] \in JobState
  BY DEF JobState
<1>2. [s EXCEPT !.pc = pc, !.linked = linked] \in JobState
  BY DEF JobState
<1>3. [s EXCEPT !.tries = tries, !.pc = pc] \in JobState
  BY DEF JobState
<1>4. [s EXCEPT !.pc = pc, !.tries = tries, !.linked = linked] \in JobState
  BY DEF JobState
<1>5. [s EXCEPT !.tries = tries] \in JobState
  BY DEF JobState
<1> QED
  BY <1>1, <1>2, <1>3, <1>4, <1>5

LEMMA GotoType ==
  ASSUME TypeOK, NEW j \in Job, NEW pc \in JobPlace, Goto(j, pc)
  PROVE  job' \in [Job -> JobState]
<1>1. [job[j] EXCEPT !.pc = pc] \in JobState
  BY JobType DEF JobState
<1> QED
  BY <1>1, BecomeType DEF Goto

\* A copy with another status or other steps is a record.
LEMMA CopyType ==
  ASSUME NEW r \in Record, NEW status \in Status, NEW steps \in SUBSET Step
  PROVE  /\ WithStatus(r, status) \in Record
         /\ [r EXCEPT !.steps = steps] \in Record
         /\ [r EXCEPT !.status = status, !.steps = steps] \in Record
BY DEF Record, WithStatus

LEMMA SaveOrStopType ==
  ASSUME TypeOK, NEW j \in Job, NEW r \in Record, NEW next \in JobState, SaveOrStop(j, r, next)
  PROVE  /\ row' \in Record /\ previous' \in Record /\ budget' \in Nat /\ incident' \subseteq Incident
         /\ job' \in [Job -> JobState]
<1>1. [next EXCEPT !.rec = r] \in JobState
  BY DEF JobState
<1> QED
  BY <1>1, SaveType, BecomeType, IdleType DEF SaveOrStop

LEMMA SaveOrWarnType ==
  ASSUME TypeOK, NEW j \in Job, NEW r \in Record, NEW next \in JobState, SaveOrWarn(j, r, next)
  PROVE  /\ row' \in Record /\ previous' \in Record /\ budget' \in Nat /\ incident' \subseteq Incident
         /\ job' \in [Job -> JobState]
BY SaveType, BecomeType DEF SaveOrWarn

\* An insert makes a new record.
LEMMA InsertType ==
  ASSUME TypeOK, Inserts \/ RefusesInsert
  PROVE  /\ row' \in Record /\ previous' \in Record /\ nextId' \in Nat
         /\ budget' \in Nat /\ incident' \subseteq Incident
<1>1. CASE Inserts
  BY <1>1 DEF TypeOK, Inserts, Record, Status
<1>2. CASE RefusesInsert
  <2>1. incident' \subseteq Incident
    BY <1>2 DEF TypeOK, RefusesInsert, Report, Incident
  <2>2. budget' \in Nat
    BY <1>2 DEF TypeOK, RefusesInsert, Spend
  <2> QED
    BY <1>2, <2>1, <2>2 DEF TypeOK, RefusesInsert
<1> QED
  BY <1>1, <1>2

\* The latest record is one.
LEMMA LatestType == TypeOK => Latest \in Record
BY DEF TypeOK, Latest

LEMMA DownloadType ==
  ASSUME TypeOK, NEW d \in Downloader, StartDownload(d) \/ DownloadStep(d) \/ AttemptFails(d)
  PROVE  TypeOK'
<1> USE IdleType, JobType, FileNames, Attempts
<1>0. d \in Job
  BY DEF Job
<1>1. CASE StartDownload(d)
  <2>1. [Idle EXCEPT !.rec = row, !.pc = IF row.status = "failed" THEN "retry" ELSE "begin"] \in JobState
    BY DEF TypeOK, JobState, JobPlace
  <2>2. job' \in [Job -> JobState]
    BY <1>0, <1>1, <2>1, BecomeType, GotoType DEF StartDownload, JobPlace
  <2> QED
    BY <1>1, <2>2 DEF StartDownload, TypeOK, Report, Overlap, Incident
<1>2. CASE CreateRecord(d)
  <2>1. [Idle EXCEPT !.rec = row', !.pc = "begin"] \in JobState
    BY <1>2, InsertType DEF CreateRecord, JobState, JobPlace
  <2>2. job' \in [Job -> JobState]
    BY <1>0, <1>2, <2>1, BecomeType DEF CreateRecord
  <2> QED
    BY <1>2, <2>2, InsertType DEF CreateRecord, TypeOK
<1>3. CASE RetryRecord(d)
  <2>1. [job[d] EXCEPT !.pc = "begin"] \in JobState
    BY <1>0, PlaceType, AttemptType, Zenon DEF JobPlace
  <2> QED
    BY <1>0, <1>3, <2>1, SaveOrStopType DEF RetryRecord, TypeOK
<1>4. CASE BeginDownload(d)
  <2>1. [job[d] EXCEPT !.pc = "checksum", !.linked = TRUE] \in JobState
    BY <1>0, PlaceType, AttemptType, Zenon DEF JobPlace, Downloading
  <2>2. WithStatus(job[d].rec, "downloading") \in Record
    BY <1>0, CopyType DEF Status
  <2> QED
    BY <1>0, <1>4, <2>1, <2>2, SaveOrStopType DEF BeginDownload, TypeOK
<1>5. CASE Checksum(d)
  <2>1. [job[d] EXCEPT !.pc = "file", !.tries = 0] \in JobState
    BY <1>0, PlaceType, AttemptType, Zenon DEF JobPlace, Downloading
  <2>2. job' \in [Job -> JobState]
    BY <1>0, <1>5, <2>1, BecomeType, GotoType DEF Checksum, JobPlace, Downloading
  <2> QED
    BY <1>0, <1>5, <2>2, SaveType DEF Checksum, TypeOK
<1>6. CASE AttemptFails(d)
  <2>1. MoreAttempts(d) => [job[d] EXCEPT !.tries = @ + 1,
                                          !.pc = IF @ = "write" THEN "open" ELSE @] \in JobState
    <3>1. /\ job[d].tries \in Tries
          /\ (IF job[d].pc = "write" THEN "open" ELSE job[d].pc) \in JobPlace
      BY <1>0 DEF JobState, JobPlace, Downloading
    <3> DEFINE tries == job[d].tries + 1
               pc == IF job[d].pc = "write" THEN "open" ELSE job[d].pc
    <3>2. MoreAttempts(d) => tries \in Tries /\ pc \in JobPlace
      BY <3>1 DEF MoreAttempts, Tries
    <3> HIDE DEF tries, pc
    <3>3. MoreAttempts(d) => [job[d] EXCEPT !.tries = tries, !.pc = pc] \in JobState
      BY <1>0, <3>2, PlaceType, AttemptType, Zenon
    <3> QED
      BY <3>3 DEF tries, pc
  <2>2. job' \in [Job -> JobState]
    BY <1>0, <1>6, <2>1, BecomeType, GotoType DEF AttemptFails, JobPlace, Downloading
  <2> QED
    BY <1>6, <2>2 DEF AttemptFails, TypeOK, Spend
<1>7. CASE BeginFile(d)
  <2>1. [job[d] EXCEPT !.pc = "open", !.tries = 0, !.linked = TRUE] \in JobState
    BY <1>0, PlaceType, AttemptType, Zenon DEF JobPlace, Downloading
  <2> QED
    BY <1>0, <1>7, <2>1, SaveOrWarnType DEF BeginFile, TypeOK
<1>8. CASE OpenFile(d)
  <2>1. [job[d] EXCEPT !.pc = "write", !.linked = TRUE] \in JobState
    BY <1>0, PlaceType, AttemptType, Zenon DEF JobPlace, Downloading
  <2>2. job' \in [Job -> JobState]
    BY <1>0, <1>8, <2>1, BecomeType DEF OpenFile
  <2> QED
    BY <1>8, <2>2 DEF OpenFile, TypeOK
<1>9. CASE FileWritten(d)
  <2>1. [job[d] EXCEPT !.pc = "info", !.linked = FALSE] \in JobState
    BY <1>0, PlaceType, AttemptType, Zenon DEF JobPlace, Downloading
  <2>2. job' \in [Job -> JobState]
    BY <1>0, <1>9, <2>1, BecomeType DEF FileWritten
  <2>3. /\ file' \in [File -> {"absent", "partial", "good", "bad"}]
        /\ budget' \in Nat /\ incident' \subseteq Incident
    BY <1>9 DEF FileWritten, TypeOK, Spend, Report, Incident
  <2> QED
    BY <1>9, <2>2, <2>3 DEF FileWritten, TypeOK
<1>10. CASE SaveFileInfo(d)
  <2>1. /\ [job[d] EXCEPT !.pc = "file", !.pos = @ + 1] \in JobState
        /\ [job[d] EXCEPT !.pc = "ready"] \in JobState
    BY <1>0, PlaceType, AttemptType, Zenon DEF JobPlace, Downloading
  <2> QED
    BY <1>0, <1>10, <2>1, SaveOrWarnType DEF SaveFileInfo, TypeOK
<1>11. CASE FinishDownload(d)
  <2>1. WithStatus(job[d].rec, "ready_for_processing") \in Record
    BY <1>0, CopyType DEF Status
  <2>2. job' \in [Job -> JobState]
    BY <1>0, <1>11, BecomeType, GotoType DEF FinishDownload, JobPlace, Downloading
  <2> QED
    BY <1>11, <2>1, <2>2, SaveType DEF FinishDownload, TypeOK
<1>12. CASE GiveUp(d)
  <2>1. WithStatus(job[d].rec, IF job[d].pc = "failed" THEN "failed" ELSE "not_started") \in Record
    BY <1>0, CopyType DEF Status
  <2> QED
    BY <1>0, <1>12, <2>1, SaveOrWarnType DEF GiveUp, TypeOK
<1>13. CASE NoDirectory(d)
  <2>1. MoreAttempts(d) => job[d].tries + 1 \in Tries
    BY <1>0 DEF MoreAttempts, JobState, Tries
  <2>2. MoreAttempts(d) => [job[d] EXCEPT !.tries = @ + 1] \in JobState
    <3> DEFINE tries == job[d].tries + 1
    <3>1. MoreAttempts(d) => tries \in Tries
      BY <2>1
    <3> HIDE DEF tries
    <3>2. MoreAttempts(d) => [job[d] EXCEPT !.tries = tries] \in JobState
      BY <1>0, <3>1, AttemptType, PlaceType, Zenon DEF JobPlace
    <3> QED
      BY <3>2 DEF tries
  <2>3. job' \in [Job -> JobState]
    BY <1>0, <1>13, <2>2, BecomeType, GotoType DEF NoDirectory, JobPlace, Downloading
  <2> QED
    BY <1>13, <2>3 DEF NoDirectory, TypeOK
<1> QED
  BY <1>1, <1>2, <1>3, <1>4, <1>5, <1>6, <1>7, <1>8, <1>9, <1>10, <1>11, <1>12, <1>13 DEF DownloadStep

LEMMA CurrentType ==
  ASSUME TypeOK, NEW p \in Job, job[p].pos <= Len(StepSeq)
  PROVE  Current(p) \in Step
<1>1. job[p].pos \in 1 .. Len(StepSeq) /\ StepSeq \in Seq(Range(AllSteps))
  BY JobType, PipelineAssumption DEF JobState
<1> QED
  BY <1>1 DEF Current, Step, Range

-----------------------------------------------------------------------------
(* What a copy of the record can say.  A download holds one that is        *)
(* downloading, a parser one that is processing and that has every step    *)
(* before the parser's; nobody holds a completed one it may still save.    *)

DownloadPlace == {"idle", "create", "retry", "begin"} \cup Downloading
ProcessingPlace == {"idle", "claim", "check", "step", "commit", "steperror", "stuck"}

DownloadCopy(state) ==
  /\ state.pc \in DownloadPlace
  /\ state.pc \in {"retry", "begin"} => state.rec.status \in Downloadable
  /\ state.pc \in Downloading => state.rec.status = "downloading"

ProcessingCopy(state) ==
  /\ state.pc \in ProcessingPlace
  /\ state.pc \in {"claim", "check"} => state.pos = 1
  /\ state.pc = "claim" => state.rec.status = "ready_for_processing"
  /\ state.pc \in {"check", "step", "commit", "steperror"} => state.rec.status = "processing"
  /\ state.pc = "commit" => state.pos <= Len(StepSeq)
  /\ state.pc \in {"step", "commit"} => \A i \in 1 .. state.pos - 1 : StepSeq[i] \in state.rec.steps

AdminCopy ==
  admin.pc \in {"clean", "save"} => admin.rec.status \in {"ready_for_processing", "not_started"}

Copies ==
  /\ \A d \in Downloader : DownloadCopy(job[d])
  /\ \A p \in Parser : ProcessingCopy(job[p])
  /\ AdminCopy

LEMMA SourceType ==
  ASSUME NEW s \in Step, Collects(s)
  PROVE  Source(s) \in Range(AllFiles)
<1>1. s \in Range(AllSteps)
  BY PipelineAssumption DEF Step, Range
<1>2. Source(s) \in {"masters", "releases"}
  BY <1>1 DEF Source, StepFile, Collects
<1> QED
  BY <1>2, FileNames

LEMMA RunStepType ==
  ASSUME TypeOK, NEW p \in Job, RunStep(p)
  PROVE  /\ job' \in [Job -> JobState] /\ genres' \subseteq Range(AllFiles) /\ applied' \subseteq Step
         /\ budget' \in Nat /\ incident' \subseteq Incident
<1> DEFINE s == Current(p)
<1>1. s \in Step
  BY CurrentType DEF RunStep
<1>2. job[p] \in JobState
  BY JobType
<1>3. job' \in [Job -> JobState] /\ genres' \subseteq Range(AllFiles)
  <2>1. CASE Goto(p, "stuck") \/ Goto(p, "commit") \/ Goto(p, "steperror")
    <3>1. job' \in [Job -> JobState]
      BY <2>1, GotoType DEF JobPlace
    <3>2. genres' \subseteq Range(AllFiles)
      BY <1>2 DEF RunStep, UpsertGenres, TypeOK, JobState
    <3> QED
      BY <3>1, <3>2
  <2>2. ASSUME NEW got, Collects(s), CollectGenres(p, got), UNCHANGED genres
        PROVE  job' \in [Job -> JobState] /\ genres' \subseteq Range(AllFiles)
    <3> DEFINE found == IF got = "all" THEN {Source(s)} ELSE {}
               reset == s = "release_genres_collection"
               names == IF reset THEN found ELSE job[p].names \cup found
               ids == IF reset THEN {} ELSE job[p].ids
    <3>1. found \subseteq Range(AllFiles)
      BY <1>1, <2>2, SourceType
    <3>2. names \in SUBSET Range(AllFiles) /\ ids \in SUBSET Range(AllFiles)
      BY <1>2, <3>1 DEF JobState
    <3>3. job' = [job EXCEPT ![p] = [job[p] EXCEPT !.pc = "commit", !.names = names, !.ids = ids]]
      BY <2>2 DEF CollectGenres, Become
    <3> HIDE DEF names, ids
    <3>4. [job[p] EXCEPT !.pc = "commit", !.names = names, !.ids = ids] \in JobState
      BY <1>2, <3>2 DEF JobState, JobPlace
    <3> QED
      BY <2>2, <3>3, <3>4, BecomeType DEF Become, TypeOK
  <2>3. CASE /\ genres' = genres \cup job[p].names
             /\ Become(p, [job[p] EXCEPT !.pc = "commit", !.ids = genres'])
    <3>1. genres' \in SUBSET Range(AllFiles)
      BY <1>2, <2>3 DEF TypeOK, JobState
    <3>2. [job[p] EXCEPT !.pc = "commit", !.ids = genres'] \in JobState
      BY <1>2, <3>1 DEF JobState, JobPlace
    <3> QED
      BY <2>3, <3>1, <3>2, BecomeType
  <2> QED
    BY <2>1, <2>2, <2>3 DEF RunStep, UpsertGenres
<1>4. applied' \subseteq Step
  BY <1>1 DEF RunStep, TypeOK
<1>5. budget' \in Nat /\ incident' \subseteq Incident
  <2>1. \/ UNCHANGED <<budget, incident>>
        \/ Spend /\ (Report({"database"}) \/ Report({"batch"}))
    BY DEF RunStep
  <2>2. budget' \in Nat
    BY <2>1 DEF TypeOK, Spend
  <2>3. incident' \subseteq Incident
    BY <2>1 DEF TypeOK, Report, Incident
  <2> QED
    BY <2>2, <2>3
<1> QED
  BY <1>3, <1>4, <1>5

LEMMA ProcessingType ==
  ASSUME TypeOK, Copies, NEW p \in Parser, StartProcessing(p) \/ ProcessingStep(p)
  PROVE  TypeOK'
<1> USE IdleType, JobType, PlaceType
<1>0. p \in Job
  BY DEF Job
<1>1. CASE StartProcessing(p)
  <2>1. [Idle EXCEPT !.rec = Latest,
                     !.pc = IF Latest.status = "processing" THEN "check" ELSE "claim"] \in JobState
    BY LatestType DEF JobState, JobPlace
  <2>2. job' \in [Job -> JobState]
    BY <1>0, <1>1, <2>1, BecomeType DEF StartProcessing
  <2> QED
    BY <1>1, <2>2 DEF StartProcessing, TypeOK, Report, Overlap, Incident
<1>2. CASE Claim(p)
  <2>1. [job[p] EXCEPT !.pc = "check"] \in JobState
    BY <1>0 DEF JobPlace
  <2>2. WithStatus(job[p].rec, "processing") \in Record
    BY <1>0, CopyType DEF Status
  <2> QED
    BY <1>0, <1>2, <2>1, <2>2, SaveOrStopType DEF Claim, TypeOK
<1>3. CASE CheckFiles(p)
  <2>1. WithStatus(job[p].rec, "failed") \in Record
    BY <1>0, CopyType DEF Status
  <2> QED
    BY <1>0, <1>3, <2>1, SaveOrWarnType, GotoType DEF CheckFiles, TypeOK, JobPlace
<1>4. CASE SkipStep(p)
  <2>1. [job[p] EXCEPT !.pos = @ + 1] \in JobState
    BY <1>0 DEF JobState
  <2>2. job' \in [Job -> JobState]
    BY <1>0, <1>4, <2>1, BecomeType DEF SkipStep
  <2> QED
    BY <1>4, <2>2 DEF SkipStep, TypeOK
<1>5. CASE RunStep(p)
  BY <1>0, <1>5, RunStepType DEF RunStep, TypeOK
<1>6. CASE CommitStep(p)
  <2>1. Current(p) \in Step
    BY <1>0, <1>6, CurrentType DEF CommitStep, Copies, ProcessingCopy
  <2>2. [job[p].rec EXCEPT !.steps = @ \cup {Current(p)}] \in Record
    BY <1>0, <2>1 DEF Record
  <2>3. [job[p] EXCEPT !.pc = "step", !.pos = @ + 1] \in JobState
    BY <1>0 DEF JobPlace
  <2> QED
    BY <1>0, <1>6, <2>2, <2>3, SaveOrStopType DEF CommitStep, TypeOK
<1>7. CASE StepError(p)
  BY <1>0, <1>7, SaveOrWarnType DEF StepError, TypeOK
<1>8. CASE Complete(p)
  <2>1. WithStatus(job[p].rec, "completed") \in Record
    BY <1>0, CopyType DEF Status
  <2> QED
    BY <1>0, <1>8, <2>1, SaveType, BecomeType DEF Complete, TypeOK
<1> QED
  BY <1>1, <1>2, <1>3, <1>4, <1>5, <1>6, <1>7, <1>8 DEF ProcessingStep

LEMMA AdminType ==
  ASSUME TypeOK, RequestDownload \/ RequestReprocess \/ RequestReset \/ AdminStep \/ CleanupFiles \/ Crash
  PROVE  TypeOK'
<1> USE IdleType
<1>1. CASE RequestDownload
  BY <1>1 DEF RequestDownload, TypeOK, Spend, Report, Concurrent, Incident
<1>2. CASE RequestReprocess
  <2>1. [Latest EXCEPT !.status = "ready_for_processing", !.steps = {}] \in Record
    BY CopyType, LatestType DEF Status
  <2>2. incident' \subseteq Incident
    BY <1>2 DEF RequestReprocess, TypeOK, Report, Concurrent, Undownloaded, Incident
  <2> QED
    BY <1>2, <2>1, <2>2 DEF RequestReprocess, TypeOK, Spend
<1>3. CASE RequestReset
  <2>1. [row EXCEPT !.status = "not_started", !.steps = {}] \in Record
    BY CopyType DEF TypeOK, Status
  <2> QED
    BY <1>3, <2>1 DEF RequestReset, TypeOK, Spend, Report, Concurrent, Incident
<1>4. CASE DeleteRecord
  <2>1. incident' \subseteq Incident
    BY <1>4 DEF DeleteRecord, TypeOK, Report, Incident
  <2>2. row' \in Record /\ budget' \in Nat
    BY <1>4 DEF DeleteRecord, TypeOK, Spend
  <2>3. admin' \in [pc : {"idle", "delete", "create", "clean", "save"}, rec : Record]
    BY <1>4 DEF DeleteRecord, AdminIdle
  <2> QED
    BY <1>4, <2>1, <2>2, <2>3 DEF DeleteRecord, TypeOK
<1>5. CASE RecreateRecord
  BY <1>5, InsertType DEF RecreateRecord, TypeOK, AdminIdle
<1>6. ASSUME RemoveFiles
      PROVE  /\ file' \in [File -> {"absent", "partial", "good", "bad"}]
             /\ job' \in [Job -> JobState] /\ incident' \subseteq Incident
  <2>1. \A j \in Job : [job[j] EXCEPT !.linked = FALSE] \in JobState
    BY JobType DEF JobState
  <2> QED
    BY <1>6, <2>1 DEF RemoveFiles, Report, TypeOK, Incident
<1>11. ASSUME NEW gone \in SUBSET File, RemoveSomeFiles(gone)
       PROVE  /\ file' \in [File -> {"absent", "partial", "good", "bad"}]
              /\ job' \in [Job -> JobState] /\ incident' \subseteq Incident
  <2> DEFINE still(j) == job[j].linked /\ ~(job[j].pc = "write" /\ FileSeq[job[j].pos] \in gone)
  <2>1. \A j \in Job : still(j) \in BOOLEAN
    BY DEF TypeOK, JobState
  <2>2. job' = [j \in Job |-> [job[j] EXCEPT !.linked = still(j)]]
    BY <1>11 DEF RemoveSomeFiles
  <2> HIDE DEF still
  <2>3. \A j \in Job : [job[j] EXCEPT !.linked = still(j)] \in JobState
    BY <2>1, JobType DEF JobState
  <2>4. job' \in [Job -> JobState]
    BY <2>2, <2>3
  <2> QED
    BY <1>11, <2>4 DEF RemoveSomeFiles, Report, TypeOK, Incident
<1>7. CASE ResetFiles
  <2>1. \/ RemoveFiles /\ admin' = [admin EXCEPT !.pc = "save"] /\ UNCHANGED budget
        \/ \E gone \in SUBSET File : RemoveSomeFiles(gone) /\ Spend /\ admin' = AdminIdle
    BY <1>7 DEF ResetFiles
  <2>2. /\ file' \in [File -> {"absent", "partial", "good", "bad"}]
        /\ job' \in [Job -> JobState] /\ incident' \subseteq Incident
    BY <1>6, <1>11, <2>1
  <2>3. /\ admin' \in [pc : {"idle", "delete", "create", "clean", "save"}, rec : Record]
        /\ budget' \in Nat
    BY <2>1 DEF TypeOK, AdminIdle, Spend
  <2> QED
    BY <1>7, <2>2, <2>3 DEF ResetFiles, TypeOK
<1>8. CASE SaveRequested
  <2>1. admin.rec \in Record
    BY DEF TypeOK
  <2> QED
    BY <1>8, <2>1, SaveType DEF SaveRequested, TypeOK, AdminIdle
<1>9. CASE CleanupFiles
  <2>1. /\ file' \in [File -> {"absent", "partial", "good", "bad"}]
        /\ job' \in [Job -> JobState] /\ incident' \subseteq Incident
    BY <1>6, <1>9, <1>11 DEF CleanupFiles
  <2> QED
    BY <1>9, <2>1 DEF CleanupFiles, TypeOK, Spend
<1>10. CASE Crash
  BY <1>10 DEF Crash, TypeOK, Spend, Report, AdminIdle, Incident
<1> QED
  BY <1>1, <1>2, <1>3, <1>4, <1>5, <1>7, <1>8, <1>9, <1>10 DEF AdminStep

-----------------------------------------------------------------------------
(* The record *)

\* Ids count up from last month's.
Ids ==
  /\ nextId > PreviousId /\ row.id # PreviousId
  /\ previous = NoRow \/ previous.id = PreviousId

RecordInv == TypeOK /\ Ids /\ Copies /\ CompletedHasAllSteps /\ DownloadingIsOwned

LEMMA DownloadCopies ==
  ASSUME TypeOK, Copies, NEW d \in Downloader, NEW state, DownloadCopy(state),
         Become(d, state), UNCHANGED admin
  PROVE  Copies'
BY PipelineAssumption DEF TypeOK, Job, Copies, AdminCopy, DownloadCopy, ProcessingCopy, Become

LEMMA ProcessingCopies ==
  ASSUME TypeOK, Copies, NEW p \in Parser, NEW state, ProcessingCopy(state),
         Become(p, state), UNCHANGED admin
  PROVE  Copies'
BY PipelineAssumption DEF TypeOK, Job, Copies, AdminCopy, DownloadCopy, ProcessingCopy, Become

LEMMA IdleCopy == DownloadCopy(Idle) /\ ProcessingCopy(Idle)
BY DEF DownloadCopy, ProcessingCopy, Idle, DownloadPlace, ProcessingPlace, Downloading

\* A save keeps what is said of a completed record if the copy says it too.
LEMMA CompletedSaved ==
  ASSUME CompletedHasAllSteps, NEW r, Stores(r) \/ Refuses(r),
         r.status = "completed" => Step \subseteq r.steps
  PROVE  CompletedHasAllSteps'
BY DEF CompletedHasAllSteps, Stores, Refuses

\* The row and its owner stay.
LEMMA OwnerStays ==
  ASSUME TypeOK, DownloadingIsOwned, row' = row, incident \subseteq incident',
         NEW j \in Job, NEW state, Become(j, state),
         j \in Downloader /\ job[j].pc \in Downloading =>
           state.pc \in Downloading /\ state.rec.id = job[j].rec.id
  PROVE  DownloadingIsOwned'
BY DEF DownloadingIsOwned, TypeOK, Become, Job

\* An owner whose save is refused: the row is another's, or the save was lost.
LEMMA OwnerRefused ==
  ASSUME TypeOK, DownloadingIsOwned, NEW j \in Job, NEW r, Refuses(r),
         NEW state, Become(j, state), r.id = job[j].rec.id
  PROVE  DownloadingIsOwned'
<1>1. CASE r.id # PreviousId /\ row.id \notin {0, r.id} /\ UNCHANGED <<budget, incident>>
  BY <1>1 DEF Refuses, DownloadingIsOwned, TypeOK, Become, Job
<1>2. CASE incident' = incident \cup {"database"}
  BY <1>2 DEF DownloadingIsOwned
<1> QED
  BY <1>1, <1>2 DEF Refuses, Report

\* A copy with another status is stored: the row is not downloading then, or the copy was
\* last month's and its holder no owner.
LEMMA OtherStatusStored ==
  ASSUME TypeOK, Ids, DownloadingIsOwned, NEW j \in Job, NEW r, Stores(r),
         NEW state, Become(j, state), r.id = job[j].rec.id, r.status # "downloading"
  PROVE  DownloadingIsOwned'
<1>1. CASE row' = r
  BY <1>1 DEF DownloadingIsOwned
<1>2. CASE r.id = PreviousId /\ row' = row /\ UNCHANGED incident
  BY <1>2 DEF DownloadingIsOwned, TypeOK, Ids, Become, Job
<1> QED
  BY <1>1, <1>2 DEF Stores

\* A download stores its copy and goes on downloading.
LEMMA OwnerStores ==
  ASSUME TypeOK, Ids, DownloadingIsOwned, NEW d \in Downloader, NEW r, Stores(r),
         NEW state, Become(d, state), r.id = job[d].rec.id,
         state.pc \in Downloading, state.rec.id = r.id
  PROVE  DownloadingIsOwned'
<1>1. CASE row' = r
  BY <1>1 DEF DownloadingIsOwned, TypeOK, Become, Job
<1>2. CASE r.id = PreviousId /\ row' = row /\ UNCHANGED incident
  BY <1>2 DEF DownloadingIsOwned, TypeOK, Ids, Become, Job
<1> QED
  BY <1>1, <1>2 DEF Stores

LEMMA DownloadKeepsRecord ==
  ASSUME RecordInv, NEW d \in Downloader, StartDownload(d) \/ DownloadStep(d) \/ AttemptFails(d)
  PROVE  Copies' /\ CompletedHasAllSteps' /\ DownloadingIsOwned'
<1> USE DEF RecordInv
<1>0. d \in Job /\ job[d] \in JobState /\ DownloadCopy(job[d])
  BY JobType DEF Job, Copies
<1> DEFINE r == job[d].rec
<1>i. DownloadCopy(Idle) /\ Idle.pc = "idle"
  BY IdleCopy DEF Idle
\* An execution that is not downloading and that leaves the row alone or ends.
<1>1. CASE StartDownload(d)
  <2> DEFINE fresh == [job[d] EXCEPT !.pc = "create"]
             copy == [Idle EXCEPT !.rec = row, !.pc = IF row.status = "failed" THEN "retry" ELSE "begin"]
  <2>0. DownloadCopy(fresh)
    BY <1>0 DEF DownloadCopy, DownloadPlace, Downloading, JobState
  <2>2. row.status \in Downloadable => DownloadCopy(copy)
    BY DEF DownloadCopy, DownloadPlace, Downloading, Idle, Downloadable
  <2>3. Become(d, fresh) \/ (row.status \in Downloadable /\ Become(d, copy))
    BY <1>1 DEF StartDownload, Goto
  <2> HIDE DEF fresh, copy
  <2>1. PICK state : Become(d, state) /\ DownloadCopy(state)
    BY <2>0, <2>2, <2>3
  <2> QED
    BY <1>0, <1>1, <2>1, DownloadCopies, OwnerStays
    DEF StartDownload, Busy, Downloading, Report, CompletedHasAllSteps
<1>2. CASE CreateRecord(d)
  <2>1. CASE Inserts /\ Become(d, [Idle EXCEPT !.rec = row', !.pc = "begin"])
    <3>1. DownloadCopy([Idle EXCEPT !.rec = row', !.pc = "begin"])
      BY <2>1 DEF Inserts, DownloadCopy, DownloadPlace, Downloading, Downloadable, Idle
    <3> QED
      BY <1>2, <2>1, <3>1, DownloadCopies
      DEF CreateRecord, Inserts, CompletedHasAllSteps, DownloadingIsOwned
  <2>2. CASE RefusesInsert /\ Become(d, Idle)
    <3>1. row' = row /\ incident \subseteq incident'
      BY <2>2 DEF RefusesInsert, Report
    <3> QED
      BY <1>0, <1>2, <1>i, <2>2, <3>1, DownloadCopies, OwnerStays
      DEF CreateRecord, Downloading, CompletedHasAllSteps
  <2> QED
    BY <1>2, <2>1, <2>2 DEF CreateRecord
<1>3. CASE RetryRecord(d)
  <2>1. /\ r.status \in Downloadable /\ job[d].pc = "retry"
        /\ r.status # "downloading" /\ r.status # "completed"
    BY <1>0, <1>3 DEF RetryRecord, DownloadCopy, Downloadable
  <2>2. DownloadCopy([[job[d] EXCEPT !.pc = "begin"] EXCEPT !.rec = r])
    BY <1>0, <2>1 DEF DownloadCopy, DownloadPlace, Downloading, JobState
  <2> QED
    BY <1>0, <1>3, <1>i, <2>1, <2>2, DownloadCopies, CompletedSaved, OtherStatusStored, OwnerRefused
    DEF RetryRecord, SaveOrStop
<1>4. CASE BeginDownload(d)
  <2> DEFINE q == WithStatus(r, "downloading")
             state == [[job[d] EXCEPT !.pc = "checksum", !.linked = TRUE] EXCEPT !.rec = q]
  <2>1. q.status = "downloading" /\ q.id = r.id /\ q.status # "completed"
    BY <1>0 DEF WithStatus, JobState, Record
  <2>2. state.pc = "checksum" /\ state.rec = q
    BY <1>0 DEF JobState
  <2>3. SaveOrStop(d, q, [job[d] EXCEPT !.pc = "checksum", !.linked = TRUE]) /\ UNCHANGED admin
    BY <1>4 DEF BeginDownload
  <2> HIDE DEF q
  <2>4. \/ Stores(q) /\ Become(d, state)
        \/ Refuses(q) /\ Become(d, Idle)
    BY <2>3 DEF SaveOrStop
  <2> HIDE DEF state
  <2>5. DownloadCopy(state) /\ state.pc \in Downloading
    BY <2>1, <2>2 DEF DownloadCopy, DownloadPlace, Downloading
  <2> QED
    BY <1>0, <1>i, <2>1, <2>2, <2>3, <2>4, <2>5, DownloadCopies, CompletedSaved, OwnerStores, OwnerRefused
\* A download that goes on downloading.
<1>5. ASSUME NEW state, Become(d, state), UNCHANGED admin, job[d].pc \in Downloading,
             state.rec = r, state.pc \in Downloading,
             Stores(r) \/ Refuses(r) \/ (row' = row /\ incident \subseteq incident')
      PROVE  Copies' /\ CompletedHasAllSteps' /\ DownloadingIsOwned'
  <2>1. r.status = "downloading"
    BY <1>0, <1>5 DEF DownloadCopy
  <2>2. DownloadCopy(state)
    BY <1>5, <2>1 DEF DownloadCopy, DownloadPlace, Downloading
  <2>3. CompletedHasAllSteps'
    BY <1>5, <2>1, CompletedSaved DEF CompletedHasAllSteps
  <2> QED
    BY <1>0, <1>5, <2>2, <2>3, DownloadCopies, OwnerStores, OwnerRefused, OwnerStays
\* A download that ends, and saves another status or fails to.
<1>6. ASSUME NEW q, Become(d, Idle), UNCHANGED admin, q.id = r.id,
             q.status \notin {"downloading", "completed"}, Stores(q) \/ Refuses(q)
      PROVE  Copies' /\ CompletedHasAllSteps' /\ DownloadingIsOwned'
  BY <1>0, <1>6, <1>i, DownloadCopies, CompletedSaved, OtherStatusStored, OwnerRefused
<1>7. CASE Checksum(d)
  <2>1. /\ [job[d] EXCEPT !.pc = "file", !.tries = 0].rec = r
        /\ [job[d] EXCEPT !.pc = "file", !.tries = 0].pc = "file"
        /\ [job[d] EXCEPT !.pc = "failed"].rec = r /\ [job[d] EXCEPT !.pc = "failed"].pc = "failed"
    BY <1>0 DEF JobState
  <2> QED
    BY <1>5, <1>7, <2>1 DEF Checksum, Goto, Downloading
<1>8. CASE AttemptFails(d)
  <2> DEFINE again == [job[d] EXCEPT !.tries = @ + 1, !.pc = IF @ = "write" THEN "open" ELSE @]
  <2>1. /\ job[d].pc \in {"checksum", "open", "write"} /\ row' = row /\ incident' = incident
        /\ UNCHANGED admin
        /\ Become(d, again) \/ Goto(d, "failed") \/ Goto(d, "unavailable")
    BY <1>8 DEF AttemptFails
  <2>2. again.rec = r /\ (job[d].pc \in {"checksum", "open", "write"} => again.pc \in Downloading)
    BY <1>0 DEF JobState, Downloading
  <2>3. \A pc \in {"failed", "unavailable"} :
          [job[d] EXCEPT !.pc = pc].rec = r /\ [job[d] EXCEPT !.pc = pc].pc \in Downloading
    BY <1>0 DEF JobState, Downloading
  <2> HIDE DEF again
  <2> QED
    BY <1>5, <2>1, <2>2, <2>3 DEF Goto, Downloading
<1>9. CASE BeginFile(d)
  <2>1. /\ [job[d] EXCEPT !.pc = "open", !.tries = 0, !.linked = TRUE].rec = r
        /\ [job[d] EXCEPT !.pc = "open", !.tries = 0, !.linked = TRUE].pc = "open"
    BY <1>0 DEF JobState
  <2> QED
    BY <1>5, <1>9, <2>1 DEF BeginFile, SaveOrWarn, Downloading
<1>10. CASE OpenFile(d)
  <2>1. /\ [job[d] EXCEPT !.pc = "write", !.linked = TRUE].rec = r
        /\ [job[d] EXCEPT !.pc = "write", !.linked = TRUE].pc = "write"
    BY <1>0 DEF JobState
  <2> QED
    BY <1>5, <1>10, <2>1 DEF OpenFile, Downloading
<1>11. CASE FileWritten(d)
  <2>1. /\ [job[d] EXCEPT !.pc = "info", !.linked = FALSE].rec = r
        /\ [job[d] EXCEPT !.pc = "info", !.linked = FALSE].pc = "info"
    BY <1>0 DEF JobState
  <2>2. row' = row /\ incident \subseteq incident' /\ UNCHANGED admin
        /\ Become(d, [job[d] EXCEPT !.pc = "info", !.linked = FALSE]) /\ job[d].pc = "write"
    BY <1>11 DEF FileWritten, Report
  <2> QED
    BY <1>5, <2>1, <2>2 DEF Downloading
<1>12. CASE SaveFileInfo(d)
  <2> DEFINE nextFile == [job[d] EXCEPT !.pc = "file", !.pos = @ + 1]
             end == [job[d] EXCEPT !.pc = "ready"]
  <2>2. nextFile.rec = r /\ nextFile.pc \in Downloading /\ end.rec = r /\ end.pc \in Downloading
    BY <1>0 DEF JobState, Downloading
  <2>3. SaveOrWarn(d, r, nextFile) \/ SaveOrWarn(d, r, end)
    BY <1>12 DEF SaveFileInfo
  <2> HIDE DEF nextFile, end
  <2>1. PICK state : SaveOrWarn(d, r, state) /\ state.rec = r /\ state.pc \in Downloading
    BY <2>2, <2>3
  <2> QED
    BY <1>5, <1>12, <2>1 DEF SaveFileInfo, SaveOrWarn, Downloading
<1>13. CASE FinishDownload(d)
  <2> DEFINE q == WithStatus(r, "ready_for_processing")
  <2>1. q.status = "ready_for_processing" /\ q.id = r.id
    BY <1>0 DEF WithStatus, JobState, Record
  <2>2. /\ [job[d] EXCEPT !.pc = "failed"].rec = r /\ [job[d] EXCEPT !.pc = "failed"].pc = "failed"
    BY <1>0 DEF JobState
  <2>3. Refuses(q) => row' = row /\ incident \subseteq incident'
    BY DEF Refuses, Report
  <2>4. /\ \/ Stores(q) /\ Become(d, Idle)
           \/ Refuses(q) /\ Goto(d, "failed")
        /\ UNCHANGED admin /\ job[d].pc = "ready"
    BY <1>13 DEF FinishDownload
  <2> HIDE DEF q
  <2> QED
    BY <1>5, <1>6, <2>1, <2>2, <2>3, <2>4 DEF Goto, Downloading
<1>14. CASE GiveUp(d)
  <2> DEFINE q == WithStatus(r, IF job[d].pc = "failed" THEN "failed" ELSE "not_started")
  <2>1. q.status \in {"failed", "not_started"} /\ q.id = r.id
    BY <1>0 DEF WithStatus, JobState, Record
  <2>2. SaveOrWarn(d, q, Idle) /\ UNCHANGED admin
    BY <1>14 DEF GiveUp
  <2> HIDE DEF q
  <2> QED
    BY <1>6, <2>1, <2>2 DEF SaveOrWarn
<1>15. CASE NoDirectory(d)
  <2> DEFINE again == [job[d] EXCEPT !.tries = @ + 1]
             failed == [job[d] EXCEPT !.pc = "failed"]
  <2>1. again.rec = r /\ again.pc = job[d].pc /\ failed.rec = r /\ failed.pc = "failed"
    BY <1>0 DEF JobState
  <2>2. /\ job[d].pc \in {"checksum", "open"} /\ row' = row /\ incident' = incident
        /\ UNCHANGED admin /\ (Become(d, again) \/ Become(d, failed))
    BY <1>15 DEF NoDirectory, Goto
  <2> HIDE DEF again, failed
  <2> QED
    BY <1>5, <2>1, <2>2 DEF Downloading
<1> QED
  BY <1>1, <1>2, <1>3, <1>4, <1>7, <1>8, <1>9, <1>10, <1>11, <1>12, <1>13, <1>14, <1>15 DEF DownloadStep

\* A parser that has no step left has completed all of them.
LEMMA AllStepsDone ==
  ASSUME NEW steps, NEW pos \in Nat \ {0}, pos > Len(StepSeq),
         \A i \in 1 .. pos - 1 : StepSeq[i] \in steps
  PROVE  Step \subseteq steps
<1>1. ASSUME NEW s \in Step
      PROVE  s \in steps
  <2>1. PICK i \in 1 .. Len(StepSeq) : s = StepSeq[i]
    BY PipelineAssumption DEF Step, Range
  <2>2. i \in 1 .. pos - 1
    BY PipelineAssumption
  <2> QED
    BY <2>1, <2>2
<1> QED
  BY <1>1

\* Running a step leaves the copy and the position.
LEMMA RunStepPlace ==
  ASSUME TypeOK, NEW p \in Job, RunStep(p)
  PROVE  \E state : /\ Become(p, state) /\ state.rec = job[p].rec /\ state.pos = job[p].pos
                    /\ state.pc \in {"stuck", "commit", "steperror"}
<1>1. \A pc \in {"stuck", "commit", "steperror"} :
        LET s == [job[p] EXCEPT !.pc = pc]
        IN  s.rec = job[p].rec /\ s.pos = job[p].pos /\ s.pc = pc
  BY JobType DEF JobState
<1>2. \A names, ids :
        LET s == [job[p] EXCEPT !.pc = "commit", !.names = names, !.ids = ids]
        IN  s.rec = job[p].rec /\ s.pos = job[p].pos /\ s.pc = "commit"
  BY JobType DEF JobState
<1>3. \A ids :
        LET s == [job[p] EXCEPT !.pc = "commit", !.ids = ids]
        IN  s.rec = job[p].rec /\ s.pos = job[p].pos /\ s.pc = "commit"
  BY JobType DEF JobState
<1>4. CASE Goto(p, "stuck") \/ Goto(p, "commit") \/ Goto(p, "steperror")
  BY <1>1, <1>4 DEF Goto
<1>5. CASE \E got : CollectGenres(p, got)
  <2>1. PICK names, ids : Become(p, [job[p] EXCEPT !.pc = "commit", !.names = names, !.ids = ids])
    BY <1>5 DEF CollectGenres
  <2> DEFINE state == [job[p] EXCEPT !.pc = "commit", !.names = names, !.ids = ids]
  <2>2. state.rec = job[p].rec /\ state.pos = job[p].pos /\ state.pc = "commit"
    BY <1>2
  <2> HIDE DEF state
  <2> QED
    BY <2>1, <2>2 DEF state
<1>6. CASE Become(p, [job[p] EXCEPT !.pc = "commit", !.ids = genres'])
  BY <1>3, <1>6
<1> QED
  BY <1>4, <1>5, <1>6 DEF RunStep, UpsertGenres

LEMMA ProcessingKeepsRecord ==
  ASSUME RecordInv, NEW p \in Parser, StartProcessing(p) \/ ProcessingStep(p)
  PROVE  Copies' /\ CompletedHasAllSteps' /\ DownloadingIsOwned'
<1> USE DEF RecordInv
<1>0. p \in Job /\ p \notin Downloader /\ job[p] \in JobState /\ ProcessingCopy(job[p])
  BY JobType, PipelineAssumption DEF Job, Copies
<1> DEFINE r == job[p].rec
<1>i. ProcessingCopy(Idle)
  BY IdleCopy
\* The row stays.
<1>1. ASSUME NEW state, Become(p, state), ProcessingCopy(state), UNCHANGED admin,
             row' = row, incident \subseteq incident'
      PROVE  Copies' /\ CompletedHasAllSteps' /\ DownloadingIsOwned'
  BY <1>0, <1>1, ProcessingCopies, OwnerStays DEF CompletedHasAllSteps
\* A copy is saved, or its save refused.
<1>2. ASSUME NEW q, NEW state, Become(p, state), ProcessingCopy(state), UNCHANGED admin,
             q.id = r.id, q.status # "downloading", q.status = "completed" => Step \subseteq q.steps,
             Stores(q) \/ Refuses(q)
      PROVE  Copies' /\ CompletedHasAllSteps' /\ DownloadingIsOwned'
  <2>1. CASE Refuses(q)
    <3>1. row' = row /\ incident \subseteq incident'
      BY <2>1 DEF Refuses, Report
    <3> QED
      BY <1>1, <1>2, <3>1
  <2>2. CASE Stores(q)
    BY <1>0, <1>2, <2>2, ProcessingCopies, CompletedSaved, OtherStatusStored
  <2> QED
    BY <1>2, <2>1, <2>2
<1>3. CASE StartProcessing(p)
  <2> DEFINE copy == [Idle EXCEPT !.rec = Latest,
                                  !.pc = IF Latest.status = "processing" THEN "check" ELSE "claim"]
  <2>1. ProcessingCopy(copy)
    BY <1>3 DEF StartProcessing, Processable, ProcessingCopy, ProcessingPlace, Idle
  <2>2. Become(p, copy) /\ UNCHANGED admin /\ row' = row /\ incident \subseteq incident'
    BY <1>3 DEF StartProcessing, Report
  <2> HIDE DEF copy
  <2> QED
    BY <1>1, <2>1, <2>2
<1>4. CASE Claim(p)
  <2> DEFINE q == WithStatus(r, "processing")
             state == [[job[p] EXCEPT !.pc = "check"] EXCEPT !.rec = q]
  <2>1. q.status = "processing" /\ q.id = r.id
    BY <1>0 DEF WithStatus, JobState, Record
  <2>2. SaveOrStop(p, q, [job[p] EXCEPT !.pc = "check"]) /\ UNCHANGED admin /\ job[p].pc = "claim"
    BY <1>4 DEF Claim
  <2> HIDE DEF q
  <2>3. ProcessingCopy(state)
    BY <1>0, <2>1, <2>2 DEF ProcessingCopy, ProcessingPlace, JobState
  <2>4. \/ Stores(q) /\ Become(p, state)
        \/ Refuses(q) /\ Become(p, Idle)
    BY <2>2 DEF SaveOrStop
  <2> HIDE DEF state
  <2> QED
    BY <1>2, <1>i, <2>1, <2>2, <2>3, <2>4
<1>5. CASE CheckFiles(p)
  <2>1. CASE Goto(p, "step") /\ UNCHANGED <<row, budget, incident>>
    <3>1. ProcessingCopy([job[p] EXCEPT !.pc = "step"])
      BY <1>0, <1>5 DEF CheckFiles, ProcessingCopy, ProcessingPlace, JobState
    <3> QED
      BY <1>1, <1>5, <2>1, <3>1 DEF CheckFiles, Goto
  <2>2. CASE SaveOrWarn(p, WithStatus(r, "failed"), Idle)
    <3>1. WithStatus(r, "failed").status = "failed" /\ WithStatus(r, "failed").id = r.id
      BY <1>0 DEF WithStatus, JobState, Record
    <3> QED
      BY <1>2, <1>5, <1>i, <2>2, <3>1 DEF CheckFiles, SaveOrWarn
  <2> QED
    BY <1>5, <2>1, <2>2 DEF CheckFiles
<1>6. CASE SkipStep(p)
  <2> DEFINE state == [job[p] EXCEPT !.pos = @ + 1]
  <2>1. /\ state.pc = "step" /\ state.rec = r /\ state.pos = job[p].pos + 1 /\ r.status = "processing"
        /\ job[p].pos \in Nat \ {0} /\ StepSeq[job[p].pos] \in r.steps
        /\ \A i \in 1 .. job[p].pos - 1 : StepSeq[i] \in r.steps
    BY <1>0, <1>6 DEF SkipStep, Current, ProcessingCopy, JobState
  <2>2. Become(p, state) /\ UNCHANGED <<admin, row, incident>>
    BY <1>6 DEF SkipStep
  <2> HIDE DEF state
  <2>3. ProcessingCopy(state)
    <3>1. \A i \in 1 .. state.pos - 1 : StepSeq[i] \in state.rec.steps
      <4>1. \A i \in 1 .. state.pos - 1 : i \in 1 .. job[p].pos - 1 \/ i = job[p].pos
        BY <2>1
      <4> QED
        BY <2>1, <4>1
    <3> QED
      BY <2>1, <3>1 DEF ProcessingCopy, ProcessingPlace
  <2> QED
    BY <1>1, <2>2, <2>3
<1>7. CASE RunStep(p)
  <2>1. PICK state : /\ Become(p, state) /\ state.rec = r /\ state.pos = job[p].pos
                     /\ state.pc \in {"stuck", "commit", "steperror"}
    BY <1>0, <1>7, RunStepPlace
  <2>2. /\ row' = row /\ UNCHANGED admin /\ incident \subseteq incident'
        /\ job[p].pc = "step" /\ job[p].pos <= Len(StepSeq)
    BY <1>7 DEF RunStep, Report
  <2>3. ProcessingCopy(state)
    BY <1>0, <2>1, <2>2 DEF ProcessingCopy, ProcessingPlace
  <2> QED
    BY <1>1, <2>1, <2>2, <2>3
<1>8. CASE CommitStep(p)
  <2> DEFINE q == [r EXCEPT !.steps = @ \cup {Current(p)}]
             state == [[job[p] EXCEPT !.pc = "step", !.pos = @ + 1] EXCEPT !.rec = q]
  <2>1. q.status = "processing" /\ q.id = r.id /\ q.steps = r.steps \cup {StepSeq[job[p].pos]}
    BY <1>0, <1>8 DEF CommitStep, ProcessingCopy, JobState, Record, Current
  <2>2. /\ SaveOrStop(p, q, [job[p] EXCEPT !.pc = "step", !.pos = @ + 1])
        /\ UNCHANGED admin /\ job[p].pc = "commit"
    BY <1>8 DEF CommitStep
  <2> HIDE DEF q
  <2>3. state.pc = "step" /\ state.pos = job[p].pos + 1 /\ state.rec = q /\ job[p].pos \in Nat \ {0}
    BY <1>0 DEF JobState
  <2>4. \/ Stores(q) /\ Become(p, state)
        \/ Refuses(q) /\ Become(p, Idle)
    BY <2>2 DEF SaveOrStop
  <2> HIDE DEF state
  <2>5. ProcessingCopy(state)
    <3>1. \A i \in 1 .. state.pos - 1 : i \in 1 .. job[p].pos - 1 \/ i = job[p].pos
      BY <2>3
    <3>2. \A i \in 1 .. job[p].pos - 1 : StepSeq[i] \in r.steps
      BY <1>0, <2>2 DEF ProcessingCopy
    <3>3. \A i \in 1 .. state.pos - 1 : StepSeq[i] \in state.rec.steps
      BY <2>1, <2>3, <3>1, <3>2
    <3> QED
      BY <2>1, <2>3, <3>3 DEF ProcessingCopy, ProcessingPlace
  <2> QED
    BY <1>2, <1>i, <2>1, <2>2, <2>4, <2>5
<1>9. CASE StepError(p)
  <2>1. r.status = "processing"
    BY <1>0, <1>9 DEF StepError, ProcessingCopy
  <2> QED
    BY <1>2, <1>9, <1>i, <2>1 DEF StepError, SaveOrWarn
<1>10. CASE Complete(p)
  <2> DEFINE q == WithStatus(r, "completed")
  <2>1. q.status = "completed" /\ q.id = r.id /\ q.steps = r.steps
    BY <1>0 DEF WithStatus, JobState, Record
  <2>2. Step \subseteq r.steps
    BY <1>0, <1>10, AllStepsDone DEF Complete, ProcessingCopy, JobState
  <2>3. (Stores(q) \/ Refuses(q)) /\ Become(p, Idle) /\ UNCHANGED admin
    BY <1>10 DEF Complete
  <2> HIDE DEF q
  <2> QED
    BY <1>2, <1>i, <2>1, <2>2, <2>3
<1> QED
  BY <1>3, <1>4, <1>5, <1>6, <1>7, <1>8, <1>9, <1>10 DEF ProcessingStep

\* A removal of files leaves every job where it is, with its copy.
LEMMA RemovalPlace ==
  ASSUME TypeOK, RemoveFiles \/ \E gone \in SUBSET File : RemoveSomeFiles(gone)
  PROVE  \A j \in Job : /\ job'[j].pc = job[j].pc /\ job'[j].rec = job[j].rec
                        /\ job'[j].pos = job[j].pos /\ job'[j].names = job[j].names
                        /\ job'[j].ids = job[j].ids /\ job'[j].tries = job[j].tries
<1>1. CASE RemoveFiles
  BY <1>1, JobType DEF RemoveFiles, JobState
<1>2. ASSUME NEW gone \in SUBSET File, RemoveSomeFiles(gone)
      PROVE  \A j \in Job : \E still : job'[j] = [job[j] EXCEPT !.linked = still]
  BY <1>2 DEF RemoveSomeFiles
<1>3. \A j \in Job : \A still :
        LET s == [job[j] EXCEPT !.linked = still]
        IN  /\ s.pc = job[j].pc /\ s.rec = job[j].rec /\ s.pos = job[j].pos
            /\ s.names = job[j].names /\ s.ids = job[j].ids /\ s.tries = job[j].tries
  BY JobType DEF JobState
<1>4. ASSUME NEW gone \in SUBSET File, RemoveSomeFiles(gone), NEW j \in Job
      PROVE  /\ job'[j].pc = job[j].pc /\ job'[j].rec = job[j].rec
             /\ job'[j].pos = job[j].pos /\ job'[j].names = job[j].names
             /\ job'[j].ids = job[j].ids /\ job'[j].tries = job[j].tries
  <2>1. PICK still : job'[j] = [job[j] EXCEPT !.linked = still]
    BY <1>2, <1>4
  <2> QED
    BY <1>3, <2>1
<1> QED
  BY <1>1, <1>4

\* No step brings last month's id into the month.
LEMMA IdsKept ==
  ASSUME TypeOK, Ids, [Next]_vars
  PROVE  Ids'
<1>1. ASSUME \/ row' \in {row, NoRow} /\ previous' = previous
             \/ \E r : Stores(r) \/ Refuses(r),
             nextId' = nextId
      PROVE  Ids'
  BY <1>1 DEF Ids, NoRow, PreviousId, Stores, Refuses
<1>2. ASSUME Inserts \/ RefusesInsert
      PROVE  Ids'
  BY <1>2 DEF Ids, TypeOK, PreviousId, Inserts, RefusesInsert
<1>3. CASE UNCHANGED vars
  BY <1>1, <1>3 DEF vars
<1>4. ASSUME NEW d \in Downloader, StartDownload(d) \/ DownloadStep(d) \/ AttemptFails(d)
      PROVE  Ids'
  BY <1>1, <1>2, <1>4 DEF StartDownload, DownloadStep, AttemptFails, CreateRecord, RetryRecord,
     BeginDownload, Checksum, NoDirectory, BeginFile, OpenFile, FileWritten, SaveFileInfo,
     FinishDownload, GiveUp, SaveOrStop, SaveOrWarn
<1>5. ASSUME NEW p \in Parser, StartProcessing(p) \/ ProcessingStep(p)
      PROVE  Ids'
  BY <1>1, <1>5 DEF StartProcessing, ProcessingStep, Claim, CheckFiles, SkipStep, RunStep,
     CommitStep, StepError, Complete, SaveOrStop, SaveOrWarn
<1>6. CASE RequestDownload \/ RequestReprocess \/ RequestReset \/ AdminStep \/ CleanupFiles \/ Crash
  BY <1>1, <1>2, <1>6 DEF RequestDownload, RequestReprocess, RequestReset, AdminStep, CleanupFiles,
     Crash, DeleteRecord, RecreateRecord, ResetFiles, SaveRequested
<1> QED
  BY <1>3, <1>4, <1>5, <1>6 DEF Next

LEMMA AdminKeepsRecord ==
  ASSUME RecordInv,
         RequestDownload \/ RequestReprocess \/ RequestReset \/ AdminStep \/ CleanupFiles \/ Crash
  PROVE  Copies' /\ CompletedHasAllSteps' /\ DownloadingIsOwned'
<1> USE DEF RecordInv
\* Requests change no job.
<1>1. ASSUME UNCHANGED job, AdminCopy', row' = row, incident \subseteq incident'
      PROVE  Copies' /\ CompletedHasAllSteps' /\ DownloadingIsOwned'
  BY <1>1 DEF Copies, CompletedHasAllSteps, DownloadingIsOwned
<1>2. ASSUME UNCHANGED job, AdminCopy', row'.status \notin {"downloading", "completed"}
      PROVE  Copies' /\ CompletedHasAllSteps' /\ DownloadingIsOwned'
  BY <1>2 DEF Copies, CompletedHasAllSteps, DownloadingIsOwned
<1>3. CASE RequestDownload
  BY <1>1, <1>3 DEF RequestDownload, AdminCopy, Report
<1>4. CASE RequestReprocess
  <2>1. [Latest EXCEPT !.status = "ready_for_processing", !.steps = {}].status
          = "ready_for_processing"
    BY LatestType DEF Record
  <2> QED
    BY <1>1, <1>4, <2>1 DEF RequestReprocess, AdminCopy, Report
<1>5. CASE RequestReset
  <2>1. [row EXCEPT !.status = "not_started", !.steps = {}].status = "not_started"
    BY DEF TypeOK, Record
  <2> QED
    BY <1>1, <1>5, <2>1 DEF RequestReset, AdminCopy, Report
<1>6. CASE DeleteRecord
  <2>1. AdminCopy'
    BY <1>6 DEF DeleteRecord, AdminCopy, AdminIdle
  <2>2. \/ row' = NoRow
        \/ row' = row /\ incident \subseteq incident'
    BY <1>6 DEF DeleteRecord, Report
  <2> QED
    BY <1>1, <1>2, <1>6, <2>1, <2>2 DEF DeleteRecord, NoRow
<1>7. CASE RecreateRecord
  <2>1. AdminCopy'
    BY <1>7 DEF RecreateRecord, AdminCopy, AdminIdle
  <2>2. \/ row'.status = "not_started"
        \/ row' = row /\ incident \subseteq incident'
    BY <1>7 DEF RecreateRecord, Inserts, RefusesInsert, Report
  <2> QED
    BY <1>1, <1>2, <1>7, <2>1, <2>2 DEF RecreateRecord
\* Losing its file does not end a download.
<1>8. ASSUME RemoveFiles \/ \E gone \in SUBSET File : RemoveSomeFiles(gone), row' = row, AdminCopy'
      PROVE  Copies' /\ CompletedHasAllSteps' /\ DownloadingIsOwned'
  <2>1. \A j \in Job : /\ job'[j].pc = job[j].pc /\ job'[j].rec = job[j].rec
                       /\ job'[j].pos = job[j].pos
    BY <1>8, RemovalPlace
  <2>2. incident \subseteq incident'
    BY <1>8 DEF RemoveFiles, RemoveSomeFiles, Report
  <2>3. Copies'
    BY <1>8, <2>1 DEF Copies, DownloadCopy, ProcessingCopy, Job
  <2> QED
    BY <1>8, <2>1, <2>2, <2>3 DEF CompletedHasAllSteps, DownloadingIsOwned, Job
<1>9. CASE ResetFiles
  <2>1. AdminCopy'
    BY <1>9 DEF ResetFiles, AdminCopy, AdminIdle, Copies, TypeOK
  <2> QED
    BY <1>8, <1>9, <2>1 DEF ResetFiles
<1>10. CASE SaveRequested
  <2>1. admin.rec.status \in {"ready_for_processing", "not_started"}
    BY <1>10 DEF SaveRequested, Copies, AdminCopy
  <2>2. AdminCopy'
    BY <1>10 DEF SaveRequested, AdminCopy, AdminIdle
  <2>3. \/ row' = admin.rec
        \/ row' = row /\ incident \subseteq incident'
    BY <1>10 DEF SaveRequested, Stores, Refuses, Report
  <2> QED
    BY <1>1, <1>2, <1>10, <2>1, <2>2, <2>3 DEF SaveRequested
<1>11. CASE CleanupFiles
  BY <1>8, <1>11 DEF CleanupFiles, Copies, AdminCopy
<1>12. CASE Crash
  <2>1. Copies'
    BY <1>12, IdleCopy DEF Crash, Copies, AdminCopy, AdminIdle, Job
  <2> QED
    BY <1>12, <2>1 DEF Crash, Report, CompletedHasAllSteps, DownloadingIsOwned
<1> QED
  BY <1>3, <1>4, <1>5, <1>6, <1>7, <1>9, <1>10, <1>11, <1>12 DEF AdminStep

LEMMA RecordInit == Init => RecordInv
BY InitType, IdleCopy, LastMonthAssumption
DEF Init, RecordInv, Ids, PreviousId, Copies, AdminCopy, CompletedHasAllSteps, DownloadingIsOwned, NoRow, Job

LEMMA RecordNext ==
  ASSUME RecordInv, [Next]_vars
  PROVE  RecordInv'
<1>1. CASE UNCHANGED vars
  BY <1>1 DEF vars, RecordInv, TypeOK, Ids, Copies, AdminCopy, CompletedHasAllSteps, DownloadingIsOwned
<1>2. CASE \E d \in Downloader : StartDownload(d) \/ DownloadStep(d) \/ AttemptFails(d)
  BY <1>2, DownloadType, DownloadKeepsRecord, IdsKept DEF RecordInv
<1>3. CASE \E p \in Parser : StartProcessing(p) \/ ProcessingStep(p)
  BY <1>3, ProcessingType, ProcessingKeepsRecord, IdsKept DEF RecordInv
<1>4. CASE RequestDownload \/ RequestReprocess \/ RequestReset \/ AdminStep \/ CleanupFiles \/ Crash
  BY <1>4, AdminType, AdminKeepsRecord, IdsKept DEF RecordInv
<1> QED
  BY <1>1, <1>2, <1>3, <1>4 DEF Next

LEMMA RecordAlways == Spec => []RecordInv
BY RecordInit, RecordNext, PTL DEF Spec

\* Types: no variable leaves its type, whatever the jobs and administrators do; in
\* particular downloadFileWithRetry never makes more than DiscogsMaxRetries attempts.
THEOREM PipelineTypeCorrect == Spec => []TypeOK
<1>1. RecordInv => TypeOK
  BY DEF RecordInv
<1> QED
  BY <1>1, RecordAlways, PTL

\* A completed record has every step completed, however many executions and requests
\* save the whole row over each other's saves: no copy that says "completed" is ever
\* made before its own steps are all in it.
THEOREM PipelineCompletedHasAllSteps == Spec => []CompletedHasAllSteps
<1>1. RecordInv => CompletedHasAllSteps
  BY DEF RecordInv
<1> QED
  BY <1>1, RecordAlways, PTL

\* A record says "downloading" only while a download is at work on it, or after a crash
\* or a lost save: every way out of Execute saves another status.
THEOREM PipelineDownloadingIsOwned == Spec => []DownloadingIsOwned
<1>1. RecordInv => DownloadingIsOwned
  BY DEF RecordInv
<1> QED
  BY <1>1, RecordAlways, PTL

\* No step gives the month's record to another one: a copy of a deleted record cannot be
\* saved over its successor, since the month is unique and the ids differ.
THEOREM PipelineNoTakeover == Spec => NoTakeover
<1>1. ASSUME [Next]_vars
      PROVE  [row.id # 0 /\ row'.id # 0 => row'.id = row.id]_vars
  <2>1. ASSUME \/ row' = row \/ row' = NoRow \/ Inserts \/ RefusesInsert
               \/ \E r : Stores(r) \/ Refuses(r)
        PROVE  row.id # 0 /\ row'.id # 0 => row'.id = row.id
    BY <2>1 DEF NoRow, Inserts, RefusesInsert, Stores, Refuses
  <2>2. CASE UNCHANGED vars
    BY <2>2
  <2>3. ASSUME NEW d \in Downloader, StartDownload(d) \/ DownloadStep(d) \/ AttemptFails(d)
        PROVE  row.id # 0 /\ row'.id # 0 => row'.id = row.id
    BY <2>1, <2>3 DEF StartDownload, DownloadStep, AttemptFails, CreateRecord, RetryRecord, BeginDownload,
         Checksum, NoDirectory, BeginFile, OpenFile, FileWritten, SaveFileInfo, FinishDownload, GiveUp, SaveOrStop, SaveOrWarn
  <2>4. ASSUME NEW p \in Parser, StartProcessing(p) \/ ProcessingStep(p)
        PROVE  row.id # 0 /\ row'.id # 0 => row'.id = row.id
    BY <2>1, <2>4 DEF StartProcessing, ProcessingStep, Claim, CheckFiles, SkipStep, RunStep, CommitStep,
         StepError, Complete, SaveOrStop, SaveOrWarn
  <2>5. CASE RequestDownload \/ RequestReprocess \/ RequestReset \/ AdminStep \/ CleanupFiles \/ Crash
    BY <2>1, <2>5 DEF RequestDownload, RequestReprocess, RequestReset, AdminStep, CleanupFiles, Crash,
         DeleteRecord, RecreateRecord, ResetFiles, SaveRequested
  <2> QED
    BY <1>1, <2>2, <2>3, <2>4, <2>5 DEF Next
<1> QED
  BY <1>1, PTL DEF Spec, NoTakeover

=============================================================================
