------------------------ MODULE DataProcessingSafety ------------------------
(***************************************************************************)
(* What a completed month has loaded: everything, if nothing went wrong,   *)
(* and everything but the genre associations if only crashes and lost      *)
(* saves did.  And that one month's files are not loaded for another's     *)
(* record.                                                                 *)
(***************************************************************************)
EXTENDS DataProcessingProofs

-----------------------------------------------------------------------------
(* The inductive invariant.  Unless something but a crash or a lost save   *)
(* goes wrong, one job or request is at work at a time, the files are      *)
(* whole from the end of their download on, and what a copy of the month's *)
(* record says is completed has its data in the catalogue.  Of a parser    *)
(* that works for last month's record nothing is known, and it harms       *)
(* nothing: it saves another row, and only adds to the catalogue.          *)

Calm == incident \subseteq {"crash", "database"}

ThisMonths(state) == state.rec.id # PreviousId

Alone ==
  /\ \A j, k \in Job : Busy(j) /\ Busy(k) => j = k
  /\ admin.pc # "idle" => \A j \in Job : ~Busy(j)

\* The record's states in which its files are downloaded.
Downloaded == {"ready_for_processing", "processing", "completed"}

Whole(content) == \A i \in DOMAIN FileSeq : content[FileSeq[i]] = "good"

\* A download has the files before the one it is at, unless it is writing one again.
DownloadWhole(state, content) ==
  /\ state.pc \in {"retry", "begin", "checksum"} => state.pos = 1
  /\ state.pc = "write" => state.linked
  /\ state.pc \in {"file", "info"} =>
       \A i \in DOMAIN FileSeq : i < state.pos => content[FileSeq[i]] = "good"
  /\ state.pc \in {"open", "write"} =>
       \A i \in DOMAIN FileSeq :
         i < state.pos => content[FileSeq[i]] = "good" \/ FileSeq[i] = FileSeq[state.pos]
  /\ state.pc = "info" /\ state.pos \in DOMAIN FileSeq => content[FileSeq[state.pos]] = "good"
  /\ state.pc = "ready" => Whole(content)

FilesWhole ==
  /\ \A f \in File : file[f] # "bad"
  /\ row.status \in Downloaded => Whole(file)
  /\ admin.pc = "save" /\ admin.rec.status = "ready_for_processing" /\ ThisMonths(admin) =>
       Whole(file)
  /\ \A p \in Parser : Busy(p) /\ ThisMonths(job[p]) => Whole(file)
  /\ \A d \in Downloader :
       /\ DownloadWhole(job[d], file)
       /\ job[d].pc \notin {"idle", "create"} => row.status \notin Downloaded

Plain == {s \in DataStep : ~Associates(s)}

\* The steps of data that a copy says are completed, or is about to, are applied.
Loaded(data) ==
  /\ row.steps \cap data \subseteq applied
  /\ admin.rec.steps \cap data \subseteq applied
  /\ \A d \in Downloader : job[d].rec.steps \cap data \subseteq applied
  /\ \A p \in Parser : ThisMonths(job[p]) =>
       /\ job[p].rec.steps \cap data \subseteq applied
       /\ job[p].pc = "commit" /\ Current(p) \in data => Current(p) \in applied

CalmInv == Calm => Alone /\ FilesWhole /\ Loaded(Plain)

\* If nothing at all goes wrong, a parser begins with no step completed, its copy is the
\* row, and what it knows of the genres is what the steps before it say.
Executed(state) == IF state.pc = "commit" THEN state.pos ELSE state.pos - 1

GenresKnown(state) ==
  \A c \in DOMAIN StepSeq : CollectedIn(StepSeq, c, Executed(state)) =>
    /\ Source(StepSeq[c]) \in state.names
    /\ (\E u \in c + 1 .. Executed(state) : Upserts(StepSeq[u])) => Source(StepSeq[c]) \in state.ids

Working == {"check", "step", "commit", "stuck"}

\* What a parser holds.
Follows(state, r) ==
  /\ state.pc \in {"idle", "claim"} \cup Working
  /\ state.pc # "idle" => state.rec = r /\ r.id # 0
  /\ state.pc \in {"claim"} \cup Working => r.steps = {StepSeq[i] : i \in 1 .. state.pos - 1}
  /\ state.pc \in {"step", "commit"} => GenresKnown(state)

FlawlessRecord ==
  /\ row.status \notin {"processing", "completed"} => row.steps = {}
  /\ row.status = "processing" => \E p \in Parser : job[p].pc \in Working /\ ThisMonths(job[p])
  /\ admin.pc \in {"clean", "save"} => admin.rec.steps = {}
  /\ \A d \in Downloader : job[d].rec.steps = {}
  /\ \A p \in Parser : ThisMonths(job[p]) => Follows(job[p], row)

FlawlessInv == incident = {} => FlawlessRecord /\ Loaded(DataStep)

LoadInv == RecordInv /\ CalmInv /\ FlawlessInv

-----------------------------------------------------------------------------
(* Steps in general *)

\* The history only grows, and nothing is taken out of the catalogue.
LEMMA HistoryGrows ==
  ASSUME [Next]_vars
  PROVE  incident \subseteq incident' /\ applied \subseteq applied'
<1>1. ASSUME NEW r, Stores(r) \/ Refuses(r)
      PROVE  incident \subseteq incident'
  BY <1>1 DEF Stores, Refuses, Report
<1>2. ASSUME Inserts \/ RefusesInsert
      PROVE  incident \subseteq incident'
  BY <1>2 DEF Inserts, RefusesInsert, Report
<1>3. CASE UNCHANGED vars
  BY <1>3 DEF vars
<1>4. ASSUME NEW d \in Downloader, StartDownload(d) \/ DownloadStep(d) \/ AttemptFails(d)
      PROVE  incident \subseteq incident' /\ applied \subseteq applied'
  BY <1>1, <1>2, <1>4
  DEF StartDownload, DownloadStep, AttemptFails, CreateRecord, RetryRecord, BeginDownload, Checksum,
      NoDirectory, BeginFile, OpenFile, FileWritten, SaveFileInfo, FinishDownload, GiveUp,
      SaveOrStop, SaveOrWarn, Report
<1>5. ASSUME NEW p \in Parser, StartProcessing(p) \/ ProcessingStep(p)
      PROVE  incident \subseteq incident' /\ applied \subseteq applied'
  <2>1. CASE RunStep(p)
    BY <2>1 DEF RunStep, Report
  <2>2. CASE ~RunStep(p)
    BY <1>1, <1>5, <2>2
    DEF StartProcessing, ProcessingStep, Claim, CheckFiles, SkipStep, CommitStep, StepError, Complete,
        SaveOrStop, SaveOrWarn, Report
  <2> QED
    BY <2>1, <2>2
<1>6. CASE RequestDownload \/ RequestReprocess \/ RequestReset \/ AdminStep \/ CleanupFiles \/ Crash
  BY <1>1, <1>2, <1>6
  DEF RequestDownload, RequestReprocess, RequestReset, AdminStep, CleanupFiles, Crash, DeleteRecord,
      RecreateRecord, ResetFiles, SaveRequested, RemoveFiles, RemoveSomeFiles, Report
<1> QED
  BY <1>3, <1>4, <1>5, <1>6 DEF Next

\* The step a job is at.
LEMMA CurrentPlace ==
  ASSUME TypeOK, NEW p \in Job, job[p].pos <= Len(StepSeq)
  PROVE  job[p].pos \in DOMAIN StepSeq /\ StepSeq[job[p].pos] \in Step
<1>1. job[p].pos \in 1 .. Len(StepSeq) /\ StepSeq \in Seq(Range(AllSteps))
  BY JobType, PipelineAssumption DEF JobState
<1> QED
  BY <1>1 DEF Step, Range

\* A file of the dump.
LEMMA FilePlace == \A i \in DOMAIN FileSeq : FileSeq[i] \in File
BY DEF File, Range

LEMMA WholeFiles == \A content : Whole(content) <=> \A f \in File : content[f] = "good"
BY DEF Whole, File, Range

\* A job that is at work goes on alone.
LEMMA StaysAlone ==
  ASSUME TypeOK, Alone, NEW j \in Job, Busy(j), NEW state, Become(j, state), UNCHANGED admin
  PROVE  /\ Alone' /\ admin.pc = "idle"
         /\ job'[j] = state
         /\ \A k \in Job \ {j} : job[k].pc = "idle" /\ job'[k] = job[k]
BY DEF TypeOK, Alone, Busy, Become

\* A job starts alone, if nothing reports an overlap.
LEMMA StartsAlone ==
  ASSUME TypeOK, NEW j \in Job, Overlap(j) = {}, NEW state, Become(j, state), UNCHANGED admin
  PROVE  /\ Alone' /\ admin.pc = "idle"
         /\ job'[j] = state
         /\ \A k \in Job \ {j} : job[k].pc = "idle" /\ job'[k] = job[k]
BY DEF TypeOK, Alone, Busy, Become, Overlap

\* What a job may say is completed comes from what it or the row said.
LEMMA LoadedStays ==
  ASSUME TypeOK, NEW data, Loaded(data), NEW j \in Job, NEW state, Become(j, state),
         UNCHANGED admin, applied \subseteq applied',
         row'.steps \cap data \subseteq applied',
         j \in Downloader \/ ThisMonths(state) => state.rec.steps \cap data \subseteq applied',
         j \in Parser /\ ThisMonths(state) /\ state.pc = "commit" /\ StepSeq[state.pos] \in data =>
           StepSeq[state.pos] \in applied'
  PROVE  Loaded(data)'
<1>1. /\ job'[j] = state
      /\ \A k \in Job \ {j} : job'[k] = job[k]
  BY DEF TypeOK, Become
<1>2. /\ \A d \in Downloader : job'[d].rec.steps \cap data \subseteq applied'
      /\ \A p \in Parser : job'[p].rec.id # PreviousId =>
           job'[p].rec.steps \cap data \subseteq applied'
  BY <1>1 DEF Loaded, ThisMonths, Job
<1>3. ASSUME NEW p \in Parser, job'[p].rec.id # PreviousId,
             job'[p].pc = "commit", StepSeq[job'[p].pos] \in data
      PROVE  StepSeq[job'[p].pos] \in applied'
  BY <1>1, <1>3 DEF Loaded, ThisMonths, Current, Job
<1> QED
  BY <1>2, <1>3 DEF Loaded, ThisMonths, Current

-----------------------------------------------------------------------------
(* Downloads *)

\* What a step of download d does, if nothing but crashes and lost saves goes wrong: it
\* leaves the row, or saves a copy with its own steps, and the row says that the files
\* are downloaded only when they are whole.
DownloadEffect(d, state) ==
  /\ Become(d, state) /\ UNCHANGED <<admin, applied>>
  /\ \A f \in File : file'[f] # "bad"
  /\ DownloadWhole(state, file')
  /\ state.rec.steps \in {{}, job[d].rec.steps}
  /\ \/ row' = row /\ (job[d].pc = "create" => state.pc = "idle" /\ file' = file)
     \/ /\ row'.steps \in {{}, job[d].rec.steps}
        /\ row'.status \notin Downloaded
     \/ /\ row'.steps = job[d].rec.steps
        /\ row'.status = "ready_for_processing" /\ Whole(file') /\ state.pc = "idle"

LEMMA IdleWhole ==
  ASSUME NEW state, state.pc \in {"idle", "create", "failed", "unavailable"}
  PROVE  \A content : DownloadWhole(state, content)
BY DEF DownloadWhole

LEMMA DownloadEffects ==
  ASSUME RecordInv, CalmInv, Calm, Calm', NEW d \in Downloader, DownloadStep(d) \/ AttemptFails(d)
  PROVE  \E state : DownloadEffect(d, state)
<1> DEFINE s == job[d]
           r == job[d].rec
<1>0. /\ d \in Job /\ s \in JobState /\ DownloadCopy(s) /\ r \in Record
      /\ DownloadWhole(s, file) /\ \A f \in File : file[f] # "bad"
  BY JobType DEF RecordInv, Job, Copies, CalmInv, FilesWhole
<1>i. Idle.pc = "idle" /\ Idle.rec.steps = {} /\ Idle.pos = 1
  BY DEF Idle, NoRow
<1>n. s.pos \in Nat \ {0}
  BY <1>0 DEF JobState
\* The files stay, and so does the row or it takes the copy's steps.
<1>1. ASSUME NEW state, Become(d, state), UNCHANGED <<admin, applied, file>>,
             DownloadWhole(state, file), state.rec.steps \in {{}, r.steps}, s.pc # "create",
             \/ row' = row
             \/ \E q : /\ Stores(q) \/ Refuses(q)
                       /\ q.steps = r.steps /\ q.status \notin Downloaded
      PROVE  DownloadEffect(d, state)
  <2>1. row' = row \/ (row'.steps = r.steps /\ row'.status \notin Downloaded)
    BY <1>1 DEF Stores, Refuses
  <2> QED
    BY <1>0, <1>1, <2>1 DEF DownloadEffect
<1>2. CASE CreateRecord(d)
  <2> DEFINE fresh == [Idle EXCEPT !.rec = row', !.pc = "begin"]
  <2>1. CASE Inserts /\ Become(d, fresh)
    <3>1. row'.steps = {} /\ row'.status = "not_started"
      BY <2>1 DEF Inserts
    <3>2. fresh.pc = "begin" /\ fresh.rec = row' /\ fresh.pos = 1
      BY <1>i DEF Idle
    <3>3. UNCHANGED <<admin, applied, file>>
      BY <1>2 DEF CreateRecord
    <3> HIDE DEF fresh
    <3>4. DownloadWhole(fresh, file')
      BY <3>2 DEF DownloadWhole
    <3>5. DownloadEffect(d, fresh)
      BY <1>0, <2>1, <3>1, <3>2, <3>3, <3>4 DEF DownloadEffect, Downloaded
    <3> QED
      BY <3>5
  <2>2. CASE RefusesInsert /\ Become(d, Idle)
    <3>1. DownloadEffect(d, Idle)
      BY <1>0, <1>2, <1>i, <2>2, IdleWhole DEF CreateRecord, RefusesInsert, DownloadEffect
    <3> QED
      BY <3>1
  <2> QED
    BY <1>2, <2>1, <2>2 DEF CreateRecord
<1>3. CASE RetryRecord(d)
  <2> DEFINE state == [[s EXCEPT !.pc = "begin"] EXCEPT !.rec = r]
  <2>1. state.pc = "begin" /\ state.rec = r /\ state.pos = s.pos
    BY <1>0 DEF JobState
  <2>2. s.pc = "retry" /\ s.pos = 1 /\ r.status \notin Downloaded
    BY <1>0, <1>3 DEF RetryRecord, DownloadWhole, DownloadCopy, Downloadable, Downloaded
  <2>3. /\ UNCHANGED <<admin, applied, file>>
        /\ \/ Stores(r) /\ Become(d, state)
           \/ Refuses(r) /\ Become(d, Idle)
    BY <1>3 DEF RetryRecord, SaveOrStop
  <2> HIDE DEF state
  <2>4. DownloadWhole(state, file)
    BY <2>1, <2>2 DEF DownloadWhole
  <2>5. DownloadEffect(d, state) \/ DownloadEffect(d, Idle)
    BY <1>1, <1>i, <2>1, <2>2, <2>3, <2>4, IdleWhole
  <2> QED
    BY <2>5
<1>4. CASE BeginDownload(d)
  <2> DEFINE q == WithStatus(r, "downloading")
             state == [[s EXCEPT !.pc = "checksum", !.linked = TRUE] EXCEPT !.rec = q]
  <2>1. q.steps = r.steps /\ q.status \notin Downloaded
    BY <1>0 DEF WithStatus, Record, Downloaded
  <2>2. state.pc = "checksum" /\ state.rec = q /\ state.pos = s.pos
    BY <1>0 DEF JobState
  <2>3. s.pc = "begin" /\ s.pos = 1
    BY <1>0, <1>4 DEF BeginDownload, DownloadWhole
  <2> HIDE DEF q
  <2>4. /\ UNCHANGED <<admin, applied, file>>
        /\ \/ Stores(q) /\ Become(d, state)
           \/ Refuses(q) /\ Become(d, Idle)
    BY <1>4 DEF BeginDownload, SaveOrStop, q
  <2> HIDE DEF state
  <2>5. DownloadWhole(state, file)
    BY <2>2, <2>3 DEF DownloadWhole
  <2>6. DownloadEffect(d, state) \/ DownloadEffect(d, Idle)
    BY <1>1, <1>i, <2>1, <2>2, <2>3, <2>4, <2>5, IdleWhole
  <2> QED
    BY <2>6
\* From here on the copy says that the month is being downloaded.
<1>c. s.pc \in Downloading => r.status \notin Downloaded /\ s.pc # "create"
  BY <1>0 DEF DownloadCopy, Downloaded, Downloading
<1>5. ASSUME NEW state, Become(d, state), UNCHANGED <<admin, applied, file>>,
             s.pc \in Downloading, state.rec = r, DownloadWhole(state, file),
             Stores(r) \/ Refuses(r) \/ row' = row
      PROVE  \E other : DownloadEffect(d, other)
  BY <1>1, <1>5, <1>c
<1>6. CASE Checksum(d)
  <2> DEFINE state == [s EXCEPT !.pc = "file", !.tries = 0]
             failed == [s EXCEPT !.pc = "failed"]
  <2>1. /\ state.pc = "file" /\ state.rec = r /\ state.pos = s.pos
        /\ failed.pc = "failed" /\ failed.rec = r
    BY <1>0 DEF JobState
  <2>2. s.pc = "checksum" /\ s.pos = 1
    BY <1>0, <1>6 DEF Checksum, DownloadWhole
  <2>3. /\ UNCHANGED <<admin, applied, file>>
        /\ \/ Stores(r) /\ Become(d, state)
           \/ Refuses(r) /\ Become(d, failed)
    BY <1>6 DEF Checksum, Goto
  <2> HIDE DEF state, failed
  <2>4. DownloadWhole(state, file)
    <3>1. \A i \in DOMAIN FileSeq : i \in Nat \ {0}
      BY PipelineAssumption
    <3> QED
      BY <2>1, <2>2, <3>1 DEF DownloadWhole
  <2> QED
    BY <1>5, <2>1, <2>2, <2>3, <2>4, IdleWhole DEF Downloading
<1>7. CASE AttemptFails(d)
  <2> DEFINE again == [s EXCEPT !.tries = @ + 1, !.pc = IF @ = "write" THEN "open" ELSE @]
             failed == [s EXCEPT !.pc = "failed"]
             unavailable == [s EXCEPT !.pc = "unavailable"]
  <2>1. /\ again.pc = (IF s.pc = "write" THEN "open" ELSE s.pc) /\ again.rec = r /\ again.pos = s.pos
        /\ failed.pc = "failed" /\ failed.rec = r
        /\ unavailable.pc = "unavailable" /\ unavailable.rec = r
    BY <1>0 DEF JobState
  <2>2. /\ UNCHANGED <<admin, applied, file, row>> /\ s.pc \in {"checksum", "open", "write"}
        /\ Become(d, again) \/ Become(d, failed) \/ Become(d, unavailable)
    BY <1>7 DEF AttemptFails, Goto
  <2> HIDE DEF again, failed, unavailable
  <2>3. DownloadWhole(again, file)
    BY <1>0, <2>1, <2>2 DEF DownloadWhole
  <2> QED
    BY <1>5, <2>1, <2>2, <2>3, IdleWhole DEF Downloading
<1>8. CASE NoDirectory(d)
  <2> DEFINE again == [s EXCEPT !.tries = @ + 1]
             failed == [s EXCEPT !.pc = "failed"]
  <2>1. /\ again.pc = s.pc /\ again.rec = r /\ again.pos = s.pos
        /\ failed.pc = "failed" /\ failed.rec = r
    BY <1>0 DEF JobState
  <2>2. /\ UNCHANGED <<admin, applied, file, row>> /\ s.pc \in {"checksum", "open"}
        /\ Become(d, again) \/ Become(d, failed)
    BY <1>8 DEF NoDirectory, Goto
  <2> HIDE DEF again, failed
  <2>3. DownloadWhole(again, file)
    BY <1>0, <2>1, <2>2 DEF DownloadWhole
  <2> QED
    BY <1>5, <2>1, <2>2, <2>3, IdleWhole DEF Downloading
<1>9. CASE BeginFile(d)
  <2> DEFINE state == [s EXCEPT !.pc = "open", !.tries = 0, !.linked = TRUE]
  <2>1. state.pc = "open" /\ state.rec = r /\ state.pos = s.pos
    BY <1>0 DEF JobState
  <2>2. s.pc = "file" /\ UNCHANGED <<admin, applied, file>> /\ (Stores(r) \/ Refuses(r)) /\ Become(d, state)
    BY <1>9 DEF BeginFile, SaveOrWarn
  <2> HIDE DEF state
  <2>3. DownloadWhole(state, file)
    BY <1>0, <2>1, <2>2 DEF DownloadWhole
  <2> QED
    BY <1>5, <2>1, <2>2, <2>3 DEF Downloading
<1>10. CASE OpenFile(d)
  <2> DEFINE state == [s EXCEPT !.pc = "write", !.linked = TRUE]
  <2>1. state.pc = "write" /\ state.rec = r /\ state.pos = s.pos /\ state.linked
    BY <1>0 DEF JobState
  <2>2. /\ s.pc = "open" /\ UNCHANGED <<admin, applied, row>> /\ Become(d, state)
        /\ file' = [file EXCEPT ![FileSeq[s.pos]] = "partial"]
    BY <1>10 DEF OpenFile
  <2> HIDE DEF state
  <2>3. /\ \A f \in File : file'[f] # "bad"
        /\ \A f \in File : f # FileSeq[s.pos] => file'[f] = file[f]
    BY <1>0, <2>2 DEF RecordInv, TypeOK
  <2>4. DownloadWhole(state, file')
    BY <1>0, <2>1, <2>2, <2>3, FilePlace DEF DownloadWhole
  <2>5. DownloadEffect(d, state)
    BY <2>1, <2>2, <2>3, <2>4 DEF DownloadEffect
  <2> QED
    BY <2>5
<1>11. CASE FileWritten(d)
  <2> DEFINE state == [s EXCEPT !.pc = "info", !.linked = FALSE]
  <2>1. state.pc = "info" /\ state.rec = r /\ state.pos = s.pos
    BY <1>0 DEF JobState
  <2>2. s.pc = "write" /\ UNCHANGED <<admin, applied, row>> /\ Become(d, state)
    BY <1>11 DEF FileWritten
  <2> HIDE DEF state
  <2>3. s.linked /\ ~Report({"corrupt"})
    BY <1>0, <2>2 DEF DownloadWhole, Report, Calm
  <2>4. \A k \in Downloader \ {d} : job[k].pc # "write"
    BY <2>2 DEF CalmInv, Alone, Busy, Job
  <2>5. file' = [file EXCEPT ![FileSeq[s.pos]] = "good"]
    BY <1>11, <2>3, <2>4 DEF FileWritten
  <2>6. /\ \A f \in File : file'[f] # "bad"
        /\ \A f \in File : f # FileSeq[s.pos] => file'[f] = file[f]
        /\ FileSeq[s.pos] \in File => file'[FileSeq[s.pos]] = "good"
    BY <1>0, <2>5 DEF RecordInv, TypeOK
  <2>7. DownloadWhole(state, file')
    <3>1. \A i \in DOMAIN FileSeq : i < s.pos => file'[FileSeq[i]] = "good"
      BY <1>0, <2>2, <2>6, FilePlace DEF DownloadWhole
    <3>2. s.pos \in DOMAIN FileSeq => file'[FileSeq[s.pos]] = "good"
      BY <2>6, FilePlace
    <3> QED
      BY <2>1, <3>1, <3>2 DEF DownloadWhole
  <2>8. DownloadEffect(d, state)
    BY <2>1, <2>2, <2>6, <2>7 DEF DownloadEffect
  <2> QED
    BY <2>8
<1>12. CASE SaveFileInfo(d)
  <2> DEFINE nextFile == [s EXCEPT !.pc = "file", !.pos = @ + 1]
             end == [s EXCEPT !.pc = "ready"]
  <2>1. /\ nextFile.pc = "file" /\ nextFile.rec = r /\ nextFile.pos = s.pos + 1
        /\ end.pc = "ready" /\ end.rec = r
    BY <1>0 DEF JobState
  <2>2. /\ s.pc = "info" /\ UNCHANGED <<admin, applied, file>> /\ (Stores(r) \/ Refuses(r))
        /\ \/ s.pos < Len(FileSeq) /\ Become(d, nextFile)
           \/ ~(s.pos < Len(FileSeq)) /\ Become(d, end)
    BY <1>12 DEF SaveFileInfo, SaveOrWarn
  <2> HIDE DEF nextFile, end
  <2>3. \A i \in DOMAIN FileSeq : i < s.pos + 1 => file[FileSeq[i]] = "good"
    <3>1. \A i \in DOMAIN FileSeq : i < s.pos + 1 => i < s.pos \/ i = s.pos
      BY <1>n, PipelineAssumption
    <3> QED
      BY <1>0, <2>2, <3>1 DEF DownloadWhole
  <2>4. DownloadWhole(nextFile, file)
    BY <2>1, <2>3 DEF DownloadWhole
  <2>5. ~(s.pos < Len(FileSeq)) => DownloadWhole(end, file)
    <3>1. ~(s.pos < Len(FileSeq)) => \A i \in DOMAIN FileSeq : i < s.pos + 1
      BY <1>n, PipelineAssumption
    <3> QED
      BY <2>1, <2>3, <3>1 DEF DownloadWhole, Whole
  <2> QED
    BY <1>5, <2>1, <2>2, <2>4, <2>5 DEF Downloading
<1>13. CASE FinishDownload(d)
  <2> DEFINE q == WithStatus(r, "ready_for_processing")
             failed == [s EXCEPT !.pc = "failed"]
  <2>1. /\ q.status = "ready_for_processing" /\ q.steps = r.steps
        /\ failed.pc = "failed" /\ failed.rec = r
    BY <1>0 DEF WithStatus, Record, JobState
  <2>2. /\ s.pc = "ready" /\ UNCHANGED <<admin, applied, file>>
        /\ \/ Stores(q) /\ Become(d, Idle)
           \/ Refuses(q) /\ Become(d, failed)
    BY <1>13 DEF FinishDownload, Goto
  <2> HIDE DEF q, failed
  <2>3. CASE Stores(q) /\ Become(d, Idle)
    <3>1. row' \in {row, q} /\ Whole(file)
      BY <1>0, <2>2, <2>3 DEF Stores, DownloadWhole
    <3>2. DownloadEffect(d, Idle)
      BY <1>0, <1>i, <2>1, <2>2, <2>3, <3>1, IdleWhole DEF DownloadEffect
    <3> QED
      BY <3>2
  <2>4. CASE Refuses(q) /\ Become(d, failed)
    BY <1>5, <2>1, <2>2, <2>4, IdleWhole DEF Refuses, Downloading
  <2> QED
    BY <2>2, <2>3, <2>4
<1>14. CASE GiveUp(d)
  <2> DEFINE q == WithStatus(r, IF s.pc = "failed" THEN "failed" ELSE "not_started")
  <2>1. q.status \in {"failed", "not_started"} /\ q.steps = r.steps
    BY <1>0 DEF WithStatus, Record
  <2>2. /\ s.pc \in {"failed", "unavailable"} /\ UNCHANGED <<admin, applied, file>>
        /\ (Stores(q) \/ Refuses(q)) /\ Become(d, Idle)
    BY <1>14 DEF GiveUp, SaveOrWarn
  <2> HIDE DEF q
  <2>3. DownloadEffect(d, Idle)
    BY <1>1, <1>i, <2>1, <2>2, IdleWhole DEF Downloaded
  <2> QED
    BY <2>3
<1> QED
  BY <1>2, <1>3, <1>4, <1>6, <1>7, <1>8, <1>9, <1>10, <1>11, <1>12, <1>13, <1>14 DEF DownloadStep

\* The places of a download in the middle of its work.
LEMMA DownloadBusy ==
  ASSUME NEW d \in Downloader, DownloadStep(d) \/ AttemptFails(d)
  PROVE  Busy(d)
BY DEF DownloadStep, AttemptFails, CreateRecord, RetryRecord, BeginDownload, Checksum, NoDirectory,
       BeginFile, OpenFile, FileWritten, SaveFileInfo, FinishDownload, GiveUp, Busy

LEMMA DownloadKeepsCalm ==
  ASSUME RecordInv, CalmInv, Calm, Calm', NEW d \in Downloader, Busy(d),
         NEW state, DownloadEffect(d, state)
  PROVE  Alone' /\ FilesWhole'
<1>0. /\ d \in Job /\ Alone /\ FilesWhole /\ DownloadCopy(job[d])
      /\ Become(d, state) /\ UNCHANGED <<admin, applied>> /\ TypeOK
  BY DEF Job, CalmInv, RecordInv, Copies, DownloadEffect
<1>1. /\ Alone' /\ admin.pc = "idle"
      /\ job'[d] = state
      /\ \A k \in Job \ {d} : job[k].pc = "idle" /\ job'[k] = job[k]
  BY <1>0, StaysAlone
<1>2. \A p \in Parser : ~Busy(p)'
  BY <1>1, PipelineAssumption DEF Busy, Job
<1>4. job[d].pc # "create" => row.status \notin Downloaded
  BY <1>0 DEF FilesWhole, Busy
<1>5. state.pc \notin {"idle", "create"} => row'.status \notin Downloaded
  BY <1>4 DEF DownloadEffect, Downloaded
<1>6. row'.status \in Downloaded => Whole(file')
  <2>1. CASE row' = row /\ (job[d].pc = "create" => file' = file)
    BY <1>0, <1>4, <2>1 DEF FilesWhole
  <2> QED
    BY <1>4, <2>1 DEF DownloadEffect, Downloaded
<1>7. \A e \in Downloader : /\ DownloadWhole(job'[e], file')
                            /\ job'[e].pc \notin {"idle", "create"} => row'.status \notin Downloaded
  BY <1>1, <1>5, IdleWhole DEF DownloadEffect, Job
<1> QED
  BY <1>0, <1>1, <1>2, <1>6, <1>7 DEF FilesWhole, DownloadEffect

LEMMA DownloadKeepsLoaded ==
  ASSUME TypeOK, NEW data, Loaded(data), NEW d \in Downloader, NEW state, DownloadEffect(d, state)
  PROVE  Loaded(data)'
<1>1. /\ d \in Job /\ d \notin Parser /\ job[d].rec.steps \cap data \subseteq applied
      /\ row.steps \cap data \subseteq applied
      /\ Become(d, state) /\ UNCHANGED <<admin, applied>>
  BY PipelineAssumption DEF Job, Loaded, DownloadEffect
<1>2. row'.steps \cap data \subseteq applied /\ state.rec.steps \cap data \subseteq applied
  BY <1>1 DEF DownloadEffect
<1> QED
  BY <1>1, <1>2, LoadedStays

LEMMA DownloadKeepsFlawless ==
  ASSUME RecordInv, Alone, FilesWhole, FlawlessRecord, NEW d \in Downloader, Busy(d),
         NEW state, DownloadEffect(d, state)
  PROVE  FlawlessRecord'
<1>0. /\ d \in Job /\ Become(d, state) /\ UNCHANGED admin /\ TypeOK /\ job[d].rec.steps = {}
  BY DEF Job, RecordInv, DownloadEffect, FlawlessRecord
<1>1. /\ admin.pc = "idle" /\ job'[d] = state
      /\ \A k \in Job \ {d} : job[k].pc = "idle" /\ job'[k] = job[k]
  BY <1>0, StaysAlone
<1>2. \A p \in Parser : job[p].pc = "idle" /\ job'[p].pc = "idle"
  BY <1>1, PipelineAssumption DEF Job
<1>3. row.status # "processing"
  BY <1>2 DEF FlawlessRecord, Working
<1>4. row'.steps = {} \/ row' = row
  BY <1>0 DEF DownloadEffect
<1>5. row'.status # "processing"
  BY <1>3 DEF DownloadEffect, Downloaded
<1>6. row'.status \notin {"processing", "completed"} => row'.steps = {}
  BY <1>4 DEF FlawlessRecord
<1>7. \A e \in Downloader : job'[e].rec.steps = {}
  BY <1>0, <1>1 DEF DownloadEffect, Job, FlawlessRecord
<1>8. \A p \in Parser : Follows(job'[p], row')
  BY <1>2 DEF Follows, Working
<1> QED
  BY <1>0, <1>1, <1>5, <1>6, <1>7, <1>8 DEF FlawlessRecord

\* A download starts when nothing else is at work.
LEMMA StartDownloadKeeps ==
  ASSUME LoadInv, Calm, Calm', NEW d \in Downloader, StartDownload(d)
  PROVE  CalmInv' /\ FlawlessInv'
<1>0. /\ d \in Job /\ d \notin Parser /\ TypeOK /\ Alone /\ FilesWhole /\ Loaded(Plain)
  BY PipelineAssumption DEF Job, LoadInv, CalmInv, RecordInv
<1> DEFINE fresh == [job[d] EXCEPT !.pc = "create"]
           copy == [Idle EXCEPT !.rec = row, !.pc = IF row.status = "failed" THEN "retry" ELSE "begin"]
<1>1. /\ fresh.pc = "create" /\ fresh.rec = job[d].rec
      /\ copy.pc \in {"retry", "begin"} /\ copy.rec = row /\ copy.pos = 1
  BY <1>0, JobType DEF Idle, JobState
<1>2. /\ UNCHANGED <<row, file, admin, applied>>
      /\ Become(d, fresh) \/ (row.status \in Downloadable /\ Become(d, copy))
      /\ Overlap(d) \subseteq incident' /\ incident \subseteq incident'
  BY DEF StartDownload, Goto, Report
<1> HIDE DEF fresh, copy
<1>3. PICK state :
        /\ Become(d, state)
        /\ DownloadWhole(state, file)
        /\ state.pc \notin {"idle", "create"} => row.status \notin Downloaded
        /\ \/ state.pc = "create" /\ state.rec = job[d].rec
           \/ state.rec = row /\ row.status \in Downloadable
  <2>1. DownloadWhole(fresh, file) /\ DownloadWhole(copy, file)
    BY <1>1, IdleWhole DEF DownloadWhole
  <2>2. row.status \in Downloadable => row.status \notin Downloaded
    BY DEF Downloadable, Downloaded
  <2> QED
    BY <1>1, <1>2, <2>1, <2>2
<1>4. Overlap(d) = {}
  BY <1>2 DEF Calm, Overlap
<1>5. /\ Alone' /\ admin.pc = "idle"
      /\ job'[d] = state
      /\ \A k \in Job \ {d} : job[k].pc = "idle" /\ job'[k] = job[k]
  BY <1>0, <1>2, <1>3, <1>4, StartsAlone
<1>6. FilesWhole'
  <2>1. \A p \in Parser : ~Busy(p)'
    BY <1>0, <1>5 DEF Busy, Job
  <2>2. \A e \in Downloader : /\ DownloadWhole(job'[e], file')
                              /\ job'[e].pc \notin {"idle", "create"} => row'.status \notin Downloaded
    BY <1>2, <1>3, <1>5, IdleWhole DEF Job
  <2> QED
    BY <1>0, <1>2, <2>1, <2>2 DEF FilesWhole
<1>7. \A data : Loaded(data) => Loaded(data)'
  <2> SUFFICES ASSUME NEW data, Loaded(data)
               PROVE  Loaded(data)'
    OBVIOUS
  <2>1. row'.steps \cap data \subseteq applied' /\ state.rec.steps \cap data \subseteq applied'
    BY <1>0, <1>2, <1>3 DEF Loaded
  <2> QED
    BY <1>0, <1>2, <1>3, <2>1, LoadedStays
<1>8. ASSUME incident' = {}
      PROVE  FlawlessRecord' /\ Loaded(DataStep)'
  <2>1. FlawlessRecord /\ Loaded(DataStep)
    BY <1>2, <1>8 DEF LoadInv, FlawlessInv
  <2>2. \A p \in Parser : job[p].pc = "idle" /\ job'[p] = job[p]
    BY <1>0, <1>5 DEF Job
  <2>3. row.status # "processing"
    BY <2>1, <2>2 DEF FlawlessRecord, Working
  <2>4. \A e \in Downloader : job'[e].rec.steps = {}
    <3>1. row.status \in Downloadable => row.steps = {}
      BY <2>1 DEF FlawlessRecord, Downloadable
    <3> QED
      BY <1>3, <1>5, <2>1, <3>1 DEF Busy, Job, FlawlessRecord
  <2> QED
    BY <1>2, <1>5, <1>7, <2>1, <2>2, <2>3, <2>4 DEF FlawlessRecord
<1> QED
  BY <1>0, <1>5, <1>6, <1>7, <1>8 DEF CalmInv, FlawlessInv


-----------------------------------------------------------------------------
(* Parsers.  One that works for last month's record leaves the month's row. *)

LEMMA ParserBusy ==
  ASSUME NEW p \in Parser, ProcessingStep(p)
  PROVE  /\ Busy(p) /\ UNCHANGED <<admin, file>>
         /\ job[p].pc \in {"claim", "check", "step", "commit", "steperror"}
<1>1. CASE RunStep(p)
  BY <1>1 DEF RunStep, Busy
<1>2. CASE ~RunStep(p)
  BY <1>2 DEF ProcessingStep, Claim, CheckFiles, SkipStep, CommitStep, StepError, Complete, Busy
<1> QED
  BY <1>1, <1>2

\* What one step of a parser can add to what is said to be completed.
Committing(state) ==
  IF state.pc = "commit" THEN {StepSeq[state.pos]} ELSE {}

\* What a step of parser p does: the row and the copy only say more if a step is
\* committed, and a step to commit is one that was just run.
ParserEffect(p, state) ==
  LET said == row.steps \cup job[p].rec.steps \cup Committing(job[p])
  IN /\ Become(p, state)
     /\ state = Idle \/ state.rec.id = job[p].rec.id
     /\ ThisMonths(job[p]) => row'.steps \subseteq said /\ state.rec.steps \subseteq said
     /\ ~ThisMonths(job[p]) => row' = row
     /\ ThisMonths(job[p]) => previous' = previous
     /\ row'.id = 0 => row.id = 0
     /\ state.pc = "commit" => RunStep(p) /\ state.pos = job[p].pos

LEMMA ParserEffects ==
  ASSUME TypeOK, NEW p \in Parser, ProcessingStep(p)
  PROVE  \E state : ParserEffect(p, state)
<1> DEFINE s == job[p]
           r == job[p].rec
<1>0. p \in Job /\ s \in JobState /\ r \in Record
  BY JobType DEF Job
<1>i. Idle.pc = "idle" /\ Idle.rec.steps = {}
  BY DEF Idle, NoRow
<1>1. ASSUME NEW state, Become(p, state), state.pc # "commit",
             state = Idle \/ state.rec.id = r.id,
             state.rec.steps \subseteq r.steps \cup Committing(s),
             \/ UNCHANGED <<row, previous>>
             \/ \E q : /\ Stores(q) \/ Refuses(q)
                       /\ q.id = r.id /\ q.steps \subseteq r.steps \cup Committing(s)
      PROVE  \E other : ParserEffect(p, other)
  <2>1. row'.steps \subseteq row.steps \cup r.steps \cup Committing(s)
    BY <1>1 DEF Stores, Refuses
  <2>2. /\ r.id = PreviousId => row' = row
        /\ r.id # PreviousId => previous' = previous
        /\ row'.id = 0 => row.id = 0
    BY <1>1 DEF Stores, Refuses
  <2>3. ParserEffect(p, state)
    BY <1>1, <2>1, <2>2 DEF ParserEffect, ThisMonths
  <2> QED
    BY <2>3
<1>2. CASE Claim(p)
  <2> DEFINE q == WithStatus(r, "processing")
             state == [[s EXCEPT !.pc = "check"] EXCEPT !.rec = q]
  <2>1. q.id = r.id /\ q.steps = r.steps /\ state.pc = "check" /\ state.rec = q
    BY <1>0 DEF WithStatus, Record, JobState
  <2> HIDE DEF q
  <2>2. \/ Stores(q) /\ Become(p, state)
        \/ Refuses(q) /\ Become(p, Idle)
    BY <1>2 DEF Claim, SaveOrStop, q
  <2> HIDE DEF state
  <2> QED
    BY <1>1, <1>i, <2>1, <2>2
<1>3. CASE CheckFiles(p)
  <2> DEFINE q == WithStatus(r, "failed")
             state == [s EXCEPT !.pc = "step"]
  <2>1. q.id = r.id /\ q.steps = r.steps /\ state.pc = "step" /\ state.rec = r
    BY <1>0 DEF WithStatus, Record, JobState
  <2> HIDE DEF q
  <2>2. \/ UNCHANGED <<row, previous>> /\ Become(p, state)
        \/ (Stores(q) \/ Refuses(q)) /\ Become(p, Idle)
    BY <1>3 DEF CheckFiles, SaveOrWarn, Goto, q
  <2> HIDE DEF state
  <2> QED
    BY <1>1, <1>i, <2>1, <2>2
<1>4. CASE SkipStep(p)
  <2> DEFINE state == [s EXCEPT !.pos = @ + 1]
  <2>1. state.pc = s.pc /\ state.rec = r
    BY <1>0 DEF JobState
  <2>2. s.pc = "step" /\ UNCHANGED <<row, previous>> /\ Become(p, state)
    BY <1>4 DEF SkipStep
  <2> HIDE DEF state
  <2> QED
    BY <1>1, <2>1, <2>2
<1>5. CASE RunStep(p)
  <2>1. PICK state : Become(p, state) /\ state.rec = r /\ state.pos = s.pos
    BY <1>0, <1>5, RunStepPlace
  <2>2. ParserEffect(p, state)
    BY <1>5, <2>1 DEF ParserEffect, RunStep
  <2> QED
    BY <2>2
<1>6. CASE CommitStep(p)
  <2> DEFINE q == [r EXCEPT !.steps = @ \cup {Current(p)}]
             state == [[s EXCEPT !.pc = "step", !.pos = @ + 1] EXCEPT !.rec = q]
  <2>1. /\ q.id = r.id /\ q.steps = r.steps \cup {StepSeq[s.pos]} /\ state.pc = "step" /\ state.rec = q
        /\ s.pc = "commit"
    BY <1>0, <1>6 DEF Record, JobState, Current, CommitStep
  <2> HIDE DEF q
  <2>2. \/ Stores(q) /\ Become(p, state)
        \/ Refuses(q) /\ Become(p, Idle)
    BY <1>6 DEF CommitStep, SaveOrStop, q
  <2> HIDE DEF state
  <2>3. q.steps \subseteq r.steps \cup Committing(s)
    BY <2>1 DEF Committing
  <2> QED
    BY <1>1, <1>i, <2>1, <2>2, <2>3
<1>7. CASE StepError(p)
  BY <1>1, <1>7, <1>i DEF StepError, SaveOrWarn
<1>8. CASE Complete(p)
  <2> DEFINE q == WithStatus(r, "completed")
  <2>1. q.id = r.id /\ q.steps = r.steps
    BY <1>0 DEF WithStatus, Record
  <2> HIDE DEF q
  <2>2. (Stores(q) \/ Refuses(q)) /\ Become(p, Idle)
    BY <1>8 DEF Complete, q
  <2> QED
    BY <1>1, <1>i, <2>1, <2>2
<1> QED
  BY <1>2, <1>3, <1>4, <1>5, <1>6, <1>7, <1>8 DEF ProcessingStep

LEMMA ParserKeepsCalm ==
  ASSUME TypeOK, Alone, FilesWhole, NEW p \in Parser, ProcessingStep(p)
  PROVE  Alone' /\ FilesWhole'
<1>0. p \in Job /\ p \notin Downloader /\ Busy(p) /\ UNCHANGED <<admin, file>>
  BY ParserBusy, PipelineAssumption DEF Job
<1>1. PICK state : ParserEffect(p, state)
  BY ParserEffects
<1>2. /\ Alone' /\ admin.pc = "idle" /\ job'[p] = state
      /\ \A k \in Job \ {p} : job[k].pc = "idle" /\ job'[k] = job[k]
  BY <1>0, <1>1, StaysAlone DEF ParserEffect
<1>3. \A d \in Downloader : job'[d].pc = "idle"
  BY <1>0, <1>2 DEF Job
<1>4. CASE ThisMonths(job[p])
  <2>1. Whole(file)
    BY <1>0, <1>4 DEF FilesWhole
  <2> QED
    BY <1>0, <1>2, <1>3, <2>1, IdleWhole DEF FilesWhole
<1>5. CASE ~ThisMonths(job[p])
  <2>1. row' = row /\ (state.pc = "idle" \/ state.rec.id = PreviousId)
    BY <1>1, <1>5 DEF ParserEffect, ThisMonths, Idle
  <2>2. \A q \in Parser : ~(job'[q].pc # "idle" /\ job'[q].rec.id # PreviousId)
    BY <1>0, <1>2, <2>1 DEF Job
  <2> QED
    BY <1>0, <1>2, <1>3, <2>1, <2>2, IdleWhole DEF FilesWhole, Busy, ThisMonths
<1> QED
  BY <1>4, <1>5

LEMMA ParserKeepsLoaded ==
  ASSUME TypeOK, NEW data, Loaded(data), NEW p \in Parser, ProcessingStep(p),
         applied \subseteq applied',
         RunStep(p) /\ ThisMonths(job[p]) /\ job'[p].pc = "commit" /\ Current(p) \in data => Current(p) \in applied'
  PROVE  Loaded(data)'
<1>0. p \in Job /\ UNCHANGED admin
  BY ParserBusy DEF Job
<1>1. PICK state : ParserEffect(p, state)
  BY ParserEffects
<1>2. job'[p] = state
  BY <1>0, <1>1 DEF ParserEffect, Become, TypeOK
<1>3. ThisMonths(job[p]) => Committing(job[p]) \cap data \subseteq applied
  BY DEF Loaded, Committing, Current
<1>i. Idle.pc = "idle" /\ Idle.rec.steps = {}
  BY DEF Idle, NoRow
<1>6. p \notin Downloader /\ (ThisMonths(state) => state = Idle \/ ThisMonths(job[p]))
  BY <1>1, PipelineAssumption DEF ParserEffect, ThisMonths
<1>4. /\ row'.steps \cap data \subseteq applied'
      /\ ThisMonths(state) => state.rec.steps \cap data \subseteq applied'
  <2>1. CASE ThisMonths(job[p])
    BY <1>0, <1>1, <1>3, <2>1 DEF Loaded, ParserEffect
  <2>2. CASE ~ThisMonths(job[p])
    BY <1>1, <1>6, <1>i, <2>2 DEF Loaded, ParserEffect
  <2> QED
    BY <2>1, <2>2
<1>5. ThisMonths(state) /\ state.pc = "commit" /\ StepSeq[state.pos] \in data => StepSeq[state.pos] \in applied'
  BY <1>1, <1>2, <1>6, <1>i DEF ParserEffect, Current
<1> QED
  BY <1>0, <1>1, <1>4, <1>5, <1>6, LoadedStays DEF ParserEffect

\* A step that reads whole files is loaded, unless a batch fails; an association also
\* needs the genres of its source.
LEMMA RunApplies ==
  ASSUME TypeOK, FilesWhole, NEW p \in Parser, RunStep(p), ThisMonths(job[p]),
         "batch" \notin incident',
         Current(p) \in DataStep,
         Associates(Current(p)) => Source(Current(p)) \in job[p].ids
  PROVE  Current(p) \in applied'
<1> DEFINE s == Current(p)
           content == IF Source(s) = "none" THEN "none" ELSE file[Source(s)]
<1>1. Whole(file)
  BY DEF FilesWhole, RunStep, Busy
<1>2. s \in Step /\ ~Collects(s) /\ ~Upserts(s)
  BY DEF DataStep
<1>3. content \in {"none", "good"}
  BY <1>1, <1>2, WholeFiles, PipelineAssumption DEF Source
<1>4. Reading(content) = {"all"}
  BY <1>3 DEF Reading
<1>5. applied' = applied \cup {s} \/ Report({"batch"})
  BY <1>2, <1>4 DEF RunStep
<1> QED
  BY <1>5 DEF Report


\* What the genre manager knows after a step, from what it knew before.
LEMMA KnownAfter ==
  ASSUME NEW old \in JobState, NEW new, old.pc = "step", new.pc = "commit", new.pos = old.pos,
         old.pos \in DOMAIN StepSeq, GenresKnown(old),
         LET s == StepSeq[old.pos]
             reset == s = "release_genres_collection"
         IN \/ /\ Collects(s)
               /\ new.names = IF reset THEN {Source(s)} ELSE old.names \cup {Source(s)}
               /\ new.ids = IF reset THEN {} ELSE old.ids
            \/ /\ Upserts(s) /\ new.names = old.names
               /\ old.names = {} \/ old.names \subseteq new.ids
            \/ ~Collects(s) /\ ~Upserts(s) /\ new.names = old.names /\ new.ids = old.ids
  PROVE  GenresKnown(new)
<1> DEFINE n == old.pos
           s == StepSeq[n]
<1>0. n \in Nat \ {0} /\ Executed(old) = n - 1 /\ Executed(new) = n
  BY DEF JobState, Executed
<1>d. \A i \in DOMAIN StepSeq : i \in Nat \ {0}
  BY PipelineAssumption
<1> SUFFICES ASSUME NEW c \in DOMAIN StepSeq, CollectedIn(StepSeq, c, n)
             PROVE  /\ Source(StepSeq[c]) \in new.names
                    /\ (\E u \in c + 1 .. n : Upserts(StepSeq[u])) => Source(StepSeq[c]) \in new.ids
  BY <1>0 DEF GenresKnown
<1>1. CASE c = n
  <2>1. Collects(s) /\ ~Upserts(s)
    BY <1>1 DEF CollectedIn, Collects, Upserts
  <2>2. c + 1 .. n = {}
    BY <1>0, <1>1
  <2> QED
    BY <1>1, <2>1, <2>2
<1>2. CASE c # n
  <2>1. c \in 1 .. n - 1 /\ n \in c + 1 .. n
    BY <1>0, <1>d, <1>2 DEF CollectedIn
  <2>2. s # "release_genres_collection"
    BY <2>1 DEF CollectedIn
  <2>3. CollectedIn(StepSeq, c, n - 1)
    <3>1. \A k \in c + 1 .. n - 1 : k \in c + 1 .. n
      BY <1>0, <2>1
    <3> QED
      BY <2>1, <3>1 DEF CollectedIn
  <2>4. /\ Source(StepSeq[c]) \in old.names
        /\ (\E u \in c + 1 .. n - 1 : Upserts(StepSeq[u])) => Source(StepSeq[c]) \in old.ids
    BY <1>0, <2>3 DEF GenresKnown
  <2>5. Source(StepSeq[c]) \in new.names
    BY <2>2, <2>4
  <2>6. CASE Upserts(s)
    <3>1. ~Collects(s)
      BY <2>6 DEF Upserts, Collects
    <3> QED
      BY <2>4, <2>5, <2>6, <3>1
  <2>7. CASE ~Upserts(s)
    <3>1. \A u \in c + 1 .. n : u \in c + 1 .. n - 1 \/ u = n
      BY <1>0, <2>1
    <3>2. (\E u \in c + 1 .. n : Upserts(StepSeq[u])) => \E u \in c + 1 .. n - 1 : Upserts(StepSeq[u])
      BY <2>7, <3>1
    <3> QED
      BY <2>2, <2>4, <2>5, <2>7, <3>2
  <2> QED
    BY <2>6, <2>7
<1> QED
  BY <1>1, <1>2

\* When a parser comes to an association, it knows the ids of its source's genres.
LEMMA GenresFirst ==
  ASSUME NEW state \in JobState, state.pc = "step", state.pos \in DOMAIN StepSeq, GenresKnown(state),
         Associates(StepSeq[state.pos])
  PROVE  Source(StepSeq[state.pos]) \in state.ids
<1>1. PICK c \in DOMAIN StepSeq :
        /\ CollectedIn(StepSeq, c, state.pos - 1) /\ Source(StepSeq[c]) = Source(StepSeq[state.pos])
        /\ \E u \in c + 1 .. state.pos - 1 : Upserts(StepSeq[u])
  BY StepOrderAssumption DEF InOrder
<1>2. Executed(state) = state.pos - 1
  BY DEF Executed
<1> QED
  BY <1>1, <1>2 DEF GenresKnown

\* A step run on whole files by a parser, when nothing goes wrong.
LEMMA FlawlessRun ==
  ASSUME TypeOK, FilesWhole, NEW p \in Parser, RunStep(p), ThisMonths(job[p]), incident' = {},
         GenresKnown(job[p])
  PROVE  \E state : /\ Become(p, state) /\ state.pc = "commit" /\ GenresKnown(state)
                    /\ state.rec = job[p].rec /\ state.pos = job[p].pos
<1> DEFINE old == job[p]
           s == Current(p)
           content == IF Source(s) = "none" THEN "none" ELSE file[Source(s)]
           reset == s = "release_genres_collection"
<1>0. /\ p \in Job /\ old \in JobState /\ old.pc = "step"
      /\ old.pos \in DOMAIN StepSeq /\ StepSeq[old.pos] \in Step /\ s = StepSeq[old.pos]
  BY JobType, CurrentPlace DEF Job, RunStep, Current
<1>1. Reading(content) = {"all"}
  <2>1. Whole(file)
    BY DEF FilesWhole, RunStep, Busy
  <2>2. content \in {"none", "good"}
    BY <1>0, <2>1, WholeFiles, PipelineAssumption DEF Source
  <2> QED
    BY <2>2 DEF Reading
<1>2. ~Report({"database"}) /\ ~Report({"batch"})
  BY DEF Report
<1>3. CASE Collects(s)
  <2> DEFINE names == IF reset THEN {Source(s)} ELSE old.names \cup {Source(s)}
             ids == IF reset THEN {} ELSE old.ids
             state == [old EXCEPT !.pc = "commit", !.names = names, !.ids = ids]
  <2>1. ~Upserts(s)
    BY <1>3 DEF Upserts, Collects
  <2>2. CollectGenres(p, "all")
    BY <1>1, <1>3, <2>1 DEF RunStep
  <2>3. Become(p, state)
    BY <2>2 DEF CollectGenres
  <2>4. /\ state.pc = "commit" /\ state.pos = old.pos /\ state.rec = old.rec
        /\ state.names = names /\ state.ids = ids
    BY <1>0 DEF JobState
  <2> HIDE DEF state
  <2>5. GenresKnown(state)
    BY <1>0, <1>3, <2>4, KnownAfter
  <2> QED
    BY <2>3, <2>4, <2>5
<1>4. CASE Upserts(s)
  <2> DEFINE same == [old EXCEPT !.pc = "commit"]
             state == [old EXCEPT !.pc = "commit", !.ids = genres']
  <2>1. ~Collects(s)
    BY <1>4 DEF Upserts, Collects
  <2>2. UpsertGenres(p)
    BY <1>1, <1>2, <1>4, <2>1 DEF RunStep
  <2>3. /\ same.pc = "commit" /\ same.pos = old.pos /\ same.rec = old.rec /\ same.names = old.names
        /\ state.pc = "commit" /\ state.pos = old.pos /\ state.rec = old.rec /\ state.names = old.names
        /\ state.ids = genres'
    BY <1>0 DEF JobState
  <2>4. \/ old.names = {} /\ Become(p, same)
        \/ old.names \subseteq genres' /\ Become(p, state)
    BY <2>2 DEF UpsertGenres, Goto
  <2> HIDE DEF same, state
  <2>5. CASE old.names = {} /\ Become(p, same)
    <3>1. GenresKnown(same)
      BY <1>0, <1>4, <2>3, <2>5, KnownAfter
    <3> QED
      BY <2>3, <2>5, <3>1
  <2>6. CASE old.names \subseteq genres' /\ Become(p, state)
    <3>1. GenresKnown(state)
      BY <1>0, <1>4, <2>3, <2>6, KnownAfter
    <3> QED
      BY <2>3, <2>6, <3>1
  <2> QED
    BY <2>4, <2>5, <2>6
<1>5. CASE ~Collects(s) /\ ~Upserts(s)
  <2> DEFINE state == [old EXCEPT !.pc = "commit"]
  <2>1. Become(p, state)
    BY <1>1, <1>5 DEF RunStep, Goto
  <2>2. /\ state.pc = "commit" /\ state.pos = old.pos /\ state.rec = old.rec
        /\ state.names = old.names /\ state.ids = old.ids
    BY <1>0 DEF JobState
  <2> HIDE DEF state
  <2>3. GenresKnown(state)
    BY <1>0, <1>5, <2>2, KnownAfter
  <2> QED
    BY <2>1, <2>2, <2>3
<1> QED
  BY <1>3, <1>4, <1>5

LEMMA ParserKeepsFlawless ==
  ASSUME RecordInv, Alone, FilesWhole, FlawlessRecord, incident = {}, incident' = {},
         NEW p \in Parser, ProcessingStep(p), ThisMonths(job[p]), Ids'
  PROVE  FlawlessRecord'
<1> DEFINE s == job[p]
           r == job[p].rec
<1>0. /\ p \in Job /\ p \notin Downloader /\ Busy(p) /\ UNCHANGED <<admin, file>>
      /\ s \in JobState /\ row \in Record /\ ProcessingCopy(s) /\ TypeOK /\ s.pos \in Nat \ {0}
  BY ParserBusy, JobType, PipelineAssumption DEF Job, RecordInv, Copies, TypeOK, JobState
<1>f. /\ Follows(s, row) /\ r = row /\ row.id # 0
      /\ s.pc \in {"claim"} \cup Working /\ row.steps = {StepSeq[i] : i \in 1 .. s.pos - 1}
  BY <1>0 DEF FlawlessRecord, Follows, Busy
<1>i. Idle.pc = "idle" /\ Follows(Idle, row')
  BY DEF Idle, Follows, Working
\* The row and the parser go on together.
<1>1. ASSUME NEW state, Become(p, state), Follows(state, row'),
             row'.status = "processing" => state.pc \in Working,
             row'.status \notin {"processing", "completed"} => row'.steps = {}
      PROVE  FlawlessRecord'
  <2>1. /\ job'[p] = state
        /\ \A k \in Job \ {p} : job[k].pc = "idle" /\ job'[k] = job[k]
    BY <1>0, <1>1, StaysAlone
  <2>2. \A k \in Parser : Follows(job'[k], row')
    BY <1>1, <2>1 DEF Follows, Working, Job
  <2>4. row'.status = "processing" => job'[p].pc \in Working /\ job'[p].rec.id # PreviousId
    BY <1>1, <2>1 DEF Follows, Working, Ids
  <2>3. \A d \in Downloader : job'[d].rec.steps = {}
    BY <1>0, <2>1 DEF FlawlessRecord, Job
  <2> QED
    BY <1>0, <1>1, <2>1, <2>2, <2>3, <2>4 DEF FlawlessRecord, ThisMonths
\* Every save is stored.
<1>2. ASSUME NEW q, q.id = row.id, Stores(q) \/ Refuses(q)
      PROVE  row' = q
  BY <1>2 DEF Stores, Refuses, Report, RecordInv, Ids
<1>3. CASE Claim(p)
  <2> DEFINE q == WithStatus(r, "processing")
             state == [[s EXCEPT !.pc = "check"] EXCEPT !.rec = q]
  <2>1. /\ q.steps = row.steps /\ q.id = row.id /\ q.status = "processing"
        /\ state.pc = "check" /\ state.rec = q /\ state.pos = s.pos
    BY <1>0, <1>f DEF WithStatus, Record, JobState
  <2> HIDE DEF q
  <2>2. \/ Stores(q) /\ Become(p, state)
        \/ Refuses(q) /\ Become(p, Idle)
    BY <1>3 DEF Claim, SaveOrStop, q
  <2> HIDE DEF state
  <2>3. row' = q /\ Become(p, state)
    BY <1>0, <1>2, <1>f, <2>1, <2>2 DEF Refuses, Report
  <2>4. Follows(state, row')
    BY <1>f, <2>1, <2>3 DEF Follows, Working
  <2> QED
    BY <1>1, <2>1, <2>3, <2>4 DEF Working
<1>4. CASE CheckFiles(p)
  <2>1. s.pos = 1 /\ row.steps = {} /\ r.status = "processing"
    BY <1>0, <1>4, <1>f DEF CheckFiles, ProcessingCopy
  <2> DEFINE q == WithStatus(r, "failed")
             state == [s EXCEPT !.pc = "step"]
  <2>2. /\ q.steps = row.steps /\ q.id = row.id /\ q.status = "failed"
        /\ state.pc = "step" /\ state.rec = r /\ state.pos = s.pos
    BY <1>0, <1>f DEF WithStatus, Record, JobState
  <2> HIDE DEF q
  <2>3. \/ row' = row /\ Become(p, state)
        \/ (Stores(q) \/ Refuses(q)) /\ Become(p, Idle)
    BY <1>4 DEF CheckFiles, SaveOrWarn, Goto, q
  <2> HIDE DEF state
  <2>4. CASE row' = row /\ Become(p, state)
    <3>1. GenresKnown(state)
      BY <2>1, <2>2 DEF GenresKnown, Executed, CollectedIn
    <3>2. Follows(state, row')
      BY <1>f, <2>2, <2>4, <3>1 DEF Follows, Working
    <3> QED
      BY <1>1, <2>1, <2>2, <2>4, <3>2 DEF Working
  <2>5. CASE (Stores(q) \/ Refuses(q)) /\ Become(p, Idle)
    BY <1>1, <1>2, <1>i, <2>1, <2>2, <2>5
  <2> QED
    BY <2>3, <2>4, <2>5
<1>5. CASE SkipStep(p)
  <2>1. s.pos \in DOMAIN StepSeq /\ StepSeq[s.pos] \in row.steps
    BY <1>0, <1>5, <1>f, CurrentPlace DEF SkipStep, Current
  <2>2. PICK i \in 1 .. s.pos - 1 : StepSeq[s.pos] = StepSeq[i]
    BY <1>f, <2>1
  <2>3. i \in DOMAIN StepSeq /\ i # s.pos
    BY <1>0, <2>1, PipelineAssumption
  <2> QED
    BY <2>1, <2>2, <2>3, StepOrderAssumption DEF InOrder
<1>6. CASE RunStep(p)
  <2>1. s.pc = "step" /\ row.status = "processing" /\ row' = row /\ GenresKnown(s)
    BY <1>0, <1>6, <1>f DEF RunStep, ProcessingCopy, Follows
  <2>2. PICK state : /\ Become(p, state) /\ state.pc = "commit" /\ GenresKnown(state)
                     /\ state.rec = r /\ state.pos = s.pos
    BY <1>0, <1>6, <2>1, FlawlessRun
  <2>3. Follows(state, row')
    BY <1>f, <2>1, <2>2 DEF Follows, Working
  <2> QED
    BY <1>1, <2>1, <2>2, <2>3 DEF Working
<1>7. CASE CommitStep(p)
  <2> DEFINE q == [r EXCEPT !.steps = @ \cup {Current(p)}]
             state == [[s EXCEPT !.pc = "step", !.pos = @ + 1] EXCEPT !.rec = q]
  <2>1. s.pc = "commit" /\ row.status = "processing" /\ GenresKnown(s)
    BY <1>0, <1>7, <1>f DEF CommitStep, ProcessingCopy, Follows
  <2>2. /\ q.steps = row.steps \cup {StepSeq[s.pos]} /\ q.id = row.id /\ q.status = "processing"
        /\ state.pc = "step" /\ state.rec = q /\ state.pos = s.pos + 1
        /\ state.names = s.names /\ state.ids = s.ids
    BY <1>0, <1>f, <2>1 DEF Record, JobState, Current
  <2> HIDE DEF q
  <2>3. \/ Stores(q) /\ Become(p, state)
        \/ Refuses(q) /\ Become(p, Idle)
    BY <1>7 DEF CommitStep, SaveOrStop, q
  <2> HIDE DEF state
  <2>4. row' = q /\ Become(p, state)
    BY <1>0, <1>2, <1>f, <2>2, <2>3 DEF Refuses, Report
  <2>5. q.steps = {StepSeq[i] : i \in 1 .. state.pos - 1}
    <3>1. \A i : i \in 1 .. state.pos - 1 <=> i \in 1 .. s.pos - 1 \/ i = s.pos
      BY <1>0, <2>2
    <3> HIDE DEF s
    <3> QED
      BY <1>f, <2>2, <3>1
  <2>6. GenresKnown(state)
    <3>1. Executed(state) = Executed(s)
      BY <1>0, <2>1, <2>2 DEF Executed
    <3> QED
      BY <2>1, <2>2, <3>1 DEF GenresKnown
  <2>7. Follows(state, row')
    BY <1>f, <2>2, <2>4, <2>5, <2>6 DEF Follows, Working
  <2> QED
    BY <1>1, <2>2, <2>4, <2>7 DEF Working
<1>8. CASE StepError(p)
  BY <1>8, <1>f DEF StepError, Working
<1>9. CASE Complete(p)
  <2> DEFINE q == WithStatus(r, "completed")
  <2>1. q.id = row.id /\ q.status = "completed"
    BY <1>0, <1>f DEF WithStatus, Record
  <2> HIDE DEF q
  <2>2. (Stores(q) \/ Refuses(q)) /\ Become(p, Idle)
    BY <1>9 DEF Complete, q
  <2> QED
    BY <1>1, <1>2, <1>i, <2>1, <2>2
<1> QED
  BY <1>3, <1>4, <1>5, <1>6, <1>7, <1>8, <1>9 DEF ProcessingStep


\* A parser that works for last month's record is alone, and leaves the month's.
LEMMA OtherParserKeepsFlawless ==
  ASSUME RecordInv, Alone, FlawlessRecord, NEW p \in Parser, ProcessingStep(p), ~ThisMonths(job[p])
  PROVE  FlawlessRecord'
<1>0. /\ p \in Job /\ p \notin Downloader /\ Busy(p) /\ UNCHANGED <<admin, file>> /\ TypeOK
  BY ParserBusy, PipelineAssumption DEF Job, RecordInv
<1>1. PICK state : ParserEffect(p, state)
  BY <1>0, ParserEffects
<1>2. /\ job'[p] = state /\ row' = row
      /\ \A k \in Job \ {p} : job[k].pc = "idle" /\ job'[k] = job[k]
  BY <1>0, <1>1, StaysAlone DEF ParserEffect
<1>3. row.status # "processing"
  BY <1>2 DEF FlawlessRecord, Working, Job
<1>4. state.pc = "idle" \/ ~ThisMonths(state)
  BY <1>1 DEF ParserEffect, ThisMonths, Idle
<1>5. \A k \in Parser : job'[k].rec.id # PreviousId => Follows(job'[k], row')
  BY <1>2, <1>4 DEF Follows, Working, ThisMonths, Job
<1>6. \A d \in Downloader : job'[d].rec.steps = {}
  BY <1>0, <1>2 DEF FlawlessRecord, Job
<1> QED
  BY <1>0, <1>2, <1>3, <1>5, <1>6 DEF FlawlessRecord, ThisMonths

\* A parser starts when nothing else is at work, on files that are whole if it is for this
\* month's record.
LEMMA StartProcessingKeeps ==
  ASSUME LoadInv, Calm, Calm', NEW p \in Parser, StartProcessing(p)
  PROVE  CalmInv' /\ FlawlessInv'
<1>0. /\ p \in Job /\ p \notin Downloader /\ TypeOK /\ FilesWhole /\ Loaded(Plain)
  BY PipelineAssumption DEF Job, LoadInv, CalmInv, RecordInv
<1> DEFINE state == [Idle EXCEPT !.rec = Latest,
                                 !.pc = IF Latest.status = "processing" THEN "check" ELSE "claim"]
<1>1. /\ state.pc = (IF Latest.status = "processing" THEN "check" ELSE "claim")
      /\ state.rec = Latest /\ state.pos = 1
  BY DEF Idle
<1>2. /\ UNCHANGED <<row, file, admin, applied>> /\ Become(p, state)
      /\ Latest.status \in Processable
      /\ Overlap(p) \subseteq incident' /\ incident \subseteq incident'
  BY DEF StartProcessing, Report
<1> HIDE DEF state
<1>m. ThisMonths(state) => Latest = row /\ row.id # 0
  BY <1>1, <1>2 DEF Latest, ThisMonths, LoadInv, RecordInv, Ids, Processable, NoRow
<1>3. Overlap(p) = {}
  BY <1>2 DEF Calm, Overlap
<1>4. /\ Alone' /\ admin.pc = "idle"
      /\ job'[p] = state
      /\ \A k \in Job \ {p} : job[k].pc = "idle" /\ job'[k] = job[k]
  BY <1>0, <1>2, <1>3, StartsAlone
<1>5. FilesWhole'
  <2>1. ThisMonths(state) => Whole(file)
    BY <1>0, <1>2, <1>m DEF FilesWhole, Processable, Downloaded
  <2>2. \A d \in Downloader : job'[d].pc = "idle"
    BY <1>0, <1>4 DEF Job
  <2>3. \A q \in Parser : job'[q].pc # "idle" /\ job'[q].rec.id # PreviousId => Whole(file)
    BY <1>4, <2>1 DEF Job, ThisMonths
  <2> QED
    BY <1>0, <1>2, <1>4, <2>2, <2>3, IdleWhole DEF FilesWhole, Busy, ThisMonths
<1>6. \A data : Loaded(data) => Loaded(data)'
  <2> SUFFICES ASSUME NEW data, Loaded(data)
               PROVE  Loaded(data)'
    OBVIOUS
  <2>1. /\ row'.steps \cap data \subseteq applied'
        /\ ThisMonths(state) => state.rec.steps \cap data \subseteq applied'
    BY <1>1, <1>2, <1>m DEF Loaded
  <2> QED
    BY <1>0, <1>1, <1>2, <2>1, LoadedStays
<1>7. ASSUME incident' = {}
      PROVE  FlawlessRecord' /\ Loaded(DataStep)'
  <2>1. FlawlessRecord /\ Loaded(DataStep)
    BY <1>2, <1>7 DEF LoadInv, FlawlessInv
  <2>2. row.status # "processing"
  \* Another parser would be at work, or this one.
    BY <1>4, <2>1 DEF FlawlessRecord, Working, StartProcessing, Busy, Job
  <2>3. ThisMonths(state) => row.status = "ready_for_processing" /\ row.steps = {}
    BY <1>2, <1>m, <2>1, <2>2 DEF FlawlessRecord, Processable
  <2>4. ThisMonths(state) => Follows(state, row)
    BY <1>1, <1>2, <1>m, <2>2, <2>3 DEF Follows, Working
  <2>5. \A k \in Parser : job'[k].rec.id # PreviousId => Follows(job'[k], row')
    BY <1>2, <1>4, <2>1, <2>4 DEF Job, FlawlessRecord, ThisMonths
  <2>6. \A d \in Downloader : job'[d].rec.steps = {}
    BY <1>0, <1>4, <2>1 DEF FlawlessRecord, Job
  <2> QED
    BY <1>2, <1>6, <2>1, <2>2, <2>5, <2>6 DEF FlawlessRecord, ThisMonths
<1> QED
  BY <1>0, <1>4, <1>5, <1>6, <1>7 DEF CalmInv, FlawlessInv

-----------------------------------------------------------------------------
(* Administrators, removals and crashes *)

\* A request that reports no overlap is made when no job is at work.
LEMMA RequestAlone ==
  ASSUME LoadInv, Calm, Calm', UNCHANGED <<row, file, job, applied>>,
         Concurrent \subseteq incident', incident \subseteq incident',
         admin'.rec.steps \subseteq row.steps,
         admin'.pc = "save" /\ admin'.rec.id # PreviousId => Whole(file),
         admin'.pc \in {"clean", "save"} => admin'.rec.steps = {}
  PROVE  CalmInv' /\ FlawlessInv'
<1>0. FilesWhole /\ Loaded(Plain) /\ \A j \in Job : ~Busy(j)
  BY DEF LoadInv, CalmInv, Calm, Concurrent
<1>1. Alone' /\ FilesWhole'
  <2>1. Alone'
    BY <1>0 DEF Alone, Busy
  <2>2. FilesWhole'
    BY <1>0 DEF FilesWhole, Busy, ThisMonths
  <2> QED
    BY <2>1, <2>2
<1>2. \A data : Loaded(data) => Loaded(data)'
  BY DEF Loaded, Current
<1>3. incident' = {} => FlawlessRecord' /\ Loaded(DataStep)'
  BY <1>2 DEF LoadInv, FlawlessInv, FlawlessRecord
<1> QED
  BY <1>0, <1>1, <1>2, <1>3 DEF CalmInv, FlawlessInv

\* A step of a request changes the row alone.
LEMMA AdminStepKeeps ==
  ASSUME LoadInv, Calm, Calm', UNCHANGED <<file, job, applied>>, admin.pc # "idle",
         incident \subseteq incident',
         row'.steps \subseteq row.steps \cup admin.rec.steps,
         row'.status \in Downloaded => Whole(file),
         row' = row \/ row'.status \notin {"processing", "completed"},
         incident = {} /\ row' # row => row'.steps = {},
         admin'.pc \in {"idle", "create"} /\ admin'.rec.steps = {}
  PROVE  CalmInv' /\ FlawlessInv'
<1>0. FilesWhole /\ Loaded(Plain) /\ Alone /\ \A j \in Job : job[j].pc = "idle"
  BY DEF LoadInv, CalmInv, Alone, Busy
<1>1. Alone'
  BY <1>0 DEF Alone, Busy
<1>2. FilesWhole'
  <2>1. \A d \in Downloader : job[d].pc = "idle"
    BY <1>0 DEF Job
  <2> QED
    BY <1>0, <2>1 DEF FilesWhole, Busy
<1>3. \A data : Loaded(data) => Loaded(data)'
  BY DEF Loaded, Current
<1>4. ASSUME incident' = {}
      PROVE  FlawlessRecord' /\ Loaded(DataStep)'
  <2>1. FlawlessRecord /\ Loaded(DataStep) /\ incident = {}
    BY <1>4 DEF LoadInv, FlawlessInv
  <2>2. \A p \in Parser : Follows(job[p], row')
    BY <1>0 DEF Follows, Working, Job
  <2> QED
    BY <1>0, <1>3, <2>1, <2>2 DEF FlawlessRecord
<1> QED
  BY <1>0, <1>1, <1>2, <1>3, <1>4 DEF CalmInv, FlawlessInv

LEMMA AdminKeepsLoad ==
  ASSUME LoadInv, Calm, Calm', incident \subseteq incident',
         RequestDownload \/ RequestReprocess \/ RequestReset \/ AdminStep \/ CleanupFiles \/ Crash
  PROVE  CalmInv' /\ FlawlessInv'
<1>0. TypeOK /\ row \in Record /\ admin.rec \in Record /\ AdminCopy
  BY DEF LoadInv, RecordInv, TypeOK, Copies
<1>1. CASE RequestDownload
  <2>1. /\ UNCHANGED <<row, file, job, applied>> /\ Concurrent \subseteq incident'
        /\ admin'.pc \in {"create", "delete"} /\ admin'.rec \in {NoRow, row}
    BY <1>1 DEF RequestDownload, Report
  <2> QED
    BY <2>1, RequestAlone DEF NoRow
<1>2. CASE RequestReprocess
  <2> DEFINE r == [Latest EXCEPT !.status = "ready_for_processing", !.steps = {}]
  <2>1. r.steps = {} /\ r.id = Latest.id
    BY <1>0, LatestType DEF Record
  <2>2. /\ UNCHANGED <<row, file, job, applied>> /\ admin' = [pc |-> "save", rec |-> r]
        /\ Concurrent \subseteq incident' /\ (row.id # 0 => Undownloaded \subseteq incident')
        /\ Latest.status # "none"
    BY <1>2 DEF RequestReprocess, Report
  <2>4. r.id # PreviousId => row.id # 0
    BY <2>1, <2>2 DEF Latest, LoadInv, RecordInv, Ids, NoRow
  <2>3. r.id # PreviousId => Whole(file)
    <3> SUFFICES ASSUME r.id # PreviousId
                 PROVE  Whole(file)
      OBVIOUS
    <3>1. \A f \in File : file[f] \notin {"absent", "partial"}
      BY <2>2, <2>4 DEF Undownloaded, Calm
    <3>2. \A f \in File : file[f] # "bad" /\ file[f] \in {"absent", "partial", "good", "bad"}
      BY <1>0 DEF LoadInv, CalmInv, FilesWhole, TypeOK
    <3> QED
      BY <3>1, <3>2, WholeFiles
  <2> HIDE DEF r
  <2> QED
    BY <2>1, <2>2, <2>3, RequestAlone DEF ThisMonths
<1>3. CASE RequestReset
  <2> DEFINE r == [row EXCEPT !.status = "not_started", !.steps = {}]
  <2>1. r.steps = {}
    BY <1>0 DEF Record
  <2>2. /\ UNCHANGED <<row, file, job, applied>> /\ admin' = [pc |-> "clean", rec |-> r]
        /\ Concurrent \subseteq incident'
    BY <1>3 DEF RequestReset, Report
  <2> HIDE DEF r
  <2> QED
    BY <2>1, <2>2, RequestAlone
\* Files that are removed are reported.
<1>4. ASSUME RemoveFiles \/ \E gone \in SUBSET File : RemoveSomeFiles(gone)
      PROVE  FALSE
  BY <1>4 DEF RemoveFiles, RemoveSomeFiles, Report, Calm
<1>5. CASE DeleteRecord
  <2>1. /\ UNCHANGED <<file, job, applied>> /\ admin.pc # "idle"
        /\ admin'.pc \in {"idle", "create"} /\ admin'.rec = NoRow
        /\ row' = row \/ row' = NoRow
    BY <1>5 DEF DeleteRecord, AdminIdle
  <2>2. NoRow.steps = {} /\ NoRow.status = "none"
    BY DEF NoRow
  <2>3. row.status \in Downloaded => Whole(file)
    BY DEF LoadInv, CalmInv, FilesWhole
  <2> HIDE DEF NoRow
  <2> QED
    BY <2>1, <2>2, <2>3, AdminStepKeeps DEF Downloaded
<1>6. CASE RecreateRecord
  <2>1. /\ UNCHANGED <<file, job, applied>> /\ admin.pc # "idle"
        /\ admin'.pc = "idle" /\ admin'.rec.steps = {}
        /\ row' = row \/ (row'.status = "not_started" /\ row'.steps = {})
    BY <1>6 DEF RecreateRecord, AdminIdle, NoRow, Inserts, RefusesInsert
  <2>2. row.status \in Downloaded => Whole(file)
    BY DEF LoadInv, CalmInv, FilesWhole
  <2> QED
    BY <2>1, <2>2, AdminStepKeeps DEF Downloaded
<1>7. CASE SaveRequested
  <2>1. /\ UNCHANGED <<file, job, applied>> /\ admin.pc = "save"
        /\ admin'.pc = "idle" /\ admin'.rec.steps = {}
        /\ row' = row \/ (row' = admin.rec /\ ThisMonths(admin))
    BY <1>7 DEF SaveRequested, AdminIdle, NoRow, Stores, Refuses, ThisMonths
  <2>2. /\ row.status \in Downloaded => Whole(file)
        /\ admin.rec.status = "ready_for_processing" /\ ThisMonths(admin) => Whole(file)
        /\ admin.rec.status \in {"ready_for_processing", "not_started"}
    BY <1>0, <2>1 DEF LoadInv, CalmInv, FilesWhole, AdminCopy
  <2> QED
    BY <2>1, <2>2, AdminStepKeeps DEF Downloaded, LoadInv, FlawlessInv, FlawlessRecord
<1>8. CASE Crash
  <2>1. /\ UNCHANGED <<row, file, applied>> /\ admin' = AdminIdle
        /\ \A j \in Job : job'[j] = Idle
        /\ incident' # {}
    BY <1>8 DEF Crash, Report
  <2>2. AdminIdle.pc = "idle" /\ AdminIdle.rec.steps = {} /\ Idle.pc = "idle" /\ Idle.rec.steps = {}
    BY DEF AdminIdle, Idle, NoRow
  <2> HIDE DEF AdminIdle, Idle
  <2>3. Alone'
    BY <2>1, <2>2 DEF Alone, Busy
  <2>4. FilesWhole'
    BY <2>1, <2>2, IdleWhole DEF LoadInv, CalmInv, FilesWhole, Busy, Job
  <2>5. Loaded(Plain)'
    BY <2>1, <2>2 DEF LoadInv, CalmInv, Loaded, Job
  <2> QED
    BY <2>1, <2>3, <2>4, <2>5 DEF CalmInv, FlawlessInv
<1> QED
  BY <1>1, <1>2, <1>3, <1>4, <1>5, <1>6, <1>7, <1>8 DEF AdminStep, ResetFiles, CleanupFiles

-----------------------------------------------------------------------------
(* The theorems *)

LEMMA LoadInit == Init => LoadInv
<1> SUFFICES ASSUME Init
             PROVE  CalmInv /\ FlawlessInv
  BY RecordInit DEF LoadInv
<1>1. Idle.pc = "idle" /\ Idle.rec = NoRow /\ NoRow.steps = {} /\ NoRow.status = "none"
  BY DEF Idle, NoRow
<1>2. /\ row = NoRow /\ file = [f \in File |-> "absent"] /\ job = [j \in Job |-> Idle]
      /\ admin.pc = "idle" /\ admin.rec = NoRow
  BY DEF Init
<1> HIDE DEF Idle, NoRow
<1>3. Alone /\ FilesWhole
  BY <1>1, <1>2, IdleWhole DEF Alone, FilesWhole, Busy, Downloaded, Job
<1>4. \A data : Loaded(data)
  BY <1>1, <1>2 DEF Loaded, Job
<1>5. FlawlessRecord
  BY <1>1, <1>2 DEF FlawlessRecord, Follows, Working, Job
<1> QED
  BY <1>3, <1>4, <1>5 DEF CalmInv, FlawlessInv

LEMMA LoadNext ==
  ASSUME LoadInv, [Next]_vars
  PROVE  LoadInv'
<1>1. RecordInv' /\ incident \subseteq incident' /\ applied \subseteq applied'
  BY RecordNext, HistoryGrows DEF LoadInv
<1> SUFFICES ASSUME Calm'
             PROVE  CalmInv' /\ FlawlessInv'
  BY <1>1 DEF LoadInv, CalmInv, FlawlessInv, Calm
<1>2. /\ Calm /\ RecordInv /\ TypeOK /\ Alone /\ FilesWhole /\ Loaded(Plain)
      /\ incident' = {} => incident = {} /\ FlawlessRecord /\ Loaded(DataStep)
  BY <1>1 DEF Calm, LoadInv, CalmInv, FlawlessInv, RecordInv
<1>3. CASE UNCHANGED vars
  <2>1. Alone' /\ FilesWhole'
    BY <1>2, <1>3 DEF vars, Alone, FilesWhole, Busy
  <2>2. \A data : Loaded(data) => Loaded(data)'
    BY <1>3 DEF vars, Loaded, Current
  <2>3. FlawlessRecord => FlawlessRecord'
    BY <1>3 DEF vars, FlawlessRecord
  <2> QED
    BY <1>2, <2>1, <2>2, <2>3 DEF CalmInv, FlawlessInv
<1>4. ASSUME NEW d \in Downloader, StartDownload(d) \/ DownloadStep(d) \/ AttemptFails(d)
      PROVE  CalmInv' /\ FlawlessInv'
  <2>1. CASE StartDownload(d)
    BY <1>2, <2>1, StartDownloadKeeps
  <2>2. CASE DownloadStep(d) \/ AttemptFails(d)
    <3>1. Busy(d)
      BY <2>2, DownloadBusy
    <3>2. PICK state : DownloadEffect(d, state)
      BY <1>2, <2>2, DownloadEffects DEF LoadInv
    <3>3. Alone' /\ FilesWhole'
      BY <1>2, <3>1, <3>2, DownloadKeepsCalm DEF LoadInv
    <3>4. \A data : Loaded(data) => Loaded(data)'
      BY <1>2, <3>2, DownloadKeepsLoaded
    <3>5. incident' = {} => FlawlessRecord'
      BY <1>2, <3>1, <3>2, DownloadKeepsFlawless
    <3> QED
      BY <1>2, <3>3, <3>4, <3>5 DEF CalmInv, FlawlessInv
  <2> QED
    BY <1>4, <2>1, <2>2
<1>5. ASSUME NEW p \in Parser, StartProcessing(p) \/ ProcessingStep(p)
      PROVE  CalmInv' /\ FlawlessInv'
  <2>1. CASE StartProcessing(p)
    BY <1>2, <2>1, StartProcessingKeeps
  <2>2. CASE ProcessingStep(p)
    <3>1. Alone' /\ FilesWhole'
      BY <1>2, <2>2, ParserKeepsCalm
    <3>2. Loaded(Plain)'
      <4>1. RunStep(p) /\ ThisMonths(job[p]) /\ Current(p) \in Plain => Current(p) \in applied'
        BY <1>2, RunApplies DEF Plain, Calm
      <4> QED
        BY <1>1, <1>2, <2>2, <4>1, ParserKeepsLoaded
    <3>3. incident' = {} => FlawlessRecord'
      BY <1>1, <1>2, <2>2, ParserKeepsFlawless, OtherParserKeepsFlawless DEF RecordInv
    <3>4. ASSUME incident' = {}
          PROVE  Loaded(DataStep)'
      <4>1. ASSUME RunStep(p), ThisMonths(job[p]), Associates(Current(p))
            PROVE  Source(Current(p)) \in job[p].ids
        <5>1. /\ job[p] \in JobState /\ job[p].pc = "step" /\ job[p].pos \in DOMAIN StepSeq
              /\ Current(p) = StepSeq[job[p].pos] /\ GenresKnown(job[p])
          BY <1>2, <3>4, <4>1, JobType, CurrentPlace
          DEF RunStep, Current, Job, FlawlessRecord, Follows
        <5> QED
          BY <4>1, <5>1, GenresFirst
      <4>2. RunStep(p) /\ ThisMonths(job[p]) /\ Current(p) \in DataStep => Current(p) \in applied'
        BY <1>2, <3>4, <4>1, RunApplies
      <4> QED
        BY <1>1, <1>2, <2>2, <3>4, <4>2, ParserKeepsLoaded
    <3> QED
      BY <3>1, <3>2, <3>3, <3>4 DEF CalmInv, FlawlessInv
  <2> QED
    BY <1>5, <2>1, <2>2
<1>6. CASE RequestDownload \/ RequestReprocess \/ RequestReset \/ AdminStep \/ CleanupFiles \/ Crash
  BY <1>1, <1>2, <1>6, AdminKeepsLoad
<1>7. CASE Next
  BY <1>4, <1>5, <1>6, <1>7 DEF Next
<1> QED
  BY <1>3, <1>7

LEMMA LoadAlways == Spec => []LoadInv
BY LoadInit, LoadNext, PTL DEF Spec

\* A crash between two steps, or a save that the database refuses, loses nothing of a month
\* that is completed in the end but the genre associations: ParseXMLFiles marks a step
\* completed only after it has stored its data, on files that are whole.
THEOREM PipelineOnlyGenresLostByCrash == Spec => []OnlyGenresLostByCrash
<1>1. LoadInv => OnlyGenresLostByCrash
  <2> SUFFICES ASSUME LoadInv, row.status = "completed", Calm
               PROVE  Plain \subseteq applied
    BY DEF OnlyGenresLostByCrash, Plain, Calm
  <2>1. Step \subseteq row.steps
    BY DEF LoadInv, RecordInv, CompletedHasAllSteps
  <2>2. Plain \subseteq Step
    BY DEF Plain, DataStep
  <2> QED
    BY <2>1, <2>2 DEF LoadInv, CalmInv, Loaded
<1> QED
  BY <1>1, LoadAlways, PTL

\* If nothing goes wrong but attempts to download, a month that is completed is loaded as
\* a whole, the genre associations included: the genre manager, which is reset half-way,
\* knows the genres of each source when ParseXMLFiles comes to associate them.
THEOREM PipelineCompletedIsLoaded == Spec => []CompletedIsLoaded
<1>1. LoadInv => CompletedIsLoaded
  <2> SUFFICES ASSUME LoadInv, row.status = "completed", incident = {}
               PROVE  DataStep \subseteq applied
    BY DEF CompletedIsLoaded
  <2>1. Step \subseteq row.steps
    BY DEF LoadInv, RecordInv, CompletedHasAllSteps
  <2>2. DataStep \subseteq Step
    BY DEF DataStep
  <2> QED
    BY <2>1, <2>2 DEF LoadInv, FlawlessInv, Loaded
<1> QED
  BY <1>1, LoadAlways, PTL

-----------------------------------------------------------------------------
(* The months.  Unless requests and jobs overlap, the process stops or the *)
(* database refuses something, the month is without a record only before   *)
(* its files are downloaded: a parser that takes last month's record finds *)
(* no files then, and records no step.                                     *)

Quiet == incident \cap {"overlap", "crash", "database"} = {}

NoFiles == \A f \in File : file[f] = "absent"

Apart ==
  /\ Alone
  /\ \A d \in Downloader : /\ ThisMonths(job[d])
                           /\ job[d].pc \notin {"idle", "create"} => row.id # 0
  /\ row.id = 0 /\ admin.pc # "create" => NoFiles
  /\ \A p \in Parser : Busy(p) /\ ~ThisMonths(job[p]) =>
       /\ row.id = 0 /\ job[p].pc \in {"claim", "check"}
       /\ job[p].rec.steps = previous.steps
  /\ admin.pc \in {"clean", "save"} => admin.rec.steps = {}

ApartInv == RecordInv /\ (Quiet => Apart)

\* What a step of download d does to the records: it saves a copy of the month's.
DownloadSaves(d, state) ==
  /\ Become(d, state) /\ UNCHANGED <<admin, previous>> /\ ThisMonths(state)
  /\ state.pc \notin {"idle", "create"} => row'.id # 0
  /\ row'.id = 0 => row.id = 0 /\ file' = file

LEMMA DownloadsSave ==
  ASSUME RecordInv, Apart, NEW d \in Downloader, DownloadStep(d) \/ AttemptFails(d)
  PROVE  \E state : DownloadSaves(d, state)
<1> DEFINE s == job[d]
           r == job[d].rec
<1>0. /\ d \in Job /\ s \in JobState /\ r \in Record /\ r.id # PreviousId
      /\ s.pc \notin {"idle", "create"} => row.id # 0
  BY JobType DEF RecordInv, Job, Apart, ThisMonths
<1>i. Idle.pc = "idle" /\ Idle.rec.id # PreviousId
  BY DEF Idle, NoRow, PreviousId
\* The copy is saved or not, and goes on being one of the same record.
<1>1. ASSUME NEW state, Become(d, state), UNCHANGED admin, s.pc \notin {"idle", "create"},
             state = Idle \/ state.rec.id = r.id,
             \/ UNCHANGED <<row, previous>>
             \/ \E q : q.id = r.id /\ (Stores(q) \/ Refuses(q))
      PROVE  \E other : DownloadSaves(d, other)
  <2>1. row'.id # 0 /\ previous' = previous
    BY <1>0, <1>1 DEF Stores, Refuses
  <2>2. DownloadSaves(d, state)
    BY <1>0, <1>1, <1>i, <2>1 DEF DownloadSaves, ThisMonths
  <2> QED
    BY <2>2
<1>2. CASE CreateRecord(d)
  <2> DEFINE fresh == [Idle EXCEPT !.rec = row', !.pc = "begin"]
  <2>1. CASE Inserts /\ Become(d, fresh)
    <3>1. row'.id = nextId /\ previous' = previous /\ nextId # 0 /\ nextId # PreviousId
      BY <2>1 DEF Inserts, RecordInv, Ids, TypeOK, PreviousId
    <3>2. fresh.rec = row'
      BY DEF Idle
    <3> HIDE DEF fresh
    <3>3. DownloadSaves(d, fresh)
      BY <1>2, <2>1, <3>1, <3>2 DEF CreateRecord, DownloadSaves, ThisMonths
    <3> QED
      BY <3>3
  <2>2. CASE RefusesInsert /\ Become(d, Idle)
    <3>1. DownloadSaves(d, Idle)
      BY <1>2, <1>i, <2>2 DEF CreateRecord, RefusesInsert, DownloadSaves, ThisMonths
    <3> QED
      BY <3>1
  <2> QED
    BY <1>2, <2>1, <2>2 DEF CreateRecord
<1>3. CASE RetryRecord(d)
  <2> DEFINE state == [[s EXCEPT !.pc = "begin"] EXCEPT !.rec = r]
  <2>1. state.rec = r
    BY <1>0 DEF JobState
  <2>2. /\ UNCHANGED admin /\ s.pc = "retry" /\ (Stores(r) \/ Refuses(r))
        /\ Become(d, state) \/ Become(d, Idle)
    BY <1>3 DEF RetryRecord, SaveOrStop
  <2> HIDE DEF state
  <2> QED
    BY <1>1, <2>1, <2>2
<1>4. CASE BeginDownload(d)
  <2> DEFINE q == WithStatus(r, "downloading")
             state == [[s EXCEPT !.pc = "checksum", !.linked = TRUE] EXCEPT !.rec = q]
  <2>1. q.id = r.id /\ state.rec = q
    BY <1>0 DEF WithStatus, Record, JobState
  <2> HIDE DEF q
  <2>2. /\ UNCHANGED admin /\ s.pc = "begin" /\ (Stores(q) \/ Refuses(q))
        /\ Become(d, state) \/ Become(d, Idle)
    BY <1>4 DEF BeginDownload, SaveOrStop, q
  <2> HIDE DEF state
  <2> QED
    BY <1>1, <2>1, <2>2
\* The others go on with the copy they have, or end.
<1>5. ASSUME UNCHANGED admin, s.pc \notin {"idle", "create"},
             \E state : Become(d, state) /\ (state = Idle \/ state.rec = r),
             \/ UNCHANGED <<row, previous>>
             \/ \E q : q.id = r.id /\ (Stores(q) \/ Refuses(q))
      PROVE  \E other : DownloadSaves(d, other)
  BY <1>1, <1>5
<1>6. CASE Checksum(d)
  <2> DEFINE state == [s EXCEPT !.pc = "file", !.tries = 0]
             failed == [s EXCEPT !.pc = "failed"]
  <2>1. state.rec = r /\ failed.rec = r
    BY <1>0 DEF JobState
  <2>2. /\ UNCHANGED admin /\ s.pc = "checksum" /\ (Stores(r) \/ Refuses(r))
        /\ Become(d, state) \/ Become(d, failed)
    BY <1>6 DEF Checksum, Goto
  <2> HIDE DEF state, failed
  <2> QED
    BY <1>5, <2>1, <2>2
<1>7. CASE AttemptFails(d)
  <2> DEFINE again == [s EXCEPT !.tries = @ + 1, !.pc = IF @ = "write" THEN "open" ELSE @]
             failed == [s EXCEPT !.pc = "failed"]
             unavailable == [s EXCEPT !.pc = "unavailable"]
  <2>1. again.rec = r /\ failed.rec = r /\ unavailable.rec = r
    BY <1>0 DEF JobState
  <2>2. /\ UNCHANGED <<admin, row, previous>> /\ s.pc \in {"checksum", "open", "write"}
        /\ Become(d, again) \/ Become(d, failed) \/ Become(d, unavailable)
    BY <1>7 DEF AttemptFails, Goto
  <2> HIDE DEF again, failed, unavailable
  <2> QED
    BY <1>5, <2>1, <2>2
<1>8. CASE NoDirectory(d)
  <2> DEFINE again == [s EXCEPT !.tries = @ + 1]
             failed == [s EXCEPT !.pc = "failed"]
  <2>1. again.rec = r /\ failed.rec = r
    BY <1>0 DEF JobState
  <2>2. /\ UNCHANGED <<admin, row, previous>> /\ s.pc \in {"checksum", "open"}
        /\ Become(d, again) \/ Become(d, failed)
    BY <1>8 DEF NoDirectory, Goto
  <2> HIDE DEF again, failed
  <2> QED
    BY <1>5, <2>1, <2>2
<1>9. CASE BeginFile(d)
  <2> DEFINE state == [s EXCEPT !.pc = "open", !.tries = 0, !.linked = TRUE]
  <2>1. state.rec = r
    BY <1>0 DEF JobState
  <2>2. UNCHANGED admin /\ s.pc = "file" /\ (Stores(r) \/ Refuses(r)) /\ Become(d, state)
    BY <1>9 DEF BeginFile, SaveOrWarn
  <2> HIDE DEF state
  <2> QED
    BY <1>5, <2>1, <2>2
<1>10. CASE OpenFile(d)
  <2> DEFINE state == [s EXCEPT !.pc = "write", !.linked = TRUE]
  <2>1. state.rec = r
    BY <1>0 DEF JobState
  <2>2. UNCHANGED <<admin, row, previous>> /\ s.pc = "open" /\ Become(d, state)
    BY <1>10 DEF OpenFile
  <2> HIDE DEF state
  <2> QED
    BY <1>5, <2>1, <2>2
<1>11. CASE FileWritten(d)
  <2> DEFINE state == [s EXCEPT !.pc = "info", !.linked = FALSE]
  <2>1. state.rec = r
    BY <1>0 DEF JobState
  <2>2. UNCHANGED <<admin, row, previous>> /\ s.pc = "write" /\ Become(d, state)
    BY <1>11 DEF FileWritten
  <2> HIDE DEF state
  <2> QED
    BY <1>5, <2>1, <2>2
<1>12. CASE SaveFileInfo(d)
  <2> DEFINE nextFile == [s EXCEPT !.pc = "file", !.pos = @ + 1]
             end == [s EXCEPT !.pc = "ready"]
  <2>1. nextFile.rec = r /\ end.rec = r
    BY <1>0 DEF JobState
  <2>2. /\ UNCHANGED admin /\ s.pc = "info" /\ (Stores(r) \/ Refuses(r))
        /\ Become(d, nextFile) \/ Become(d, end)
    BY <1>12 DEF SaveFileInfo, SaveOrWarn
  <2> HIDE DEF nextFile, end
  <2> QED
    BY <1>5, <2>1, <2>2
<1>13. CASE FinishDownload(d)
  <2> DEFINE q == WithStatus(r, "ready_for_processing")
             failed == [s EXCEPT !.pc = "failed"]
  <2>1. q.id = r.id /\ failed.rec = r
    BY <1>0 DEF WithStatus, Record, JobState
  <2> HIDE DEF q
  <2>2. /\ UNCHANGED admin /\ s.pc = "ready" /\ (Stores(q) \/ Refuses(q))
        /\ Become(d, Idle) \/ Become(d, failed)
    BY <1>13 DEF FinishDownload, Goto, q
  <2> HIDE DEF failed
  <2> QED
    BY <1>5, <2>1, <2>2
<1>14. CASE GiveUp(d)
  <2> DEFINE q == WithStatus(r, IF s.pc = "failed" THEN "failed" ELSE "not_started")
  <2>1. q.id = r.id
    BY <1>0 DEF WithStatus, Record
  <2> HIDE DEF q
  <2>2. /\ UNCHANGED admin /\ s.pc \in {"failed", "unavailable"} /\ (Stores(q) \/ Refuses(q))
        /\ Become(d, Idle)
    BY <1>14 DEF GiveUp, SaveOrWarn, q
  <2> QED
    BY <1>5, <2>1, <2>2
<1> QED
  BY <1>2, <1>3, <1>4, <1>6, <1>7, <1>8, <1>9, <1>10, <1>11, <1>12, <1>13, <1>14 DEF DownloadStep

LEMMA DownloadKeepsApart ==
  ASSUME RecordInv, Apart, Quiet', NEW d \in Downloader,
         StartDownload(d) \/ DownloadStep(d) \/ AttemptFails(d)
  PROVE  Apart' /\ previous' = previous
<1>0. d \in Job /\ d \notin Parser /\ TypeOK /\ Alone /\ Ids
  BY PipelineAssumption DEF Job, RecordInv, Apart
<1>1. CASE StartDownload(d)
  <2> DEFINE fresh == [job[d] EXCEPT !.pc = "create"]
             copy == [Idle EXCEPT !.rec = row, !.pc = IF row.status = "failed" THEN "retry" ELSE "begin"]
  <2>1. fresh.pc = "create" /\ fresh.rec = job[d].rec /\ copy.rec = row
    BY <1>0, JobType DEF Idle, JobState
  <2>2. /\ UNCHANGED <<row, previous, file, admin>> /\ Overlap(d) = {}
        /\ Become(d, fresh) \/ (row.id # 0 /\ Become(d, copy))
    BY <1>1 DEF StartDownload, Goto, Report, Quiet, Overlap
  <2> HIDE DEF fresh, copy
  <2>3. PICK state : /\ Become(d, state) /\ state.rec.id # PreviousId
                     /\ state.pc \notin {"idle", "create"} => row.id # 0
    BY <1>0, <2>1, <2>2 DEF Ids, Apart, ThisMonths
  <2>4. /\ Alone' /\ admin.pc = "idle" /\ job'[d] = state
        /\ \A k \in Job \ {d} : job[k].pc = "idle" /\ job'[k] = job[k]
    BY <1>0, <2>2, <2>3, StartsAlone
  <2> QED
    BY <1>0, <2>2, <2>3, <2>4 DEF Apart, ThisMonths, Busy, NoFiles, Job
<1>2. CASE DownloadStep(d) \/ AttemptFails(d)
  <2>1. PICK state : DownloadSaves(d, state)
    BY <1>2, DownloadsSave
  <2>2. /\ Alone' /\ admin.pc = "idle" /\ job'[d] = state
        /\ \A k \in Job \ {d} : job[k].pc = "idle" /\ job'[k] = job[k]
    BY <1>0, <1>2, <2>1, DownloadBusy, StaysAlone DEF DownloadSaves
  <2> QED
    BY <1>0, <2>1, <2>2 DEF Apart, DownloadSaves, ThisMonths, Busy, NoFiles, Job
<1> QED
  BY <1>1, <1>2

LEMMA ParserKeepsApart ==
  ASSUME RecordInv, Apart, Quiet', NEW p \in Parser, StartProcessing(p) \/ ProcessingStep(p)
  PROVE  Apart' /\ previous'.steps = previous.steps
<1>0. p \in Job /\ p \notin Downloader /\ TypeOK /\ Alone /\ Ids /\ job[p] \in JobState
  BY PipelineAssumption, JobType DEF Job, RecordInv, Apart
<1>i. Idle.pc = "idle" /\ Idle.rec.id # PreviousId
  BY DEF Idle, NoRow, PreviousId
\* The parser's step, by what it holds afterwards.
<1>1. ASSUME NEW state, Become(p, state), UNCHANGED <<admin, file>>,
             row'.id = 0 => row.id = 0, previous'.steps = previous.steps,
             /\ Alone' /\ admin.pc = "idle"
             /\ \A k \in Job \ {p} : job[k].pc = "idle" /\ job'[k] = job[k],
             state.pc = "idle" \/ state.rec.id # PreviousId
               \/ /\ row'.id = 0 /\ state.pc \in {"claim", "check"}
                  /\ state.rec.steps = previous.steps
      PROVE  Apart'
  <2>1. job'[p] = state
    BY <1>0, <1>1 DEF TypeOK, Become
  <2>2. \A q \in Parser : job'[q].pc # "idle" /\ job'[q].rec.id = PreviousId =>
          /\ row'.id = 0 /\ job'[q].pc \in {"claim", "check"}
          /\ job'[q].rec.steps = previous'.steps
    BY <1>1, <2>1 DEF Job
  <2>3. \A d \in Downloader : job'[d].rec.id # PreviousId /\ job'[d].pc = "idle"
    BY <1>0, <1>1 DEF Apart, ThisMonths, Job
  <2> QED
    BY <1>1, <2>2, <2>3 DEF Apart, ThisMonths, Busy, NoFiles
<1>2. CASE StartProcessing(p)
  <2> DEFINE state == [Idle EXCEPT !.rec = Latest,
                                   !.pc = IF Latest.status = "processing" THEN "check" ELSE "claim"]
  <2>1. state.rec = Latest /\ state.pc \in {"claim", "check"}
    BY DEF Idle
  <2>2. UNCHANGED <<row, previous, file, admin>> /\ Overlap(p) = {} /\ Become(p, state)
    BY <1>2 DEF StartProcessing, Report, Quiet, Overlap
  <2> HIDE DEF state
  <2>3. state.rec.id # PreviousId \/ (row.id = 0 /\ state.rec.steps = previous.steps)
    BY <1>0, <2>1 DEF Latest, Ids
  <2> QED
    BY <1>0, <1>1, <2>1, <2>2, <2>3, StartsAlone
<1>3. CASE ProcessingStep(p) /\ ThisMonths(job[p])
  <2>1. PICK state : ParserEffect(p, state)
    BY <1>0, <1>3, ParserEffects
  <2>2. Busy(p) /\ UNCHANGED <<admin, file>>
    BY <1>3, ParserBusy
  <2>3. state.rec.id # PreviousId /\ previous' = previous
    BY <1>3, <1>i, <2>1 DEF ParserEffect, ThisMonths
  <2> QED
    BY <1>0, <1>1, <2>1, <2>2, <2>3, StaysAlone DEF ParserEffect
<1>4. CASE ProcessingStep(p) /\ ~ThisMonths(job[p])
  <2> DEFINE r == job[p].rec
  <2>1. /\ Busy(p) /\ UNCHANGED <<admin, file>> /\ r.id = PreviousId /\ r.steps = previous.steps
        /\ row.id = 0 /\ job[p].pc \in {"claim", "check"} /\ r \in Record
    BY <1>0, <1>4, ParserBusy, JobType DEF Apart, ThisMonths
  <2>2. admin.pc = "idle"
    BY <1>0, <2>1 DEF Alone
  <2>3. NoFiles /\ \E f \in File : file[f] = "absent"
    <3>1. 1 \in DOMAIN FileSeq
      BY PipelineAssumption
    <3> QED
      BY <2>1, <2>2, <3>1, FilePlace DEF Apart, NoFiles
  \* The copy is saved with another status.
  <2>4. ASSUME NEW q, q.id = PreviousId, q.steps = previous.steps, Stores(q) \/ Refuses(q)
        PROVE  row' = row /\ previous'.steps = previous.steps
    BY <2>4 DEF Stores, Refuses
  <2>5. CASE Claim(p)
    <3> DEFINE q == WithStatus(r, "processing")
               state == [[job[p] EXCEPT !.pc = "check"] EXCEPT !.rec = q]
    <3>1. q.id = PreviousId /\ q.steps = previous.steps /\ state.pc = "check" /\ state.rec = q
      BY <1>0, <2>1 DEF WithStatus, Record, JobState
    <3> HIDE DEF q
    <3>2. (Stores(q) \/ Refuses(q)) /\ (Become(p, state) \/ Become(p, Idle))
      BY <2>5 DEF Claim, SaveOrStop, q
    <3> HIDE DEF state
    <3>3. row' = row /\ previous'.steps = previous.steps
      BY <2>4, <3>1, <3>2
    <3> QED
      BY <1>0, <1>1, <1>i, <2>1, <3>1, <3>2, <3>3, StaysAlone
  <2>6. CASE CheckFiles(p)
    <3> DEFINE q == WithStatus(r, "failed")
    <3>1. q.id = PreviousId /\ q.steps = previous.steps
      BY <2>1 DEF WithStatus, Record
    <3> HIDE DEF q
    <3>2. (Stores(q) \/ Refuses(q)) /\ Become(p, Idle)
      BY <2>3, <2>6 DEF CheckFiles, SaveOrWarn, q
    <3>3. row' = row /\ previous'.steps = previous.steps
      BY <2>4, <3>1, <3>2
    <3> QED
      BY <1>0, <1>1, <1>i, <2>1, <3>2, <3>3, StaysAlone
  <2> QED
    BY <1>4, <2>1, <2>5, <2>6
    DEF ProcessingStep, SkipStep, RunStep, CommitStep, StepError, Complete
<1> QED
  BY <1>2, <1>3, <1>4

LEMMA AdminKeepsApart ==
  ASSUME RecordInv, Apart, Quiet',
         RequestDownload \/ RequestReprocess \/ RequestReset \/ AdminStep \/ CleanupFiles \/ Crash
  PROVE  Apart' /\ previous'.steps \subseteq previous.steps
<1>0. TypeOK /\ Ids /\ Alone
  BY DEF RecordInv, Apart
\* Without an overlap no job is at work while a request is.
<1>1. ASSUME UNCHANGED job, \A j \in Job : ~Busy(j),
             row'.id = 0 /\ admin'.pc # "create" => NoFiles',
             admin'.pc \in {"clean", "save"} => admin'.rec.steps = {}
      PROVE  Apart'
  <2>1. /\ \A j \in Job : job'[j] = job[j] /\ job[j].pc = "idle"
        /\ \A d \in Downloader : d \in Job
        /\ \A p \in Parser : p \in Job
    BY <1>1 DEF Busy, Job
  <2> QED
    BY <1>1, <2>1 DEF Apart, Alone, Busy, ThisMonths
<1>2. ASSUME Concurrent \subseteq incident'
      PROVE  \A j \in Job : ~Busy(j)
  BY <1>2 DEF Concurrent, Quiet
<1>3. admin.pc # "idle" => \A j \in Job : ~Busy(j)
  BY <1>0 DEF Alone
<1>4. CASE RequestDownload
  <2>1. /\ UNCHANGED <<row, previous, file, job>> /\ Concurrent \subseteq incident'
        /\ admin'.pc \in {"create", "delete"} /\ (row.id = 0 => admin'.pc = "create")
    BY <1>4 DEF RequestDownload, Report
  <2> QED
    BY <1>1, <1>2, <2>1
<1>5. CASE RequestReprocess \/ RequestReset
  <2>1. /\ UNCHANGED <<row, previous, file, job>> /\ Concurrent \subseteq incident'
        /\ admin.pc = "idle"
    BY <1>5 DEF RequestReprocess, RequestReset, Report
  <2>2. admin'.rec.steps = {}
    <3>1. ASSUME NEW rec \in Record, NEW s
          PROVE  [rec EXCEPT !.status = s, !.steps = {}].steps = {}
      BY DEF Record
    <3>2. CASE RequestReprocess
      <4>1. admin'.rec = [Latest EXCEPT !.status = "ready_for_processing", !.steps = {}]
        BY <3>2 DEF RequestReprocess
      <4> QED
        BY <1>0, <3>1, <4>1, LatestType
    <3>3. CASE RequestReset
      <4>1. admin'.rec = [row EXCEPT !.status = "not_started", !.steps = {}]
        BY <3>3 DEF RequestReset
      <4> QED
        BY <1>0, <3>1, <4>1 DEF TypeOK
    <3> QED
      BY <1>5, <3>2, <3>3
  <2>3. row'.id = 0 => NoFiles'
    BY <2>1 DEF Apart, NoFiles
  <2> QED
    BY <1>1, <1>2, <2>1, <2>2, <2>3
<1>6. CASE DeleteRecord
  <2>1. UNCHANGED <<previous, job>> /\ admin.pc = "delete" /\ admin'.pc = "create"
    BY <1>6 DEF DeleteRecord, Report, Quiet
  <2> QED
    BY <1>1, <1>3, <2>1
<1>7. CASE RecreateRecord
  <2>1. UNCHANGED <<previous, job>> /\ admin.pc = "create" /\ admin'.pc = "idle"
    BY <1>7 DEF RecreateRecord, AdminIdle, Inserts, RefusesInsert
  <2>2. row'.id # 0
    BY <1>0, <1>7 DEF RecreateRecord, Inserts, RefusesInsert, Report, Quiet, Ids, TypeOK, PreviousId
  <2> QED
    BY <1>1, <1>3, <2>1, <2>2
\* Jobs lose files, and nothing else.
<1>8. ASSUME RemoveFiles \/ \E gone \in SUBSET File : RemoveSomeFiles(gone),
             UNCHANGED <<row, previous>>,
             admin' = admin \/ (admin.pc = "clean" /\ admin'.pc \in {"idle", "save"}),
             admin'.pc \in {"clean", "save"} => admin'.rec.steps = {}
      PROVE  Apart'
  <2>1. \A j \in Job : job'[j].pc = job[j].pc /\ job'[j].rec = job[j].rec
    BY <1>0, <1>8, RemovalPlace
  <2>2. NoFiles => NoFiles'
    BY <1>8 DEF NoFiles, RemoveFiles, RemoveSomeFiles
  <2>3. Alone'
    BY <1>0, <1>8, <2>1 DEF Alone, Busy
  <2>4. /\ \A d \in Downloader : /\ job'[d].rec.id # PreviousId
                                 /\ job'[d].pc \notin {"idle", "create"} => row'.id # 0
        /\ \A p \in Parser : job'[p].pc # "idle" /\ job'[p].rec.id = PreviousId =>
             /\ row'.id = 0 /\ job'[p].pc \in {"claim", "check"}
             /\ job'[p].rec.steps = previous'.steps
    BY <1>8, <2>1 DEF Apart, ThisMonths, Busy, Job
  <2> QED
    BY <1>8, <2>2, <2>3, <2>4 DEF Apart, ThisMonths, Busy
<1>9. CASE ResetFiles
  <2>1. /\ UNCHANGED <<row, previous>> /\ admin.pc = "clean"
        /\ RemoveFiles \/ \E gone \in SUBSET File : RemoveSomeFiles(gone)
        /\ admin' = [admin EXCEPT !.pc = "save"] \/ admin' = AdminIdle
    BY <1>9 DEF ResetFiles
  <2>2. admin'.pc \in {"idle", "save"} /\ (admin'.pc = "save" => admin'.rec.steps = {})
    BY <1>0, <2>1 DEF Apart, AdminIdle, TypeOK
  <2> QED
    BY <1>8, <2>1, <2>2
<1>10. CASE SaveRequested
  <2>1. /\ UNCHANGED <<file, job>> /\ admin.pc = "save" /\ admin'.pc = "idle"
        /\ Stores(admin.rec) \/ Refuses(admin.rec)
    BY <1>10 DEF SaveRequested, AdminIdle
  <2>2. row'.id = 0 => NoFiles'
    BY <2>1 DEF Stores, Refuses, Apart, NoFiles
  <2>3. previous'.steps \subseteq previous.steps
    BY <2>1 DEF Stores, Refuses, Apart
  <2> QED
    BY <1>1, <1>3, <2>1, <2>2, <2>3
<1>11. CASE CleanupFiles
  BY <1>8, <1>11 DEF CleanupFiles, Apart
<1>12. CASE Crash
  BY <1>12 DEF Crash, Report, Quiet
<1> QED
  BY <1>4, <1>5, <1>6, <1>7, <1>9, <1>10, <1>11, <1>12 DEF AdminStep

LEMMA ApartInit == Init => ApartInv
<1>1. Idle.pc = "idle" /\ Idle.rec.id # PreviousId
  BY DEF Idle, NoRow, PreviousId
<1> HIDE DEF Idle
<1> QED
  BY <1>1, RecordInit DEF Init, ApartInv, Apart, Alone, Busy, ThisMonths, NoFiles, Job

LEMMA ApartNext ==
  ASSUME ApartInv, [Next]_vars
  PROVE  /\ ApartInv'
         /\ Quiet' => previous'.steps \subseteq previous.steps
<1>1. RecordInv' /\ incident \subseteq incident'
  BY RecordNext, HistoryGrows DEF ApartInv
<1> SUFFICES ASSUME Quiet'
             PROVE  Apart' /\ previous'.steps \subseteq previous.steps
  BY <1>1 DEF ApartInv
<1>2. RecordInv /\ Apart
  BY <1>1 DEF ApartInv, Quiet
<1>3. CASE UNCHANGED vars
  BY <1>2, <1>3 DEF vars, Apart, Alone, Busy, ThisMonths, NoFiles
<1>4. CASE Next
  BY <1>2, <1>4, DownloadKeepsApart, ParserKeepsApart, AdminKeepsApart DEF Next
<1> QED
  BY <1>3, <1>4

\* Steps run on this month's files are recorded as steps of last month, which the parser
\* falls back on while the month has no record (getOrCreateProcessingRecord), only after an
\* overlap, a crash or a refused request: a deletion between RequestDownload's two steps is
\* the only way to have files and no record.
THEOREM PipelineMonthsStayApart == Spec => MonthsStayApart
<1>1. Spec => []ApartInv
  BY ApartInit, ApartNext, PTL DEF Spec
<1>2. ASSUME ApartInv, [Next]_vars
      PROVE  [previous'.steps \subseteq previous.steps
                \/ incident' \cap {"overlap", "crash", "database"} # {}]_vars
  <2>1. CASE Quiet'
    BY <1>2, <2>1, ApartNext
  <2>2. CASE ~Quiet'
    BY <2>2 DEF Quiet
  <2> QED
    BY <2>1, <2>2
<1> QED
  BY <1>1, <1>2, PTL DEF Spec, MonthsStayApart

=============================================================================
