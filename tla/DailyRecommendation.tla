------------------------- MODULE DailyRecommendation -------------------------
(***************************************************************************)
(* The recommendation of the day and the streak of one user                *)
(* (dailyRecommendation.repository.go, user.controller.go,                 *)
(* recommendation.controller.go).                                          *)
(*                                                                         *)
(* Each session of the user shows a recommendation and makes one request   *)
(* at a time: GET /users/me finds or creates the recommendation and the    *)
(* streak, both through the cache; POST listened records a play of the     *)
(* recommendation that is shown and marks it, in a transaction.  Requests  *)
(* of different sessions interleave at each call to the cache or to the    *)
(* database, and the clock runs.                                           *)
(*                                                                         *)
(* Which release is recommended, and the entries of plays and releases,    *)
(* which UserData has, are left out; so is daily_recommendations, which is *)
(* cleared but never filled.                                               *)
(***************************************************************************)
EXTENDS Integers, Sequences, FiniteSets, FiniteSetsExt, Functions, TLC

CONSTANTS
  Session,
  None,
  Day,             \* ticks of the clock in a day
  Window,          \* how long a recommendation is kept: 24 h,
  ListenedWindow,  \* or 18 h once it has been listened to
  TTL,             \* life time of both entries: 24 h
  History,         \* the recommendations a user may have at first
  MaxTime,         \* bound: the clock
  MaxRequests,     \* bound: requests
  MaxFaults        \* bound: failed statements, failed deletions in the cache, crashes

Rec == [created : Int, date : Int, listened : BOOLEAN, plays : Nat]

ASSUME DailyAssumption ==
  /\ History \subseteq Seq(Rec)
  /\ \A rs \in History : \A i \in DOMAIN rs : rs[i].plays > 0 => rs[i].listened
  /\ {Day, Window, ListenedWindow, TTL} \subseteq Nat \ {0} /\ ListenedWindow <= Window
  /\ {MaxTime, MaxRequests, MaxFaults} \subseteq Nat
  /\ None \notin [id : Nat, listened : BOOLEAN]

VARIABLES
  now,
  recs,       \* daily_recommendations as they were created, each with the plays recorded for it
  recent,     \* recent_recommendation: None, or a value and the time it ends
  streak,     \* user_streak, likewise
  pc, got,    \* what a session's request does next, and the recommendation it is about
  counted,    \* the streak a request has calculated
  view,       \* the recommendation a session shows
  overtaken,  \* history: sessions whose request read what others have changed since
  outdated,   \* history: sessions that show what was changed since, or may have been
  suspect,    \* history: entries filled by a request that was overtaken, or left by a fault
  requests, faults

cache == <<recent, streak>>
local == <<pc, got, counted, view>>
overlaps == <<overtaken, outdated, suspect>>
vars == <<now, recs, cache, local, overlaps, requests, faults>>

-----------------------------------------------------------------------------
(* Streaks *)

Ids(rs) == DOMAIN rs
Listened(rs) == {i \in Ids(rs) : rs[i].listened}

\* ROW_NUMBER() over the rows I by date: rows of one date come in any order.
RowNumbers(rs, I) ==
  LET Upto(d) == Cardinality({i \in I : rs[i].date <= d})
      Numbers(d) == LET J == {i \in I : rs[i].date = d} IN
                    Bijection(J, (Upto(d) - Cardinality(J) + 1)..Upto(d))
  IN FoldSet(LAMBDA d, rns : {rn @@ more : rn \in rns, more \in Numbers(d)},
             {<<>>}, {rs[i].date : i \in I})

\* current_streak_calc, rn ascending here and descending there.
\* Mutant: no case for users who have listened to all of them.
CurrentStreakOfBroken(rs, rn) ==
  LET unlistened == {rn[i] : i \in Ids(rs) \ Listened(rs)} IN
  IF unlistened = {} THEN 0 ELSE Cardinality({i \in Listened(rs) : rn[i] > Max(unlistened)})
CurrentStreak(rs, rn) ==
  LET unlistened == {rn[i] : i \in Ids(rs) \ Listened(rs)} IN
  CASE Len(rs) \in unlistened -> 0
    [] unlistened = {} -> Len(rs)
    [] OTHER -> Cardinality({i \in Listened(rs) : rn[i] > Max(unlistened)})

\* consecutive_groups: in a run of listened rows both numbers grow alike.
LongestStreak(rs, rn, listenedRn) ==
  LET grp(i) == rn[i] - listenedRn[i] IN
  Max({0} \cup {Cardinality({j \in Listened(rs) : grp(j) = grp(i)}) : i \in Listened(rs)})

\* What CalculateUserStreaks may answer.
Streaks(rs) ==
  {[current |-> CurrentStreak(rs, a), longest |-> LongestStreak(rs, b, c)] :
     a \in RowNumbers(rs, Ids(rs)), b \in RowNumbers(rs, Ids(rs)), c \in RowNumbers(rs, Listened(rs))}

-----------------------------------------------------------------------------
(* Recommendations *)

\* The recommendation as a request reads it.
Recommendation(i) == [id |-> i, listened |-> recs[i].listened]
MostRecent == IF recs = <<>> THEN None ELSE Recommendation(Len(recs))

Age(rec) == now - recs[rec.id].created
\* Mutant: with the windows swapped.
IsCurrentSwapped(rec) == Age(rec) < (IF rec.listened THEN Window ELSE ListenedWindow)
IsCurrent(rec) == Age(rec) < (IF rec.listened THEN ListenedWindow ELSE Window)

-----------------------------------------------------------------------------
(* What the requests of others may spoil *)

Running(s) == pc[s] # "idle"

\* A session has added a recommendation and not yet cleared the entry.
RecentOwed(s) == \E q \in Session \ {s} : pc[q] = "clear recent"
\* A session has cleared an entry for what it has still to commit.
RecentOpen(s) == \E q \in Session \ {s} : pc[q] \in {"forget streak", "commit"}
StreakOpen(s) == \E q \in Session \ {s} : pc[q] \in {"mark", "forget recent", "forget streak", "commit"}

OvertakeOthers(s) == overtaken' = overtaken \cup {q \in Session \ {s} : Running(q)}
\* Once overtaken, a request stays so.
OvertakenIf(s, condition) == overtaken' = IF condition THEN overtaken \cup {s} ELSE overtaken
Forget(s) == overtaken' = overtaken \ {s}
SuspectIf(k, condition) == suspect' = IF condition THEN suspect \cup {k} ELSE suspect \ {k}

-----------------------------------------------------------------------------
(* Actions *)

Init ==
  /\ now = 0 /\ recs \in History
  /\ recent = None /\ streak = None
  /\ pc = [s \in Session |-> "idle"] /\ got = [s \in Session |-> None]
  /\ counted = [s \in Session |-> None] /\ view = [s \in Session |-> None]
  /\ overtaken = {} /\ outdated = {} /\ suspect = {} /\ requests = 0 /\ faults = 0

Goto(s, label) == pc' = [pc EXCEPT ![s] = label]
At(s, label) == pc[s] = label
Request(s, label) ==
  /\ ~Running(s) /\ requests < MaxRequests /\ requests' = requests + 1 /\ Goto(s, label)
Fault == faults < MaxFaults /\ faults' = faults + 1

\* GET /users/me.
GetUser(s) ==
  /\ Request(s, "find")
  /\ UNCHANGED <<now, recs, cache, got, counted, view, overlaps, faults>>

\* GetMostRecentRecommendation, for getOrCreateRecommendation ("find") and again for what
\* has been generated ("find new"): from the cache,
HitRecent(s) ==
  /\ recent # None
  /\ \/ At(s, "find") /\ Goto(s, "decide")
     \/ At(s, "find new") /\ Goto(s, "streak")
  /\ got' = [got EXCEPT ![s] = recent.value]
  /\ OvertakenIf(s, "recent" \in suspect \/ RecentOwed(s))
  /\ UNCHANGED <<now, recs, cache, counted, view, outdated, suspect, requests, faults>>

\* or from the database.
QueryRecent(s) ==
  /\ recent = None /\ recs # <<>>
  /\ \/ At(s, "find") /\ Goto(s, "store")
     \/ At(s, "find new") /\ Goto(s, "store new")
  /\ got' = [got EXCEPT ![s] = MostRecent]
  /\ UNCHANGED <<now, recs, cache, counted, view, overlaps, requests, faults>>

StoreRecent(s) ==
  /\ \/ At(s, "store") /\ Goto(s, "decide")
     \/ At(s, "store new") /\ Goto(s, "streak")
  /\ recent' = [value |-> got[s], until |-> now + TTL]
  /\ SuspectIf("recent", s \in overtaken \/ RecentOpen(s))
  /\ UNCHANGED <<now, recs, streak, got, counted, view, overtaken, outdated, requests, faults>>

\* There is none.  Whether the controller recognises the error, which has passed
\* through the logger, is not decided here: it generates the first, or there is none.
\* Mutant: it takes nothing for something.
FoundNil(s) ==
  /\ At(s, "find") /\ recent = None /\ recs = <<>> /\ Goto(s, "decide")
  /\ UNCHANGED <<now, recs, cache, got, counted, view, overlaps, requests, faults>>

NoneFound(s) ==
  /\ At(s, "find") /\ recent = None /\ recs = <<>>
  /\ Goto(s, "create") \/ Goto(s, "streak")
  /\ UNCHANGED <<now, recs, cache, got, counted, view, overlaps, requests, faults>>

Decide(s) ==
  /\ At(s, "decide")
  /\ IF IsCurrent(got[s])
     THEN Goto(s, "streak") /\ UNCHANGED got
     ELSE Goto(s, "create") /\ got' = [got EXCEPT ![s] = None]
  /\ UNCHANGED <<now, recs, cache, counted, view, overlaps, requests, faults>>

\* generateNewRecommendation: the releases cannot be read, or there are none.
GenerateNothing(s) ==
  /\ At(s, "create") /\ Goto(s, "streak")
  /\ UNCHANGED <<now, recs, cache, got, counted, view, overlaps, requests, faults>>

\* Of a release chosen by weight, or at random.
NewRecommendation == [created |-> now, date |-> now \div Day, listened |-> FALSE, plays |-> 0]

\* Mutant: the entry of the last one stays.
CreateAndKeepRecent(s) ==
  /\ At(s, "create") /\ Goto(s, "find new")
  /\ recs' = Append(recs, NewRecommendation)
  /\ OvertakeOthers(s)
  /\ UNCHANGED <<now, cache, got, counted, view, outdated, suspect, requests, faults>>

CreateRecommendation(s) ==
  /\ At(s, "create") /\ Goto(s, "clear recent")
  /\ recs' = Append(recs, NewRecommendation)
  /\ OvertakeOthers(s)
  /\ UNCHANGED <<now, cache, got, counted, view, outdated, suspect, requests, faults>>

\* The entry is deleted, or that fails and is only logged.
ClearRecent(s) ==
  /\ \/ At(s, "clear recent") /\ Goto(s, "find new")
     \/ At(s, "forget recent") /\ Goto(s, "forget streak")
  /\ \/ recent' = None /\ SuspectIf("recent", FALSE) /\ UNCHANGED faults
     \/ Fault /\ SuspectIf("recent", TRUE) /\ UNCHANGED recent
  /\ UNCHANGED <<now, recs, streak, got, counted, view, overtaken, outdated, requests>>

\* calculateUserStreak: from the cache,
HitStreak(s) ==
  /\ At(s, "streak") /\ streak # None /\ Goto(s, "answer")
  /\ OvertakenIf(s, "streak" \in suspect)
  /\ UNCHANGED <<now, recs, cache, got, counted, view, outdated, suspect, requests, faults>>

\* or calculated and stored.
CalculateStreak(s) ==
  /\ At(s, "streak") /\ streak = None /\ Goto(s, "store streak")
  /\ \E answer \in Streaks(recs) : counted' = [counted EXCEPT ![s] = answer]
  /\ UNCHANGED <<now, recs, cache, got, view, overlaps, requests, faults>>

StoreStreak(s) ==
  /\ At(s, "store streak") /\ Goto(s, "answer")
  /\ streak' = [value |-> counted[s], until |-> now + TTL]
  /\ counted' = [counted EXCEPT ![s] = None]
  /\ SuspectIf("streak", s \in overtaken \/ StreakOpen(s))
  /\ UNCHANGED <<now, recs, recent, got, view, overtaken, outdated, requests, faults>>

Answer(s) ==
  /\ At(s, "answer") /\ Goto(s, "idle")
  /\ view' = [view EXCEPT ![s] = got[s]] /\ got' = [got EXCEPT ![s] = None]
  /\ outdated' = IF s \in overtaken THEN outdated \cup {s} ELSE outdated \ {s}
  /\ Forget(s)
  /\ UNCHANGED <<now, recs, cache, counted, suspect, requests, faults>>

\* POST listened: the button is there while what is shown has not been listened to.
PostListened(s) ==
  /\ view[s] # None /\ ~view[s].listened
  /\ Request(s, "play")
  /\ got' = [got EXCEPT ![s] = view[s]]
  /\ OvertakenIf(s, s \in outdated)
  /\ UNCHANGED <<now, recs, cache, counted, view, outdated, suspect, faults>>

\* ClearUserStreakCache, by the three who call it: after CreatePlayHistory has inserted
\* the play ("play"), after MarkAsListened has updated the recommendation ("forget
\* streak"), both before the transaction commits, and after it has ("clear streak").
\* Mutant: the entry stays.
KeepStreak(s) ==
  /\ \/ At(s, "play") /\ Goto(s, "mark") /\ UNCHANGED <<got, overtaken>>
     \/ At(s, "forget streak") /\ Goto(s, "commit") /\ UNCHANGED <<got, overtaken>>
     \/ At(s, "clear streak") /\ Goto(s, "idle") /\ got' = [got EXCEPT ![s] = None] /\ Forget(s)
  /\ UNCHANGED <<now, recs, cache, counted, view, outdated, suspect, requests, faults>>

ClearStreak(s) ==
  /\ \/ At(s, "play") /\ Goto(s, "mark") /\ UNCHANGED <<got, overtaken>>
     \/ At(s, "forget streak") /\ Goto(s, "commit") /\ UNCHANGED <<got, overtaken>>
     \/ At(s, "clear streak") /\ Goto(s, "idle") /\ got' = [got EXCEPT ![s] = None] /\ Forget(s)
  /\ \/ streak' = None /\ SuspectIf("streak", FALSE) /\ UNCHANGED faults
     \/ Fault /\ SuspectIf("streak", TRUE) /\ UNCHANGED streak
  /\ UNCHANGED <<now, recs, recent, counted, view, outdated, requests>>

\* The UPDATE waits for a transaction that has updated the same row.
\* Mutant: only the streak is forgotten.
MarkAndKeepRecent(s) ==
  /\ At(s, "mark") /\ Goto(s, "forget streak")
  /\ UNCHANGED <<now, recs, cache, got, counted, view, overlaps, requests, faults>>

MarkAsListened(s) ==
  /\ At(s, "mark") /\ Goto(s, "forget recent")
  /\ \A q \in Session \ {s} :
       pc[q] \in {"forget recent", "forget streak", "commit"} => got[q].id # got[s].id
  /\ UNCHANGED <<now, recs, cache, got, counted, view, overlaps, requests, faults>>

Commit(s) ==
  /\ At(s, "commit") /\ Goto(s, "clear streak")
  /\ recs' = [recs EXCEPT ![got[s].id].listened = TRUE, ![got[s].id].plays = @ + 1]
  /\ OvertakeOthers(s)
  /\ outdated' = {q \in Session : view[q] # None}
  /\ UNCHANGED <<now, cache, got, counted, view, suspect, requests, faults>>

\* A query or a statement fails: a GET goes on without a recommendation or without a
\* streak, a transaction is rolled back.
Fail(s) ==
  /\ Fault
  /\ \/ pc[s] \in {"find", "find new"} /\ Goto(s, "streak") /\ UNCHANGED overtaken
     \/ At(s, "streak") /\ Goto(s, "answer") /\ UNCHANGED overtaken
     \/ pc[s] \in {"play", "mark", "commit"} /\ Goto(s, "idle") /\ Forget(s)
  /\ got' = [got EXCEPT ![s] = IF At(s, "streak") THEN @ ELSE None]
  /\ UNCHANGED <<now, recs, cache, counted, view, outdated, suspect, requests>>

\* The server stops.
Crash ==
  /\ Fault /\ \E s \in Session : Running(s)
  /\ pc' = [s \in Session |-> "idle"]
  /\ got' = [s \in Session |-> None] /\ counted' = [s \in Session |-> None]
  /\ suspect' = suspect \cup {k \in {"recent"} : \E s \in Session : At(s, "clear recent")}
  /\ overtaken' = {}
  /\ UNCHANGED <<now, recs, cache, view, outdated, requests>>

\* The clock; entries end with their time.  A tick is hours and a request milliseconds:
\* the clock stands still while one runs.
Tick ==
  /\ \A s \in Session : ~Running(s)
  /\ now < MaxTime /\ now' = now + 1
  /\ LET Alive(entry) == entry # None /\ entry.until > now' IN
       /\ recent' = IF Alive(recent) THEN recent ELSE None
       /\ streak' = IF Alive(streak) THEN streak ELSE None
       /\ suspect' = {k \in suspect : CASE k = "recent" -> Alive(recent) [] OTHER -> Alive(streak)}
  /\ UNCHANGED <<recs, local, overtaken, outdated, requests, faults>>

Next ==
  \/ \E s \in Session :
       \/ GetUser(s) \/ HitRecent(s) \/ QueryRecent(s) \/ StoreRecent(s) \/ NoneFound(s)
       \/ Decide(s) \/ GenerateNothing(s) \/ CreateRecommendation(s) \/ ClearRecent(s)
       \/ HitStreak(s) \/ CalculateStreak(s) \/ StoreStreak(s) \/ Answer(s)
       \/ PostListened(s) \/ ClearStreak(s) \/ MarkAsListened(s) \/ Commit(s) \/ Fail(s)
  \/ Crash \/ Tick

Spec == Init /\ [][Next]_vars

-----------------------------------------------------------------------------
(* Properties *)

Found == [id : Nat \ {0}, listened : BOOLEAN]
Label ==
  {"idle", "find", "store", "decide", "create", "clear recent", "find new", "store new", "streak",
   "store streak", "answer", "play", "mark", "forget recent", "forget streak", "commit", "clear streak"}

\* Types.  A recommendation that is read, shown or cached exists, and only a request
\* between its reading and its answer has one.
TypeOK ==
  /\ now \in 0..MaxTime /\ recs \in Seq(Rec)
  /\ got \in [Session -> {None} \cup Found] /\ view \in [Session -> {None} \cup Found]
  /\ \A s \in Session : got[s] # None => got[s].id \in DOMAIN recs
  /\ \A s \in Session : view[s] # None => view[s].id \in DOMAIN recs
  /\ recent # None => recent.value \in Found /\ recent.value.id \in DOMAIN recs
  /\ pc \in [Session -> Label]
  /\ \A s \in Session :
       pc[s] \in {"store", "decide", "store new", "play", "mark", "forget recent", "forget streak",
                 "commit"} => got[s] # None
  /\ overtaken \subseteq Session /\ outdated \subseteq Session /\ suspect \subseteq {"recent", "streak"}

\* The recommendation that is cached is the last one, as it is: whoever creates another
\* or listens to it drops the entry, unless requests of several sessions overlap, or
\* the deletion fails.
RecentIsLast ==
  recent # None /\ "recent" \notin suspect /\ (\A s \in Session : ~At(s, "clear recent"))
    => recent.value = MostRecent

\* The streak of the recommendations there are, without some of the last, not listened to.
Lags(answer) ==
  \E n \in 0..Len(recs) :
    /\ \A i \in (n + 1)..Len(recs) : ~recs[i].listened
    /\ answer \in Streaks(SubSeq(recs, 1, n))

\* Creating a recommendation does not drop the cached streak, which lasts a day and may
\* outlive a recommendation or two: but for overlapping requests it is behind only by
\* recommendations that have not been listened to.
StreakLagsBehind == streak # None /\ "streak" \notin suspect => Lags(streak.value)

\* What the two streaks mean: the longest run of days with a recommendation that have
\* been listened to, and the run that ends with the last.  Days without any do not count.
Runs(rs) == {I \in SUBSET Listened(rs) : \A i, j \in I, k \in Ids(rs) :
               rs[i].date < rs[k].date /\ rs[k].date < rs[j].date => k \in I}
LastRuns(rs) == {I \in Runs(rs) : \A i \in I, k \in Ids(rs) : rs[i].date < rs[k].date => k \in I}
OnePerDate(rs) == \A i, j \in Ids(rs) : rs[i].date = rs[j].date => i = j

\* While no two recommendations have the same date the query that numbers the rows finds
\* those runs.
StreaksAreRuns ==
  [][\A s \in Session :
       At(s, "streak") /\ pc'[s] = "store streak" /\ OnePerDate(recs)
         => counted'[s] = [current |-> Max({Cardinality(I) : I \in LastRuns(recs)}),
                           longest |-> Max({Cardinality(I) : I \in Runs(recs)})]]_vars

\* A user gets a new recommendation only when the last is a day old, or 18 hours if it
\* was listened to, unless several sessions ask at once.
OnePerWindow ==
  [][\A s \in Session :
       At(s, "create") /\ recs' # recs /\ recs # <<>> =>
         LET last == recs[Len(recs)] IN
         \/ now - last.created >= (IF last.listened THEN ListenedWindow ELSE Window)
         \/ s \in overtaken]_vars

\* A recommendation is played once, unless the session that plays it again still shows
\* it as it was before, or overlaps with another.
PlayedOnce ==
  [][\A s \in Session :
       At(s, "commit") /\ recs' # recs /\ recs[got[s].id].plays > 0 => s \in overtaken]_vars

=============================================================================
