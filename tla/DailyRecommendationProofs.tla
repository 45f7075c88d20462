---------------------- MODULE DailyRecommendationProofs ----------------------
(***************************************************************************)
(* Proofs about DailyRecommendation: its types, and what it guarantees to  *)
(* a session whose requests nobody overtakes.                              *)
(***************************************************************************)
EXTENDS DailyRecommendation, TLAPS

FoundOrNone == {None} \cup Found

LEMMA NoneIsNotFound == None \notin Found
  BY DailyAssumption DEF Found

LEMMA Numbers == Day \in Nat \ {0} /\ MaxTime \in Nat
  BY DailyAssumption

LEMMA TimeType == TypeOK => now \in Nat /\ now <= MaxTime
  <1> SUFFICES ASSUME TypeOK PROVE now \in Nat /\ now <= MaxTime
    OBVIOUS
  <1>1. now \in 0..MaxTime
    BY DEF TypeOK
  <1> QED BY <1>1, Numbers

LEMMA MostRecentFound ==
  ASSUME TypeOK, recs # <<>>
  PROVE  MostRecent \in Found /\ MostRecent.id = Len(recs) /\ MostRecent.id \in DOMAIN recs
         /\ MostRecent.listened = recs[Len(recs)].listened
  <1>1. recs \in Seq(Rec)
    BY DEF TypeOK
  <1>2. Len(recs) \in Nat \ {0} /\ Len(recs) \in DOMAIN recs /\ recs[Len(recs)] \in Rec
    BY <1>1
  <1>3. recs[Len(recs)].listened \in BOOLEAN
    BY <1>2 DEF Rec
  <1> QED BY <1>2, <1>3 DEF MostRecent, Recommendation, Found

(***************************************************************************)
(* Types.  A step of a session changes its own place and recommendations,  *)
(* the entries and the marks, and keeps the recommendations there are.     *)
(***************************************************************************)

Holding == {"store", "decide", "store new", "play", "mark", "forget recent", "forget streak", "commit"}

\* What a step of session s may do to its types.
StepOf(s) ==
  /\ now' = now /\ recs' \in Seq(Rec) /\ DOMAIN recs \subseteq DOMAIN recs'
  /\ pc' \in [Session -> Label] /\ \A q \in Session \ {s} : pc'[q] = pc[q]
  /\ got' \in [Session -> FoundOrNone] /\ \A q \in Session \ {s} : got'[q] = got[q]
  /\ got'[s] # None => got'[s].id \in DOMAIN recs
  /\ pc'[s] \in Holding => got'[s] # None
  /\ view' \in [Session -> FoundOrNone]
  /\ \A q \in Session : view'[q] # None => view'[q].id \in DOMAIN recs
  /\ recent' # None => recent'.value \in Found /\ recent'.value.id \in DOMAIN recs
  /\ overtaken' \subseteq Session /\ outdated' \subseteq Session
  /\ suspect' \subseteq {"recent", "streak"}

LEMMA StepKeepsTypes ==
  ASSUME TypeOK, NEW s \in Session, StepOf(s)
  PROVE  TypeOK'
  <1>1. now' \in 0..MaxTime /\ recs' \in Seq(Rec)
    BY DEF TypeOK, StepOf
  <1>2. got' \in [Session -> {None} \cup Found] /\ view' \in [Session -> {None} \cup Found]
    BY DEF StepOf, FoundOrNone
  <1>3. \A q \in Session : got'[q] # None => got'[q].id \in DOMAIN recs'
    BY DEF TypeOK, StepOf
  <1>4. \A q \in Session : view'[q] # None => view'[q].id \in DOMAIN recs'
    BY DEF StepOf
  <1>5. recent' # None => recent'.value \in Found /\ recent'.value.id \in DOMAIN recs'
    BY DEF StepOf
  <1>6. \A q \in Session : pc'[q] \in Holding => got'[q] # None
    BY DEF TypeOK, StepOf, Holding
  <1>7. pc' \in [Session -> Label]
    BY DEF StepOf
  <1>8. overtaken' \subseteq Session /\ outdated' \subseteq Session /\ suspect' \subseteq {"recent", "streak"}
    BY DEF StepOf
  <1> QED BY <1>1, <1>2, <1>3, <1>4, <1>5, <1>6, <1>7, <1>8 DEF TypeOK, Holding

LEMMA InitTypeOK == Init => TypeOK
  <1> SUFFICES ASSUME Init PROVE TypeOK
    OBVIOUS
  <1>1. recs \in Seq(Rec) /\ now \in 0..MaxTime
    BY DailyAssumption DEF Init
  <1>2. \A s \in Session : pc[s] = "idle" /\ got[s] = None /\ view[s] = None
    BY DEF Init
  <1>3. pc \in [Session -> Label] /\ got \in [Session -> {None} \cup Found]
        /\ view \in [Session -> {None} \cup Found]
    BY DEF Init, Label
  <1> QED BY <1>1, <1>2, <1>3 DEF Init, TypeOK

\* What a request goes on with is a place in it.
LEMMA GotoIsStep ==
  ASSUME TypeOK, NEW s \in Session, NEW label \in Label, Goto(s, label)
  PROVE  /\ pc' \in [Session -> Label] /\ pc'[s] = label
         /\ \A q \in Session \ {s} : pc'[q] = pc[q]
  BY DEF TypeOK, Goto

\* Types of the parts that most steps leave alone.
LEMMA Unchanged ==
  ASSUME TypeOK, NEW s \in Session
  PROVE  /\ UNCHANGED recs => recs' \in Seq(Rec) /\ DOMAIN recs \subseteq DOMAIN recs'
         /\ UNCHANGED got => /\ got' \in [Session -> FoundOrNone]
                             /\ \A q \in Session : got'[q] = got[q]
                             /\ got'[s] # None => got'[s].id \in DOMAIN recs
         /\ UNCHANGED view => /\ view' \in [Session -> FoundOrNone]
                              /\ \A q \in Session : view'[q] # None => view'[q].id \in DOMAIN recs
         /\ UNCHANGED recent =>
              (recent' # None => recent'.value \in Found /\ recent'.value.id \in DOMAIN recs)
         /\ UNCHANGED overtaken => overtaken' \subseteq Session
         /\ UNCHANGED outdated => outdated' \subseteq Session
         /\ UNCHANGED suspect => suspect' \subseteq {"recent", "streak"}
  BY DEF TypeOK, FoundOrNone

LEMMA GotSet ==
  ASSUME TypeOK, NEW s \in Session, NEW r \in FoundOrNone, got' = [got EXCEPT ![s] = r]
  PROVE  /\ got' \in [Session -> FoundOrNone] /\ got'[s] = r
         /\ \A q \in Session \ {s} : got'[q] = got[q]
  BY DEF TypeOK, FoundOrNone

\* A request moves on and changes only marks.
LEMMA MoveTypes ==
  ASSUME TypeOK, NEW s \in Session,
         GetUser(s) \/ NoneFound(s) \/ GenerateNothing(s) \/ HitStreak(s) \/ CalculateStreak(s)
  PROVE  StepOf(s)
  <1>1. PICK label \in {"find", "create", "streak", "answer", "store streak"} : Goto(s, label)
    BY DEF GetUser, NoneFound, GenerateNothing, HitStreak, CalculateStreak, Request
  <1>2. UNCHANGED <<now, recs, recent, got, view, outdated, suspect>>
    BY DEF GetUser, NoneFound, GenerateNothing, HitStreak, CalculateStreak, cache, overlaps
  <1>3. overtaken' \subseteq Session
    BY DEF TypeOK, GetUser, NoneFound, GenerateNothing, HitStreak, CalculateStreak, OvertakenIf, overlaps
  <1>4. label \in Label /\ label \notin Holding
    BY <1>1 DEF Label, Holding
  <1>5. pc' \in [Session -> Label] /\ pc'[s] = label /\ \A q \in Session \ {s} : pc'[q] = pc[q]
    BY <1>1, <1>4, GotoIsStep
  <1> QED BY <1>2, <1>3, <1>4, <1>5, Unchanged DEF StepOf

LEMMA HitTypes ==
  ASSUME TypeOK, NEW s \in Session, HitRecent(s)
  PROVE  StepOf(s)
  <1>1. PICK label \in {"decide", "streak"} : Goto(s, label)
    BY DEF HitRecent
  <1>2. pc' \in [Session -> Label] /\ pc'[s] = label /\ \A q \in Session \ {s} : pc'[q] = pc[q]
    BY <1>1, GotoIsStep DEF Label
  <1>3. recent.value \in Found /\ recent.value.id \in DOMAIN recs /\ recent.value \in FoundOrNone
    BY DEF HitRecent, TypeOK, FoundOrNone
  <1>4. /\ got' \in [Session -> FoundOrNone] /\ got'[s] = recent.value
        /\ \A q \in Session \ {s} : got'[q] = got[q]
    BY <1>3, GotSet DEF HitRecent
  <1>5. got'[s] # None
    BY <1>3, <1>4, NoneIsNotFound
  <1>6. UNCHANGED <<now, recs, recent, view, outdated, suspect>> /\ overtaken' \subseteq Session
    BY DEF TypeOK, HitRecent, cache, OvertakenIf
  <1> QED BY <1>2, <1>3, <1>4, <1>5, <1>6, Unchanged DEF StepOf

LEMMA QueryTypes ==
  ASSUME TypeOK, NEW s \in Session, QueryRecent(s)
  PROVE  StepOf(s)
  <1>1. PICK label \in {"store", "store new"} : Goto(s, label)
    BY DEF QueryRecent
  <1>2. pc' \in [Session -> Label] /\ pc'[s] = label /\ \A q \in Session \ {s} : pc'[q] = pc[q]
    BY <1>1, GotoIsStep DEF Label
  <1>3. MostRecent \in Found /\ MostRecent.id \in DOMAIN recs /\ MostRecent \in FoundOrNone
    BY MostRecentFound DEF QueryRecent, FoundOrNone
  <1>4. /\ got' \in [Session -> FoundOrNone] /\ got'[s] = MostRecent
        /\ \A q \in Session \ {s} : got'[q] = got[q]
    BY <1>3, GotSet DEF QueryRecent
  <1>5. got'[s] # None
    BY <1>3, <1>4, NoneIsNotFound
  <1>6. UNCHANGED <<now, recs, recent, view, overtaken, outdated, suspect>>
    BY DEF QueryRecent, cache, overlaps
  <1> QED BY <1>2, <1>3, <1>4, <1>5, <1>6, Unchanged DEF StepOf

LEMMA StoreTypes ==
  ASSUME TypeOK, NEW s \in Session, StoreRecent(s)
  PROVE  StepOf(s)
  <1>1. PICK label \in {"decide", "streak"} : Goto(s, label)
    BY DEF StoreRecent
  <1>2. pc' \in [Session -> Label] /\ pc'[s] = label /\ \A q \in Session \ {s} : pc'[q] = pc[q]
    BY <1>1, GotoIsStep DEF Label
  <1>3. got[s] # None
    BY DEF TypeOK, StoreRecent, At
  <1>4. got[s] \in Found /\ got[s].id \in DOMAIN recs
    BY <1>3 DEF TypeOK
  <1>5. recent'.value = got[s]
    BY DEF StoreRecent
  <1>6. suspect' \subseteq {"recent", "streak"}
    BY DEF TypeOK, StoreRecent, SuspectIf
  <1>7. UNCHANGED <<now, recs, got, view, overtaken, outdated>>
    BY DEF StoreRecent
  <1> QED BY <1>2, <1>3, <1>4, <1>5, <1>6, <1>7, Unchanged DEF StepOf

LEMMA DecideTypes ==
  ASSUME TypeOK, NEW s \in Session, Decide(s)
  PROVE  StepOf(s)
  <1>1. PICK label \in {"streak", "create"} : Goto(s, label)
    BY DEF Decide
  <1>2. pc' \in [Session -> Label] /\ pc'[s] = label /\ \A q \in Session \ {s} : pc'[q] = pc[q]
    BY <1>1, GotoIsStep DEF Label
  <1>3. UNCHANGED got \/ got' = [got EXCEPT ![s] = None]
    BY DEF Decide
  <1>4. /\ got' \in [Session -> FoundOrNone]
        /\ \A q \in Session \ {s} : got'[q] = got[q]
        /\ got'[s] # None => got'[s].id \in DOMAIN recs
    BY <1>3, GotSet, Unchanged DEF FoundOrNone
  <1>5. UNCHANGED <<now, recs, recent, view, overtaken, outdated, suspect>>
    BY DEF Decide, cache, overlaps
  <1> QED BY <1>2, <1>4, <1>5, Unchanged DEF StepOf, Holding

LEMMA CreateTypes ==
  ASSUME TypeOK, NEW s \in Session, CreateRecommendation(s)
  PROVE  StepOf(s)
  <1> DEFINE new == [created |-> now, date |-> now \div Day, listened |-> FALSE, plays |-> 0]
  <1>0. now \in Int /\ Day \in Int /\ Day > 0
    BY Numbers, TimeType
  <1>1. now \div Day \in Int
    BY <1>0
  <1>2. new \in Rec
    BY <1>0, <1>1 DEF Rec
  <1>3. recs' = Append(recs, new)
    BY DEF CreateRecommendation, NewRecommendation
  <1> HIDE DEF new
  <1>s. recs \in Seq(Rec)
    BY DEF TypeOK
  <1>r. recs \in Seq(Rec) /\ Len(recs) \in Nat /\ DOMAIN recs = 1..Len(recs)
    BY <1>s
  <1>l. recs' \in Seq(Rec) /\ Len(recs') = Len(recs) + 1 /\ DOMAIN recs' = 1..Len(recs')
    BY <1>2, <1>3, <1>r
  <1>4. recs' \in Seq(Rec) /\ DOMAIN recs \subseteq DOMAIN recs'
    BY <1>r, <1>l
  <1>5. pc' \in [Session -> Label] /\ pc'[s] = "clear recent" /\ \A q \in Session \ {s} : pc'[q] = pc[q]
    BY GotoIsStep DEF CreateRecommendation, Label
  <1>6. UNCHANGED <<now, recent, got, view, outdated, suspect>> /\ overtaken' \subseteq Session
    BY DEF TypeOK, CreateRecommendation, cache, OvertakeOthers
  <1> QED BY <1>4, <1>5, <1>6, Unchanged DEF StepOf, Holding

LEMMA ClearRecentTypes ==
  ASSUME TypeOK, NEW s \in Session, ClearRecent(s)
  PROVE  StepOf(s)
  <1>1. PICK label \in {"find new", "forget streak"} :
          Goto(s, label) /\ (label = "forget streak" => At(s, "forget recent"))
    BY DEF ClearRecent
  <1>2. pc' \in [Session -> Label] /\ pc'[s] = label /\ \A q \in Session \ {s} : pc'[q] = pc[q]
    BY <1>1, GotoIsStep DEF Label
  <1>3. UNCHANGED <<now, recs, got, view, overtaken, outdated>>
    BY DEF ClearRecent
  <1>4. label \in Holding => got[s] # None
    BY <1>1 DEF TypeOK, At, Holding
  <1>5. recent' = None \/ UNCHANGED recent
    BY DEF ClearRecent
  <1>6. suspect' \subseteq {"recent", "streak"}
    BY DEF TypeOK, ClearRecent, SuspectIf
  <1> QED BY <1>2, <1>3, <1>4, <1>5, <1>6, Unchanged DEF StepOf

LEMMA StoreStreakTypes ==
  ASSUME TypeOK, NEW s \in Session, StoreStreak(s)
  PROVE  StepOf(s)
  <1>1. pc' \in [Session -> Label] /\ pc'[s] = "answer" /\ \A q \in Session \ {s} : pc'[q] = pc[q]
    BY GotoIsStep DEF StoreStreak, Label
  <1>2. UNCHANGED <<now, recs, recent, got, view, overtaken, outdated>>
    BY DEF StoreStreak
  <1>3. suspect' \subseteq {"recent", "streak"}
    BY DEF TypeOK, StoreStreak, SuspectIf
  <1> QED BY <1>1, <1>2, <1>3, Unchanged DEF StepOf, Holding

LEMMA AnswerTypes ==
  ASSUME TypeOK, NEW s \in Session, Answer(s)
  PROVE  StepOf(s)
  <1>1. pc' \in [Session -> Label] /\ pc'[s] = "idle" /\ \A q \in Session \ {s} : pc'[q] = pc[q]
    BY GotoIsStep DEF Answer, Label
  <1>2. /\ got' \in [Session -> FoundOrNone] /\ got'[s] = None
        /\ \A q \in Session \ {s} : got'[q] = got[q]
    BY GotSet DEF Answer, FoundOrNone
  <1>3. view' \in [Session -> FoundOrNone] /\ \A q \in Session : view'[q] # None => view'[q].id \in DOMAIN recs
    BY DEF TypeOK, Answer, FoundOrNone
  <1>4. UNCHANGED <<now, recs, recent, suspect>> /\ overtaken' \subseteq Session /\ outdated' \subseteq Session
    BY DEF TypeOK, Answer, cache, Forget
  <1> QED BY <1>1, <1>2, <1>3, <1>4, Unchanged DEF StepOf, Holding

LEMMA PostTypes ==
  ASSUME TypeOK, NEW s \in Session, PostListened(s)
  PROVE  StepOf(s)
  <1>1. pc' \in [Session -> Label] /\ pc'[s] = "play" /\ \A q \in Session \ {s} : pc'[q] = pc[q]
    BY GotoIsStep DEF PostListened, Request, Label
  <1>2. view[s] \in FoundOrNone /\ (view[s] # None => view[s].id \in DOMAIN recs)
    BY DEF TypeOK, FoundOrNone
  <1>3. /\ got' \in [Session -> FoundOrNone] /\ got'[s] = view[s]
        /\ \A q \in Session \ {s} : got'[q] = got[q]
    BY <1>2, GotSet DEF PostListened
  <1>4. UNCHANGED <<now, recs, recent, view, outdated, suspect>> /\ overtaken' \subseteq Session
    BY DEF TypeOK, PostListened, cache, OvertakenIf
  <1> QED BY <1>1, <1>2, <1>3, <1>4, Unchanged DEF StepOf, Holding, PostListened

LEMMA ClearStreakTypes ==
  ASSUME TypeOK, NEW s \in Session, ClearStreak(s)
  PROVE  StepOf(s)
  <1>1. PICK label \in {"mark", "commit", "idle"} : Goto(s, label)
          /\ (label = "commit" => At(s, "forget streak")) /\ (label = "mark" => At(s, "play"))
    BY DEF ClearStreak
  <1>2. pc' \in [Session -> Label] /\ pc'[s] = label /\ \A q \in Session \ {s} : pc'[q] = pc[q]
    BY <1>1, GotoIsStep DEF Label
  <1>3. /\ got' \in [Session -> FoundOrNone] /\ \A q \in Session \ {s} : got'[q] = got[q]
        /\ got'[s] # None => got'[s] = got[s] /\ got'[s].id \in DOMAIN recs
        /\ label # "idle" => got'[s] = got[s]
    <2>1. CASE UNCHANGED got
      BY <2>1, Unchanged
    <2>2. CASE got' = [got EXCEPT ![s] = None] /\ At(s, "clear streak")
      <3>1. label = "idle"
        BY <1>1, <1>2, <2>2 DEF ClearStreak, At, Goto, TypeOK
      <3> QED BY <2>2, <3>1, GotSet DEF FoundOrNone
    <2> QED BY <2>1, <2>2 DEF ClearStreak
  <1>4. label \in Holding => got[s] # None
    BY <1>1 DEF TypeOK, At, Holding
  <1>5. UNCHANGED <<now, recs, recent, view, outdated>>
    BY DEF ClearStreak
  <1>6. overtaken' \subseteq Session /\ suspect' \subseteq {"recent", "streak"}
    BY DEF TypeOK, ClearStreak, SuspectIf, Forget
  <1> QED BY <1>2, <1>3, <1>4, <1>5, <1>6, Unchanged DEF StepOf, Holding

LEMMA MarkTypes ==
  ASSUME TypeOK, NEW s \in Session, MarkAsListened(s)
  PROVE  StepOf(s)
  <1>1. pc' \in [Session -> Label] /\ pc'[s] = "forget recent" /\ \A q \in Session \ {s} : pc'[q] = pc[q]
    BY GotoIsStep DEF MarkAsListened, Label
  <1>2. got[s] # None
    BY DEF TypeOK, MarkAsListened, At
  <1>3. UNCHANGED <<now, recs, recent, got, view, overtaken, outdated, suspect>>
    BY DEF MarkAsListened, cache, overlaps
  <1> QED BY <1>1, <1>2, <1>3, Unchanged DEF StepOf

LEMMA RowPlayed ==
  ASSUME NEW r \in Rec
  PROVE  LET row == [r EXCEPT !.listened = TRUE, !.plays = r.plays + 1] IN row \in Rec /\ row.listened
  <1> DEFINE heard == [r EXCEPT !.listened = TRUE]
  <1>p. r.plays \in Nat
    BY DEF Rec
  <1>h. heard \in Rec
    BY DEF Rec
  <1>l. heard.listened
    BY DEF Rec
  <1>1. heard \in Rec /\ heard.listened /\ r.plays + 1 \in Nat
    BY <1>p, <1>h, <1>l
  <1> HIDE DEF heard
  <1>2. [heard EXCEPT !.plays = r.plays + 1] \in Rec
    BY <1>1 DEF Rec
  <1>3. [heard EXCEPT !.plays = r.plays + 1].listened
    BY <1>1 DEF Rec
  <1>4. [heard EXCEPT !.plays = r.plays + 1] = [r EXCEPT !.listened = TRUE, !.plays = r.plays + 1]
    BY DEF heard
  <1> QED BY <1>2, <1>3, <1>4

\* The rows a commit leaves.
LEMMA CommitRows ==
  ASSUME TypeOK, NEW s \in Session, Commit(s)
  PROVE  /\ recs' \in Seq(Rec) /\ DOMAIN recs' = DOMAIN recs /\ Len(recs') = Len(recs)
         /\ got[s].id \in DOMAIN recs /\ recs'[got[s].id].listened
         /\ \A i \in DOMAIN recs \ {got[s].id} : recs'[i] = recs[i]
  <1> DEFINE i == got[s].id
  <1>1. i \in DOMAIN recs /\ recs \in Seq(Rec)
    BY DEF TypeOK, Commit, At
  <1>2. recs[i] \in Rec
    BY <1>1
  <1> DEFINE row == [recs[i] EXCEPT !.listened = TRUE, !.plays = @ + 1]
  <1>3. row \in Rec /\ row.listened
    BY <1>2, RowPlayed
  <1>4. recs' = [recs EXCEPT ![i] = row]
    BY <1>1 DEF Commit
  <1> HIDE DEF row
  <1>5. recs' \in Seq(Rec) /\ DOMAIN recs' = DOMAIN recs
    BY <1>1, <1>3, <1>4
  <1>6. Len(recs') = Len(recs)
    BY <1>1, <1>5
  <1> QED BY <1>1, <1>3, <1>4, <1>5, <1>6

LEMMA CommitTypes ==
  ASSUME TypeOK, NEW s \in Session, Commit(s)
  PROVE  StepOf(s)
  <1>1. pc' \in [Session -> Label] /\ pc'[s] = "clear streak" /\ \A q \in Session \ {s} : pc'[q] = pc[q]
    BY GotoIsStep DEF Commit, Label
  <1>2. UNCHANGED <<now, recent, got, view, suspect>>
    BY DEF Commit, cache
  <1>3. overtaken' \subseteq Session /\ outdated' \subseteq Session
    BY DEF TypeOK, Commit, OvertakeOthers
  <1> QED BY <1>1, <1>2, <1>3, CommitRows, Unchanged DEF StepOf, Holding

LEMMA FailTypes ==
  ASSUME TypeOK, NEW s \in Session, Fail(s)
  PROVE  StepOf(s)
  <1>1. PICK label \in {"streak", "answer", "idle"} : Goto(s, label)
    BY DEF Fail
  <1>2. pc' \in [Session -> Label] /\ pc'[s] = label /\ \A q \in Session \ {s} : pc'[q] = pc[q]
    BY <1>1, GotoIsStep DEF Label
  <1> DEFINE r == IF At(s, "streak") THEN got[s] ELSE None
  <1>3. r \in FoundOrNone /\ (r # None => r.id \in DOMAIN recs) /\ got' = [got EXCEPT ![s] = r]
    BY DEF Fail, TypeOK, FoundOrNone
  <1> HIDE DEF r
  <1>4. /\ got' \in [Session -> FoundOrNone] /\ got'[s] = r
        /\ \A q \in Session \ {s} : got'[q] = got[q]
    BY <1>3, GotSet
  <1>5. UNCHANGED <<now, recs, recent, view, outdated, suspect>> /\ overtaken' \subseteq Session
    BY DEF TypeOK, Fail, cache, Forget
  <1> QED BY <1>2, <1>3, <1>4, <1>5, Unchanged DEF StepOf, Holding

LEMMA CrashTypes ==
  ASSUME TypeOK, Crash
  PROVE  TypeOK'
  <1>1. pc' = [s \in Session |-> "idle"] /\ got' = [s \in Session |-> None]
    BY DEF Crash
  <1>2. pc' \in [Session -> Label] /\ got' \in [Session -> {None} \cup Found]
        /\ \A s \in Session : pc'[s] = "idle" /\ got'[s] = None
    BY <1>1 DEF Label
  <1>3. UNCHANGED <<now, recs, recent, view, outdated>> /\ overtaken' \subseteq Session
        /\ suspect' \subseteq {"recent", "streak"}
    BY DEF Crash, cache, TypeOK
  <1> QED BY <1>2, <1>3 DEF TypeOK

LEMMA TickTypes ==
  ASSUME TypeOK, Tick
  PROVE  TypeOK'
  <1>1. now' \in 0..MaxTime
    <2>1. now < MaxTime /\ now' = now + 1
      BY DEF Tick
    <2> QED BY <2>1, Numbers, TimeType
  <1>2. UNCHANGED <<recs, pc, got, view, overtaken, outdated>> /\ suspect' \subseteq {"recent", "streak"}
    BY DEF Tick, local, TypeOK
  <1>3. recent' = None \/ UNCHANGED recent
    BY DEF Tick
  <1> QED BY <1>1, <1>2, <1>3 DEF TypeOK

LEMMA NextTypeOK == TypeOK /\ [Next]_vars => TypeOK'
  <1> SUFFICES ASSUME TypeOK, [Next]_vars PROVE TypeOK'
    OBVIOUS
  <1>1. CASE UNCHANGED vars
    BY <1>1 DEF TypeOK, vars, cache, local, overlaps
  <1>2. ASSUME NEW s \in Session, StepOf(s) PROVE TypeOK'
    BY <1>2, StepKeepsTypes
  <1> QED BY <1>1, <1>2, MoveTypes, HitTypes, QueryTypes, StoreTypes, DecideTypes, CreateTypes,
             ClearRecentTypes, StoreStreakTypes, AnswerTypes, PostTypes, ClearStreakTypes, MarkTypes,
             CommitTypes, FailTypes, CrashTypes, TickTypes DEF Next

\* In every instance the variables keep their types: whatever a request has read, a
\* session shows or the cache holds is a recommendation there is.
THEOREM DailyTypeCorrect == Spec => []TypeOK
  BY InitTypeOK, NextTypeOK, PTL DEF Spec

(***************************************************************************)
(* Sessions that nobody overtakes.  The parts of the inductive invariant:  *)
(* what a request has found is the last recommendation, what it calculated *)
(* is the streak, and while a transaction is about to change what the      *)
(* cache holds, the entry is gone or will be distrusted.                   *)
(***************************************************************************)

\* What a request of GET /users/me that is not overtaken is about is the last one.
FoundIsLast ==
  \A s \in Session \ overtaken : pc[s] \in {"store", "store new", "decide"} => got[s] = MostRecent

\* Before a commit the entries it will make stale have been dropped.
Forgotten ==
  \A s \in Session :
    /\ pc[s] \in {"forget streak", "commit"} => recent = None \/ "recent" \in suspect
    /\ pc[s] \in {"mark", "forget recent", "forget streak", "commit"}
         => streak = None \/ "streak" \in suspect

\* The request is about nothing before it has looked.
NothingAtFirst == \A s \in Session : pc[s] \in {"idle", "find"} => got[s] = None

\* Only what has not been listened to is posted.
PostedUnheard ==
  \A s \in Session :
    pc[s] \in {"play", "mark", "forget recent", "forget streak", "commit"} => ~got[s].listened

\* What looks unheard to a request is unheard unless it was overtaken,
UnheardIsUnheard ==
  \A s \in Session \ overtaken :
    pc[s] # "clear streak" /\ got[s] # None /\ ~got[s].listened => ~recs[got[s].id].listened
\* and to a session that shows it.
ShownUnheard ==
  \A s \in Session \ outdated : view[s] # None /\ ~view[s].listened => ~recs[view[s].id].listened

\* Whatever has been played has been listened to.
PlayedIsHeard == \A i \in DOMAIN recs : recs[i].plays > 0 => recs[i].listened

\* A request that creates a recommendation has found the last one out of date.
DueAt(rs) ==
  now - rs[Len(rs)].created >= (IF rs[Len(rs)].listened THEN ListenedWindow ELSE Window)
CreatesWhenDue ==
  \A s \in Session \ overtaken : pc[s] = "create" /\ recs # <<>> => DueAt(recs)

\* A streak that is calculated is that of the recommendations, or of all but some of
\* the last, that have not been listened to.
CountedLags ==
  /\ DOMAIN counted = Session
  /\ \A s \in Session \ overtaken : pc[s] = "store streak" => Lags(counted[s])

IInv ==
  /\ TypeOK /\ FoundIsLast /\ RecentIsLast /\ Forgotten /\ NothingAtFirst /\ PostedUnheard
  /\ UnheardIsUnheard /\ ShownUnheard /\ PlayedIsHeard /\ CreatesWhenDue
  /\ CountedLags /\ StreakLagsBehind

\* A step of a session.
StepBy(s) ==
  \/ GetUser(s) \/ HitRecent(s) \/ QueryRecent(s) \/ StoreRecent(s) \/ NoneFound(s)
  \/ Decide(s) \/ GenerateNothing(s) \/ CreateRecommendation(s) \/ ClearRecent(s)
  \/ HitStreak(s) \/ CalculateStreak(s) \/ StoreStreak(s) \/ Answer(s)
  \/ PostListened(s) \/ ClearStreak(s) \/ MarkAsListened(s) \/ Commit(s) \/ Fail(s)

LEMMA StepByIsStep ==
  ASSUME TypeOK, NEW s \in Session, StepBy(s)
  PROVE  StepOf(s)
  BY MoveTypes, HitTypes, QueryTypes, StoreTypes, DecideTypes, CreateTypes, ClearRecentTypes,
     StoreStreakTypes, AnswerTypes, PostTypes, ClearStreakTypes, MarkTypes, CommitTypes, FailTypes
     DEF StepBy

\* What the step of a session leaves alone.
LEMMA RowsKept ==
  ASSUME NEW s \in Session, StepBy(s)
  PROVE  CreateRecommendation(s) \/ Commit(s) \/ UNCHANGED recs
  BY DEF StepBy, GetUser, HitRecent, QueryRecent, StoreRecent, NoneFound, Decide, GenerateNothing,
         ClearRecent, HitStreak, CalculateStreak, StoreStreak, Answer, PostListened, ClearStreak,
         MarkAsListened, Fail

LEMMA ViewKept ==
  ASSUME NEW s \in Session, StepBy(s)
  PROVE  Answer(s) \/ Commit(s) \/ UNCHANGED <<view, outdated>>
  BY DEF StepBy, GetUser, HitRecent, QueryRecent, StoreRecent, NoneFound, Decide, GenerateNothing,
         CreateRecommendation, ClearRecent, HitStreak, CalculateStreak, StoreStreak, PostListened,
         ClearStreak, MarkAsListened, Fail, overlaps

LEMMA RecentKept ==
  ASSUME NEW s \in Session, StepBy(s)
  PROVE  \/ StoreRecent(s) \/ ClearRecent(s)
         \/ UNCHANGED recent /\ ("recent" \in suspect' <=> "recent" \in suspect)
  <1>1. CASE StoreStreak(s)
    BY <1>1 DEF StoreStreak, SuspectIf
  <1>2. CASE ClearStreak(s)
    <2>1. suspect' = suspect \ {"streak"} \/ suspect' = suspect \cup {"streak"}
      BY <1>2 DEF ClearStreak, SuspectIf
    <2>2. UNCHANGED recent
      BY <1>2 DEF ClearStreak
    <2> QED BY <2>1, <2>2
  <1> QED BY <1>1, <1>2 DEF StepBy, GetUser, HitRecent, QueryRecent, NoneFound, Decide,
         GenerateNothing, CreateRecommendation, HitStreak, CalculateStreak, Answer, PostListened,
         MarkAsListened, Commit, Fail, cache, overlaps

LEMMA StreakKept ==
  ASSUME NEW s \in Session, StepBy(s)
  PROVE  \/ StoreStreak(s) \/ ClearStreak(s)
         \/ UNCHANGED streak /\ ("streak" \in suspect' <=> "streak" \in suspect)
  <1>1. CASE StoreRecent(s)
    BY <1>1 DEF StoreRecent, SuspectIf
  <1>2. CASE ClearRecent(s)
    <2>1. suspect' = suspect \ {"recent"} \/ suspect' = suspect \cup {"recent"}
      BY <1>2 DEF ClearRecent, SuspectIf
    <2>2. UNCHANGED streak
      BY <1>2 DEF ClearRecent
    <2> QED BY <2>1, <2>2
  <1> QED BY <1>1, <1>2 DEF StepBy, GetUser, HitRecent, QueryRecent, NoneFound, Decide,
         GenerateNothing, CreateRecommendation, HitStreak, CalculateStreak, Answer, PostListened,
         MarkAsListened, Commit, Fail, cache, overlaps

\* A step overtakes others, and only its own session starts afresh.
LEMMA OthersStayOvertaken ==
  ASSUME NEW s \in Session, StepBy(s), NEW q \in Session \ {s}
  PROVE  /\ q \in overtaken => q \in overtaken'
         /\ (CreateRecommendation(s) \/ Commit(s)) /\ pc[q] # "idle" => q \in overtaken'
  <1>1. q \in overtaken => q \in overtaken'
    BY DEF StepBy, GetUser, HitRecent, QueryRecent, StoreRecent, NoneFound, Decide, GenerateNothing,
           CreateRecommendation, ClearRecent, HitStreak, CalculateStreak, StoreStreak, Answer,
           PostListened, ClearStreak, MarkAsListened, Commit, Fail, overlaps, Forget, OvertakenIf,
           OvertakeOthers
  <1>2. (CreateRecommendation(s) \/ Commit(s)) /\ pc[q] # "idle" => q \in overtaken'
    BY DEF CreateRecommendation, Commit, OvertakeOthers, Running
  <1> QED BY <1>1, <1>2

\* The rows with a new one.
LEMMA RowsCreated ==
  ASSUME TypeOK, NEW s \in Session, CreateRecommendation(s)
  PROVE  /\ Len(recs') = Len(recs) + 1 /\ Len(recs) \in Nat
         /\ DOMAIN recs = 1..Len(recs) /\ DOMAIN recs' = 1..Len(recs')
         /\ \A i \in DOMAIN recs : recs'[i] = recs[i]
         /\ ~recs'[Len(recs')].listened /\ recs'[Len(recs')].plays = 0
  <1> DEFINE new == [created |-> now, date |-> now \div Day, listened |-> FALSE, plays |-> 0]
  <1>1. recs' = Append(recs, new)
    BY DEF CreateRecommendation, NewRecommendation
  <1>2. ~new.listened /\ new.plays = 0
    OBVIOUS
  <1> HIDE DEF new
  <1>3. recs \in Seq(Rec)
    BY DEF TypeOK
  <1>4. Len(recs) \in Nat /\ DOMAIN recs = 1..Len(recs)
    BY <1>3
  <1>5. Len(recs') = Len(recs) + 1 /\ DOMAIN recs' = 1..Len(recs') /\ recs'[Len(recs')] = new
    BY <1>1, <1>3
  <1>6. \A i \in DOMAIN recs : recs'[i] = recs[i]
    BY <1>1, <1>3
  <1> QED BY <1>2, <1>4, <1>5, <1>6

LEMMA FoundIsLastKept ==
  ASSUME TypeOK, FoundIsLast, RecentIsLast, NEW s \in Session, StepBy(s)
  PROVE  FoundIsLast'
  <1> SUFFICES ASSUME NEW q \in Session, q \notin overtaken', pc'[q] \in {"store", "store new", "decide"}
               PROVE  got'[q] = MostRecent'
    BY DEF FoundIsLast
  <1>s. StepOf(s)
    BY StepByIsStep
  <1>1. CASE q # s
    <2>1. pc'[q] = pc[q] /\ got'[q] = got[q]
      BY <1>1, <1>s DEF StepOf
    <2>2. q \notin overtaken /\ pc[q] # "idle" /\ ~CreateRecommendation(s) /\ ~Commit(s)
      BY <1>1, <2>1, OthersStayOvertaken
    <2>3. UNCHANGED recs
      BY <2>2, RowsKept
    <2> QED BY <2>1, <2>2, <2>3 DEF FoundIsLast, MostRecent, Recommendation
  <1>2. CASE q = s
    <2>1. CASE HitRecent(s)
      <3>1. At(s, "find")
        BY <1>2, <2>1, <1>s, GotoIsStep DEF HitRecent, Goto, StepOf, Label
      <3>2. "recent" \notin suspect /\ ~RecentOwed(s) /\ recent # None
        BY <1>2, <2>1 DEF HitRecent, OvertakenIf
      <3>3. \A r \in Session : ~At(r, "clear recent")
        BY <3>1, <3>2 DEF RecentOwed, At
      <3>4. recent.value = MostRecent
        BY <3>2, <3>3 DEF RecentIsLast
      <3>5. got'[s] = recent.value /\ UNCHANGED recs
        BY <2>1 DEF HitRecent, TypeOK
      <3> QED BY <1>2, <3>4, <3>5 DEF MostRecent, Recommendation
    <2>2. CASE QueryRecent(s)
      BY <1>2, <2>2 DEF QueryRecent, TypeOK, MostRecent, Recommendation
    <2>3. CASE StoreRecent(s)
      <3>1. At(s, "store")
        BY <1>2, <2>3, <1>s, GotoIsStep DEF StoreRecent, Goto, StepOf, Label
      <3> QED BY <1>2, <2>3, <3>1 DEF StoreRecent, FoundIsLast, At, MostRecent, Recommendation
    <2> QED BY <1>2, <2>1, <2>2, <2>3 DEF TypeOK, StepBy, GetUser, NoneFound, Decide, GenerateNothing,
         CreateRecommendation, ClearRecent, HitStreak, CalculateStreak, StoreStreak, Answer,
         PostListened, ClearStreak, MarkAsListened, Commit, Fail, Goto, Request
  <1> QED BY <1>1, <1>2

LEMMA RecentIsLastKept ==
  ASSUME TypeOK, FoundIsLast, RecentIsLast, Forgotten, NEW s \in Session, StepBy(s)
  PROVE  RecentIsLast'
  <1> SUFFICES ASSUME recent' # None, "recent" \notin suspect', \A q \in Session : pc'[q] # "clear recent"
               PROVE  recent'.value = MostRecent'
    BY DEF RecentIsLast, At
  <1>s. StepOf(s)
    BY StepByIsStep
  <1>1. CASE StoreRecent(s)
    <2>1. s \notin overtaken /\ recent'.value = got[s] /\ UNCHANGED recs
      BY <1>1 DEF StoreRecent, SuspectIf
    <2>2. got[s] = MostRecent
      BY <1>1, <2>1 DEF StoreRecent, FoundIsLast, At
    <2> QED BY <2>1, <2>2 DEF MostRecent, Recommendation
  <1>2. CASE ClearRecent(s)
    BY <1>2 DEF ClearRecent, SuspectIf
  <1>3. CASE CreateRecommendation(s)
    BY <1>3 DEF CreateRecommendation, Goto, TypeOK
  <1>4. CASE Commit(s)
    BY <1>4 DEF Commit, Forgotten, At, cache
  <1>5. CASE ~StoreRecent(s) /\ ~ClearRecent(s) /\ ~CreateRecommendation(s) /\ ~Commit(s)
    <2>1. UNCHANGED <<recs, recent>> /\ "recent" \notin suspect
      BY <1>5, RowsKept, RecentKept
    <2>2. pc[s] # "clear recent"
      BY <1>5 DEF StepBy, GetUser, HitRecent, QueryRecent, NoneFound, Decide, GenerateNothing,
                  HitStreak, CalculateStreak, StoreStreak, Answer, PostListened, ClearStreak,
                  MarkAsListened, Fail, At, Request, Running
    <2>3. \A q \in Session : ~At(q, "clear recent")
      BY <1>s, <2>2 DEF StepOf, At
    <2> QED BY <2>1, <2>3 DEF RecentIsLast, MostRecent, Recommendation
  <1> QED BY <1>1, <1>2, <1>3, <1>4, <1>5

LEMMA ForgottenKept ==
  ASSUME TypeOK, Forgotten, NEW s \in Session, StepBy(s)
  PROVE  Forgotten'
  <1>s. StepOf(s)
    BY StepByIsStep
  <1> DEFINE RecentGone == recent = None \/ "recent" \in suspect
             StreakGone == streak = None \/ "streak" \in suspect
             AtRecent == {"forget streak", "commit"}
             AtStreak == {"mark", "forget recent", "forget streak", "commit"}
  <1>1. ASSUME NEW q \in Session, q # s, pc[q] \in AtRecent PROVE RecentGone'
    <2>1. RecentGone
      BY <1>1 DEF Forgotten
    <2>2. CASE StoreRecent(s)
      <3>1. RecentOpen(s)
        BY <1>1 DEF RecentOpen
      <3> QED BY <2>2, <3>1 DEF StoreRecent, SuspectIf
    <2>3. CASE ClearRecent(s)
      BY <2>3 DEF ClearRecent, SuspectIf
    <2> QED BY <2>1, <2>2, <2>3, RecentKept
  <1>2. ASSUME NEW q \in Session, q # s, pc[q] \in AtStreak PROVE StreakGone'
    <2>1. StreakGone
      BY <1>2 DEF Forgotten
    <2>2. CASE StoreStreak(s)
      <3>1. StreakOpen(s)
        BY <1>2 DEF StreakOpen
      <3> QED BY <2>2, <3>1 DEF StoreStreak, SuspectIf
    <2>3. CASE ClearStreak(s)
      BY <2>3 DEF ClearStreak, SuspectIf
    <2> QED BY <2>1, <2>2, <2>3, StreakKept
  <1>3. pc'[s] \in AtRecent => RecentGone'
    <2>1. CASE ClearRecent(s)
      BY <2>1 DEF ClearRecent, SuspectIf
    <2>2. CASE ClearStreak(s)
      <3>1. pc'[s] \in AtRecent => At(s, "forget streak")
        BY <2>2, <1>s, GotoIsStep DEF ClearStreak, Label, Goto, TypeOK, At
      <3>2. UNCHANGED recent /\ ("recent" \in suspect' <=> "recent" \in suspect)
        BY <2>2, RecentKept DEF ClearStreak, SuspectIf
      <3> QED BY <3>1, <3>2 DEF Forgotten, At
    <2>3. CASE ~ClearRecent(s) /\ ~ClearStreak(s)
      BY <2>3 DEF StepBy, TypeOK, GetUser, HitRecent, QueryRecent, StoreRecent, NoneFound, Decide,
                  GenerateNothing, CreateRecommendation, HitStreak, CalculateStreak, StoreStreak,
                  Answer, PostListened, MarkAsListened, Commit, Fail, Goto, Request
    <2> QED BY <2>1, <2>2, <2>3
  <1>4. pc'[s] \in AtStreak => StreakGone'
    <2>1. CASE ClearStreak(s)
      BY <2>1 DEF ClearStreak, SuspectIf
    <2>2. CASE ClearRecent(s)
      <3>1. pc'[s] \in AtStreak => At(s, "forget recent")
        BY <2>2, <1>s, GotoIsStep DEF ClearRecent, Label, Goto, TypeOK, At
      <3>2. UNCHANGED streak /\ ("streak" \in suspect' <=> "streak" \in suspect)
        BY <2>2 DEF ClearRecent, SuspectIf
      <3> QED BY <3>1, <3>2 DEF Forgotten, At
    <2>3. CASE MarkAsListened(s)
      BY <2>3 DEF MarkAsListened, Forgotten, At, cache, overlaps
    <2>4. CASE ~ClearRecent(s) /\ ~ClearStreak(s) /\ ~MarkAsListened(s)
      BY <2>4 DEF StepBy, TypeOK, GetUser, HitRecent, QueryRecent, StoreRecent, NoneFound, Decide,
                  GenerateNothing, CreateRecommendation, HitStreak, CalculateStreak, StoreStreak,
                  Answer, PostListened, Commit, Fail, Goto, Request
    <2> QED BY <2>1, <2>2, <2>3, <2>4
  <1>5. \A q \in Session \ {s} : pc'[q] = pc[q]
    BY <1>s DEF StepOf
  <1> QED BY <1>1, <1>2, <1>3, <1>4, <1>5 DEF Forgotten

LEMMA NothingAtFirstKept ==
  ASSUME TypeOK, NothingAtFirst, NEW s \in Session, StepBy(s)
  PROVE  NothingAtFirst'
  <1>s. StepOf(s)
    BY StepByIsStep
  <1>1. pc'[s] \in {"idle", "find"} => got'[s] = None
    <2>1. CASE GetUser(s)
      BY <2>1 DEF GetUser, Request, Running, NothingAtFirst
    <2>2. CASE Answer(s) \/ Fail(s)
      BY <2>2 DEF Answer, Fail, TypeOK, Goto, At
    <2>3. CASE ClearStreak(s)
      BY <2>3 DEF ClearStreak, TypeOK, Goto
    <2>4. CASE ~GetUser(s) /\ ~Answer(s) /\ ~Fail(s) /\ ~ClearStreak(s)
      BY <2>4 DEF StepBy, TypeOK, HitRecent, QueryRecent, StoreRecent, NoneFound, Decide,
                  GenerateNothing, CreateRecommendation, ClearRecent, HitStreak, CalculateStreak,
                  StoreStreak, PostListened, MarkAsListened, Commit, Goto, Request
    <2> QED BY <2>1, <2>2, <2>3, <2>4
  <1> QED BY <1>s, <1>1 DEF NothingAtFirst, StepOf

LEMMA PostedUnheardKept ==
  ASSUME TypeOK, PostedUnheard, NEW s \in Session, StepBy(s)
  PROVE  PostedUnheard'
  <1>s. StepOf(s)
    BY StepByIsStep
  <1> DEFINE Posting == {"play", "mark", "forget recent", "forget streak", "commit"}
  <1>1. pc'[s] \in Posting => ~got'[s].listened
    <2>1. CASE PostListened(s)
      <3>1. got'[s] = view[s]
        BY <2>1, GotSet DEF PostListened, TypeOK, FoundOrNone
      <3> QED BY <2>1, <3>1 DEF PostListened
    <2>2. CASE ClearStreak(s) \/ MarkAsListened(s) \/ ClearRecent(s)
      <3>1. pc'[s] \in Posting => pc[s] \in Posting /\ got'[s] = got[s]
        BY <2>2 DEF ClearStreak, MarkAsListened, ClearRecent, TypeOK, Goto, At
      <3> QED BY <3>1 DEF PostedUnheard
    <2>3. CASE ~PostListened(s) /\ ~ClearStreak(s) /\ ~MarkAsListened(s) /\ ~ClearRecent(s)
      BY <2>3 DEF StepBy, TypeOK, GetUser, HitRecent, QueryRecent, StoreRecent, NoneFound, Decide,
                  GenerateNothing, CreateRecommendation, HitStreak, CalculateStreak, StoreStreak,
                  Answer, Commit, Fail, Goto, Request
    <2> QED BY <2>1, <2>2, <2>3
  <1> QED BY <1>s, <1>1 DEF PostedUnheard, StepOf

\* Only a commit makes a row listened to.
LEMMA RowsStayUnheard ==
  ASSUME TypeOK, NEW s \in Session, StepBy(s), ~Commit(s), NEW i \in DOMAIN recs, ~recs[i].listened
  PROVE  ~recs'[i].listened
  BY RowsKept, RowsCreated

LEMMA UnheardIsUnheardKept ==
  ASSUME TypeOK, RecentIsLast, NothingAtFirst, UnheardIsUnheard, ShownUnheard,
         NEW s \in Session, StepBy(s)
  PROVE  UnheardIsUnheard'
  <1> SUFFICES ASSUME NEW q \in Session, q \notin overtaken', pc'[q] # "clear streak",
                      got'[q] # None, ~got'[q].listened
               PROVE  ~recs'[got'[q].id].listened
    BY DEF UnheardIsUnheard
  <1>s. StepOf(s)
    BY StepByIsStep
  <1>1. CASE q # s
    <2>1. pc'[q] = pc[q] /\ got'[q] = got[q]
      BY <1>1, <1>s DEF StepOf
    <2>2. q \notin overtaken /\ pc[q] # "idle" /\ ~Commit(s)
      BY <1>1, <2>1, OthersStayOvertaken DEF NothingAtFirst
    <2>3. got[q].id \in DOMAIN recs /\ ~recs[got[q].id].listened
      BY <2>1, <2>2 DEF UnheardIsUnheard, TypeOK
    <2> QED BY <2>1, <2>2, <2>3, RowsStayUnheard
  <1>2. CASE q = s
    <2>1. CASE HitRecent(s)
      <3>1. At(s, "find") \/ At(s, "find new")
        BY <2>1 DEF HitRecent
      <3>2. "recent" \notin suspect /\ ~RecentOwed(s) /\ recent # None
        BY <1>2, <2>1 DEF HitRecent, OvertakenIf
      <3>3. \A r \in Session : ~At(r, "clear recent")
        BY <3>1, <3>2 DEF RecentOwed, At
      <3>4. recent.value = MostRecent /\ recs # <<>>
        <4>1. recent.value = MostRecent /\ recent.value # None
          BY <3>2, <3>3, NoneIsNotFound DEF RecentIsLast, TypeOK
        <4> QED BY <4>1 DEF MostRecent
      <3>5. got'[s] = MostRecent /\ UNCHANGED recs
        BY <2>1, <3>4 DEF HitRecent, TypeOK
      <3> QED BY <1>2, <3>4, <3>5, MostRecentFound
    <2>2. CASE QueryRecent(s)
      <3>1. got'[s] = MostRecent /\ UNCHANGED recs /\ recs # <<>>
        BY <2>2 DEF QueryRecent, TypeOK
      <3> QED BY <1>2, <3>1, MostRecentFound
    <2>3. CASE PostListened(s)
      <3>1. got'[s] = view[s] /\ UNCHANGED recs /\ s \notin outdated
        BY <1>2, <2>3 DEF PostListened, TypeOK, OvertakenIf
      <3> QED BY <1>2, <3>1 DEF ShownUnheard
    <2>4. CASE Commit(s)
      BY <1>2, <2>4 DEF Commit, TypeOK, Goto
    <2>5. CASE ClearStreak(s)
      <3>1. got'[s] = got[s] /\ UNCHANGED <<overtaken, recs>> /\ pc[s] # "clear streak"
        BY <1>2, <2>5 DEF ClearStreak, TypeOK, At
      <3> QED BY <1>2, <3>1 DEF UnheardIsUnheard
    <2>6. CASE Fail(s)
      <3>1. got'[s] = got[s] /\ UNCHANGED <<overtaken, recs>> /\ pc[s] # "clear streak"
        BY <1>2, <2>6 DEF Fail, TypeOK, At
      <3> QED BY <1>2, <3>1 DEF UnheardIsUnheard
    <2>7. CASE /\ ~HitRecent(s) /\ ~QueryRecent(s) /\ ~PostListened(s) /\ ~Commit(s)
               /\ ~ClearStreak(s) /\ ~Fail(s)
      <3>1. got'[s] = got[s] /\ pc[s] # "clear streak"
        BY <1>2, <2>7 DEF StepBy, TypeOK, GetUser, StoreRecent, NoneFound, Decide, GenerateNothing,
             CreateRecommendation, ClearRecent, HitStreak, CalculateStreak, StoreStreak, Answer,
             MarkAsListened, At, Request, Running
      <3>2. s \notin overtaken
        <4>1. CASE Answer(s)
          BY <1>2, <4>1 DEF Answer, TypeOK
        <4>2. CASE ~Answer(s)
          BY <1>2, <2>7, <4>2 DEF StepBy, GetUser, StoreRecent, NoneFound, Decide, GenerateNothing,
             CreateRecommendation, ClearRecent, HitStreak, CalculateStreak, StoreStreak,
             MarkAsListened, OvertakenIf, OvertakeOthers, overlaps
        <4> QED BY <4>1, <4>2
      <3>3. got[s].id \in DOMAIN recs /\ ~recs[got[s].id].listened
        BY <1>2, <3>1, <3>2 DEF UnheardIsUnheard, TypeOK
      <3> QED BY <1>2, <2>7, <3>1, <3>3, RowsStayUnheard
    <2> QED BY <2>1, <2>2, <2>3, <2>4, <2>5, <2>6, <2>7
  <1> QED BY <1>1, <1>2

LEMMA ShownUnheardKept ==
  ASSUME TypeOK, UnheardIsUnheard, ShownUnheard, NEW s \in Session, StepBy(s)
  PROVE  ShownUnheard'
  <1> SUFFICES ASSUME NEW q \in Session, q \notin outdated', view'[q] # None, ~view'[q].listened
               PROVE  ~recs'[view'[q].id].listened
    BY DEF ShownUnheard
  <1>1. CASE Answer(s)
    <2>1. UNCHANGED recs
      BY <1>1 DEF Answer
    <2>2. CASE q = s
      <3>1. view'[s] = got[s] /\ s \notin overtaken /\ pc[s] = "answer"
        BY <1>1, <2>2 DEF Answer, TypeOK, At
      <3> QED BY <2>1, <2>2, <3>1 DEF UnheardIsUnheard
    <2>3. CASE q # s
      <3>1. view'[q] = view[q] /\ q \notin outdated
        BY <1>1, <2>3 DEF Answer, TypeOK
      <3> QED BY <2>1, <3>1 DEF ShownUnheard
    <2> QED BY <2>2, <2>3
  <1>2. CASE Commit(s)
    BY <1>2 DEF Commit
  <1>3. CASE ~Answer(s) /\ ~Commit(s)
    <2>1. UNCHANGED <<view, outdated>>
      BY <1>3, ViewKept
    <2>2. view[q].id \in DOMAIN recs /\ ~recs[view[q].id].listened
      BY <2>1 DEF ShownUnheard, TypeOK
    <2> QED BY <1>3, <2>1, <2>2, RowsStayUnheard
  <1> QED BY <1>1, <1>2, <1>3

LEMMA PlayedIsHeardKept ==
  ASSUME TypeOK, PlayedIsHeard, NEW s \in Session, StepBy(s)
  PROVE  PlayedIsHeard'
  <1>1. CASE CreateRecommendation(s)
    <2> SUFFICES ASSUME NEW i \in DOMAIN recs', recs'[i].plays > 0 PROVE recs'[i].listened
      BY DEF PlayedIsHeard
    <2>1. i \in DOMAIN recs \/ i = Len(recs')
      BY <1>1, RowsCreated
    <2>2. i # Len(recs')
      BY <1>1, RowsCreated
    <2> QED BY <1>1, <2>1, <2>2, RowsCreated DEF PlayedIsHeard
  <1>2. CASE Commit(s)
    BY <1>2, CommitRows DEF PlayedIsHeard
  <1>3. CASE UNCHANGED recs
    BY <1>3 DEF PlayedIsHeard
  <1> QED BY <1>1, <1>2, <1>3, RowsKept

LEMMA CreatesWhenDueKept ==
  ASSUME TypeOK, FoundIsLast, CreatesWhenDue, NEW s \in Session, StepBy(s)
  PROVE  CreatesWhenDue'
  <1> SUFFICES ASSUME NEW q \in Session, q \notin overtaken', pc'[q] = "create", recs' # <<>>
               PROVE  DueAt(recs)'
    BY DEF CreatesWhenDue
  <1>s. StepOf(s)
    BY StepByIsStep
  <1>n. now' = now
    BY <1>s DEF StepOf
  <1>1. CASE q # s
    <2>1. pc'[q] = pc[q]
      BY <1>1, <1>s DEF StepOf
    <2>2. q \notin overtaken /\ ~CreateRecommendation(s) /\ ~Commit(s)
      BY <1>1, <2>1, OthersStayOvertaken
    <2>3. UNCHANGED recs
      BY <2>2, RowsKept
    <2> QED BY <1>n, <2>1, <2>2, <2>3 DEF CreatesWhenDue, DueAt
  <1>2. CASE q = s
    <2>1. CASE Decide(s)
      <3>1. UNCHANGED <<recs, overtaken>> /\ pc[s] = "decide" /\ got[s] # None
        BY <2>1 DEF Decide, overlaps, At, TypeOK
      <3>2. got[s] = MostRecent
        BY <1>2, <3>1 DEF FoundIsLast
      <3>3. ~IsCurrent(got[s])
        BY <1>2, <2>1 DEF Decide, TypeOK, Goto
      <3>4. recs # <<>>
        BY <3>1
      <3>5. got[s].id = Len(recs) /\ got[s].listened = recs[Len(recs)].listened
        BY <3>2, <3>4, MostRecentFound
      <3>6. Age(got[s]) = now - recs[Len(recs)].created
        BY <3>5 DEF Age
      <3>7. recs[Len(recs)].created \in Int /\ now \in Int /\ Window \in Int /\ ListenedWindow \in Int
        <4>1. recs \in Seq(Rec)
          BY DEF TypeOK
        <4>2. recs[Len(recs)] \in Rec
          BY <3>4, <4>1
        <4>3. Window \in Int /\ ListenedWindow \in Int
          BY DailyAssumption
        <4> QED BY <4>2, <4>3, TimeType DEF Rec
      <3>8. DueAt(recs)
        BY <3>3, <3>5, <3>6, <3>7 DEF IsCurrent, DueAt
      <3> QED BY <1>n, <3>1, <3>8 DEF DueAt
    <2>2. CASE NoneFound(s)
      BY <1>2, <2>2 DEF NoneFound
    <2> QED BY <1>2, <2>1, <2>2 DEF StepBy, TypeOK, GetUser, HitRecent, QueryRecent, StoreRecent,
          GenerateNothing, CreateRecommendation, ClearRecent, HitStreak, CalculateStreak, StoreStreak,
          Answer, PostListened, ClearStreak, MarkAsListened, Commit, Fail, Goto, Request
  <1> QED BY <1>1, <1>2

\* A recommendation that is added lengthens the part that has not been listened to.
LEMMA LagsCreated ==
  ASSUME TypeOK, NEW s \in Session, CreateRecommendation(s), NEW answer, Lags(answer)
  PROVE  Lags(answer)'
  <1> DEFINE new == [created |-> now, date |-> now \div Day, listened |-> FALSE, plays |-> 0]
  <1>1. recs' = Append(recs, new) /\ recs \in Seq(Rec)
    BY DEF CreateRecommendation, NewRecommendation, TypeOK
  <1> HIDE DEF new
  <1>2. Len(recs') = Len(recs) + 1 /\ Len(recs) \in Nat /\ DOMAIN recs = 1..Len(recs)
        /\ ~recs'[Len(recs')].listened /\ \A i \in DOMAIN recs : recs'[i] = recs[i]
    BY RowsCreated
  <1>3. PICK n \in 0..Len(recs) :
          /\ \A i \in (n + 1)..Len(recs) : ~recs[i].listened
          /\ answer \in Streaks(SubSeq(recs, 1, n))
    BY DEF Lags
  <1>4. SubSeq(recs', 1, n) = SubSeq(recs, 1, n)
    BY <1>1, <1>2, <1>3
  <1>5. n \in 0..Len(recs')
    BY <1>2
  <1>7. answer \in Streaks(SubSeq(recs', 1, n))
    BY <1>3, <1>4, Zenon
  <1>6. \A i \in (n + 1)..Len(recs') : ~recs'[i].listened
    BY <1>2, <1>3
  <1> QED BY <1>5, <1>6, <1>7 DEF Lags

\* The streak of all of them is up to date.
LEMMA LagsNow ==
  ASSUME TypeOK, NEW answer \in Streaks(recs)
  PROVE  Lags(answer)
  <1>1. recs \in Seq(Rec)
    BY DEF TypeOK
  <1>2. Len(recs) \in 0..Len(recs) /\ SubSeq(recs, 1, Len(recs)) = recs
        /\ (Len(recs) + 1)..Len(recs) = {}
    BY <1>1
  <1> QED BY <1>2 DEF Lags

LEMMA LagsKept ==
  ASSUME TypeOK, NEW s \in Session, StepBy(s), ~Commit(s), NEW answer, Lags(answer)
  PROVE  Lags(answer)'
  <1>1. CASE UNCHANGED recs
    BY <1>1 DEF Lags
  <1> QED BY <1>1, LagsCreated, RowsKept

LEMMA CountedLagsKept ==
  ASSUME TypeOK, CountedLags, NEW s \in Session, StepBy(s)
  PROVE  CountedLags'
  <1>s. StepOf(s)
    BY StepByIsStep
  <1>d. DOMAIN counted' = Session /\ \A q \in Session \ {s} : counted'[q] = counted[q]
    <2>1. \/ UNCHANGED counted
          \/ \E c : counted' = [counted EXCEPT ![s] = c]
      BY DEF StepBy, GetUser, HitRecent, QueryRecent, StoreRecent, NoneFound, Decide,
          GenerateNothing, CreateRecommendation, ClearRecent, HitStreak, CalculateStreak, StoreStreak,
          Answer, PostListened, ClearStreak, MarkAsListened, Commit, Fail
    <2> QED BY <2>1 DEF CountedLags
  <1> SUFFICES ASSUME NEW q \in Session, q \notin overtaken', pc'[q] = "store streak"
               PROVE  Lags(counted[q])'
    BY <1>d DEF CountedLags
  <1>1. CASE q # s
    <2>1. pc[q] = "store streak"
      BY <1>1, <1>s DEF StepOf
    <2>2. q \notin overtaken /\ ~Commit(s)
      BY <1>1, <2>1, OthersStayOvertaken
    <2>3. PICK c : c = counted[q]
      OBVIOUS
    <2>4. counted'[q] = c
      BY <1>1, <1>d, <2>3
    <2>5. Lags(c)
      BY <2>1, <2>2, <2>3 DEF CountedLags
    <2>6. Lags(c)'
      BY <2>2, <2>5, LagsKept
    <2> QED BY <2>4, <2>6 DEF Lags
  <1>2. CASE q = s
    <2>1. CalculateStreak(s)
      BY <1>2 DEF StepBy, TypeOK, GetUser, HitRecent, QueryRecent, StoreRecent, NoneFound, Decide,
          GenerateNothing, CreateRecommendation, ClearRecent, HitStreak, StoreStreak,
          Answer, PostListened, ClearStreak, MarkAsListened, Commit, Fail, Goto, Request
    <2>2. PICK c \in Streaks(recs) : counted' = [counted EXCEPT ![s] = c]
      BY <2>1 DEF CalculateStreak
    <2>3. counted'[q] = c /\ UNCHANGED recs
      BY <1>2, <2>1, <2>2 DEF CalculateStreak, CountedLags
    <2>4. Lags(c)
      BY LagsNow
    <2> QED BY <2>3, <2>4 DEF Lags
  <1> QED BY <1>1, <1>2

LEMMA StreakLagsKept ==
  ASSUME TypeOK, Forgotten, CountedLags, StreakLagsBehind, NEW s \in Session, StepBy(s)
  PROVE  StreakLagsBehind'
  <1> SUFFICES ASSUME streak' # None, "streak" \notin suspect' PROVE Lags(streak.value)'
    BY DEF StreakLagsBehind
  <1>1. CASE StoreStreak(s)
    <2>1. s \notin overtaken /\ streak'.value = counted[s] /\ UNCHANGED recs /\ pc[s] = "store streak"
      BY <1>1 DEF StoreStreak, SuspectIf, At
    <2>2. Lags(counted[s])
      BY <2>1 DEF CountedLags
    <2> QED BY <2>1, <2>2 DEF Lags
  <1>2. CASE ClearStreak(s)
    BY <1>2 DEF ClearStreak, SuspectIf
  <1>3. CASE ~StoreStreak(s) /\ ~ClearStreak(s)
    <2>1. UNCHANGED streak /\ "streak" \notin suspect
      BY <1>3, StreakKept
    <2>2. ~Commit(s)
      BY <2>1 DEF Commit, Forgotten, At
    <2>3. PICK c : c = streak.value
      OBVIOUS
    <2>4. Lags(c)
      BY <2>1, <2>3 DEF StreakLagsBehind
    <2>5. Lags(c)'
      BY <2>2, <2>4, LagsKept
    <2> QED BY <2>1, <2>3, <2>5 DEF Lags
  <1> QED BY <1>1, <1>2, <1>3

\* Nothing runs after a crash, and while the clock ticks.
LEMMA CrashKept ==
  ASSUME IInv, Crash
  PROVE  IInv'
  <1>1. TypeOK' /\ TypeOK
    BY CrashTypes DEF IInv
  <1>2. UNCHANGED <<now, recs, recent, streak, view, outdated>> /\ overtaken' = {}
    BY DEF Crash, cache
  <1>3. \A s \in Session : pc'[s] = "idle" /\ got'[s] = None
    BY DEF Crash
  <1>4. FoundIsLast' /\ Forgotten' /\ NothingAtFirst' /\ PostedUnheard' /\ UnheardIsUnheard'
        /\ CreatesWhenDue'
    BY <1>3 DEF FoundIsLast, Forgotten, NothingAtFirst, PostedUnheard, UnheardIsUnheard, CreatesWhenDue
  <1>5. DOMAIN counted' = Session
    BY DEF Crash
  <1>6. CountedLags'
    BY <1>3, <1>5 DEF CountedLags
  <1>7. ShownUnheard' /\ PlayedIsHeard'
    BY <1>2 DEF IInv, ShownUnheard, PlayedIsHeard
  <1>8. suspect \subseteq suspect' /\ ("recent" \notin suspect' => \A s \in Session : ~At(s, "clear recent"))
    BY DEF Crash
  <1>9. RecentIsLast'
    BY <1>2, <1>8 DEF IInv, RecentIsLast, MostRecent, Recommendation
  <1>10. StreakLagsBehind'
    BY <1>2, <1>8 DEF IInv, StreakLagsBehind, Lags
  <1> QED BY <1>1, <1>4, <1>6, <1>7, <1>9, <1>10 DEF IInv

LEMMA TickKept ==
  ASSUME IInv, Tick
  PROVE  IInv'
  <1>1. TypeOK' /\ TypeOK
    BY TickTypes DEF IInv
  <1>2. UNCHANGED <<recs, pc, got, counted, view, overtaken, outdated>>
    BY DEF Tick, local
  <1>3. \A s \in Session : pc'[s] = "idle"
    BY <1>2 DEF Tick, Running
  <1>4. FoundIsLast' /\ Forgotten' /\ PostedUnheard' /\ CreatesWhenDue'
    BY <1>3 DEF FoundIsLast, Forgotten, PostedUnheard, CreatesWhenDue
  <1>5. CountedLags'
    BY <1>2, <1>3 DEF IInv, CountedLags
  <1>6. NothingAtFirst' /\ UnheardIsUnheard' /\ ShownUnheard' /\ PlayedIsHeard'
    BY <1>2 DEF IInv, NothingAtFirst, UnheardIsUnheard, ShownUnheard, PlayedIsHeard
  <1>7. /\ recent' # None => recent' = recent /\ ("recent" \in suspect => "recent" \in suspect')
        /\ streak' # None => streak' = streak /\ ("streak" \in suspect => "streak" \in suspect')
    BY DEF Tick
  <1>8. RecentIsLast'
    BY <1>2, <1>7 DEF IInv, RecentIsLast, MostRecent, Recommendation, At
  <1>9. StreakLagsBehind'
    BY <1>2, <1>7 DEF IInv, StreakLagsBehind, Lags
  <1> QED BY <1>1, <1>4, <1>5, <1>6, <1>8, <1>9 DEF IInv

LEMMA InitIInv == Init => IInv
  <1> SUFFICES ASSUME Init PROVE IInv
    OBVIOUS
  <1>1. \A s \in Session : pc[s] = "idle" /\ got[s] = None /\ view[s] = None
    BY DEF Init
  <1>2. recent = None /\ streak = None /\ DOMAIN counted = Session
    BY DEF Init
  <1>3. FoundIsLast /\ Forgotten /\ NothingAtFirst /\ PostedUnheard /\ UnheardIsUnheard
        /\ ShownUnheard /\ CreatesWhenDue
    BY <1>1 DEF FoundIsLast, Forgotten, NothingAtFirst, PostedUnheard, UnheardIsUnheard,
                ShownUnheard, CreatesWhenDue
  <1>4. RecentIsLast /\ StreakLagsBehind /\ CountedLags
    BY <1>1, <1>2 DEF RecentIsLast, StreakLagsBehind, CountedLags
  <1>5. PlayedIsHeard
    BY DailyAssumption DEF Init, PlayedIsHeard
  <1> QED BY <1>3, <1>4, <1>5, InitTypeOK DEF IInv

LEMMA NextIInv == IInv /\ [Next]_vars => IInv'
  <1> SUFFICES ASSUME IInv, [Next]_vars PROVE IInv'
    OBVIOUS
  <1>1. CASE UNCHANGED vars
    BY <1>1, NextTypeOK
       DEF IInv, vars, cache, local, overlaps, FoundIsLast, RecentIsLast, Forgotten, NothingAtFirst,
           PostedUnheard, UnheardIsUnheard, ShownUnheard, PlayedIsHeard, CreatesWhenDue, CountedLags,
           StreakLagsBehind, MostRecent, Recommendation, DueAt, Lags, At
  <1>2. ASSUME NEW s \in Session, StepBy(s) PROVE IInv'
    <2>1. TypeOK'
      BY <1>2, StepByIsStep, StepKeepsTypes DEF IInv
    <2> QED BY <1>2, <2>1, FoundIsLastKept, RecentIsLastKept, ForgottenKept, NothingAtFirstKept,
               PostedUnheardKept, UnheardIsUnheardKept, ShownUnheardKept, PlayedIsHeardKept,
               CreatesWhenDueKept, CountedLagsKept, StreakLagsKept DEF IInv
  <1> QED BY <1>1, <1>2, CrashKept, TickKept DEF Next, StepBy

LEMMA Inductive == Spec => []IInv
  BY InitIInv, NextIInv, PTL DEF Spec

\* Unless requests overlap or a deletion fails, the cached recommendation is the last
\* one: a user never sees one that has been replaced, or as not yet listened to when it has.
THEOREM RecentIsTheLast == Spec => []RecentIsLast
  <1>1. IInv => RecentIsLast
    BY DEF IInv
  <1> QED BY <1>1, Inductive, PTL

\* Unless requests overlap or a deletion fails, the cached streak is behind only by
\* recommendations that have not been listened to.
THEOREM StreakOnlyLagsBehind == Spec => []StreakLagsBehind
  <1>1. IInv => StreakLagsBehind
    BY DEF IInv
  <1> QED BY <1>1, Inductive, PTL

\* A request that nobody overtakes creates a recommendation only when the last is due.
THEOREM OneRecommendationPerWindow == Spec => OnePerWindow
  <1>1. IInv /\ [Next]_vars =>
          [\A s \in Session :
             At(s, "create") /\ recs' # recs /\ recs # <<>> =>
               LET last == recs[Len(recs)] IN
               \/ now - last.created >= (IF last.listened THEN ListenedWindow ELSE Window)
               \/ s \in overtaken]_vars
    BY DEF IInv, CreatesWhenDue, DueAt, At
  <1> QED BY <1>1, Inductive, PTL DEF Spec, OnePerWindow

\* A recommendation gets its second play only from a session that was overtaken.
THEOREM RecommendationPlayedOnce == Spec => PlayedOnce
  <1>1. IInv /\ [Next]_vars =>
          [\A s \in Session :
             At(s, "commit") /\ recs' # recs /\ recs[got[s].id].plays > 0 => s \in overtaken]_vars
    <2> SUFFICES ASSUME IInv, NEW s \in Session, At(s, "commit"), recs[got[s].id].plays > 0
                 PROVE  s \in overtaken
      OBVIOUS
    <2>1. got[s] # None /\ got[s].id \in DOMAIN recs
      BY DEF IInv, TypeOK, At
    <2>2. ~got[s].listened /\ recs[got[s].id].listened
      BY <2>1 DEF IInv, PostedUnheard, PlayedIsHeard, At
    <2> QED BY <2>1, <2>2 DEF IInv, UnheardIsUnheard, At
  <1> QED BY <1>1, Inductive, PTL DEF Spec, PlayedOnce

=============================================================================
