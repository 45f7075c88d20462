--------------------------- MODULE UserDataProofs ---------------------------
(***************************************************************************)
(* Proofs about UserData: its types, that each entry of the cache is used  *)
(* as CacheAside says, and, for the order the handlers keep between        *)
(* writing, clearing and committing, what concurrent requests may leave    *)
(* in the cache, the configuration and the primary stylus.                 *)
(***************************************************************************)
EXTENDS UserData, SequenceTheorems, FiniteSetTheorems, TLAPS

ConfigOrNone == Configuration \cup {None}

\* What the types of cached and fetched answers come to.
AnswersTyped ==
  /\ cache = [k \in Key |-> cache[k]]
  /\ fetched = [r \in Req |-> fetched[r]]
  /\ \A k \in Key : cache[k] # None => cache[k].own.config \in ConfigOrNone
  /\ \A r \in Req : fetched[r] # None => fetched[r].answer.own.config \in ConfigOrNone

IInv == TypeOK /\ AnswersTyped

-----------------------------------------------------------------------------
(* Steps *)

LEMMA StepKinds ==
  ASSUME NEW step \in Steps
  PROVE  /\ step[1] = "get" => step[2] \in Key \cup {"folder"}
         /\ step[1] = "clear" => step[2] \in Key
         /\ step[1] = "write" => step[2] \in SUBSET Effect
         /\ step[1] = "selectedFolderID" => step[2] \in Folder
         /\ step[1] = "preferences" => step[2] \in 0..1
  BY DEF Steps

LEMMA Singleton ==
  ASSUME NEW step \in Steps
  PROVE  <<step>> \in Seq(Steps)
  OBVIOUS

LEMMA NextStep ==
  ASSUME TypeOK, NEW r \in Req, NEW op, Doing(r, op)
  PROVE  /\ Step(r) \in Steps
         /\ Tail(todo[r]) \in Seq(Steps)
         /\ Step(r)[1] = op
  BY DEF TypeOK, Doing, Step

\* Where a request goes on keeps the types.
LEMMA ContinueTyped ==
  ASSUME TypeOK, NEW r \in Req, NEW steps \in Seq(Steps), NEW c \in ConfigOrNone,
         NEW m \in SUBSET Key, Continue(r, steps, c, m)
  PROVE  /\ todo' \in [Req -> Seq(Steps)]
         /\ copy' \in [Req -> ConfigOrNone]
         /\ met' \in [Req -> SUBSET Key]
         /\ fresh' \subseteq Req
  <1>1. todo' = [todo EXCEPT ![r] = steps] /\ fresh' = fresh
    BY DEF Continue
  <1>2. PICK over \in BOOLEAN : /\ copy' = [copy EXCEPT ![r] = IF over THEN None ELSE c]
                                /\ met' = [met EXCEPT ![r] = IF over THEN {} ELSE m]
    BY DEF Continue
  <1> QED BY <1>1, <1>2 DEF TypeOK, ConfigOrNone

LEMMA EndTyped ==
  ASSUME TypeOK, NEW r \in Req, End(r)
  PROVE  /\ todo' \in [Req -> Seq(Steps)]
         /\ copy' \in [Req -> ConfigOrNone]
         /\ met' \in [Req -> SUBSET Key]
         /\ fresh' \subseteq Req
  <1>1. <<>> \in Seq(Steps) /\ copy[r] \in ConfigOrNone /\ met[r] \in SUBSET Key
    BY DEF TypeOK, ConfigOrNone
  <1> QED BY <1>1, ContinueTyped DEF End

LEMMA ProceedTyped ==
  ASSUME TypeOK, NEW r \in Req, NEW op, Doing(r, op), Proceed(r)
  PROVE  /\ todo' \in [Req -> Seq(Steps)]
         /\ copy' \in [Req -> ConfigOrNone]
         /\ met' \in [Req -> SUBSET Key]
         /\ fresh' \subseteq Req
  <1>1. Tail(todo[r]) \in Seq(Steps) /\ copy[r] \in ConfigOrNone /\ met[r] \in SUBSET Key
    BY NextStep DEF TypeOK, ConfigOrNone
  <1> QED BY <1>1, ContinueTyped DEF Proceed
-----------------------------------------------------------------------------
(* The parts of the type invariant *)

Control ==
  /\ todo \in [Req -> Seq(Steps)] /\ copy \in [Req -> ConfigOrNone]
  /\ met \in [Req -> SUBSET Key] /\ fresh \subseteq Req
Data == rows \in [Row -> Nat] /\ config \in ConfigOrNone /\ primary \subseteq Stylus
Answers ==
  /\ \A r \in Req : fetched[r] = None \/ fetched[r].key \in Key
  /\ AnswersTyped
Rest == suspect \subseteq Key /\ faults \in 0..MaxFaults /\ expiries \in 0..MaxExpiries

LEMMA Parts == IInv <=> Control /\ Data /\ Answers /\ Rest
  BY DEF IInv, TypeOK, Control, Data, Answers, Rest, ConfigOrNone

LEMMA NextParts == IInv' <=> Control' /\ Data' /\ Answers' /\ Rest'
  BY DEF IInv, TypeOK, Control, Data, Answers, Rest, ConfigOrNone, AnswersTyped

LEMMA DataKept ==
  ASSUME Data, UNCHANGED database
  PROVE  Data'
  BY DEF Data, database

LEMMA AnswersKept ==
  ASSUME Answers, UNCHANGED <<cache, fetched>>
  PROVE  Answers'
  BY DEF Answers, AnswersTyped

LEMMA RestKept ==
  ASSUME Rest, UNCHANGED <<suspect, bounds>>
  PROVE  Rest'
  BY DEF Rest, bounds

\* Statements keep the types of the rows.
LEMMA ApplyTyped ==
  ASSUME Data, NEW E, Apply(E)
  PROVE  rows' \in [Row -> Nat] /\ primary' \subseteq Stylus
  BY DEF Data, Apply

LEMMA WantedTyped ==
  ASSUME TypeOK, NEW r \in Req, Doing(r, "get"), Wanted(r) # None
  PROVE  Wanted(r) \in Key
  <1>1. Step(r)[2] \in Key \cup {"folder"}
    BY NextStep, StepKinds
  <1>2. ASSUME copy[r] # None
        PROVE  copy[r].selectedFolderID \in Key
    BY <1>2 DEF TypeOK, Configuration, Key
  <1> QED BY <1>1, <1>2 DEF Wanted

LEMMA ReadTyped ==
  ASSUME TypeOK, NEW r \in Req, Doing(r, "get"), NEW k \in Key,
         NEW answer, answer.own.config \in ConfigOrNone, Read(r, k, answer)
  PROVE  Control'
  <1> DEFINE m == (met[r] \ {k}) \cup ((UnsettledByOthers(r) \cup (suspect \cap {"user"})) \cap {k})
             c == IF k = "user" THEN answer.own.config ELSE copy[r]
  <1>1. m \in SUBSET Key /\ c \in ConfigOrNone
    BY DEF TypeOK, ConfigOrNone
  <1>2. Tail(todo[r]) \in Seq(Steps)
    BY NextStep
  <1>3. Continue(r, Tail(todo[r]), c, m)
    BY DEF Read
  <1> HIDE DEF m, c
  <1> QED BY <1>1, <1>2, <1>3, ContinueTyped DEF Control

-----------------------------------------------------------------------------
(* Type correctness, action by action *)

LEMMA InitIInv == Init => IInv
  <1> SUFFICES ASSUME Init PROVE IInv
    OBVIOUS
  <1>1. Control
    BY WorkloadAssumption DEF Init, Control, ConfigOrNone
  <1>2. Data
    BY UserDataAssumption DEF Init, Data, ConfigOrNone, Configuration
  <1>3. Answers
    BY DEF Init, Answers, AnswersTyped
  <1>4. Rest
    BY UserDataAssumption DEF Init, Rest
  <1> QED BY <1>1, <1>2, <1>3, <1>4, Parts

LEMMA StartTyped ==
  ASSUME IInv, NEW r \in Req, Start(r)
  PROVE  IInv'
  <1>1. Control'
    <2>1. \A q \in Req : /\ UnsettledByOthers(r) \cap Followed(r) \subseteq Key
                         /\ met[q] \cup (Unsettled(r)' \cap Followed(q)) \subseteq Key
      BY DEF IInv, TypeOK, AnswersTyped, Followed, Key
    <2>2. met' \in [Req -> SUBSET Key]
      BY <2>1 DEF Start
    <2> QED BY <2>2 DEF Start, Control, IInv, TypeOK, locals, ConfigOrNone
  <1>2. Data' /\ Answers' /\ Rest'
    BY DataKept, AnswersKept, RestKept, Parts DEF Start, locals
  <1> QED BY <1>1, <1>2, NextParts

LEMMA ReadingTyped ==
  ASSUME IInv, NEW r \in Req, Skip(r) \/ Hit(r) \/ Query(r) \/ NotFound(r)
  PROVE  IInv'
  <1> USE Parts
  <1>1. Data' /\ Rest'
    BY DataKept, RestKept DEF Skip, Hit, Query, NotFound
  <1>2. CASE Skip(r)
    <2>1. Control'
      BY <1>2, ProceedTyped DEF Skip, IInv, Control
    <2> QED BY <1>1, <1>2, <2>1, AnswersKept, NextParts DEF Skip
  <1>3. CASE Hit(r)
    <2>1. Wanted(r) \in Key /\ cache[Wanted(r)].own.config \in ConfigOrNone
      BY <1>3, WantedTyped DEF Hit, IInv, AnswersTyped
    <2>2. Control'
      BY <1>3, <2>1, ReadTyped DEF Hit, IInv
    <2> QED BY <1>1, <1>3, <2>2, AnswersKept, NextParts DEF Hit
  <1>4. CASE Query(r)
    <2> DEFINE k == Wanted(r)
               answer == Answer(k, FolderOf(r))
    <2>1. k \in Key
      BY <1>4, WantedTyped DEF Query, IInv
    <2>2. answer.own.config \in ConfigOrNone
      BY DEF Answer, Own, IInv, TypeOK, ConfigOrNone
    <2>3. fetched' = [fetched EXCEPT ![r] = [key |-> k, answer |-> answer]] /\ Read(r, k, answer)
      BY <1>4 DEF Query
    <2>4. Control'
      BY <1>4, <2>1, <2>2, <2>3, ReadTyped DEF Query, IInv
    <2> HIDE DEF k, answer
    <2>5. UNCHANGED cache /\ fetched' = [q \in Req |-> IF q = r THEN [key |-> k, answer |-> answer] ELSE fetched[q]]
      BY <1>4, <2>3 DEF Query, Answers, AnswersTyped
    <2>6. \A q \in Req : fetched'[q] = None \/ fetched'[q].key \in Key
      BY <2>1, <2>5 DEF Answers
    <2>7. \A q \in Req : fetched'[q] # None => fetched'[q].answer.own.config \in ConfigOrNone
      BY <2>2, <2>5 DEF Answers, AnswersTyped
    <2>8. fetched' = [q \in Req |-> fetched'[q]]
      BY <2>5
    <2>9. Answers'
      BY <2>5, <2>6, <2>7, <2>8 DEF Answers, AnswersTyped
    <2> QED BY <1>1, <2>4, <2>9, NextParts
  <1>5. CASE NotFound(r)
    <2>1. CASE Continue(r, <<InsertUser>>, None, met[r])
      <3>1. <<"insert user", None>> \in Steps
        BY DEF Steps
      <3>2. <<InsertUser>> \in Seq(Steps)
        BY <3>1, Singleton DEF InsertUser
      <3>3. None \in ConfigOrNone /\ met[r] \in SUBSET Key
        BY DEF ConfigOrNone, Control
      <3> QED BY <2>1, <3>2, <3>3, <1>1, <1>5, ContinueTyped, AnswersKept, NextParts DEF Control, NotFound, IInv
    <2>2. CASE End(r)
      BY <2>2, <1>1, <1>5, EndTyped, AnswersKept, NextParts DEF Control, NotFound, IInv
    <2>3. CASE Continue(r, SubSeq(todo[r], 3, Len(todo[r])), copy[r], met[r])
      <3>1. SubSeq(todo[r], 3, Len(todo[r])) \in Seq(Steps) /\ copy[r] \in ConfigOrNone /\ met[r] \in SUBSET Key
        BY DEF Control
      <3> QED BY <2>3, <3>1, <1>1, <1>5, ContinueTyped, AnswersKept, NextParts DEF Control, NotFound, IInv
    <2> QED BY <1>5, <2>1, <2>2, <2>3 DEF NotFound
  <1> QED BY <1>2, <1>3, <1>4, <1>5

LEMMA StoreTyped ==
  ASSUME IInv, NEW r \in Req, Store(r)
  PROVE  IInv'
  <1> USE Parts
  <1>1. Control'
    <2>1. todo[r] \in Seq(Steps) /\ copy[r] \in ConfigOrNone
            /\ met[r] \cap {"user", "styluses"} \in SUBSET Key
      BY DEF Control
    <2> QED BY <2>1, ContinueTyped DEF Store, Control, IInv
  <1>2. Data'
    BY DataKept DEF Store
  <1>3. Answers'
    <2>1. /\ cache' = [k \in Key |-> IF k = fetched[r].key THEN fetched[r].answer ELSE cache[k]]
          /\ fetched' = [q \in Req |-> IF q = r THEN None ELSE fetched[q]]
      BY DEF Store, Answers, AnswersTyped
    <2>2. fetched[r] # None /\ fetched[r].answer.own.config \in ConfigOrNone
      BY DEF Store, Answers, AnswersTyped
    <2>3. \A k \in Key : cache'[k] # None => cache'[k].own.config \in ConfigOrNone
      BY <2>1, <2>2 DEF Answers, AnswersTyped
    <2>4. \A q \in Req : fetched'[q] # None =>
            fetched'[q].key \in Key /\ fetched'[q].answer.own.config \in ConfigOrNone
      BY <2>1 DEF Answers, AnswersTyped
    <2>5. cache' = [k \in Key |-> cache'[k]] /\ fetched' = [q \in Req |-> fetched'[q]]
      BY <2>1
    <2> QED BY <2>3, <2>4, <2>5 DEF Answers, AnswersTyped
  <1>4. Rest'
    BY DEF Store, Rest, bounds, Control
  <1> QED BY <1>1, <1>2, <1>3, <1>4, NextParts

LEMMA ExecuteTyped ==
  ASSUME Data, NEW r \in Req, NEW E, Execute(r, E), UNCHANGED config
  PROVE  Data'
  BY ApplyTyped DEF Execute, Data

LEMMA StatementTyped ==
  ASSUME IInv, NEW r \in Req, Statement(r) \/ CommitTransaction(r)
  PROVE  IInv'
  <1> USE Parts
  <1>1. Control'
    BY ProceedTyped DEF Statement, CommitTransaction, Control, IInv
  <1>2. Data'
    <2>1. CASE Statement(r)
      BY <2>1, ExecuteTyped DEF Statement
    <2>2. CASE CommitTransaction(r)
      BY <2>2, ApplyTyped DEF CommitTransaction, Data
    <2> QED BY <2>1, <2>2
  <1>3. Answers' /\ Rest'
    BY AnswersKept, RestKept DEF Statement, CommitTransaction
  <1> QED BY <1>1, <1>2, <1>3, NextParts

LEMMA RefuseTyped ==
  ASSUME IInv, NEW r \in Req, Refuse(r)
  PROVE  IInv'
  <1> USE Parts
  <1>1. Control'
    BY EndTyped DEF Refuse, Control, IInv
  <1>2. Data' /\ Answers'
    BY DataKept, AnswersKept DEF Refuse
  <1>3. Rest'
    <2>1. UNCHANGED <<suspect, expiries>>
      BY DEF Refuse
    <2>2. UNCHANGED faults \/ (faults < MaxFaults /\ faults' = faults + 1)
      BY DEF Refuse
    <2> QED BY <2>1, <2>2, UserDataAssumption DEF Rest
  <1> QED BY <1>1, <1>2, <1>3, NextParts

LEMMA PassingTyped ==
  ASSUME IInv, NEW r \in Req, Accept(r) \/ Find(r) \/ NoConfig(r)
  PROVE  IInv'
  <1> USE Parts
  <1>1. Control'
    BY ProceedTyped, EndTyped DEF Accept, Find, NoConfig, Control, IInv
  <1>2. Data' /\ Answers' /\ Rest'
    BY DataKept, AnswersKept, RestKept DEF Accept, Find, NoConfig
  <1> QED BY <1>1, <1>2, NextParts

LEMMA SaveConfigTyped ==
  ASSUME IInv, NEW r \in Req, SaveConfig(r)
  PROVE  IInv'
  <1> USE Parts
  <1>1. copy[r] \in Configuration
    BY DEF SaveConfig, Control, ConfigOrNone
  <1>2. config' \in Configuration
    <2>1. CASE Doing(r, "selectedFolderID")
      <3>1. Step(r)[1] = "selectedFolderID" /\ Step(r)[2] \in Folder
        BY <2>1, NextStep, StepKinds DEF IInv
      <3>2. config' = [copy[r] EXCEPT !["selectedFolderID"] = Step(r)[2]]
        BY <3>1 DEF SaveConfig
      <3> QED BY <1>1, <3>1, <3>2 DEF Configuration
    <2>2. CASE Doing(r, "preferences")
      <3>1. Step(r)[1] = "preferences" /\ Step(r)[2] \in 0..1
        BY <2>2, NextStep, StepKinds DEF IInv
      <3>2. config' = [copy[r] EXCEPT !["preferences"] = Step(r)[2]]
        BY <3>1 DEF SaveConfig
      <3> QED BY <1>1, <3>1, <3>2 DEF Configuration
    <2> QED BY <2>1, <2>2 DEF SaveConfig
  <1>3. Control'
    <2>1. Tail(todo[r]) \in Seq(Steps) /\ config' \in ConfigOrNone /\ met[r] \in SUBSET Key
      BY <1>2, NextStep DEF SaveConfig, Control, ConfigOrNone, IInv
    <2>2. Continue(r, Tail(todo[r]), config', met[r])
      BY DEF SaveConfig
    <2> QED BY <2>1, <2>2, ContinueTyped DEF Control, IInv
  <1>4. Data'
    BY <1>2 DEF SaveConfig, Data, ConfigOrNone
  <1>5. Answers' /\ Rest'
    BY AnswersKept, RestKept DEF SaveConfig
  <1> QED BY <1>3, <1>4, <1>5, NextParts

LEMMA CreateConfigTyped ==
  ASSUME IInv, NEW r \in Req, CreateConfig(r)
  PROVE  IInv'
  <1> USE Parts
  <1>1. Control'
    BY ProceedTyped, EndTyped DEF CreateConfig, Control, IInv
  <1>2. Data'
    <2>1. [selectedFolderID |-> All, preferences |-> 0] \in ConfigOrNone
      BY UserDataAssumption DEF Configuration, ConfigOrNone
    <2> QED BY <2>1 DEF CreateConfig, Data
  <1>3. Answers' /\ Rest'
    BY AnswersKept, RestKept DEF CreateConfig
  <1> QED BY <1>1, <1>2, <1>3, NextParts

LEMMA CreateFromOIDCTyped ==
  ASSUME IInv, NEW r \in Req, CreateFromOIDC(r)
  PROVE  IInv'
  <1> USE Parts
  <1>1. Control'
    BY EndTyped DEF CreateFromOIDC, Control, IInv
  <1>2. Data'
    BY ApplyTyped DEF CreateFromOIDC, Data
  <1>3. Answers'
    <2> DEFINE answer == [Answer("user", None) EXCEPT !.own.rows = [x \in {"account"} |-> 1]]
    <2>1. answer.own.config \in ConfigOrNone
      BY DEF Answer, Own, Data
    <2>2. \/ UNCHANGED fetched
          \/ fetched' = [q \in Req |-> IF q = r THEN [key |-> "user", answer |-> answer] ELSE fetched[q]]
      BY DEF CreateFromOIDC, Answers, AnswersTyped
    <2> HIDE DEF answer
    <2>3. \A q \in Req : fetched'[q] # None =>
            fetched'[q].key \in Key /\ fetched'[q].answer.own.config \in ConfigOrNone
      BY <2>1, <2>2 DEF Answers, AnswersTyped, Key
    <2>4. fetched' = [q \in Req |-> fetched'[q]] /\ UNCHANGED cache
      BY <2>2 DEF CreateFromOIDC, Answers, AnswersTyped
    <2> QED BY <2>3, <2>4 DEF Answers, AnswersTyped
  <1>4. Rest'
    BY RestKept DEF CreateFromOIDC
  <1> QED BY <1>1, <1>2, <1>3, <1>4, NextParts

LEMMA ClearEntryTyped ==
  ASSUME IInv, NEW r \in Req, ClearEntry(r)
  PROVE  IInv'
  <1> USE Parts
  <1>1. Step(r)[2] \in Key
    BY NextStep, StepKinds DEF ClearEntry, IInv
  <1>2. Control'
    BY ProceedTyped DEF ClearEntry, Control, IInv
  <1>3. Data'
    BY DataKept DEF ClearEntry
  <1>4. Answers'
    BY <1>1 DEF ClearEntry, Answers, AnswersTyped
  <1>5. Rest'
    BY <1>1, UserDataAssumption DEF ClearEntry, Rest
  <1> QED BY <1>2, <1>3, <1>4, <1>5, NextParts

LEMMA ExpireTyped ==
  ASSUME IInv, NEW k \in Key, Expire(k)
  PROVE  IInv'
  <1> USE Parts
  <1>1. Control'
    BY DEF Expire, Control, locals
  <1>2. Data'
    BY DataKept DEF Expire
  <1>3. Answers'
    BY DEF Expire, Answers, AnswersTyped, locals
  <1>4. Rest'
    BY UserDataAssumption DEF Expire, Rest
  <1> QED BY <1>1, <1>2, <1>3, <1>4, NextParts

LEMMA CrashTyped ==
  ASSUME IInv, Crash
  PROVE  IInv'
  <1> USE Parts
  <1>1. Control'
    <2>1. \A r \in Req : <<>> \in Seq(Steps) /\ todo[r] \in Seq(Steps)
      BY DEF Control
    <2> QED BY <2>1 DEF Crash, Control, ConfigOrNone
  <1>2. Data'
    BY DataKept DEF Crash
  <1>3. Answers'
    BY DEF Crash, Answers, AnswersTyped
  <1>4. Rest'
    <2>1. UNION {Owed(r) : r \in Req} \subseteq Key
      BY DEF Owed
    <2> QED BY <2>1, UserDataAssumption DEF Crash, Rest
  <1> QED BY <1>1, <1>2, <1>3, <1>4, NextParts

LEMMA NextIInv == IInv /\ [Next]_vars => IInv'
  <1> SUFFICES ASSUME IInv, [Next]_vars PROVE IInv'
    OBVIOUS
  <1>1. CASE UNCHANGED vars
    BY <1>1 DEF IInv, TypeOK, AnswersTyped, vars, database, locals, bounds
  <1>2. ASSUME NEW r \in Req,
               \/ Start(r) \/ Skip(r) \/ Hit(r) \/ Query(r) \/ NotFound(r) \/ Store(r)
               \/ Statement(r) \/ Refuse(r) \/ Accept(r) \/ Find(r) \/ CommitTransaction(r)
               \/ SaveConfig(r) \/ NoConfig(r) \/ CreateConfig(r) \/ CreateFromOIDC(r)
               \/ ClearEntry(r)
        PROVE  IInv'
    BY <1>2, StartTyped, ReadingTyped, StoreTyped, StatementTyped, RefuseTyped, PassingTyped,
       SaveConfigTyped, CreateConfigTyped, CreateFromOIDCTyped, ClearEntryTyped
  <1>3. CASE \E k \in Key : Expire(k)
    BY <1>3, ExpireTyped
  <1>4. CASE Crash
    BY <1>4, CrashTyped
  <1>5. CASE Done
    BY <1>5, <1>1 DEF Done
  <1> QED BY <1>1, <1>2, <1>3, <1>4, <1>5 DEF Next

LEMMA AlwaysIInv == Spec => []IInv
  BY InitIInv, NextIInv, PTL DEF Spec

\* In every instance the variables keep their types, and a configuration, in the
\* database, in the cache or copied by a request, always has a folder.
THEOREM UserDataTypeCorrect == Spec => []TypeOK
  <1>1. IInv => TypeOK
    BY DEF IInv
  <1> QED BY <1>1, AlwaysIInv, PTL

-----------------------------------------------------------------------------
(* Every entry implements CacheAside.  An action that neither gives nor stores *)
(* an answer is a question nobody asked; the others are looked at one by one.  *)

PendingFor(k) == {fetched[r].answer : r \in {q \in Req : fetched[q] # None /\ fetched[q].key = k}}
AnswersFor(k) == {Answer(k, f) : f \in IF k = "releases" THEN Folder ELSE {None}}

\* CacheAside's step for an entry, written out.
LEMMA EntryStep ==
  ASSUME NEW k \in Key,
         PendingFor(k)' \subseteq PendingFor(k) \cup AnswersFor(k)',
         cache'[k] \in PendingFor(k) \/ cache'[k] = None \/ cache'[k] = cache[k]
  PROVE  Entry(k)!Next
  BY DEF Entry!Next, Entry!Ask, Entry!Store, Entry!Drop, PendingFor, AnswersFor

LEMMA SameFetched ==
  ASSUME NEW k \in Key, UNCHANGED fetched
  PROVE  PendingFor(k)' \subseteq PendingFor(k) \cup AnswersFor(k)'
  BY DEF PendingFor

\* Answers that are forgotten, or given at this step.
LEMMA GivenNow ==
  ASSUME NEW k \in Key, NEW r \in Req, IInv, NEW given,
         fetched' = [fetched EXCEPT ![r] = given],
         given # None /\ given.key = k => given.answer \in AnswersFor(k)'
  PROVE  PendingFor(k)' \subseteq PendingFor(k) \cup AnswersFor(k)'
  <1>1. fetched' = [q \in Req |-> IF q = r THEN given ELSE fetched[q]]
    BY DEF IInv, AnswersTyped
  <1> QED BY <1>1 DEF PendingFor

LEMMA QueryIsAsk ==
  ASSUME IInv, NEW r \in Req, Query(r), NEW k \in Key
  PROVE  Entry(k)!Next
  <1> DEFINE w == Wanted(r)
             given == [key |-> w, answer |-> Answer(w, FolderOf(r))]
  <1>1. fetched' = [fetched EXCEPT ![r] = given] /\ UNCHANGED <<database, cache>>
    BY DEF Query
  <1>2. ASSUME w = k PROVE given.answer \in AnswersFor(k)'
    <2>1. CASE k = "releases"
      <3>1. copy[r] # None
        BY <1>2, <2>1 DEF Query, Wanted
      <3>2. FolderOf(r) \in Folder
        BY <3>1 DEF FolderOf, IInv, TypeOK, Configuration
      <3> QED BY <1>1, <1>2, <2>1, <3>2 DEF AnswersFor, Answer, Own, Preloads, database
    <2>2. CASE k # "releases"
      BY <1>1, <1>2, <2>2 DEF AnswersFor, Answer, Own, Preloads, database
    <2> QED BY <2>1, <2>2
  <1>3. PendingFor(k)' \subseteq PendingFor(k) \cup AnswersFor(k)'
    <2>1. given # None /\ given.key = k => given.answer \in AnswersFor(k)'
      BY <1>2
    <2> HIDE DEF given
    <2> QED BY <1>1, <2>1, GivenNow
  <1>4. cache'[k] = cache[k]
    BY <1>1
  <1> QED BY <1>3, <1>4, EntryStep

\* Nothing but the configuration is preloaded into the user.
LEMMA NothingPreloaded == Preloads("user")' = Preloads("user")
  <1>1. Unwatched("user") = {}
    BY DEF Unwatched
  <1>2. Restrict(rows', {}) = Restrict(rows, {})
    BY DEF Restrict
  <1> QED BY <1>1, <1>2 DEF Preloads

LEMMA CreateFromOIDCIsAsk ==
  ASSUME IInv, NEW r \in Req, CreateFromOIDC(r), NEW k \in Key
  PROVE  Entry(k)!Next
  <1> DEFINE answer == [Answer("user", None) EXCEPT !.own.rows = [x \in {"account"} |-> 1]]
             given == [key |-> "user", answer |-> answer]
  <1>1. cache'[k] = cache[k]
    BY DEF CreateFromOIDC
  <1>2. CASE rows["account"] = 0
    <2>1. fetched' = [fetched EXCEPT ![r] = given] /\ Apply({Insert("account")}) /\ UNCHANGED config
      BY <1>2 DEF CreateFromOIDC
    <2>2. rows' = [rows EXCEPT !["account"] = 1]
      <3>1. \A x \in Row :
              LET E == {Insert("account")} IN
              Delete(x) \notin E /\ Upsert(x) \notin E /\ Update(x) \notin E
                /\ (Insert(x) \in E <=> x = "account")
        BY DEF Insert, Delete, Upsert, Update
      <3>2. rows' = [x \in Row |-> IF x = "account" THEN rows[x] + 1 ELSE rows[x]]
        BY <2>1, <3>1 DEF Apply
      <3>3. "account" \in Row /\ rows = [x \in Row |-> rows[x]]
        BY DEF IInv, TypeOK, Row
      <3> QED BY <1>2, <3>2, <3>3
    <2>3. Answer("user", None)' = answer
      <3>1. Restrict(rows, {"account"})' = [x \in {"account"} |-> 1]
        BY <2>2 DEF Restrict, IInv, TypeOK, Row
      <3>2. Own("user", None)' = [Own("user", None) EXCEPT !.rows = [x \in {"account"} |-> 1]]
        BY <2>1, <3>1 DEF Own, Watched
      <3>3. Preloads("user")' = Preloads("user")
        BY NothingPreloaded
      <3> QED BY <3>2, <3>3 DEF Answer
    <2>4. given # None /\ given.key = k => given.answer \in AnswersFor(k)'
      BY <2>3 DEF AnswersFor
    <2> HIDE DEF given
    <2> QED BY <1>1, <2>1, <2>4, GivenNow, EntryStep
  <1>3. CASE rows["account"] # 0
    BY <1>1, <1>3, SameFetched, EntryStep DEF CreateFromOIDC
  <1> QED BY <1>2, <1>3

LEMMA StoreIsStore ==
  ASSUME IInv, NEW r \in Req, Store(r), NEW k \in Key
  PROVE  Entry(k)!Next
  <1>1. PendingFor(k)' \subseteq PendingFor(k) \cup AnswersFor(k)'
    <2>1. fetched' = [fetched EXCEPT ![r] = None]
      BY DEF Store
    <2> QED BY <2>1, GivenNow
  <1>2. cache'[k] \in PendingFor(k) \/ cache'[k] = cache[k]
    <2>1. /\ fetched[r] # None
          /\ cache' = [cache EXCEPT ![fetched[r].key] = fetched[r].answer]
      BY DEF Store
    <2>2. CASE fetched[r].key = k
      BY <2>1, <2>2 DEF PendingFor, IInv, AnswersTyped
    <2>3. CASE fetched[r].key # k
      BY <2>1, <2>3 DEF IInv, AnswersTyped
    <2> QED BY <2>2, <2>3
  <1> QED BY <1>1, <1>2, EntryStep

LEMMA ClearingIsDrop ==
  ASSUME IInv, NEW k \in Key, (\E r \in Req : ClearEntry(r)) \/ (\E j \in Key : Expire(j))
  PROVE  Entry(k)!Next
  <1>1. UNCHANGED fetched
    BY DEF ClearEntry, Expire, locals
  <1>2. cache'[k] = None \/ cache'[k] = cache[k]
    BY DEF ClearEntry, Expire, IInv, AnswersTyped
  <1> QED BY <1>1, <1>2, SameFetched, EntryStep

LEMMA CrashForgets ==
  ASSUME Crash, NEW k \in Key
  PROVE  Entry(k)!Next
  <1>1. PendingFor(k)' = {}
    BY DEF Crash, PendingFor
  <1>2. cache'[k] = cache[k]
    BY DEF Crash
  <1> QED BY <1>1, <1>2, EntryStep

LEMMA OthersDoNothing ==
  ASSUME NEW k \in Key, UNCHANGED <<cache, fetched>>
  PROVE  Entry(k)!Next
  BY SameFetched, EntryStep

LEMMA NextIsEntryStep ==
  ASSUME IInv, [Next]_vars, NEW k \in Key
  PROVE  [Entry(k)!Next]_(Entry(k)!vars)
  <1>1. CASE UNCHANGED vars
    <2>1. UNCHANGED <<cache, fetched>>
      BY <1>1 DEF vars, locals
    <2> QED BY <2>1, OthersDoNothing
  <1>2. ASSUME NEW r \in Req,
               \/ Start(r) \/ Skip(r) \/ Hit(r) \/ NotFound(r)
               \/ Statement(r) \/ Refuse(r) \/ Accept(r) \/ Find(r) \/ CommitTransaction(r)
               \/ SaveConfig(r) \/ NoConfig(r) \/ CreateConfig(r)
        PROVE  Entry(k)!Next
    <2>1. UNCHANGED <<cache, fetched>>
      BY <1>2 DEF Start, Skip, Hit, NotFound, Statement, Refuse, Accept, Find,
                  CommitTransaction, SaveConfig, NoConfig, CreateConfig, locals
    <2> QED BY <2>1, OthersDoNothing
  <1>3. ASSUME NEW r \in Req, Query(r) \/ Store(r) \/ CreateFromOIDC(r) \/ ClearEntry(r)
        PROVE  Entry(k)!Next
    BY <1>3, QueryIsAsk, StoreIsStore, CreateFromOIDCIsAsk, ClearingIsDrop
  <1>4. CASE \E j \in Key : Expire(j)
    BY <1>4, ClearingIsDrop
  <1>5. CASE Crash
    BY <1>5, CrashForgets
  <1>6. CASE Done
    BY <1>6, <1>1 DEF Done
  <1> QED BY <1>1, <1>2, <1>3, <1>4, <1>5, <1>6 DEF Next

\* For any requests, handlers, folders, faults and expiries, every entry of the cache is
\* an instance of CacheAside: whatever is stored in it is an answer the database has
\* given to somebody.
THEOREM EntriesImplementCacheAside == Spec => EntriesAreCacheAside
  <1>1. Init => \A k \in Key : Entry(k)!Init
    BY DEF Init, Entry!Init
  <1>2. IInv /\ [Next]_vars => [\A k \in Key : [Entry(k)!Next]_(Entry(k)!vars)]_vars
    BY NextIsEntryStep
  <1> QED BY <1>1, <1>2, AlwaysIInv, PTL DEF Spec, EntriesAreCacheAside


-----------------------------------------------------------------------------
(* Old rows in entries.  What follows holds if the requests run the handlers   *)
(* of the code, whose order of writing, clearing and committing matters: every *)
(* handler keeps the order stated here, and so does what is left of it.        *)

\* The entries that rows belong to, and the rows that effects are about.
Entries(X) == {k \in Key : Watched(k) \cap X # {}}
Subjects(E) == {e[2] : e \in E}

Writes(step) == step[1] \in {"write", "unset all"}
Saves(step) == step[1] \in {"selectedFolderID", "preferences", "insert configuration"}

\* What has to be cleared for a statement: all but the entries of deleted folders.
Dropped(step) == {f \in Folder : step[1] = "write" /\ Delete(f) \in step[2]}
Due(step) == Entries(Target(step)) \ Dropped(step)

CommitsAfter(s, i) == \E j \in DOMAIN s : j > i /\ s[j] = Commit

\* After step i, the entry k is cleared before anything else is done; before the transaction
\* commits.
ClearsNext(s, i, k) ==
  \E m \in DOMAIN s : m > i /\ s[m] = Clear(k) /\ \A j \in i + 1 .. m - 1 : s[j][1] \in {"clear", "reread"}
ClearsFirst(s, i, k) ==
  \E m \in DOMAIN s : m > i /\ s[m] = Clear(k) /\ \A j \in i + 1 .. m - 1 : s[j] # Commit

\* A statement is followed at once by the clearing of its entries, a statement in a
\* transaction by that before the commit.
WritesCleared(s, i) ==
  Writes(s[i]) =>
    \A k \in Due(s[i]) : IF CommitsAfter(s, i) THEN ClearsFirst(s, i, k) ELSE ClearsNext(s, i, k)
SavesCleared(s, i) == Saves(s[i]) => ClearsNext(s, i, "user")
\* Nothing is read between a statement and the commit.
NothingRead(s, i) ==
  Writes(s[i]) /\ CommitsAfter(s, i) =>
    \A j \in DOMAIN s : i < j /\ CommitsAfter(s, j) => s[j][1] # "get"
\* Users are created by a request that does nothing else, and never deleted.
AccountStays(s, i) ==
  /\ s[i][1] = "write" => \A e \in s[i][2] : e[2] = "account" => e = Update("account")
  /\ s[i][1] = "insert user" => Len(s) = 1
\* A row is read again right after its update, and what is then cleared has to do with it.
RereadsWritten(s, i) ==
  s[i][1] = "reread" =>
    /\ i > 1 => /\ s[i - 1][1] = "write" /\ Update(s[i][2]) \in s[i - 1][2]
                /\ Delete(s[i][2]) \notin s[i - 1][2]
    /\ \A k \in Key : ClearsNext(s, i, k) => s[i][2] \in Watched(k)

Clearing(s) ==
  \A i \in DOMAIN s :
    /\ WritesCleared(s, i) /\ SavesCleared(s, i) /\ NothingRead(s, i)
    /\ AccountStays(s, i) /\ RereadsWritten(s, i)

\* What is left of s after n steps.
Left(t, s, n) ==
  /\ n \in 0..Len(s) /\ t \in Seq(Steps) /\ Len(t) = Len(s) - n
  /\ \A i \in 1..Len(t) : t[i] = s[i + n]

LEMMA TailLeft ==
  ASSUME NEW s \in Seq(Steps), s # <<>>
  PROVE  Left(Tail(s), s, 1)
  BY DEF Left

LEMMA AllLeft ==
  ASSUME NEW s \in Seq(Steps)
  PROVE  Left(s, s, 0)
  BY DEF Left

LEMMA NoneLeft ==
  ASSUME NEW s \in Seq(Steps)
  PROVE  Left(<<>>, s, Len(s))
  BY DEF Left

\* Without the folder, the step after it is skipped as well.
LEMMA SkipLeft ==
  ASSUME NEW s \in Seq(Steps), Len(s) >= 2
  PROVE  Left(SubSeq(s, 3, Len(s)), s, 2)
  <1>1. Len(s) \in Int /\ 3 \in Int /\ \A i \in 3..Len(s) : s[i] \in Steps
    OBVIOUS
  <1>2. /\ SubSeq(s, 3, Len(s)) \in Seq(Steps)
        /\ Len(SubSeq(s, 3, Len(s))) = IF 3 <= Len(s) THEN Len(s) - 3 + 1 ELSE 0
        /\ \A i \in 1 .. Len(s) - 3 + 1 : SubSeq(s, 3, Len(s))[i] = s[3 + i - 1]
    BY <1>1, SubSeqProperties
  <1>3. /\ (IF 3 <= Len(s) THEN Len(s) - 3 + 1 ELSE 0) = Len(s) - 2
        /\ \A i \in 1 .. Len(s) - 2 : 3 + i - 1 = i + 2 /\ i \in 1 .. Len(s) - 3 + 1
    BY <1>1
  <1>4. \A i \in 1 .. Len(s) - 2 : SubSeq(s, 3, Len(s))[i] = s[i + 2]
    BY <1>2, <1>3
  <1>5. 2 \in 0..Len(s)
    BY <1>1
  <1> QED BY <1>2, <1>3, <1>4, <1>5 DEF Left

LEMMA CommitsLeft ==
  ASSUME NEW s \in Seq(Steps), NEW t, NEW n, Left(t, s, n), NEW i \in Nat
  PROVE  CommitsAfter(t, i) <=> CommitsAfter(s, i + n)
  <1>1. n \in Nat /\ DOMAIN t = 1..Len(t) /\ DOMAIN s = 1..Len(s) /\ Len(s) \in Nat /\ Len(t) = Len(s) - n
    BY DEF Left
  <1>2. ASSUME NEW j \in DOMAIN t, j > i, t[j] = Commit PROVE CommitsAfter(s, i + n)
    <2>1. j + n \in DOMAIN s /\ j + n > i + n /\ s[j + n] = Commit
      BY <1>1, <1>2 DEF Left
    <2> QED BY <2>1 DEF CommitsAfter
  <1>3. ASSUME NEW j \in DOMAIN s, j > i + n, s[j] = Commit PROVE CommitsAfter(t, i)
    <2>1. j - n \in DOMAIN t /\ j - n > i /\ t[j - n] = Commit
      BY <1>1, <1>3 DEF Left
    <2> QED BY <2>1 DEF CommitsAfter
  <1> QED BY <1>2, <1>3 DEF CommitsAfter

LEMMA ClearsNextLeft ==
  ASSUME NEW s \in Seq(Steps), NEW t, NEW n, Left(t, s, n), NEW i \in Nat, NEW k
  PROVE  ClearsNext(t, i, k) <=> ClearsNext(s, i + n, k)
  <1>1. n \in Nat /\ DOMAIN t = 1..Len(t) /\ DOMAIN s = 1..Len(s) /\ Len(s) \in Nat /\ Len(t) = Len(s) - n
    BY DEF Left
  <1>2. ASSUME NEW m \in DOMAIN t, m > i, t[m] = Clear(k),
               \A j \in i + 1 .. m - 1 : t[j][1] \in {"clear", "reread"}
        PROVE  ClearsNext(s, i + n, k)
    <2>1. m + n \in DOMAIN s /\ m + n > i + n /\ s[m + n] = Clear(k)
      BY <1>1, <1>2 DEF Left
    <2>2. ASSUME NEW j \in i + n + 1 .. m + n - 1 PROVE s[j][1] \in {"clear", "reread"}
      <3>1. j - n \in i + 1 .. m - 1 /\ t[j - n] = s[j]
        BY <1>1, <1>2 DEF Left
      <3> QED BY <3>1, <1>2
    <2> QED BY <1>1, <2>1, <2>2 DEF ClearsNext
  <1>3. ASSUME NEW m \in DOMAIN s, m > i + n, s[m] = Clear(k),
               \A j \in i + n + 1 .. m - 1 : s[j][1] \in {"clear", "reread"}
        PROVE  ClearsNext(t, i, k)
    <2> DEFINE u == m - n
    <2>1. u \in DOMAIN t /\ u > i /\ t[u] = Clear(k)
      BY <1>1, <1>3 DEF Left
    <2>2. ASSUME NEW j \in i + 1 .. u - 1 PROVE t[j][1] \in {"clear", "reread"}
      <3>1. j + n \in i + n + 1 .. m - 1 /\ t[j] = s[j + n]
        BY <1>1, <1>3 DEF Left
      <3> QED BY <3>1, <1>3
    <2> HIDE DEF u
    <2> QED BY <2>1, <2>2 DEF ClearsNext
  <1> QED BY <1>2, <1>3 DEF ClearsNext

LEMMA ClearsFirstLeft ==
  ASSUME NEW s \in Seq(Steps), NEW t, NEW n, Left(t, s, n), NEW i \in Nat, NEW k
  PROVE  ClearsFirst(s, i + n, k) => ClearsFirst(t, i, k)
  <1>1. n \in Nat /\ DOMAIN t = 1..Len(t) /\ DOMAIN s = 1..Len(s) /\ Len(s) \in Nat /\ Len(t) = Len(s) - n
    BY DEF Left
  <1>2. ASSUME NEW m \in DOMAIN s, m > i + n, s[m] = Clear(k), \A j \in i + n + 1 .. m - 1 : s[j] # Commit
        PROVE  ClearsFirst(t, i, k)
    <2>1. m - n \in DOMAIN t /\ m - n > i /\ t[m - n] = Clear(k)
      BY <1>1, <1>2, SMTT(30) DEF Left
    <2>2. ASSUME NEW j \in i + 1 .. m - n - 1 PROVE t[j] # Commit
      <3>1. j + n \in i + n + 1 .. m - 1 /\ t[j] = s[j + n]
        BY <1>1, <1>2 DEF Left
      <3> QED BY <3>1, <1>2
    <2> QED BY <2>1, <2>2 DEF ClearsFirst
  <1> QED BY <1>2 DEF ClearsFirst

LEMMA ClearingLeft ==
  ASSUME NEW s \in Seq(Steps), NEW t, NEW n, Left(t, s, n), Clearing(s)
  PROVE  Clearing(t)
  <1>1. n \in Nat /\ DOMAIN t = 1..Len(t) /\ DOMAIN s = 1..Len(s) /\ Len(s) \in Nat /\ Len(t) = Len(s) - n
    BY DEF Left
  <1> SUFFICES ASSUME NEW i \in DOMAIN t
               PROVE  /\ WritesCleared(t, i) /\ SavesCleared(t, i) /\ NothingRead(t, i)
                      /\ AccountStays(t, i) /\ RereadsWritten(t, i)
    BY DEF Clearing
  <1>2. i \in Nat /\ i + n \in DOMAIN s /\ t[i] = s[i + n]
    BY <1>1 DEF Left
  <1>3. /\ WritesCleared(s, i + n) /\ SavesCleared(s, i + n) /\ NothingRead(s, i + n)
        /\ AccountStays(s, i + n) /\ RereadsWritten(s, i + n)
    BY <1>2 DEF Clearing
  <1>4. WritesCleared(t, i) /\ SavesCleared(t, i)
    BY <1>2, <1>3, CommitsLeft, ClearsNextLeft, ClearsFirstLeft DEF WritesCleared, SavesCleared
  <1>5. NothingRead(t, i)
    <2>1. ASSUME NEW j \in DOMAIN t, i < j, CommitsAfter(t, j), Writes(t[i]), CommitsAfter(t, i)
          PROVE  t[j][1] # "get"
      <3>1. j \in Nat /\ j + n \in DOMAIN s /\ t[j] = s[j + n] /\ i + n < j + n
        BY <1>1, <1>2, <2>1 DEF Left
      <3>2. CommitsAfter(s, j + n) /\ CommitsAfter(s, i + n)
        BY <1>2, <2>1, <3>1, CommitsLeft
      <3> QED BY <1>2, <1>3, <2>1, <3>1, <3>2 DEF NothingRead
    <2> QED BY <2>1 DEF NothingRead
  <1>6. AccountStays(t, i)
    <2>1. s[i + n][1] = "insert user" => Len(t) = 1
      <3>1. s[i + n][1] = "insert user" => Len(s) = 1
        BY <1>3 DEF AccountStays
      <3>2. i \in 1..Len(t) /\ Len(t) \in Nat
        BY <1>1, <1>2
      <3>3. Len(s) = 1 => Len(t) = 1
        BY <1>1, <3>2
      <3> QED BY <3>1, <3>3
    <2> QED BY <1>2, <1>3, <2>1 DEF AccountStays
  <1>7. RereadsWritten(t, i)
    <2>1. i > 1 => i + n > 1 /\ t[i - 1] = s[i + n - 1]
      <3>1. ASSUME i > 1 PROVE i - 1 \in 1..Len(t) /\ (i - 1) + n = i + n - 1 /\ i + n > 1
        BY <1>1, <3>1
      <3> QED BY <1>1, <3>1 DEF Left
    <2>2. t[i][1] = "reread" => \A k \in Key : ClearsNext(t, i, k) => t[i][2] \in Watched(k)
      BY <1>2, <1>3, ClearsNextLeft DEF RereadsWritten
    <2>3. t[i][1] = "reread" /\ i > 1 =>
            t[i - 1][1] = "write" /\ Update(t[i][2]) \in t[i - 1][2] /\ Delete(t[i][2]) \notin t[i - 1][2]
      <3> DEFINE u == t[i - 1]
                 v == t[i]
      <3>1. t[i][1] = "reread" /\ i > 1 =>
              /\ i + n > 1 /\ u = s[i + n - 1] /\ v = s[i + n] /\ s[i + n][1] = "reread"
        BY <1>2, <2>1
      <3>2. s[i + n][1] = "reread" /\ i + n > 1 =>
              /\ s[i + n - 1][1] = "write" /\ Update(s[i + n][2]) \in s[i + n - 1][2]
              /\ Delete(s[i + n][2]) \notin s[i + n - 1][2]
        BY <1>1, <1>2, <1>3 DEF RereadsWritten
      <3> HIDE DEF u, v
      <3>3. t[i][1] = "reread" /\ i > 1 => u[1] = "write" /\ Update(v[2]) \in u[2] /\ Delete(v[2]) \notin u[2]
        BY <3>1, <3>2
      <3> QED BY <3>3 DEF u, v
    <2> QED BY <2>2, <2>3 DEF RereadsWritten
  <1> QED BY <1>4, <1>5, <1>6, <1>7

\* At most one stylus is made primary between two commits, in a transaction that has made
\* sure before that no other is, and with nothing read in between.
SetsPrimary(step) == step[1] = "write" /\ \E s \in Stylus : SetPrimary(s) \in step[2]
OneSet(E) == \A s, t \in Stylus : SetPrimary(s) \in E /\ SetPrimary(t) \in E => s = t
SetsOnce(s, i) ==
  SetsPrimary(s[i]) =>
    /\ CommitsAfter(s, i) /\ OneSet(s[i][2])
    /\ \A j \in DOMAIN s : j > i /\ SetsPrimary(s[j]) => \E m \in i .. j : s[m] = Commit
\* What is skipped when there is no folder is a question too.
SkipsReads(s, i) ==
  s[i][1] = "get" =>
    /\ s[i][2] \notin Folder
    /\ s[i][2] = "folder" /\ i + 1 \in DOMAIN s => s[i + 1][1] = "get"
Choosing(s) == \A i \in DOMAIN s : SetsOnce(s, i) /\ SkipsReads(s, i)

Undivided(s, i, j) == \A m \in i .. j : s[m] # Commit /\ s[m][1] # "get"
UnsetsFirst(s, i) == \E j \in 1 .. i - 1 : s[j] = UnsetAll /\ Undivided(s, j, i)
UnsetsAllFirst(s) == \A i \in DOMAIN s : SetsPrimary(s[i]) => UnsetsFirst(s, i)

LEMMA ChoosingLeft ==
  ASSUME NEW s \in Seq(Steps), NEW t, NEW n, Left(t, s, n), Choosing(s)
  PROVE  Choosing(t)
  <1>1. n \in Nat /\ DOMAIN t = 1..Len(t) /\ DOMAIN s = 1..Len(s) /\ Len(s) \in Nat /\ Len(t) = Len(s) - n
    BY DEF Left
  <1> SUFFICES ASSUME NEW i \in DOMAIN t PROVE SetsOnce(t, i) /\ SkipsReads(t, i)
    BY DEF Choosing
  <1>2. i \in Nat /\ i + n \in DOMAIN s /\ t[i] = s[i + n]
    BY <1>1 DEF Left
  <1>3. SetsOnce(s, i + n) /\ SkipsReads(s, i + n)
    BY <1>2 DEF Choosing
  <1>4. SetsOnce(t, i)
    <2>1. ASSUME SetsPrimary(t[i]), NEW j \in DOMAIN t, j > i, SetsPrimary(t[j])
          PROVE  \E m \in i .. j : t[m] = Commit
      <3>1. j + n \in DOMAIN s /\ j + n > i + n /\ s[j + n] = t[j]
        BY <1>1, <1>2, <2>1 DEF Left
      <3>2. PICK m \in i + n .. j + n : s[m] = Commit
        BY <1>2, <1>3, <2>1, <3>1 DEF SetsOnce
      <3>3. m - n \in i .. j /\ m - n \in 1..Len(t) /\ (m - n) + n = m
        BY <1>1, <1>2, <3>1
      <3>4. t[m - n] = Commit
        BY <3>2, <3>3 DEF Left
      <3> QED BY <3>3, <3>4
    <2> QED BY <1>2, <1>3, <2>1, CommitsLeft DEF SetsOnce
  <1>5. SkipsReads(t, i)
    <2>1. i + 1 \in DOMAIN t => i + n + 1 \in DOMAIN s /\ t[i + 1] = s[i + n + 1]
      <3>1. (i + 1) + n = i + n + 1
        BY <1>1, <1>2
      <3> QED BY <1>1, <1>2, <3>1 DEF Left
    <2> QED BY <1>1, <1>2, <1>3, <2>1 DEF SkipsReads
  <1> QED BY <1>4, <1>5

-----------------------------------------------------------------------------
(* What a request does with its steps *)

\* The rows a request may still change, and the entries they belong to.
Targets(s) == UNION {Target(s[i]) : i \in DOMAIN s}
Ahead(r) == Targets(todo[r]) \cup Subjects(tx[r])
MayChange(r) == IF r \in fresh THEN {} ELSE Entries(Ahead(r))

TxTyped == tx \in [Req -> SUBSET Effect]

\* What holds of a request whatever the others do.
Orderly(r) ==
  /\ Clearing(todo[r]) /\ Choosing(todo[r])
  /\ r \in fresh => fetched[r] = None /\ tx[r] = {} /\ copy[r] = None /\ UnsetsAllFirst(todo[r])
  /\ ~Running(r) => copy[r] = None /\ fetched[r] = None
  /\ \A e \in tx[r] : e[2] = "account" => e = Update("account")
  /\ tx[r] # {} =>
       /\ fetched[r] = None /\ (todo[r] = <<>> \/ CommitsAfter(todo[r], 0))
       /\ \A j \in DOMAIN todo[r] : CommitsAfter(todo[r], j) => todo[r][j][1] # "get"

Typed == IInv /\ TxTyped

Acts(r) ==
  \/ Skip(r) \/ Hit(r) \/ Query(r) \/ NotFound(r) \/ Store(r)
  \/ Statement(r) \/ Refuse(r) \/ Accept(r) \/ Find(r) \/ CommitTransaction(r)
  \/ SaveConfig(r) \/ NoConfig(r) \/ CreateConfig(r) \/ CreateFromOIDC(r) \/ ClearEntry(r)

LEMMA Facts ==
  ASSUME Typed
  PROVE  /\ todo \in [Req -> Seq(Steps)] /\ rows \in [Row -> Nat]
         /\ copy \in [Req -> ConfigOrNone] /\ met \in [Req -> SUBSET Key]
         /\ tx \in [Req -> SUBSET Effect] /\ suspect \subseteq Key /\ fresh \subseteq Req
         /\ primary \subseteq Stylus
         /\ cache = [k \in Key |-> cache[k]] /\ fetched = [r \in Req |-> fetched[r]]
         /\ \A r \in Req : fetched[r] # None => fetched[r].key \in Key
  BY DEF Typed, IInv, TypeOK, AnswersTyped, TxTyped, ConfigOrNone

\* The effects of a statement.
Effects(r) ==
  IF Step(r)[1] = "write" THEN Step(r)[2] ELSE {UnsetPrimary(s) : s \in {x \in Stylus : rows[x] # 0}}

LEMMA EffectsTyped ==
  ASSUME Typed, NEW r \in Req, Doing(r, "write") \/ Doing(r, "unset all")
  PROVE  Effects(r) \subseteq Effect /\ Subjects(Effects(r)) \subseteq Target(Step(r))
  <1>1. CASE Doing(r, "write")
    <2>1. Step(r)[1] = "write" /\ Step(r)[2] \in SUBSET Effect
      BY <1>1, NextStep, StepKinds DEF Typed, IInv
    <2> QED BY <2>1 DEF Effects, Subjects, Target
  <1>2. CASE Doing(r, "unset all")
    <2>1. Step(r)[1] = "unset all"
      BY <1>2 DEF Doing
    <2>2. \A s \in Stylus : UnsetPrimary(s) \in Effect /\ UnsetPrimary(s)[2] = s
      BY DEF UnsetPrimary, Effect, Row
    <2>3. Effects(r) = {UnsetPrimary(s) : s \in {x \in Stylus : rows[x] # 0}}
      BY <2>1 DEF Effects
    <2>4. Target(Step(r)) = Stylus
      BY <2>1 DEF Target
    <2>5. \A e \in Effects(r) : e \in Effect /\ e[2] \in Stylus
      BY <2>2, <2>3
    <2> QED BY <2>4, <2>5 DEF Subjects
  <1> QED BY <1>1, <1>2

LEMMA StatementEffects ==
  ASSUME NEW r \in Req, Statement(r)
  PROVE  /\ Doing(r, "write") \/ Doing(r, "unset all")
         /\ Execute(r, Effects(r))
         /\ Doing(r, "write") => Executable(r, Effects(r))
         /\ Proceed(r) /\ UNCHANGED <<config, cache, fetched, suspect, bounds>>
  BY DEF Statement, Effects, Doing

LEMMA NextTxTyped == Typed /\ [Next]_vars => TxTyped'
  <1> SUFFICES ASSUME Typed, [Next]_vars PROVE TxTyped'
    OBVIOUS
  <1> USE DEF TxTyped
  <1>1. TxTyped
    BY DEF Typed
  <1>2. CASE UNCHANGED tx
    BY <1>1, <1>2
  <1>3. ASSUME NEW r \in Req, Statement(r) PROVE TxTyped'
    BY <1>1, <1>3, StatementEffects, EffectsTyped DEF Execute
  <1>4. ASSUME NEW r \in Req, Refuse(r) \/ CommitTransaction(r) PROVE TxTyped'
    BY <1>1, <1>4 DEF Refuse, CommitTransaction
  <1>5. CASE Crash
    BY <1>5 DEF Crash
  <1>6. ASSUME NEW r \in Req,
               \/ Start(r) \/ Skip(r) \/ Hit(r) \/ Query(r) \/ NotFound(r) \/ Store(r)
               \/ Accept(r) \/ Find(r) \/ SaveConfig(r) \/ NoConfig(r) \/ CreateConfig(r)
               \/ CreateFromOIDC(r) \/ ClearEntry(r)
        PROVE  UNCHANGED tx
    BY <1>6 DEF Start, Skip, Hit, Query, NotFound, Store, Accept, Find, SaveConfig, NoConfig,
                CreateConfig, CreateFromOIDC, ClearEntry, locals
  <1>7. ASSUME NEW k \in Key, Expire(k) PROVE UNCHANGED tx
    BY <1>7 DEF Expire, locals
  <1>8. Done => UNCHANGED tx
    BY DEF Done, vars, locals
  <1>9. UNCHANGED vars => UNCHANGED tx
    BY DEF vars, locals
  <1> QED BY <1>2, <1>3, <1>4, <1>5, <1>6, <1>7, <1>8, <1>9 DEF Next

LEMMA NextTyped == Typed /\ [Next]_vars => Typed'
  BY NextIInv, NextTxTyped DEF Typed

LEMMA ContinueMoves ==
  ASSUME Typed, NEW r \in Req, NEW steps, NEW c, NEW m, Continue(r, steps, c, m)
  PROVE  /\ fresh' = fresh /\ todo'[r] = steps
         /\ \A q \in Req \ {r} : todo'[q] = todo[q] /\ copy'[q] = copy[q] /\ met'[q] = met[q]
         /\ IF steps = <<>> /\ fetched'[r] = None THEN copy'[r] = None /\ met'[r] = {}
                                                   ELSE copy'[r] = c /\ met'[r] = m
  BY Facts DEF Continue

LEMMA DoingMoves ==
  ASSUME Typed, NEW r \in Req, NEW op, Doing(r, op)
  PROVE  /\ r \notin fresh /\ todo[r] \in Seq(Steps) /\ todo[r] # <<>> /\ fetched[r] = None
         /\ 1 \in DOMAIN todo[r] /\ Step(r) = todo[r][1] /\ todo[r][1] \in Steps /\ todo[r][1][1] = op
         /\ Left(Tail(todo[r]), todo[r], 1)
  <1>1. r \notin fresh /\ todo[r] \in Seq(Steps) /\ todo[r] # <<>> /\ fetched[r] = None /\ Step(r)[1] = op
    BY Facts DEF Doing, Running
  <1>2. 1 \in DOMAIN todo[r] /\ Step(r) = todo[r][1] /\ todo[r][1] \in Steps
    BY <1>1 DEF Step
  <1> QED BY <1>1, <1>2, TailLeft

\* A request goes on with its steps, or creates the user it did not find.
Goes(r) ==
  \/ \E n : Left(todo'[r], todo[r], n)
  \/ todo'[r] = <<InsertUser>> /\ todo[r] = FindOrCreateOIDCUser

LEMMA ProceedGoes ==
  ASSUME Typed, NEW r \in Req, NEW op, Doing(r, op), Proceed(r)
  PROVE  /\ fresh' = fresh /\ Left(todo'[r], todo[r], 1)
         /\ \A q \in Req \ {r} : todo'[q] = todo[q] /\ copy'[q] = copy[q] /\ met'[q] = met[q]
  BY ContinueMoves, DoingMoves DEF Proceed

LEMMA EndGoes ==
  ASSUME Typed, NEW r \in Req, End(r)
  PROVE  /\ fresh' = fresh /\ todo'[r] = <<>> /\ Left(todo'[r], todo[r], Len(todo[r]))
         /\ \A q \in Req \ {r} : todo'[q] = todo[q] /\ copy'[q] = copy[q] /\ met'[q] = met[q]
  BY ContinueMoves, NoneLeft, Facts DEF End

LEMMA Moves ==
  ASSUME Typed, NEW r \in Req, Acts(r), r \in fresh => fetched[r] = None
  PROVE  /\ r \notin fresh /\ fresh' = fresh /\ Goes(r)
         /\ \A q \in Req \ {r} :
              /\ todo'[q] = todo[q] /\ copy'[q] = copy[q] /\ met'[q] = met[q]
              /\ fetched'[q] = fetched[q] /\ tx'[q] = tx[q]
  <1>1. \A q \in Req \ {r} : fetched'[q] = fetched[q] /\ tx'[q] = tx[q]
    BY Facts DEF Acts, Skip, Hit, Query, NotFound, Store, Statement, Execute, Refuse, Accept, Find,
         CommitTransaction, SaveConfig, NoConfig, CreateConfig, CreateFromOIDC, ClearEntry
  <1>2. CASE \/ Skip(r) \/ Statement(r) \/ Accept(r) \/ CommitTransaction(r) \/ ClearEntry(r)
    <2>1. Proceed(r) /\ \E op : Doing(r, op)
      BY <1>2 DEF Skip, Statement, Accept, CommitTransaction, ClearEntry
    <2> QED BY <1>1, <2>1, ProceedGoes, DoingMoves DEF Goes
  <1>3. CASE Refuse(r) \/ NoConfig(r) \/ CreateFromOIDC(r)
    <2>1. End(r) /\ \E op : Doing(r, op)
      BY <1>3 DEF Refuse, NoConfig, CreateFromOIDC
    <2> QED BY <1>1, <2>1, EndGoes, DoingMoves DEF Goes
  <1>4. CASE Find(r) \/ CreateConfig(r)
    <2>1. (Proceed(r) \/ End(r)) /\ \E op : Doing(r, op)
      BY <1>4 DEF Find, CreateConfig
    <2> QED BY <1>1, <2>1, ProceedGoes, EndGoes, DoingMoves DEF Goes
  <1>5. CASE Hit(r) \/ Query(r) \/ SaveConfig(r)
    <2>1. PICK c, m : Continue(r, Tail(todo[r]), c, m)
      BY <1>5 DEF Hit, Query, SaveConfig, Read
    <2>2. \E op : Doing(r, op)
      BY <1>5 DEF Hit, Query, SaveConfig
    <2> QED BY <1>1, <2>1, <2>2, ContinueMoves, DoingMoves DEF Goes
  <1>6. CASE NotFound(r)
    <2>1. r \notin fresh /\ todo[r] \in Seq(Steps) /\ todo[r] # <<>>
      BY <1>6, DoingMoves DEF NotFound
    <2>2. CASE Continue(r, <<InsertUser>>, None, met[r]) /\ todo[r] = FindOrCreateOIDCUser
      BY <1>1, <2>1, <2>2, ContinueMoves DEF Goes
    <2>3. CASE End(r)
      BY <1>1, <2>1, <2>3, EndGoes DEF Goes
    <2>4. CASE Continue(r, SubSeq(todo[r], 3, Len(todo[r])), copy[r], met[r])
      <3>1. CASE Len(todo[r]) >= 2
        BY <1>1, <2>1, <2>4, <3>1, ContinueMoves, SkipLeft DEF Goes
      <3>2. CASE ~ Len(todo[r]) >= 2
        <4>1. Len(todo[r]) \in Int /\ Len(todo[r]) < 3
          BY <2>1, <3>2
        <4>2. SubSeq(todo[r], 3, Len(todo[r])) = <<>>
          BY <4>1, SubSeqEmpty
        <4>3. /\ fresh' = fresh /\ todo'[r] = <<>>
              /\ \A q \in Req \ {r} : todo'[q] = todo[q] /\ copy'[q] = copy[q] /\ met'[q] = met[q]
          BY <2>4, <4>2, ContinueMoves
        <4>4. Left(todo'[r], todo[r], Len(todo[r]))
          BY <2>1, <4>3, NoneLeft
        <4> QED BY <1>1, <2>1, <4>3, <4>4 DEF Goes
      <3> QED BY <3>1, <3>2
    <2> QED BY <1>6, <2>2, <2>3, <2>4 DEF NotFound
  <1>7. CASE Store(r)
    <2>1. Continue(r, todo[r], copy[r], met[r] \cap {"user", "styluses"}) /\ fetched[r] # None
      BY <1>7 DEF Store
    <2>2. todo[r] \in Seq(Steps)
      BY Facts
    <2> QED BY <1>1, <2>1, <2>2, ContinueMoves, AllLeft DEF Goes
  <1> QED BY <1>2, <1>3, <1>4, <1>5, <1>6, <1>7 DEF Acts

LEMMA InsertUserOrder == Clearing(<<InsertUser>>) /\ Choosing(<<InsertUser>>)
  <1> DEFINE s == <<InsertUser>>
  <1>1. DOMAIN s = {1} /\ s[1][1] = "insert user" /\ Len(s) = 1
    BY DEF InsertUser
  <1> HIDE DEF s
  <1>2. Clearing(s)
    BY <1>1 DEF Clearing, WritesCleared, SavesCleared, NothingRead, AccountStays, RereadsWritten, Writes, Saves
  <1>3. Choosing(s)
    BY <1>1 DEF Choosing, SetsOnce, SkipsReads, SetsPrimary
  <1> QED BY <1>2, <1>3 DEF s

LEMMA GoesOrder ==
  ASSUME Typed, NEW r \in Req, Goes(r), Clearing(todo[r]), Choosing(todo[r])
  PROVE  Clearing(todo'[r]) /\ Choosing(todo'[r])
  <1>1. todo[r] \in Seq(Steps)
    BY Facts
  <1>2. CASE \E n : Left(todo'[r], todo[r], n)
    BY <1>1, <1>2, ClearingLeft, ChoosingLeft
  <1>3. CASE todo'[r] = <<InsertUser>>
    BY <1>3, InsertUserOrder
  <1> QED BY <1>2, <1>3 DEF Goes

\* A request that is over has nothing in its hands.
LEMMA ContinueIdle ==
  ASSUME Typed, NEW r \in Req, NEW steps, NEW c, NEW m, Continue(r, steps, c, m)
  PROVE  ~Running(r)' => r \in fresh \/ (copy'[r] = None /\ met'[r] = {} /\ fetched'[r] = None)
  BY ContinueMoves DEF Running

LEMMA ActsContinue ==
  ASSUME NEW r \in Req, Acts(r)
  PROVE  \E steps, c, m : Continue(r, steps, c, m)
  <1>1. CASE \/ Skip(r) \/ Statement(r) \/ Accept(r) \/ CommitTransaction(r) \/ ClearEntry(r)
             \/ Refuse(r) \/ NoConfig(r) \/ CreateFromOIDC(r) \/ Find(r) \/ CreateConfig(r)
    <2>1. Proceed(r) \/ End(r)
      BY <1>1 DEF Skip, Statement, Accept, CommitTransaction, ClearEntry, Refuse, NoConfig,
                  CreateFromOIDC, Find, CreateConfig
    <2> QED BY <2>1 DEF Proceed, End
  <1>2. CASE Hit(r) \/ Query(r)
    BY <1>2 DEF Hit, Query, Read
  <1>3. CASE NotFound(r)
    BY <1>3 DEF NotFound, End
  <1>4. CASE Store(r)
    BY <1>4 DEF Store
  <1>5. CASE SaveConfig(r)
    BY <1>5 DEF SaveConfig
  <1> QED BY <1>1, <1>2, <1>3, <1>4, <1>5 DEF Acts

\* With an open transaction a request goes on to its commit and reads nothing.
LEMMA InsideTransaction ==
  ASSUME Typed, NEW r \in Req, Orderly(r), tx[r] # {}, NEW op, Doing(r, op)
  PROVE  /\ op \notin {"get", "insert user"}
         /\ op # "commit" => CommitsAfter(todo[r], 1)
         /\ \A j \in DOMAIN todo[r] : CommitsAfter(todo[r], j) => todo[r][j][1] # "get"
  <1> DEFINE s == todo[r]
  <1>1. /\ s \in Seq(Steps) /\ s # <<>> /\ 1 \in DOMAIN s /\ s[1][1] = op
        /\ CommitsAfter(s, 0) /\ \A j \in DOMAIN s : CommitsAfter(s, j) => s[j][1] # "get"
        /\ Clearing(s)
    BY DoingMoves DEF Orderly
  <1> HIDE DEF s
  <1>2. PICK j \in DOMAIN s : j > 0 /\ s[j] = Commit
    BY <1>1 DEF CommitsAfter
  <1>3. op # "commit" => j > 1
    BY <1>1, <1>2 DEF Commit
  <1>4. op # "commit" => CommitsAfter(s, 1)
    BY <1>2, <1>3 DEF CommitsAfter
  <1>5. op # "insert user"
    <2>1. ASSUME op = "insert user" PROVE FALSE
      <3>1. Len(s) = 1
        BY <1>1, <2>1 DEF Clearing, AccountStays
      <3>2. j > 1
        BY <1>3, <2>1
      <3>3. DOMAIN s = 1..Len(s)
        BY <1>1
      <3>4. j \in 1..1
        BY <1>2, <3>1, <3>3
      <3> QED BY <3>2, <3>4
    <2> QED BY <2>1
  <1>6. op # "get"
    BY <1>1, <1>4
  <1> QED BY <1>1, <1>4, <1>5, <1>6 DEF s

\* The transaction of a request that takes a step.
InTx(r) ==
  tx[r] # {} =>
    /\ fetched[r] = None /\ (todo[r] = <<>> \/ CommitsAfter(todo[r], 0))
    /\ \A j \in DOMAIN todo[r] : CommitsAfter(todo[r], j) => todo[r][j][1] # "get"

LEMMA LeftInTx ==
  ASSUME Typed, NEW r \in Req, todo[r] \in Seq(Steps), Left(todo'[r], todo[r], 1), fetched'[r] = None,
         CommitsAfter(todo[r], 1),
         \A j \in DOMAIN todo[r] : j > 1 /\ CommitsAfter(todo[r], j) => todo[r][j][1] # "get"
  PROVE  InTx(r)'
  <1> DEFINE s == todo[r]
             t == todo'[r]
  <1>1. CommitsAfter(t, 0)
    <2>1. 0 \in Nat /\ 0 + 1 = 1
      OBVIOUS
    <2> QED BY <2>1, CommitsLeft
  <1>2. ASSUME NEW j \in DOMAIN t, CommitsAfter(t, j) PROVE t[j][1] # "get"
    <2>1. j \in Nat /\ j + 1 \in DOMAIN s /\ j + 1 > 1 /\ t[j] = s[j + 1]
      BY SMTT(30) DEF Left
    <2>2. CommitsAfter(s, j + 1)
      BY <1>2, <2>1, CommitsLeft
    <2> QED BY <2>1, <2>2
  <1> QED BY <1>1, <1>2 DEF InTx

LEMMA InTransactionAfter ==
  ASSUME Typed, NEW r \in Req, NEW op, Doing(r, op), op # "commit"
  PROVE  InTransaction(r) <=> CommitsAfter(todo[r], 1)
  <1> DEFINE s == todo[r]
  <1>1. s \in Seq(Steps) /\ s # <<>> /\ s[1] # Commit
    BY DoingMoves DEF Commit
  <1>2. Range(s) = {s[i] : i \in DOMAIN s}
    BY DEF Range
  <1>3. \A i \in DOMAIN s : i \in Nat /\ (i > 1 \/ i = 1)
    BY <1>1
  <1> QED BY <1>1, <1>2, <1>3 DEF InTransaction, CommitsAfter

LEMMA ActsInTx ==
  ASSUME Typed, NEW r \in Req, Orderly(r), Acts(r)
  PROVE  InTx(r)' /\ \A e \in tx'[r] : e[2] = "account" => e = Update("account")
  <1>1. \A e \in tx[r] : e[2] = "account" => e = Update("account")
    BY DEF Orderly
  <1> DEFINE s == todo[r]
  <1>2. CASE \/ Skip(r) \/ Hit(r) \/ Query(r) \/ NotFound(r) \/ CreateFromOIDC(r)
    <2>1. tx[r] = {}
      BY <1>2, InsideTransaction DEF Skip, Hit, Query, NotFound, CreateFromOIDC
    <2>2. tx' = tx
      BY <1>2 DEF Skip, Hit, Query, NotFound, CreateFromOIDC
    <2> QED BY <2>1, <2>2 DEF InTx
  <1>3. CASE Store(r)
    BY <1>3 DEF Store, Orderly, InTx
  <1>4. CASE Refuse(r) \/ CommitTransaction(r)
    <2>1. tx'[r] = {}
      BY <1>4, Facts DEF Refuse, CommitTransaction
    <2> QED BY <2>1 DEF InTx
  <1>5. CASE Statement(r)
    <2>1. PICK op \in {"write", "unset all"} : Doing(r, op)
      BY <1>5 DEF Statement
    <2>2. Proceed(r) /\ UNCHANGED fetched /\ Execute(r, Effects(r))
      BY <1>5, StatementEffects
    <2>3. 1 \in DOMAIN s /\ s \in Seq(Steps) /\ s[1][1] = op /\ s[1] = Step(r) /\ Clearing(s)
      BY <2>1, DoingMoves DEF Orderly
    <2>4. Writes(s[1]) /\ NothingRead(s, 1) /\ AccountStays(s, 1)
      BY <2>3 DEF Writes, Clearing
    <2>5. \A e \in Effects(r) : e[2] = "account" => e = Update("account")
      <3>1. CASE op = "write"
        BY <2>1, <2>3, <2>4, <3>1 DEF AccountStays, Effects
      <3>2. CASE op = "unset all"
        <4>1. \A x \in Stylus : UnsetPrimary(x)[2] # "account"
          BY RowsAssumption DEF UnsetPrimary
        <4> QED BY <2>3, <3>2, <4>1 DEF Effects
      <3> QED BY <3>1, <3>2
    <2>6. CASE CommitsAfter(s, 1)
      <3>1. InTx(r)'
        <4>1. Left(todo'[r], s, 1) /\ fetched'[r] = None
          BY <2>1, <2>2, ProceedGoes, DoingMoves
        <4>2. \A j \in DOMAIN s : j > 1 /\ CommitsAfter(s, j) => s[j][1] # "get"
          BY <2>4, <2>6 DEF NothingRead
        <4> QED BY <2>3, <2>6, <4>1, <4>2, LeftInTx
      <3>2. tx'[r] = tx[r] \cup Effects(r)
        BY <2>1, <2>2, <2>6, InTransactionAfter, Facts DEF Execute
      <3> QED BY <1>1, <2>5, <3>1, <3>2
    <2>7. CASE ~CommitsAfter(s, 1)
      <3>1. tx' = tx /\ tx[r] = {}
        BY <2>1, <2>2, <2>7, InTransactionAfter, InsideTransaction DEF Execute
      <3> QED BY <3>1 DEF InTx
    <2> QED BY <2>6, <2>7
  <1>6. CASE Accept(r) \/ Find(r) \/ SaveConfig(r) \/ NoConfig(r) \/ CreateConfig(r) \/ ClearEntry(r)
    <2>1. tx' = tx /\ UNCHANGED fetched
      BY <1>6 DEF Accept, Find, SaveConfig, NoConfig, CreateConfig, ClearEntry
    <2>2. PICK op : op # "commit" /\ Doing(r, op)
      BY <1>6 DEF Accept, Find, SaveConfig, NoConfig, CreateConfig, ClearEntry
    <2>3. Proceed(r) \/ End(r) \/ \E c, m : Continue(r, Tail(todo[r]), c, m)
      BY <1>6 DEF Accept, Find, SaveConfig, NoConfig, CreateConfig, ClearEntry
    <2>4. CASE tx[r] = {}
      BY <2>1, <2>4 DEF InTx
    <2>5. CASE tx[r] # {} /\ End(r)
      <3>1. todo'[r] = <<>> /\ fetched'[r] = None
        BY <2>1, <2>2, <2>5, EndGoes, DoingMoves
      <3> QED BY <1>1, <2>1, <3>1 DEF InTx
    <2>6. CASE tx[r] # {} /\ \E c, m : Continue(r, Tail(todo[r]), c, m)
      <3>1. todo'[r] = Tail(todo[r]) /\ fetched'[r] = None /\ Left(todo'[r], s, 1) /\ s \in Seq(Steps)
        BY <2>1, <2>2, <2>6, ContinueMoves, DoingMoves
      <3>2. CommitsAfter(s, 1) /\ \A j \in DOMAIN s : CommitsAfter(s, j) => s[j][1] # "get"
        BY <2>2, <2>6, InsideTransaction
      <3>3. InTx(r)'
        BY <3>1, <3>2, LeftInTx
      <3> QED BY <1>1, <2>1, <3>3
    <2> QED BY <2>3, <2>4, <2>5, <2>6 DEF Proceed
  <1> QED BY <1>2, <1>3, <1>4, <1>5, <1>6 DEF Acts

LEMMA ActsOrderly ==
  ASSUME Typed, NEW r \in Req, Orderly(r), Acts(r)
  PROVE  Orderly(r)'
  <1>1. r \notin fresh /\ fresh' = fresh /\ Goes(r)
    BY Moves DEF Orderly
  <1>2. Clearing(todo'[r]) /\ Choosing(todo'[r])
    BY <1>1, GoesOrder DEF Orderly
  <1>3. ~Running(r)' => copy'[r] = None /\ fetched'[r] = None
    BY <1>1, ActsContinue, ContinueIdle
  <1>4. InTx(r)' /\ \A e \in tx'[r] : e[2] = "account" => e = Update("account")
    BY ActsInTx
  <1> QED BY <1>1, <1>2, <1>3, <1>4 DEF Orderly, InTx

LEMMA KeptOrderly ==
  ASSUME NEW r \in Req, Orderly(r), r \in fresh' <=> r \in fresh, todo'[r] = todo[r],
         copy'[r] = copy[r], fetched'[r] = fetched[r], tx'[r] = tx[r]
  PROVE  Orderly(r)'
  BY DEF Orderly, Running

\* A step is one of a request, of the clock, or of the server.
LEMMA NextSteps ==
  ASSUME [Next]_vars
  PROVE  \/ \E r \in Req : Acts(r)
         \/ \E r \in Req : Start(r)
         \/ \E k \in Key : Expire(k)
         \/ Crash
         \/ UNCHANGED vars
  BY DEF Next, Acts, Done

LEMMA NextOrderly ==
  ASSUME Typed, \A r \in Req : Orderly(r), [Next]_vars, NEW q \in Req
  PROVE  Orderly(q)'
  <1>1. ASSUME NEW r \in Req, Acts(r) PROVE Orderly(q)'
    <2>1. CASE q = r
      BY <1>1, <2>1, ActsOrderly
    <2>2. CASE q # r
      <3>1. /\ q \in fresh' <=> q \in fresh
            /\ todo'[q] = todo[q] /\ copy'[q] = copy[q] /\ fetched'[q] = fetched[q] /\ tx'[q] = tx[q]
        BY <1>1, <2>2, Moves DEF Orderly
      <3> QED BY <3>1, KeptOrderly
    <2> QED BY <2>1, <2>2
  <1>2. ASSUME NEW r \in Req, Start(r) PROVE Orderly(q)'
    <2>1. UNCHANGED <<todo, copy, fetched, tx>> /\ fresh' = fresh \ {r} /\ r \in fresh
      BY <1>2 DEF Start, locals
    <2>2. CASE q = r
      BY <2>1, <2>2 DEF Orderly, Running
    <2>3. CASE q # r
      BY <2>1, <2>3, KeptOrderly
    <2> QED BY <2>2, <2>3
  <1>3. CASE Crash
    <2>1. /\ fresh' = fresh /\ copy'[q] = None /\ fetched'[q] = None /\ tx'[q] = {}
          /\ todo'[q] = IF q \in fresh THEN todo[q] ELSE <<>>
      BY <1>3 DEF Crash
    <2>2. Clearing(<<>>) /\ Choosing(<<>>)
      BY DEF Clearing, Choosing
    <2> QED BY <2>1, <2>2 DEF Orderly
  <1>4. ASSUME NEW k \in Key, Expire(k) PROVE Orderly(q)'
    BY <1>4, KeptOrderly DEF Expire, locals
  <1>5. CASE UNCHANGED vars
    BY <1>5, KeptOrderly DEF vars, locals
  <1> QED BY <1>1, <1>2, <1>3, <1>4, <1>5, NextSteps

-----------------------------------------------------------------------------
(* What others may change has been noticed. *)

Noticed ==
  \A q \in Req, r \in Req : q # r /\ Running(q) => MayChange(r) \cap Followed(q) \subseteq met[q]

LEMMA LeftTargets ==
  ASSUME NEW s \in Seq(Steps), NEW t, NEW n, Left(t, s, n)
  PROVE  Targets(t) \subseteq Targets(s)
  <1> SUFFICES ASSUME NEW i \in DOMAIN t PROVE \E j \in DOMAIN s : t[i] = s[j]
    BY DEF Targets
  <1>1. i + n \in DOMAIN s /\ t[i] = s[i + n]
    BY DEF Left
  <1> QED BY <1>1

LEMMA GoesTargets ==
  ASSUME Typed, NEW r \in Req, Goes(r)
  PROVE  Targets(todo'[r]) \subseteq Targets(todo[r])
  <1>1. CASE \E n : Left(todo'[r], todo[r], n)
    BY <1>1, LeftTargets, Facts
  <1>2. CASE todo'[r] = <<InsertUser>> /\ todo[r] = FindOrCreateOIDCUser
    <2>1. /\ DOMAIN todo'[r] = {1} /\ todo'[r][1] = InsertUser
          /\ Target(InsertUser) = {"account"}
      <3>1. InsertUser[1] = "insert user"
        BY DEF InsertUser
      <3>2. Target(InsertUser) = {"account"}
        BY <3>1 DEF Target
      <3> QED BY <1>2, <3>2
    <2>2. todo[r] = <<Get("user")>> \o <<Write({Update("account")}), Clear("user")>>
      BY <1>2 DEF FindOrCreateOIDCUser, GetByOIDCUserID, UpdateUser, UpdateFromOIDC
    <2>3. 2 \in DOMAIN todo[r] /\ todo[r][2] = Write({Update("account")})
      BY <2>2
    <2>4. "account" \in Target(todo[r][2])
      BY <2>3 DEF Target, Write, Update
    <2> QED BY <2>1, <2>3, <2>4 DEF Targets
  <1> QED BY <1>1, <1>2 DEF Goes

LEMMA EntriesMonotone ==
  ASSUME NEW X, NEW Y, X \subseteq Y
  PROVE  Entries(X) \subseteq Entries(Y)
  BY DEF Entries

\* A request may change ever less.
LEMMA AheadShrinks ==
  ASSUME Typed, NEW r \in Req, Orderly(r), Acts(r)
  PROVE  Ahead(r)' \subseteq Ahead(r) /\ MayChange(r)' \subseteq MayChange(r)
  <1>1. r \notin fresh /\ fresh' = fresh /\ Goes(r)
    BY Moves DEF Orderly
  <1>2. tx'[r] \subseteq tx[r] \/ (tx'[r] = tx[r] \cup Effects(r) /\ Statement(r))
    <2>1. CASE Statement(r)
      BY <2>1, StatementEffects, Facts DEF Execute
    <2>2. CASE Refuse(r) \/ CommitTransaction(r)
      BY <2>2, Facts DEF Refuse, CommitTransaction
    <2>3. CASE ~Statement(r) /\ ~Refuse(r) /\ ~CommitTransaction(r)
      BY <2>3 DEF Acts, Skip, Hit, Query, NotFound, Store, Accept, Find, SaveConfig, NoConfig, CreateConfig,
                  CreateFromOIDC, ClearEntry
    <2> QED BY <2>1, <2>2, <2>3
  <1>3. Subjects(tx'[r]) \subseteq Ahead(r)
    <2>1. CASE tx'[r] \subseteq tx[r]
      <3>1. Subjects(tx'[r]) \subseteq Subjects(tx[r])
        BY <2>1 DEF Subjects
      <3> QED BY <3>1 DEF Ahead
    <2>2. CASE tx'[r] = tx[r] \cup Effects(r) /\ Statement(r)
      <3>1. Subjects(Effects(r)) \subseteq Target(todo[r][1]) /\ 1 \in DOMAIN todo[r]
        BY <2>2, StatementEffects, EffectsTyped, DoingMoves
      <3>2. Subjects(tx'[r]) = Subjects(tx[r]) \cup Subjects(Effects(r))
        BY <2>2 DEF Subjects
      <3> QED BY <3>1, <3>2 DEF Ahead, Targets
    <2> QED BY <1>2, <2>1, <2>2
  <1>4. Ahead(r)' \subseteq Ahead(r)
    BY <1>1, <1>3, GoesTargets DEF Ahead
  <1> QED BY <1>1, <1>4, EntriesMonotone DEF MayChange

LEMMA MayChangeUnsettled ==
  ASSUME NEW r \in Req
  PROVE  MayChange(r) \subseteq Unsettled(r) /\ Owed(r) \subseteq Unsettled(r)
  <1>1. Unsettled(r) = IF r \in fresh THEN {} ELSE Owed(r) \cup Entries(Ahead(r))
    BY DEF Unsettled, Entries, Ahead, Targets, Subjects
  <1>2. r \in fresh => Owed(r) = {}
    BY DEF Owed
  <1> QED BY <1>1, <1>2 DEF MayChange

LEMMA MayChangeUnsettledNext ==
  ASSUME NEW r \in Req
  PROVE  MayChange(r)' \subseteq Unsettled(r)'
  <1>1. Unsettled(r)' = IF r \in fresh' THEN {} ELSE Owed(r)' \cup Entries(Ahead(r)')
    BY DEF Unsettled, Entries, Ahead, Targets, Subjects
  <1>2. MayChange(r)' = IF r \in fresh' THEN {} ELSE Entries(Ahead(r)')
    BY DEF MayChange, Entries
  <1> QED BY <1>1, <1>2

\* A request keeps notice of what it follows, from its start or its last reading on.
LEMMA ActsNotices ==
  ASSUME Typed, NEW q \in Req, Orderly(q), Acts(q), Running(q)', NEW k \in Followed(q)',
         k \in met[q] \/ k \notin Followed(q)
  PROVE  k \in met'[q] \/ k \notin UnsettledByOthers(q)
  <1>1. q \notin fresh
    BY Moves DEF Orderly
  <1>2. Followed(q) = {"user", "styluses"} \cup (IF fetched[q] = None THEN {} ELSE {fetched[q].key})
    BY DEF Followed
  <1>3. Followed(q)' = {"user", "styluses"} \cup (IF fetched'[q] = None THEN {} ELSE {fetched'[q].key})
    BY DEF Followed
  <1>4. ASSUME NEW steps, NEW c, NEW m, Continue(q, steps, c, m) PROVE met'[q] = m
    BY <1>1, <1>4, ContinueMoves DEF Running
  <1>5. ASSUME NEW w \in Key, NEW answer, Read(q, w, answer), k = w \/ k \in met[q]
        PROVE  k \in met'[q] \/ k \notin UnsettledByOthers(q)
    <2>1. met'[q] = (met[q] \ {w}) \cup ((UnsettledByOthers(q) \cup (suspect \cap {"user"})) \cap {w})
      BY <1>4, <1>5 DEF Read
    <2> QED BY <1>5, <2>1
  <1>6. CASE Hit(q)
    <2>1. fetched[q] = None /\ fetched' = fetched /\ Wanted(q) \in Key /\ Read(q, Wanted(q), cache[Wanted(q)])
      BY <1>6, DoingMoves, WantedTyped DEF Hit, Typed, IInv
    <2> QED BY <1>2, <1>3, <1>5, <2>1
  <1>7. CASE Query(q)
    <2> DEFINE w == Wanted(q)
               answer == Answer(w, FolderOf(q))
    <2>1. fetched[q] = None /\ w \in Key
      BY <1>7, DoingMoves, WantedTyped DEF Query, Typed, IInv
    <2>2. fetched' = [fetched EXCEPT ![q] = [key |-> w, answer |-> answer]] /\ Read(q, w, answer)
      BY <1>7 DEF Query
    <2> HIDE DEF w, answer
    <2>3. fetched'[q].key = w
      BY <2>2, Facts
    <2> QED BY <1>2, <1>3, <1>5, <2>1, <2>2, <2>3
  <1>8. CASE Store(q)
    <2>1. fetched'[q] = None /\ Continue(q, todo[q], copy[q], met[q] \cap {"user", "styluses"})
      BY <1>8, Facts DEF Store
    <2>2. met'[q] = met[q] \cap {"user", "styluses"}
      BY <1>4, <2>1
    <2> QED BY <1>2, <1>3, <2>1, <2>2
  <1>9. CASE \/ Skip(q) \/ NotFound(q) \/ Statement(q) \/ Refuse(q) \/ Accept(q) \/ Find(q)
             \/ CommitTransaction(q) \/ SaveConfig(q) \/ NoConfig(q) \/ CreateConfig(q)
             \/ CreateFromOIDC(q) \/ ClearEntry(q)
    <2>1. PICK steps, c : Continue(q, steps, c, met[q])
      BY <1>9 DEF Skip, NotFound, Statement, Refuse, Accept, Find, CommitTransaction, SaveConfig,
                  NoConfig, CreateConfig, CreateFromOIDC, ClearEntry, Proceed, End
    <2>2. met'[q] = met[q]
      BY <1>4, <2>1
    <2>3. fetched'[q] = fetched[q] \/ fetched'[q].key = "user"
      <3>1. CASE CreateFromOIDC(q)
        <4> DEFINE given == [key |-> "user", answer |-> [Answer("user", None) EXCEPT !.own.rows = [x \in {"account"} |-> 1]]]
        <4>1. UNCHANGED fetched \/ fetched' = [fetched EXCEPT ![q] = given]
          BY <3>1 DEF CreateFromOIDC
        <4>2. given.key = "user"
          OBVIOUS
        <4> HIDE DEF given
        <4> QED BY <4>1, <4>2, Facts
      <3>2. CASE ~CreateFromOIDC(q)
        BY <1>9, <3>2 DEF Skip, NotFound, Statement, Refuse, Accept, Find, CommitTransaction,
                          SaveConfig, NoConfig, CreateConfig, ClearEntry
      <3> QED BY <3>1, <3>2
    <2> QED BY <1>2, <1>3, <2>2, <2>3
  <1> QED BY <1>6, <1>7, <1>8, <1>9 DEF Acts

LEMMA ActsRunning ==
  ASSUME Typed, NEW r \in Req, Orderly(r), Acts(r)
  PROVE  Running(r)
  <1>1. r \notin fresh
    BY Moves DEF Orderly
  <1> QED BY <1>1 DEF Running, Acts, Skip, Hit, Query, NotFound, Statement, Refuse, Accept, Find,
              CommitTransaction, SaveConfig, NoConfig, CreateConfig, CreateFromOIDC, ClearEntry,
              Store, Doing

LEMMA NextNoticed ==
  ASSUME Typed, \A r \in Req : Orderly(r), Noticed, [Next]_vars
  PROVE  Noticed'
  <1> SUFFICES ASSUME NEW q \in Req, NEW r \in Req, q # r, Running(q)', NEW k \in MayChange(r)', k \in Followed(q)'
               PROVE  k \in met'[q]
    BY DEF Noticed
  <1>1. Running(q) => MayChange(r) \cap Followed(q) \subseteq met[q]
    BY DEF Noticed
  <1>2. ASSUME NEW a \in Req, Acts(a) PROVE k \in met'[q]
    <2>1. CASE a = q
      <3>1. todo'[r] = todo[r] /\ tx'[r] = tx[r] /\ fresh' = fresh
        BY <1>2, <2>1, Moves DEF Orderly
      <3>2. k \in MayChange(r)
        BY <3>1 DEF MayChange, Ahead
      <3>3. k \in UnsettledByOthers(q)
        BY <3>2, MayChangeUnsettled DEF UnsettledByOthers
      <3>4. Running(q)
        BY <1>2, <2>1, ActsRunning
      <3>5. k \in met[q] \/ k \notin Followed(q)
        BY <1>1, <3>2, <3>4
      <3> QED BY <1>2, <2>1, <3>3, <3>5, ActsNotices
    <2>2. CASE a # q
      <3>1. /\ todo'[q] = todo[q] /\ fetched'[q] = fetched[q] /\ met'[q] = met[q] /\ fresh' = fresh
            /\ a # r => todo'[r] = todo[r] /\ tx'[r] = tx[r]
        BY <1>2, <2>2, Moves DEF Orderly
      <3>2. Running(q) /\ k \in Followed(q)
        BY <3>1 DEF Running, Followed
      <3>3. k \in MayChange(r)
        <4>1. CASE a = r
          BY <1>2, <4>1, AheadShrinks
        <4>2. CASE a # r
          BY <3>1, <4>2 DEF MayChange, Ahead
        <4> QED BY <4>1, <4>2
      <3> QED BY <1>1, <3>1, <3>2, <3>3
    <2> QED BY <2>1, <2>2
  <1>3. ASSUME NEW a \in Req, Start(a) PROVE k \in met'[q]
    <2>1. /\ UNCHANGED <<todo, copy, fetched, tx>> /\ fresh' = fresh \ {a}
          /\ met'[q] = IF q = a THEN UnsettledByOthers(a) \cap Followed(a)
                       ELSE IF Running(q) THEN met[q] \cup (Unsettled(a)' \cap Followed(q)) ELSE {}
      BY <1>3 DEF Start, locals
    <2>2. k \in Followed(q)
      BY <2>1 DEF Followed
    <2>3. r # a => k \in MayChange(r)
      BY <2>1 DEF MayChange, Ahead
    <2>4. CASE q = a
      <3>1. k \in UnsettledByOthers(a)
        BY <2>3, <2>4, MayChangeUnsettled DEF UnsettledByOthers
      <3> QED BY <2>1, <2>2, <2>4, <3>1
    <2>5. CASE q # a
      <3>1. Running(q)
        BY <2>1, <2>5 DEF Running
      <3>2. CASE r # a
        BY <1>1, <2>1, <2>2, <2>3, <2>5, <3>1, <3>2
      <3>3. CASE r = a
        <4>1. MayChange(a)' \subseteq Unsettled(a)'
          BY MayChangeUnsettledNext
        <4> QED BY <2>1, <2>2, <2>5, <3>1, <3>3, <4>1
      <3> QED BY <3>2, <3>3
    <2> QED BY <2>4, <2>5
  <1>4. ~Crash
    BY DEF Crash, Running
  <1>5. CASE \/ \E j \in Key : Expire(j)
             \/ UNCHANGED vars
    <2>1. UNCHANGED <<todo, fetched, tx, fresh, met>>
      BY <1>5 DEF Expire, vars, locals
    <2>2. Running(q) /\ k \in Followed(q) /\ k \in MayChange(r)
      BY <2>1 DEF Running, Followed, MayChange, Ahead
    <2> QED BY <1>1, <2>1, <2>2
  <1> QED BY <1>2, <1>3, <1>4, <1>5, NextSteps

-----------------------------------------------------------------------------
(* What a step changes in the database *)

\* A primary stylus exists.
Primaries == \A s \in primary : rows[s] # 0

\* The database still answers as before.
Same(k) ==
  /\ \A x \in Watched(k) : rows'[x] = rows[x]
  /\ k = "user" => config' = config
  /\ k = "styluses" => primary' = primary

LEMMA SameOwn ==
  ASSUME NEW k, Same(k), NEW f
  PROVE  Own(k, f)' = Own(k, f)
  BY DEF Same, Own, Restrict

LEMMA WatchedRows ==
  ASSUME NEW k \in Key
  PROVE  Watched(k) \subseteq Row
  BY DEF Watched, Key, Row

LEMMA WatchedFolder ==
  ASSUME NEW k \in Folder
  PROVE  Watched(k) = {k} /\ k \in Key /\ k \notin {"user", "folders", "releases", "styluses", "plays"}
  BY RowsAssumption DEF Watched, Key

LEMMA EffectRows ==
  ASSUME NEW x
  PROVE  /\ Insert(x)[2] = x /\ Update(x)[2] = x /\ Upsert(x)[2] = x /\ Delete(x)[2] = x
         /\ SetPrimary(x)[2] = x /\ UnsetPrimary(x)[2] = x
  BY DEF Insert, Update, Upsert, Delete, SetPrimary, UnsetPrimary

LEMMA ApplyRow ==
  ASSUME NEW E, Apply(E), NEW x \in Row, x \notin Subjects(E)
  PROVE  rows'[x] = rows[x]
  <1>1. Insert(x) \notin E /\ Update(x) \notin E /\ Upsert(x) \notin E /\ Delete(x) \notin E
    BY EffectRows DEF Subjects
  <1> QED BY <1>1 DEF Apply

LEMMA ApplySame ==
  ASSUME Typed, Primaries, NEW E, Apply(E), NEW k \in Key, k \notin Entries(Subjects(E)),
         UNCHANGED config
  PROVE  Same(k)
  <1>1. Watched(k) \cap Subjects(E) = {}
    BY DEF Entries
  <1>2. \A x \in Watched(k) : rows'[x] = rows[x]
    BY <1>1, WatchedRows, ApplyRow
  <1>3. ASSUME k = "styluses" PROVE primary' = primary
    <2>1. Watched(k) = Stylus
      BY <1>3 DEF Watched
    <2>2. \A s \in Stylus : SetPrimary(s) \notin E /\ UnsetPrimary(s) \notin E
      BY <1>1, <2>1, EffectRows DEF Subjects
    <2>3. primary' = {s \in Stylus : rows'[s] # 0 /\ s \in primary}
      BY <2>2 DEF Apply
    <2> QED BY <1>2, <2>1, <2>3, Facts DEF Primaries
  <1> QED BY <1>2, <1>3 DEF Same

LEMMA ApplyPrimaries ==
  ASSUME NEW E, Apply(E)
  PROVE  Primaries'
  BY DEF Apply, Primaries

LEMMA AllSame ==
  ASSUME UNCHANGED database, NEW k
  PROVE  Same(k)
  BY DEF Same, database

\* The steps that change the database: a statement, a commit, a saved configuration, a user.
LEMMA Changing ==
  ASSUME NEW r \in Req, Acts(r)
  PROVE  \/ UNCHANGED database
         \/ Statement(r) /\ ~InTransaction(r) /\ Apply(Effects(r)) /\ UNCHANGED config
         \/ CommitTransaction(r) /\ Apply(tx[r]) /\ UNCHANGED config
         \/ SaveConfig(r) /\ UNCHANGED <<rows, primary>>
         \/ CreateConfig(r) /\ config = None /\ Proceed(r) /\ UNCHANGED <<rows, primary>>
         \/ CreateFromOIDC(r) /\ rows["account"] = 0 /\ Apply({Insert("account")}) /\ UNCHANGED config
  <1>1. CASE Statement(r)
    BY <1>1, StatementEffects DEF Execute, database
  <1>2. CASE CommitTransaction(r)
    BY <1>2 DEF CommitTransaction
  <1>3. CASE SaveConfig(r)
    BY <1>3 DEF SaveConfig
  <1>4. CASE CreateConfig(r)
    BY <1>4 DEF CreateConfig, database
  <1>5. CASE CreateFromOIDC(r)
    BY <1>5 DEF CreateFromOIDC, database
  <1>6. CASE Skip(r) \/ Hit(r) \/ Query(r) \/ NotFound(r) \/ Store(r) \/ Refuse(r) \/ Accept(r)
               \/ Find(r) \/ NoConfig(r) \/ ClearEntry(r)
    BY <1>6 DEF Skip, Hit, Query, NotFound, Store, Refuse, Accept, Find, NoConfig, ClearEntry
  <1> QED BY <1>1, <1>2, <1>3, <1>4, <1>5, <1>6 DEF Acts

LEMMA ActsPrimaries ==
  ASSUME Primaries, NEW r \in Req, Acts(r)
  PROVE  Primaries'
  <1>1. CASE UNCHANGED <<rows, primary>>
    BY <1>1 DEF Primaries
  <1> QED BY <1>1, Changing, ApplyPrimaries DEF database

LEMMA AheadOfStep ==
  ASSUME Typed, NEW r \in Req, NEW op, Doing(r, op)
  PROVE  r \notin fresh /\ Target(Step(r)) \subseteq Ahead(r)
  BY DoingMoves DEF Ahead, Targets

LEMMA AccountTarget ==
  ASSUME Typed, NEW r \in Req,
         NEW op \in {"selectedFolderID", "preferences", "insert configuration", "insert user"}, Doing(r, op)
  PROVE  Target(Step(r)) = {"account"} /\ "user" \in MayChange(r) /\ Entries({"account"}) \subseteq MayChange(r)
  <1>1. Step(r)[1] = op
    BY DEF Doing
  <1>2. Target(Step(r)) = {"account"}
    BY <1>1 DEF Target
  <1>3. Entries({"account"}) \subseteq MayChange(r)
    BY <1>2, AheadOfStep, EntriesMonotone DEF MayChange
  <1>4. "user" \in Entries({"account"})
    BY DEF Entries, Watched, Key
  <1> QED BY <1>2, <1>3, <1>4

\* A request only changes what it may change.
LEMMA ActsSame ==
  ASSUME Typed, Primaries, NEW r \in Req, Acts(r), NEW k \in Key
  PROVE  Same(k) \/ k \in MayChange(r)
  <1>1. CASE UNCHANGED database
    BY <1>1, AllSame
  <1>2. CASE Statement(r) /\ Apply(Effects(r)) /\ UNCHANGED config
    <2>1. Subjects(Effects(r)) \subseteq Ahead(r) /\ r \notin fresh
      BY <1>2, StatementEffects, EffectsTyped, AheadOfStep
    <2>2. Entries(Subjects(Effects(r))) \subseteq MayChange(r)
      BY <2>1, EntriesMonotone DEF MayChange
    <2> QED BY <1>2, <2>2, ApplySame
  <1>3. CASE CommitTransaction(r) /\ Apply(tx[r]) /\ UNCHANGED config
    <2>1. Subjects(tx[r]) \subseteq Ahead(r) /\ r \notin fresh
      BY <1>3, AheadOfStep DEF CommitTransaction, Ahead
    <2>2. Entries(Subjects(tx[r])) \subseteq MayChange(r)
      BY <2>1, EntriesMonotone DEF MayChange
    <2> QED BY <1>3, <2>2, ApplySame
  <1>4. CASE (SaveConfig(r) \/ CreateConfig(r)) /\ UNCHANGED <<rows, primary>>
    <2>1. k # "user" => Same(k)
      BY <1>4 DEF Same
    <2>2. "user" \in MayChange(r)
      BY <1>4, AccountTarget DEF SaveConfig, CreateConfig
    <2> QED BY <2>1, <2>2
  <1>5. CASE CreateFromOIDC(r) /\ Apply({Insert("account")}) /\ UNCHANGED config
    <2>1. Subjects({Insert("account")}) = {"account"}
      BY EffectRows DEF Subjects
    <2>2. Entries({"account"}) \subseteq MayChange(r)
      BY <1>5, AccountTarget DEF CreateFromOIDC
    <2> QED BY <1>5, <2>1, <2>2, ApplySame
  <1> QED BY <1>1, <1>2, <1>3, <1>4, <1>5, Changing

-----------------------------------------------------------------------------
(* The copy of a request *)

\* The copy of the configuration is that of the database, or somebody may have changed it
\* since.
CopyFresh == \A r \in Req : copy[r] # None => copy[r] = config \/ "user" \in met[r]

\* An entry is that of the database, or known not to be, or about to be cleared.  A request
\* that does not find the row it wants to clear for gives up.
Doomed(r) == todo[r] # <<>> /\ todo[r][1][1] = "reread" /\ rows[todo[r][1][2]] = 0
Covered(k) ==
  \/ k \in suspect
  \/ \E r \in Req : k \in Owed(r) /\ ~Doomed(r)
  \/ k \in Folder /\ rows[k] = 0
CachedFresh == \A k \in Key : OldRows(k) => Covered(k)

LEMMA OwedHead ==
  ASSUME Typed, NEW r \in Req, NEW op, Doing(r, op), Owed(r) # {}
  PROVE  op \in {"clear", "reread"}
  <1>1. PICK k \in Key, i \in DOMAIN todo[r] : \A j \in 1..i : todo[r][j][1] \in {"clear", "reread"}
    BY DEF Owed
  <1>2. 1 \in 1..i /\ todo[r][1][1] = op
    BY <1>1, DoingMoves, Facts
  <1> QED BY <1>1, <1>2

LEMMA HitFresh ==
  ASSUME Typed, CachedFresh, NEW r \in Req, Hit(r), Wanted(r) = "user"
  PROVE  \/ cache["user"].own.config = config
         \/ "user" \in suspect
         \/ "user" \in UnsettledByOthers(r)
  <1>1. cache["user"] # None /\ "user" \in Key
    BY DEF Hit, Key
  <1>2. CASE ~OldRows("user")
    <2>1. cache["user"].own = Own("user", cache["user"].own.folder)
      BY <1>1, <1>2 DEF OldRows
    <2>2. Own("user", cache["user"].own.folder).config = config
      BY DEF Own
    <2> QED BY <2>1, <2>2
  <1>3. ASSUME NEW q \in Req, "user" \in Owed(q) PROVE "user" \in UnsettledByOthers(r)
    <2>1. q # r
      BY <1>3, OwedHead DEF Hit
    <2> QED BY <1>3, <2>1, MayChangeUnsettled DEF UnsettledByOthers
  <1>4. "user" \notin Folder
    BY RowsAssumption
  <1> QED BY <1>1, <1>2, <1>3, <1>4 DEF CachedFresh, Covered

LEMMA ActsCopyFresh ==
  ASSUME Typed, NEW r \in Req, Orderly(r), CachedFresh, copy[r] # None => copy[r] = config \/ "user" \in met[r],
         Acts(r), copy'[r] # None
  PROVE  copy'[r] = config' \/ "user" \in met'[r]
  <1>1. ASSUME NEW steps, NEW c, NEW m, Continue(r, steps, c, m) PROVE copy'[r] = c /\ met'[r] = m
    BY <1>1, ContinueMoves
  <1>2. ASSUME NEW k \in Key, NEW answer, Read(r, k, answer), UNCHANGED config,
               k = "user" => answer.own.config = config \/ "user" \in suspect \cup UnsettledByOthers(r)
        PROVE  copy'[r] = config' \/ "user" \in met'[r]
    <2>1. /\ copy'[r] = (IF k = "user" THEN answer.own.config ELSE copy[r])
          /\ met'[r] = (met[r] \ {k}) \cup ((UnsettledByOthers(r) \cup (suspect \cap {"user"})) \cap {k})
      BY <1>1, <1>2 DEF Read
    <2> QED BY <1>2, <2>1
  <1>3. CASE Hit(r)
    <2> DEFINE k == Wanted(r)
    <2>1. k \in Key /\ Read(r, k, cache[k]) /\ UNCHANGED config
      BY <1>3, WantedTyped DEF Hit, Typed, IInv, database
    <2>2. k = "user" => cache[k].own.config = config \/ "user" \in suspect \cup UnsettledByOthers(r)
      BY <1>3, HitFresh
    <2> HIDE DEF k
    <2> QED BY <1>2, <2>1, <2>2
  <1>4. CASE Query(r)
    <2> DEFINE k == Wanted(r)
               answer == Answer(k, FolderOf(r))
    <2>1. k \in Key /\ Read(r, k, answer) /\ UNCHANGED config
      BY <1>4, WantedTyped DEF Query, Typed, IInv, database
    <2>2. k = "user" => answer.own.config = config
      BY DEF Answer, Own
    <2> HIDE DEF k, answer
    <2> QED BY <1>2, <2>1, <2>2
  <1>5. CASE SaveConfig(r)
    BY <1>1, <1>5 DEF SaveConfig
  <1>6. CASE Store(r)
    <2>1. Continue(r, todo[r], copy[r], met[r] \cap {"user", "styluses"}) /\ UNCHANGED config
      BY <1>6 DEF Store, database
    <2> QED BY <1>1, <2>1
  <1>7. CASE CreateConfig(r)
    <2>1. Continue(r, Tail(todo[r]), copy[r], met[r]) \/ Continue(r, <<>>, copy[r], met[r])
      BY <1>7 DEF CreateConfig, Proceed, End
    <2>2. copy'[r] = copy[r] /\ met'[r] = met[r]
      BY <1>1, <2>1
    <2>3. UNCHANGED config \/ config = None
      BY <1>7 DEF CreateConfig
    <2> QED BY <2>2, <2>3
  <1>8. CASE \/ Skip(r) \/ NotFound(r) \/ Statement(r) \/ Refuse(r) \/ Accept(r) \/ Find(r)
             \/ CommitTransaction(r) \/ NoConfig(r) \/ CreateFromOIDC(r) \/ ClearEntry(r)
    <2>1. PICK steps, c : c \in {copy[r], None} /\ Continue(r, steps, c, met[r])
      BY <1>8 DEF Skip, NotFound, Statement, Refuse, Accept, Find, CommitTransaction, NoConfig,
                  CreateFromOIDC, ClearEntry, Proceed, End
    <2>2. UNCHANGED config
      <3>1. CASE Statement(r) \/ CommitTransaction(r) \/ CreateFromOIDC(r)
        BY <3>1 DEF Statement, CommitTransaction, CreateFromOIDC
      <3>2. CASE UNCHANGED database
        BY <3>2 DEF database
      <3> QED BY <1>8, <3>1, <3>2 DEF Skip, NotFound, Refuse, Accept, Find, NoConfig, ClearEntry
    <2> QED BY <1>1, <2>1, <2>2
  <1> QED BY <1>3, <1>4, <1>5, <1>6, <1>7, <1>8 DEF Acts

LEMMA NextCopyFresh ==
  ASSUME Typed, \A r \in Req : Orderly(r), Noticed, Primaries, CachedFresh, CopyFresh, [Next]_vars
  PROVE  CopyFresh'
  <1> SUFFICES ASSUME NEW q \in Req, copy'[q] # None PROVE copy'[q] = config' \/ "user" \in met'[q]
    BY DEF CopyFresh
  <1>1. copy[q] # None => copy[q] = config \/ "user" \in met[q]
    BY DEF CopyFresh
  <1>2. copy[q] # None => Running(q)
    BY DEF Orderly
  <1>3. ASSUME NEW r \in Req, Acts(r) PROVE copy'[q] = config' \/ "user" \in met'[q]
    <2>1. CASE r = q
      BY <1>1, <1>3, <2>1, ActsCopyFresh
    <2>2. CASE r # q
      <3>1. copy'[q] = copy[q] /\ met'[q] = met[q]
        BY <1>3, <2>2, Moves DEF Orderly
      <3>2. CASE config' = config
        BY <1>1, <3>1, <3>2
      <3>3. CASE config' # config
        <4>1. "user" \in Key
          BY DEF Key
        <4>2. "user" \in MayChange(r)
          BY <1>3, <3>3, <4>1, ActsSame DEF Same
        <4>3. "user" \in Followed(q) /\ Running(q)
          BY <1>2, <3>1 DEF Followed
        <4> QED BY <2>2, <3>1, <4>2, <4>3 DEF Noticed
      <3> QED BY <3>2, <3>3
    <2> QED BY <2>1, <2>2
  <1>4. ASSUME NEW r \in Req, Start(r) PROVE copy'[q] = config' \/ "user" \in met'[q]
    <2>1. /\ UNCHANGED <<config, copy>> /\ r \in fresh
          /\ met'[q] = IF q = r THEN UnsettledByOthers(r) \cap Followed(r)
                       ELSE IF Running(q) THEN met[q] \cup (Unsettled(r)' \cap Followed(q)) ELSE {}
      BY <1>4 DEF Start, locals, database
    <2>2. q # r
      BY <2>1 DEF Orderly
    <2> QED BY <1>1, <1>2, <2>1, <2>2
  <1>5. ~Crash
    BY DEF Crash
  <1>6. CASE (\E k \in Key : Expire(k)) \/ UNCHANGED vars
    <2>1. UNCHANGED <<config, copy, met>>
      BY <1>6 DEF Expire, vars, locals, database
    <2> QED BY <1>1, <2>1
  <1> QED BY <1>3, <1>4, <1>5, <1>6, NextSteps

-----------------------------------------------------------------------------
(* Answers on their way to the cache *)

Matches(r) == fetched[r].answer.own = Own(fetched[r].key, fetched[r].answer.own.folder)
FetchedFresh == \A r \in Req : fetched[r] # None => Matches(r) \/ fetched[r].key \in met[r]

\* As long as there is no user, nothing is cached about him.
Account ==
  rows["account"] = 0 =>
    cache["user"] = None /\ \A r \in Req : fetched[r] # None => fetched[r].key # "user"

LEMMA GivenMatches ==
  ASSUME NEW r, NEW k, NEW f, fetched'[r].key = k, fetched'[r].answer.own = Own(k, f)'
  PROVE  Matches(r)'
  BY DEF Matches, Own

LEMMA KeptMatches ==
  ASSUME NEW r, fetched'[r] = fetched[r], Same(fetched[r].key), Matches(r)
  PROVE  Matches(r)'
  <1>1. PICK k, f : k = fetched[r].key /\ f = fetched[r].answer.own.folder
    OBVIOUS
  <1>2. Own(k, f)' = Own(k, f)
    BY <1>1, SameOwn
  <1>3. fetched[r].answer.own = Own(k, f)
    BY <1>1 DEF Matches
  <1> QED BY <1>1, <1>2, <1>3, GivenMatches

\* Nothing is fetched but by a question, or by the creation of the user.
LEMMA ActsFetched ==
  ASSUME Typed, NEW r \in Req, Acts(r), fetched'[r] # None
  PROVE  \/ /\ Query(r) /\ Wanted(r) \in Key
            /\ fetched'[r] = [key |-> Wanted(r), answer |-> Answer(Wanted(r), FolderOf(r))]
         \/ /\ CreateFromOIDC(r) /\ rows["account"] = 0
            /\ fetched'[r] = [key |-> "user", answer |-> [Answer("user", None) EXCEPT !.own.rows = [x \in {"account"} |-> 1]]]
  <1>1. CASE Query(r)
    <2> DEFINE given == [key |-> Wanted(r), answer |-> Answer(Wanted(r), FolderOf(r))]
    <2>1. fetched' = [fetched EXCEPT ![r] = given] /\ Wanted(r) \in Key
      BY <1>1, WantedTyped DEF Query, Typed, IInv
    <2> HIDE DEF given
    <2>2. fetched'[r] = given
      BY <2>1, Facts
    <2> QED BY <1>1, <2>1, <2>2 DEF given
  <1>2. CASE CreateFromOIDC(r)
    <2> DEFINE given == [key |-> "user", answer |-> [Answer("user", None) EXCEPT !.own.rows = [x \in {"account"} |-> 1]]]
    <2>1. fetched[r] = None
      BY <1>2, DoingMoves DEF CreateFromOIDC
    <2>2. rows["account"] = 0 /\ fetched' = [fetched EXCEPT ![r] = given]
      BY <1>2, <2>1 DEF CreateFromOIDC
    <2> HIDE DEF given
    <2>3. fetched'[r] = given
      BY <2>2, Facts
    <2> QED BY <1>2, <2>2, <2>3 DEF given
  <1>3. CASE Store(r)
    BY <1>3, Facts DEF Store
  <1>4. CASE \/ Skip(r) \/ Hit(r) \/ NotFound(r) \/ Statement(r) \/ Refuse(r) \/ Accept(r) \/ Find(r)
             \/ CommitTransaction(r) \/ SaveConfig(r) \/ NoConfig(r) \/ CreateConfig(r) \/ ClearEntry(r)
    <2>1. UNCHANGED fetched
      BY <1>4 DEF Skip, Hit, NotFound, Statement, Refuse, Accept, Find, CommitTransaction, SaveConfig,
                  NoConfig, CreateConfig, ClearEntry
    <2>2. \E op : Doing(r, op)
      BY <1>4 DEF Skip, Hit, NotFound, Statement, Refuse, Accept, Find, CommitTransaction, SaveConfig,
                  NoConfig, CreateConfig, ClearEntry
    <2> QED BY <2>1, <2>2, DoingMoves
  <1> QED BY <1>1, <1>2, <1>3, <1>4 DEF Acts

LEMMA CreatedAnswer ==
  ASSUME Typed, rows["account"] = 0, Apply({Insert("account")}), UNCHANGED config
  PROVE  /\ Own("user", None)' = [Own("user", None) EXCEPT !.rows = [x \in {"account"} |-> 1]]
         /\ rows'["account"] = 1
  <1>1. Delete("account") \notin {Insert("account")} /\ Insert("account") \in {Insert("account")}
    BY DEF Delete, Insert
  <1>2. "account" \in Row
    BY DEF Row
  <1>3. rows'["account"] = 1
    BY <1>1, <1>2 DEF Apply
  <1>4. Restrict(rows', {"account"}) = [x \in {"account"} |-> 1]
    BY <1>3 DEF Restrict
  <1> QED BY <1>3, <1>4 DEF Own, Watched

LEMMA ActsMatches ==
  ASSUME Typed, NEW r \in Req, Acts(r), fetched'[r] # None
  PROVE  Matches(r)'
  <1>1. CASE /\ Query(r) /\ Wanted(r) \in Key
             /\ fetched'[r] = [key |-> Wanted(r), answer |-> Answer(Wanted(r), FolderOf(r))]
    <2>1. UNCHANGED database
      BY <1>1 DEF Query
    <2>2. PICK k, f : k = Wanted(r) /\ f = FolderOf(r)
      OBVIOUS
    <2>3. Own(k, f)' = Own(k, f)
      BY <2>1, AllSame, SameOwn
    <2>4. fetched'[r].key = k /\ fetched'[r].answer.own = Own(k, f)
      BY <1>1, <2>2 DEF Answer
    <2> QED BY <2>3, <2>4, GivenMatches
  <1>2. CASE /\ CreateFromOIDC(r) /\ rows["account"] = 0
             /\ fetched'[r] = [key |-> "user", answer |-> [Answer("user", None) EXCEPT !.own.rows = [x \in {"account"} |-> 1]]]
    <2>1. Own("user", None)' = [Own("user", None) EXCEPT !.rows = [x \in {"account"} |-> 1]]
      BY <1>2, CreatedAnswer DEF CreateFromOIDC
    <2>2. fetched'[r].key = "user" /\ fetched'[r].answer.own = Own("user", None)'
      BY <1>2, <2>1 DEF Answer
    <2> QED BY <2>1, <2>2, GivenMatches
  <1> QED BY <1>1, <1>2, ActsFetched

LEMMA NextFetchedFresh ==
  ASSUME Typed, \A r \in Req : Orderly(r), Noticed, Primaries, FetchedFresh, [Next]_vars
  PROVE  FetchedFresh'
  <1> SUFFICES ASSUME NEW q \in Req, fetched'[q] # None
               PROVE  Matches(q)' \/ fetched'[q].key \in met'[q]
    BY DEF FetchedFresh
  <1>1. fetched[q] # None =>
          /\ Running(q) /\ fetched[q].key \in Key /\ fetched[q].key \in Followed(q)
          /\ Matches(q) \/ fetched[q].key \in met[q]
    BY Facts DEF Orderly, Followed, FetchedFresh
  <1>2. ASSUME fetched'[q] = fetched[q], met[q] \subseteq met'[q], UNCHANGED database
        PROVE  Matches(q)' \/ fetched'[q].key \in met'[q]
    BY <1>1, <1>2, AllSame, KeptMatches
  <1>3. ASSUME NEW r \in Req, Acts(r) PROVE Matches(q)' \/ fetched'[q].key \in met'[q]
    <2>1. CASE r = q
      BY <1>3, <2>1, ActsMatches
    <2>2. CASE r # q
      <3>1. fetched'[q] = fetched[q] /\ met'[q] = met[q]
        BY <1>3, <2>2, Moves DEF Orderly
      <3>2. Same(fetched[q].key) \/ fetched[q].key \in met[q]
        BY <1>1, <1>3, <2>2, <3>1, ActsSame DEF Noticed
      <3> QED BY <1>1, <3>1, <3>2, KeptMatches
    <2> QED BY <2>1, <2>2
  <1>4. ASSUME NEW r \in Req, Start(r)
        PROVE  fetched'[q] = fetched[q] /\ met[q] \subseteq met'[q] /\ UNCHANGED database
    <2>1. /\ UNCHANGED <<database, fetched>> /\ r \in fresh
          /\ met'[q] = IF q = r THEN UnsettledByOthers(r) \cap Followed(r)
                       ELSE IF Running(q) THEN met[q] \cup (Unsettled(r)' \cap Followed(q)) ELSE {}
      BY <1>4 DEF Start, locals
    <2>2. q # r
      BY <2>1 DEF Orderly
    <2> QED BY <1>1, <2>1, <2>2
  <1>5. ~Crash
    BY DEF Crash
  <1>6. CASE (\E k \in Key : Expire(k)) \/ UNCHANGED vars
    <2>1. UNCHANGED <<database, fetched, met>>
      BY <1>6 DEF Expire, vars, locals
    <2> QED BY <1>2, <2>1
  <1> QED BY <1>2, <1>3, <1>4, <1>5, <1>6, NextSteps

LEMMA UserKey == "user" \in Key
  BY DEF Key

LEMMA ApplyKeepsAccount ==
  ASSUME Typed, NEW E, \A e \in E : e[2] = "account" => e = Update("account"), Apply(E), rows'["account"] = 0
  PROVE  rows["account"] = 0
  <1>1. Delete("account") \notin E
    BY EffectRows DEF Delete, Update
  <1>2. "account" \in Row
    BY DEF Row
  <1>3. rows'["account"] = rows["account"] \/ rows'["account"] = rows["account"] + 1
    BY <1>1, <1>2 DEF Apply
  <1> QED BY <1>2, <1>3, Facts

LEMMA EffectsAccount ==
  ASSUME Typed, NEW r \in Req, Orderly(r), Statement(r)
  PROVE  \A e \in Effects(r) : e[2] = "account" => e = Update("account")
  <1>1. CASE Doing(r, "write")
    <2>1. 1 \in DOMAIN todo[r] /\ todo[r][1] = Step(r) /\ Step(r)[1] = "write"
      BY <1>1, DoingMoves
    <2>2. AccountStays(todo[r], 1)
      BY <2>1 DEF Orderly, Clearing
    <2> QED BY <2>1, <2>2 DEF AccountStays, Effects
  <1>2. CASE Doing(r, "unset all")
    <2>1. Step(r)[1] = "unset all"
      BY <1>2 DEF Doing
    <2>2. \A x \in Stylus : UnsetPrimary(x)[2] # "account"
      BY EffectRows, RowsAssumption
    <2> QED BY <2>1, <2>2 DEF Effects
  <1> QED BY <1>1, <1>2, StatementEffects

LEMMA ActsAccount ==
  ASSUME Typed, NEW r \in Req, Orderly(r), Acts(r), Account
  PROVE  Account'
  <1> SUFFICES ASSUME rows'["account"] = 0
               PROVE  cache'["user"] = None /\ \A q \in Req : fetched'[q] # None => fetched'[q].key # "user"
    BY DEF Account
  <1>1. ~CreateFromOIDC(r) \/ rows["account"] # 0
    <2>1. ASSUME CreateFromOIDC(r), rows["account"] = 0 PROVE FALSE
      <3>1. rows'["account"] = 1
        BY <2>1, CreatedAnswer DEF CreateFromOIDC
      <3> QED BY <3>1
    <2> QED BY <2>1
  <1>2. rows["account"] = 0
    <2>1. CASE UNCHANGED rows
      BY <2>1
    <2>2. CASE Statement(r) /\ Apply(Effects(r))
      BY <2>2, EffectsAccount, ApplyKeepsAccount
    <2>3. CASE CommitTransaction(r) /\ Apply(tx[r])
      BY <2>3, ApplyKeepsAccount DEF Orderly
    <2> QED BY <1>1, <2>1, <2>2, <2>3, Changing DEF database
  <1>3. cache["user"] = None /\ \A q \in Req : fetched[q] # None => fetched[q].key # "user"
    BY <1>2 DEF Account
  <1>4. ASSUME NEW q \in Req, fetched'[q] # None PROVE fetched'[q].key # "user"
    <2>1. CASE q # r
      <3>1. fetched'[q] = fetched[q]
        BY <2>1, Moves DEF Orderly
      <3> QED BY <1>3, <1>4, <3>1
    <2>2. CASE q = r
      <3>1. Query(r) /\ fetched'[r].key = Wanted(r)
        <4>1. fetched'[r] # None
          BY <1>4, <2>2
        <4>2. /\ Query(r) /\ Wanted(r) \in Key
              /\ fetched'[r] = [key |-> Wanted(r), answer |-> Answer(Wanted(r), FolderOf(r))]
          BY <1>1, <1>2, <4>1, ActsFetched
        <4> QED BY <4>2
      <3>2. ~Missing(Wanted(r))
        BY <3>1 DEF Query
      <3>3. Missing("user")
        BY <1>2 DEF Missing, Watched
      <3> QED BY <2>2, <3>1, <3>2, <3>3
    <2> QED BY <2>1, <2>2
  <1>5. cache'["user"] = None
    <2>1. CASE Store(r)
      <3>1. fetched[r] # None /\ cache' = [cache EXCEPT ![fetched[r].key] = fetched[r].answer]
        BY <2>1 DEF Store
      <3> QED BY <1>3, <3>1, Facts
    <2>2. CASE ClearEntry(r)
      <3>1. UNCHANGED cache \/ cache' = [cache EXCEPT ![Step(r)[2]] = None]
        BY <2>2 DEF ClearEntry
      <3> QED BY <1>3, <3>1, Facts, UserKey
    <2>3. CASE UNCHANGED cache
      BY <1>3, <2>3
    <2> QED BY <2>1, <2>2, <2>3 DEF Acts, Skip, Hit, Query, NotFound, Statement, Refuse, Accept, Find,
              CommitTransaction, SaveConfig, NoConfig, CreateConfig, CreateFromOIDC
  <1> QED BY <1>4, <1>5

LEMMA NextAccount ==
  ASSUME Typed, \A r \in Req : Orderly(r), Account, [Next]_vars
  PROVE  Account'
  <1>1. ASSUME UNCHANGED rows, \A q \in Req : fetched'[q] = fetched[q] \/ fetched'[q] = None,
               cache'["user"] = cache["user"] \/ cache'["user"] = None
        PROVE  Account'
    BY <1>1 DEF Account
  <1>2. ASSUME NEW r \in Req, Acts(r) PROVE Account'
    BY <1>2, ActsAccount
  <1>3. ASSUME NEW r \in Req, Start(r) PROVE Account'
    BY <1>1, <1>3 DEF Start, locals, database
  <1>4. CASE Crash
    BY <1>1, <1>4 DEF Crash, database
  <1>5. ASSUME NEW k \in Key, Expire(k) PROVE Account'
    <2>1. UNCHANGED <<rows, fetched>> /\ cache' = [cache EXCEPT ![k] = None]
      BY <1>5 DEF Expire, locals, database
    <2> QED BY <1>1, <2>1, Facts
  <1>6. CASE UNCHANGED vars
    BY <1>1, <1>6 DEF vars, locals, database
  <1> QED BY <1>2, <1>3, <1>4, <1>5, <1>6, NextSteps

-----------------------------------------------------------------------------
(* Entries are cleared before a transaction commits, and what is stored in    *)
(* them until then is suspect.                                                *)

HiddenFrom(r, k) ==
  \/ k \in Folder /\ Delete(k) \in tx[r]
  \/ ClearsFirst(todo[r], 0, k)
  \/ cache[k] = None \/ k \in suspect
  \/ todo[r] = <<>>
Hidden == \A r \in Req : \A k \in Entries(Subjects(tx[r])) : HiddenFrom(r, k)

LEMMA LeftAfterFirst ==
  ASSUME NEW s \in Seq(Steps), NEW t, Left(t, s, 1), NEW k
  PROVE  /\ ClearsFirst(s, 1, k) => ClearsFirst(t, 0, k)
         /\ ClearsNext(s, 1, k) <=> ClearsNext(t, 0, k)
  <1>1. 0 \in Nat /\ 0 + 1 = 1
    OBVIOUS
  <1> QED BY <1>1, ClearsFirstLeft, ClearsNextLeft

\* The cache changes where something is stored or cleared.
LEMMA ActsCache ==
  ASSUME Typed, NEW r \in Req, Acts(r), NEW k \in Key
  PROVE  \/ cache'[k] = cache[k] /\ (k \in suspect => k \in suspect')
         \/ Store(r) /\ k = fetched[r].key /\ cache'[k] = fetched[r].answer /\ (k \in met[r] => k \in suspect')
         \/ ClearEntry(r) /\ k = Step(r)[2] /\ (cache'[k] = None \/ k \in suspect')
  <1>1. CASE Store(r)
    BY <1>1, Facts DEF Store
  <1>2. CASE ClearEntry(r)
    <2>1. \/ cache' = [cache EXCEPT ![Step(r)[2]] = None] /\ suspect' = suspect \ {Step(r)[2]}
          \/ UNCHANGED cache /\ suspect' = suspect \cup {Step(r)[2]}
      BY <1>2 DEF ClearEntry
    <2> QED BY <1>2, <2>1, Facts
  <1>3. CASE UNCHANGED <<cache, suspect>>
    BY <1>3
  <1> QED BY <1>1, <1>2, <1>3 DEF Acts, Skip, Hit, Query, NotFound, Statement, Refuse, Accept, Find,
              CommitTransaction, SaveConfig, NoConfig, CreateConfig, CreateFromOIDC

\* Nobody fills an entry that a transaction has cleared without being suspected.
LEMMA StaysHidden ==
  ASSUME Typed, \A r \in Req : Orderly(r), Noticed, NEW r \in Req, NEW q \in Req, q # r, Acts(q),
         NEW k \in Entries(Subjects(tx[r])), cache[k] = None \/ k \in suspect
  PROVE  cache'[k] = None \/ k \in suspect'
  <1>1. k \in Key /\ tx[r] # {} /\ r \notin fresh
    BY DEF Entries, Subjects, Orderly
  <1>2. k \in MayChange(r)
    <2>1. Subjects(tx[r]) \subseteq Ahead(r)
      BY DEF Ahead
    <2> QED BY <1>1, <2>1, EntriesMonotone DEF MayChange
  <1>3. CASE Store(q) /\ k = fetched[q].key
    <2>1. Running(q) /\ k \in Followed(q)
      BY <1>3, ActsRunning DEF Followed, Store
    <2>2. k \in met[q]
      BY <1>2, <2>1 DEF Noticed
    <2>3. suspect' = (suspect \ {k}) \cup (met[q] \cap {k})
      BY <1>3 DEF Store
    <2> QED BY <2>2, <2>3
  <1> QED BY <1>1, <1>3, ActsCache

\* The statement of a transaction is hidden as well.
LEMMA StatementHidden ==
  ASSUME Typed, NEW r \in Req, Orderly(r), Statement(r), CommitsAfter(todo[r], 1),
         NEW k \in Entries(Subjects(Effects(r)))
  PROVE  (k \in Folder /\ Delete(k) \in Effects(r)) \/ ClearsFirst(todo'[r], 0, k)
  <1> DEFINE s == todo[r]
  <1>1. PICK op \in {"write", "unset all"} : Doing(r, op)
    BY StatementEffects
  <1>2. s \in Seq(Steps) /\ 1 \in DOMAIN s /\ s[1] = Step(r) /\ s[1][1] = op
    BY <1>1, DoingMoves
  <1>3. Left(todo'[r], s, 1)
    BY <1>1, ProceedGoes, StatementEffects
  <1>4. k \in Entries(Target(Step(r)))
    BY <1>1, EffectsTyped, EntriesMonotone
  <1>5. CASE k \in Dropped(Step(r))
    <2>1. k \in Folder /\ Step(r)[1] = "write" /\ Delete(k) \in Step(r)[2]
      BY <1>5 DEF Dropped
    <2> QED BY <2>1 DEF Effects
  <1>6. CASE k \notin Dropped(Step(r))
    <2>1. k \in Due(s[1])
      BY <1>2, <1>4, <1>6 DEF Due
    <2>2. WritesCleared(s, 1) /\ Writes(s[1])
      BY <1>2 DEF Orderly, Clearing, Writes
    <2>3. ClearsFirst(s, 1, k)
      BY <2>1, <2>2 DEF WritesCleared
    <2> QED BY <1>2, <1>3, <2>3, LeftAfterFirst
  <1> QED BY <1>5, <1>6

LEMMA ClearsFirstAfter ==
  ASSUME NEW s \in Seq(Steps), s # <<>>, NEW t, Left(t, s, 1), NEW k, ClearsFirst(s, 0, k), s[1] # Clear(k)
  PROVE  ClearsFirst(t, 0, k) /\ s[1] # Commit
  <1>1. PICK m \in DOMAIN s : m > 0 /\ s[m] = Clear(k) /\ \A j \in 0 + 1 .. m - 1 : s[j] # Commit
    BY DEF ClearsFirst
  <1>2. m > 1 /\ 1 \in 0 + 1 .. m - 1 /\ \A j \in 1 + 1 .. m - 1 : j \in 0 + 1 .. m - 1
    BY <1>1
  <1>3. ClearsFirst(s, 1, k)
    BY <1>1, <1>2 DEF ClearsFirst
  <1>4. ClearsFirst(t, 0, k)
    BY <1>3, LeftAfterFirst
  <1> QED BY <1>1, <1>2, <1>4

\* What a request has hidden stays hidden as it goes on.
LEMMA GoesHidden ==
  ASSUME Typed, NEW r \in Req, NEW op, Doing(r, op), op # "commit", Left(todo'[r], todo[r], 1),
         NEW k \in Key, HiddenFrom(r, k), tx[r] \subseteq tx'[r],
         \/ cache'[k] = cache[k] /\ (k \in suspect => k \in suspect')
         \/ cache'[k] = None \/ k \in suspect',
         op = "clear" /\ k = Step(r)[2] => cache'[k] = None \/ k \in suspect'
  PROVE  HiddenFrom(r, k)'
  <1> DEFINE s == todo[r]
  <1>1. s \in Seq(Steps) /\ s # <<>> /\ s[1] = Step(r) /\ s[1][1] = op
    BY DoingMoves
  <1>2. CASE ClearsFirst(s, 0, k)
    <2>1. CASE s[1] = Clear(k)
      <3>1. op = "clear" /\ k = Step(r)[2]
        BY <1>1, <2>1 DEF Clear
      <3> QED BY <3>1 DEF HiddenFrom
    <2>2. CASE s[1] # Clear(k)
      BY <1>1, <1>2, <2>2, ClearsFirstAfter DEF HiddenFrom
    <2> QED BY <2>1, <2>2
  <1>3. CASE ~ClearsFirst(s, 0, k)
    BY <1>1, <1>3 DEF HiddenFrom
  <1> QED BY <1>2, <1>3

LEMMA ActsHidden ==
  ASSUME Typed, NEW r \in Req, Orderly(r), Acts(r), \A k \in Entries(Subjects(tx[r])) : HiddenFrom(r, k),
         NEW k \in Entries(Subjects(tx'[r]))
  PROVE  HiddenFrom(r, k)'
  <1>0. k \in Key
    BY DEF Entries
  <1>1. CASE tx'[r] = {}
    BY <1>1 DEF Entries, Subjects
  <1>2. CASE todo'[r] = <<>>
    BY <1>2 DEF HiddenFrom
  <1>3. CASE Statement(r) /\ tx'[r] # {}
    <2>1. PICK op \in {"write", "unset all"} : Doing(r, op)
      BY <1>3, StatementEffects
    <2>2. Left(todo'[r], todo[r], 1) /\ UNCHANGED <<cache, suspect>> /\ Execute(r, Effects(r))
      BY <1>3, <2>1, ProceedGoes, StatementEffects
    <2>3. CommitsAfter(todo[r], 1)
      <3>1. CASE tx[r] # {}
        BY <2>1, <3>1, InsideTransaction
      <3>2. CASE tx[r] = {}
        <4>1. InTransaction(r)
          BY <1>3, <2>2, <3>2 DEF Execute
        <4> QED BY <2>1, <4>1, InTransactionAfter
      <3> QED BY <3>1, <3>2
    <2>4. tx'[r] = tx[r] \cup Effects(r)
      BY <2>1, <2>2, <2>3, InTransactionAfter, Facts DEF Execute
    <2>5. k \in Entries(Subjects(tx[r])) \/ k \in Entries(Subjects(Effects(r)))
      BY <2>4 DEF Entries, Subjects
    <2>6. CASE k \in Entries(Subjects(tx[r]))
      <3>1. HiddenFrom(r, k)
        BY <2>6
      <3> QED BY <1>0, <2>1, <2>2, <2>4, <3>1, GoesHidden
    <2>7. CASE k \in Entries(Subjects(Effects(r)))
      BY <1>3, <2>3, <2>4, <2>7, StatementHidden DEF HiddenFrom
    <2> QED BY <2>5, <2>6, <2>7
  <1>4. CASE tx[r] # {} /\ tx'[r] = tx[r] /\ todo'[r] # <<>>
    <2>1. HiddenFrom(r, k)
      BY <1>4
    <2>2. PICK op : Doing(r, op)
      <3>1. ~Store(r)
        BY <1>4 DEF Store, Orderly
      <3> QED BY <3>1 DEF Acts, Skip, Hit, Query, NotFound, Statement, Refuse, Accept, Find,
              CommitTransaction, SaveConfig, NoConfig, CreateConfig, CreateFromOIDC, ClearEntry
    <2>3. op \notin {"get", "insert user"}
      BY <1>4, <2>2, InsideTransaction
    <2>4. Doing(r, "clear") <=> op = "clear"
      BY <2>2 DEF Doing
    <2>5. op # "commit"
      <3>1. ASSUME op = "commit" PROVE FALSE
        <4>1. CommitTransaction(r)
          BY <2>2, <3>1 DEF Doing, Store, Acts, Skip, Hit, Query, NotFound, Statement, Refuse, Accept, Find,
                  SaveConfig, NoConfig, CreateConfig, CreateFromOIDC, ClearEntry
        <4>2. tx'[r] = {}
          BY <4>1, Facts DEF CommitTransaction
        <4> QED BY <1>4, <4>2
      <3> QED BY <3>1
    <2>6. Left(todo'[r], todo[r], 1)
      <3>1. CASE \/ Statement(r) \/ Accept(r) \/ ClearEntry(r) \/ SaveConfig(r)
        <4>1. \E c, m : Continue(r, Tail(todo[r]), c, m)
          BY <3>1 DEF Statement, Accept, ClearEntry, SaveConfig, Proceed
        <4> QED BY <2>2, <4>1, ContinueMoves, DoingMoves
      <3>2. CASE \/ Find(r) \/ CreateConfig(r) \/ Refuse(r) \/ NoConfig(r)
        <4>1. Proceed(r) \/ End(r)
          BY <3>2 DEF Find, CreateConfig, Refuse, NoConfig
        <4> QED BY <1>4, <2>2, <4>1, ProceedGoes, EndGoes
      <3> QED BY <2>2, <2>3, <2>5, <3>1, <3>2 DEF Acts, Doing, Skip, Hit, Query, NotFound, Store,
                  CommitTransaction, CreateFromOIDC
    <2>7. /\ \/ cache'[k] = cache[k] /\ (k \in suspect => k \in suspect')
             \/ cache'[k] = None \/ k \in suspect'
          /\ op = "clear" /\ k = Step(r)[2] => cache'[k] = None \/ k \in suspect'
      <3>1. ~Store(r)
        BY <1>4 DEF Store, Orderly
      <3>2. CASE ClearEntry(r) /\ k = Step(r)[2]
        BY <3>2, Facts, <1>0 DEF ClearEntry
      <3>3. CASE ~(ClearEntry(r) /\ k = Step(r)[2])
        <4>1. cache'[k] = cache[k] /\ (k \in suspect => k \in suspect')
          BY <1>0, <3>1, <3>3, ActsCache
        <4>2. op = "clear" => ClearEntry(r)
          BY <2>2, <3>1 DEF Acts, Doing, Skip, Hit, Query, NotFound, Statement, Refuse, Accept, Find,
                  CommitTransaction, SaveConfig, NoConfig, CreateConfig, CreateFromOIDC
        <4> QED BY <3>3, <4>1, <4>2
      <3> QED BY <3>2, <3>3
    <2> QED BY <1>0, <1>4, <2>1, <2>2, <2>5, <2>6, <2>7, GoesHidden
  <1>5. tx'[r] = tx[r] \/ tx'[r] = {} \/ Statement(r)
    BY Facts DEF Acts, Skip, Hit, Query, NotFound, Store, Refuse, Accept, Find,
                  CommitTransaction, SaveConfig, NoConfig, CreateConfig, CreateFromOIDC, ClearEntry
  <1> QED BY <1>1, <1>2, <1>3, <1>4, <1>5

LEMMA NextHidden ==
  ASSUME Typed, \A r \in Req : Orderly(r), Noticed, Hidden, [Next]_vars
  PROVE  Hidden'
  <1> SUFFICES ASSUME NEW r \in Req, NEW k \in Entries(Subjects(tx'[r])) PROVE HiddenFrom(r, k)'
    BY DEF Hidden, Entries, Subjects
  <1>1. \A j \in Entries(Subjects(tx[r])) : HiddenFrom(r, j)
    BY DEF Hidden
  <1>2. ASSUME NEW q \in Req, Acts(q) PROVE HiddenFrom(r, k)'
    <2>1. CASE q = r
      BY <1>1, <1>2, <2>1, ActsHidden
    <2>2. CASE q # r
      <3>1. tx'[r] = tx[r] /\ todo'[r] = todo[r]
        BY <1>2, <2>2, Moves DEF Orderly
      <3>2. HiddenFrom(r, k) /\ k \in Entries(Subjects(tx[r]))
        BY <1>1, <3>1
      <3>3. cache[k] = None \/ k \in suspect => cache'[k] = None \/ k \in suspect'
        BY <1>2, <2>2, <3>2, StaysHidden
      <3> QED BY <3>1, <3>2, <3>3 DEF HiddenFrom
    <2> QED BY <2>1, <2>2
  <1>3. ASSUME NEW q \in Req, Start(q) PROVE HiddenFrom(r, k)'
    <2>1. UNCHANGED <<tx, todo, cache, suspect>>
      BY <1>3 DEF Start, locals
    <2> QED BY <1>1, <2>1 DEF HiddenFrom
  <1>4. CASE Crash
    BY <1>4 DEF Crash, Entries, Subjects
  <1>5. ASSUME NEW j \in Key, Expire(j) PROVE HiddenFrom(r, k)'
    <2>1. UNCHANGED <<tx, todo>> /\ cache' = [cache EXCEPT ![j] = None] /\ suspect' = suspect \ {j} /\ k \in Key
      BY <1>5 DEF Expire, locals, Entries
    <2>2. HiddenFrom(r, k)
      BY <1>1, <2>1
    <2>3. cache[k] = None \/ k \in suspect => cache'[k] = None \/ k \in suspect'
      BY <2>1, Facts
    <2> QED BY <2>1, <2>2, <2>3 DEF HiddenFrom
  <1>6. CASE UNCHANGED vars
    <2>1. UNCHANGED <<tx, todo, cache, suspect>>
      BY <1>6 DEF vars, locals
    <2> QED BY <1>1, <2>1 DEF HiddenFrom
  <1> QED BY <1>2, <1>3, <1>4, <1>5, <1>6, NextSteps

-----------------------------------------------------------------------------
(* OldRows entries are covered. *)

LEMMA OwedClears ==
  ASSUME NEW r, todo[r] \in Seq(Steps), NEW k
  PROVE  k \in Owed(r) <=> k \in Key /\ r \notin fresh /\ ClearsNext(todo[r], 0, k)
  <1> DEFINE s == todo[r]
  <1>1. ASSUME k \in Key, NEW m \in DOMAIN s, s[m] = Clear(k)
        PROVE  (\A j \in 1..m : s[j][1] \in {"clear", "reread"})
                 <=> (\A j \in 0 + 1 .. m - 1 : s[j][1] \in {"clear", "reread"})
    <2>1. s[m][1] = "clear"
      BY <1>1 DEF Clear
    <2>2. \A j \in 1..m : j \in 0 + 1 .. m - 1 \/ j = m
      BY <1>1
    <2>3. \A j \in 0 + 1 .. m - 1 : j \in 1..m
      BY <1>1
    <2> QED BY <2>1, <2>2, <2>3
  <1>2. \A m \in DOMAIN s : m > 0
    OBVIOUS
  <1> QED BY <1>1, <1>2 DEF Owed, ClearsNext

LEMMA OwedClearsNext ==
  ASSUME NEW r, todo'[r] \in Seq(Steps), NEW k \in Key, r \notin fresh', ClearsNext(todo'[r], 0, k)
  PROVE  k \in Owed(r)'
  <1> DEFINE s == todo'[r]
  <1>1. PICK m \in DOMAIN s : m > 0 /\ s[m] = Clear(k) /\ \A j \in 0 + 1 .. m - 1 : s[j][1] \in {"clear", "reread"}
    BY DEF ClearsNext
  <1>2. \A j \in 1..m : s[j][1] \in {"clear", "reread"}
    <2>1. s[m][1] = "clear"
      BY <1>1 DEF Clear
    <2>2. \A j \in 1..m : j \in 0 + 1 .. m - 1 \/ j = m
      BY <1>1
    <2> QED BY <1>1, <2>1, <2>2
  <1> QED BY <1>1, <1>2 DEF Owed

\* Beyond the first step.
LEMMA ClearsNextLater ==
  ASSUME NEW s \in Seq(Steps), s # <<>>, NEW k, ClearsNext(s, 0, k), s[1] # Clear(k)
  PROVE  ClearsNext(s, 1, k)
  <1>1. PICK m \in DOMAIN s : m > 0 /\ s[m] = Clear(k) /\ \A j \in 0 + 1 .. m - 1 : s[j][1] \in {"clear", "reread"}
    BY DEF ClearsNext
  <1>2. m > 1 /\ \A j \in 1 + 1 .. m - 1 : j \in 0 + 1 .. m - 1
    BY <1>1
  <1> QED BY <1>1, <1>2 DEF ClearsNext

LEMMA OwedGoes ==
  ASSUME Typed, NEW r \in Req, NEW op, Doing(r, op), Left(todo'[r], todo[r], 1), fresh' = fresh,
         NEW k \in Key, ClearsNext(todo[r], 1, k)
  PROVE  k \in Owed(r)'
  <1>1. r \notin fresh' /\ todo[r] \in Seq(Steps) /\ todo'[r] \in Seq(Steps)
    BY DoingMoves DEF Left
  <1>2. ClearsNext(todo'[r], 0, k)
    BY <1>1, LeftAfterFirst
  <1> QED BY <1>1, <1>2, OwedClearsNext

\* Only after a statement is a row read again.
LEMMA RereadNext ==
  ASSUME Typed, NEW r \in Req, Orderly(r), NEW op, Doing(r, op), Left(todo'[r], todo[r], 1), Doomed(r)'
  PROVE  /\ op = "write" /\ todo'[r][1][2] \in Row /\ rows'[todo'[r][1][2]] = 0
         /\ Update(todo'[r][1][2]) \in Step(r)[2] /\ Delete(todo'[r][1][2]) \notin Step(r)[2]
  <1> DEFINE s == todo[r]
             t == todo'[r]
             x == todo'[r][1][2]
  <1>1. s \in Seq(Steps) /\ 1 \in DOMAIN s /\ s[1] = Step(r) /\ s[1][1] = op /\ Clearing(s)
    BY DoingMoves DEF Orderly
  <1>2. t \in Seq(Steps) /\ t # <<>> /\ t[1][1] = "reread" /\ rows'[x] = 0
    BY DEF Doomed, Left
  <1>3. 2 \in DOMAIN s /\ t[1] = s[2]
    <2>1. 1 \in 1..Len(t) /\ Len(t) = Len(s) - 1
      BY <1>2 DEF Left
    <2>2. t[1] = s[1 + 1]
      BY <2>1 DEF Left
    <2> QED BY <1>1, <2>1, <2>2
  <1>4. RereadsWritten(s, 2)
    BY <1>1, <1>3 DEF Clearing
  <1>5. s[1][1] = "write" /\ Update(s[2][2]) \in s[1][2] /\ Delete(s[2][2]) \notin s[1][2]
    <2>1. 2 > 1 /\ 2 - 1 = 1 /\ s[2][1] = "reread"
      BY <1>2, <1>3
    <2> QED BY <1>4, <2>1 DEF RereadsWritten
  <1>6. x \in Row
    <2>1. t[1] \in Steps
      BY <1>2
    <2> QED BY <1>2, <2>1 DEF Steps
  <1> QED BY <1>1, <1>2, <1>3, <1>5, <1>6

\* Another's request does not give up because of a change that leaves the entry alone.
LEMMA StaysOwed ==
  ASSUME Typed, NEW r \in Req, Orderly(r), todo'[r] = todo[r], fresh' = fresh, NEW k \in Key, Same(k),
         k \in Owed(r), ~Doomed(r)
  PROVE  k \in Owed(r)' /\ ~Doomed(r)'
  <1> DEFINE s == todo[r]
  <1>1. s \in Seq(Steps) /\ ClearsNext(s, 0, k) /\ r \notin fresh
    BY OwedClears, Facts
  <1>2. k \in Owed(r)'
    BY <1>1, OwedClearsNext
  <1>3. ASSUME Doomed(r)' PROVE FALSE
    <2>1. s # <<>> /\ s[1][1] = "reread" /\ rows'[s[1][2]] = 0
      BY <1>3 DEF Doomed
    <2>2. ClearsNext(s, 1, k)
      BY <1>1, <2>1, ClearsNextLater DEF Clear
    <2>3. RereadsWritten(s, 1)
      BY <1>1, <2>1 DEF Orderly, Clearing
    <2>4. s[1][2] \in Watched(k)
      BY <2>1, <2>2, <2>3 DEF RereadsWritten
    <2>5. rows[s[1][2]] = 0
      BY <2>1, <2>4 DEF Same
    <2> QED BY <2>1, <2>5 DEF Doomed
  <1> QED BY <1>2, <1>3

\* A request that is about to clear an entry does so.
LEMMA ActsOwed ==
  ASSUME Typed, NEW r \in Req, Orderly(r), Acts(r), NEW k \in Key, k \in Owed(r), ~Doomed(r), Same(k)
  PROVE  (k \in Owed(r)' /\ ~Doomed(r)') \/ cache'[k] = None \/ k \in suspect'
  <1>0. fresh' = fresh
    BY Moves DEF Orderly
  <1>1. todo[r] \in Seq(Steps) /\ ClearsNext(todo[r], 0, k)
    BY OwedClears, Facts
  <1>2. CASE Store(r)
    <2>1. todo'[r] = todo[r]
      BY <1>2, ContinueMoves DEF Store
    <2> QED BY <1>0, <2>1, StaysOwed
  <1>3. CASE ClearEntry(r)
    <2>1. Doing(r, "clear") /\ Left(todo'[r], todo[r], 1) /\ todo[r] # <<>> /\ todo[r][1] = Step(r)
      BY <1>3, ProceedGoes, DoingMoves DEF ClearEntry
    <2>2. CASE k = Step(r)[2]
      BY <1>3, <2>2, Facts DEF ClearEntry
    <2>3. CASE k # Step(r)[2]
      <3>1. todo[r][1] # Clear(k)
        BY <2>1, <2>3 DEF Clear
      <3>2. k \in Owed(r)'
        BY <1>0, <1>1, <2>1, <3>1, ClearsNextLater, OwedGoes
      <3> QED BY <2>1, <3>2, RereadNext
    <2> QED BY <2>2, <2>3
  <1>4. CASE Find(r)
    <2>1. Doing(r, "reread") /\ todo[r] # <<>> /\ todo[r][1] = Step(r) /\ Step(r)[1] = "reread"
      BY <1>4, DoingMoves DEF Find
    <2>2. Proceed(r)
      BY <1>4, <2>1 DEF Find, Doomed
    <2>3. Left(todo'[r], todo[r], 1)
      BY <2>1, <2>2, ProceedGoes
    <2>4. todo[r][1] # Clear(k)
      BY <2>1 DEF Clear
    <2>5. k \in Owed(r)'
      BY <1>0, <1>1, <2>1, <2>3, <2>4, ClearsNextLater, OwedGoes
    <2> QED BY <2>1, <2>3, <2>5, RereadNext
  <1>5. CASE \/ Skip(r) \/ Hit(r) \/ Query(r) \/ NotFound(r) \/ Statement(r) \/ Refuse(r) \/ Accept(r)
             \/ CommitTransaction(r) \/ SaveConfig(r) \/ NoConfig(r) \/ CreateConfig(r) \/ CreateFromOIDC(r)
    <2>1. CASE Refuse(r)
      <3>1. \E op \in {"verify", "write", "unset all", "selectedFolderID", "preferences", "insert configuration",
                       "insert user"} : Doing(r, op)
        BY <2>1 DEF Refuse
      <3> QED BY <3>1, OwedHead
    <2>2. CASE ~Refuse(r)
      <3>1. \E op \in {"get", "write", "unset all", "verify", "commit", "selectedFolderID", "preferences",
                       "insert configuration", "insert user"} : Doing(r, op)
        BY <1>5, <2>2 DEF Skip, Hit, Query, NotFound, Statement, Accept, CommitTransaction,
                          SaveConfig, NoConfig, CreateConfig, CreateFromOIDC
      <3> QED BY <3>1, OwedHead
    <2> QED BY <2>1, <2>2
  <1> QED BY <1>2, <1>3, <1>4, <1>5 DEF Acts

LEMMA KeepsCovered ==
  ASSUME Typed, \A r \in Req : Orderly(r), NEW a \in Req, Acts(a), NEW k \in Key, Same(k), Covered(k),
         cache'[k] # None, k \in suspect => k \in suspect'
  PROVE  Covered(k)'
  <1>1. CASE k \in suspect
    BY <1>1 DEF Covered
  <1>2. ASSUME NEW r \in Req, k \in Owed(r), ~Doomed(r) PROVE Covered(k)'
    <2>1. CASE r = a
      BY <1>2, <2>1, ActsOwed DEF Covered
    <2>2. CASE r # a
      <3>1. todo'[r] = todo[r] /\ fresh' = fresh
        BY <2>2, Moves DEF Orderly
      <3>2. k \in Owed(r)' /\ ~Doomed(r)'
        BY <1>2, <3>1, StaysOwed
      <3> QED BY <3>2 DEF Covered
    <2> QED BY <2>1, <2>2
  <1>3. CASE k \in Folder /\ rows[k] = 0
    BY <1>3, WatchedFolder DEF Same, Covered
  <1> QED BY <1>1, <1>2, <1>3 DEF Covered

\* A deleted folder.
LEMMA DroppedCovered ==
  ASSUME NEW E, Apply(E), NEW k \in Folder, Delete(k) \in E
  PROVE  Covered(k)'
  <1>1. k \in Row
    BY DEF Row
  <1> QED BY <1>1 DEF Covered, Apply

\* After a statement the entries are about to be cleared.
LEMMA StatementCovers ==
  ASSUME Typed, NEW r \in Req, Orderly(r), Statement(r), ~InTransaction(r), Apply(Effects(r)),
         NEW k \in Entries(Subjects(Effects(r)))
  PROVE  Covered(k)'
  <1> DEFINE s == todo[r]
  <1>0. k \in Key
    BY DEF Entries
  <1>1. PICK op \in {"write", "unset all"} : Doing(r, op)
    BY StatementEffects
  <1>2. s \in Seq(Steps) /\ 1 \in DOMAIN s /\ s[1] = Step(r) /\ s[1][1] = op
    BY <1>1, DoingMoves
  <1>3. Left(todo'[r], s, 1) /\ fresh' = fresh
    BY <1>1, ProceedGoes, StatementEffects
  <1>4. k \in Entries(Target(Step(r)))
    BY <1>1, EffectsTyped, EntriesMonotone
  <1>5. CASE k \in Dropped(Step(r))
    <2>1. k \in Folder /\ Step(r)[1] = "write" /\ Delete(k) \in Step(r)[2]
      BY <1>5 DEF Dropped
    <2> QED BY <2>1, DroppedCovered DEF Effects
  <1>6. CASE k \notin Dropped(Step(r))
    <2>1. k \in Due(s[1])
      BY <1>2, <1>4, <1>6 DEF Due
    <2>2. WritesCleared(s, 1) /\ Writes(s[1]) /\ ~CommitsAfter(s, 1)
      BY <1>1, <1>2, InTransactionAfter DEF Orderly, Clearing, Writes
    <2>3. ClearsNext(s, 1, k)
      BY <2>1, <2>2 DEF WritesCleared
    <2>4. k \in Owed(r)'
      BY <1>0, <1>1, <1>3, <2>3, OwedGoes
    <2>5. ASSUME Doomed(r)' PROVE FALSE
      <3> DEFINE x == todo'[r][1][2]
      <3>1. /\ op = "write" /\ x \in Row /\ rows'[x] = 0
            /\ Update(x) \in Step(r)[2] /\ Delete(x) \notin Step(r)[2]
        BY <1>1, <1>3, <2>5, RereadNext
      <3>2. Effects(r) = Step(r)[2]
        BY <1>2, <3>1 DEF Effects
      <3>3. rows[x] # 0
        BY <1>1, <3>1, <3>2, StatementEffects DEF Executable
      <3> HIDE DEF x
      <3>4. rows'[x] = rows[x] + 1
        BY <3>1, <3>2, <3>3 DEF Apply
      <3> QED BY <3>1, <3>4, Facts
    <2> QED BY <2>4, <2>5 DEF Covered
  <1> QED BY <1>5, <1>6

LEMMA SaveCovers ==
  ASSUME Typed, NEW r \in Req, Orderly(r), NEW op \in {"selectedFolderID", "preferences", "insert configuration"},
         Doing(r, op), Left(todo'[r], todo[r], 1), fresh' = fresh
  PROVE  Covered("user")'
  <1> DEFINE s == todo[r]
  <1>1. 1 \in DOMAIN s /\ s[1][1] = op
    BY DoingMoves
  <1>2. SavesCleared(s, 1) /\ Saves(s[1])
    BY <1>1 DEF Orderly, Clearing, Saves
  <1>3. "user" \in Owed(r)'
    BY <1>2, OwedGoes, UserKey DEF SavesCleared
  <1>4. ~Doomed(r)'
    BY RereadNext
  <1> QED BY <1>3, <1>4 DEF Covered

LEMMA PairOf ==
  ASSUME NEW A, NEW B, NEW p \in A \X B
  PROVE  p = <<p[1], p[2]>> /\ p[1] \in A /\ p[2] \in B
  BY SMT

LEMMA CommitStep ==
  ASSUME NEW step \in Steps, step[1] = "commit"
  PROVE  step = Commit
  <1> DEFINE A == {"unset all", "insert configuration", "insert user", "verify", "commit"}
             B == {None}
  <1>1. step \in A \X B
    BY DEF Steps
  <1>2. step = <<step[1], step[2]>> /\ step[2] \in B
    <2> HIDE DEF A, B
    <2> QED BY <1>1, PairOf
  <1>3. step = <<"commit", None>>
    BY <1>2
  <1> QED BY <1>3 DEF Commit

LEMMA AccountEntry == Entries({"account"}) = {"user"}
  BY RowsAssumption DEF Entries, Watched, Key

\* What a step changes is covered, or not cached.
LEMMA ChangeCovered ==
  ASSUME Typed, \A r \in Req : Orderly(r), Primaries, Account, Hidden, NEW r \in Req, Acts(r), NEW k \in Key, ~Same(k)
  PROVE  Covered(k)' \/ cache'[k] = None
  <1>1. CASE UNCHANGED database
    BY <1>1, AllSame
  <1>2. CASE Statement(r) /\ ~InTransaction(r) /\ Apply(Effects(r)) /\ UNCHANGED config
    BY <1>2, ApplySame, StatementCovers
  <1>3. CASE CommitTransaction(r) /\ Apply(tx[r]) /\ UNCHANGED config
    <2>1. k \in Entries(Subjects(tx[r]))
      BY <1>3, ApplySame
    <2>2. HiddenFrom(r, k)
      BY <2>1 DEF Hidden
    <2>3. UNCHANGED <<cache, suspect>> /\ todo[r] \in Seq(Steps) /\ todo[r] # <<>> /\ todo[r][1] = Commit
      <3>1. Doing(r, "commit") /\ UNCHANGED <<cache, suspect>>
        BY <1>3 DEF CommitTransaction
      <3>2. todo[r] \in Seq(Steps) /\ todo[r] # <<>> /\ todo[r][1] \in Steps /\ todo[r][1][1] = "commit"
        BY <3>1, DoingMoves
      <3> QED BY <3>1, <3>2, CommitStep
    <2>4. CASE ClearsFirst(todo[r], 0, k)
      <3>1. Commit # Clear(k)
        BY DEF Commit, Clear
      <3>2. Left(Tail(todo[r]), todo[r], 1)
        BY <2>3, TailLeft
      <3> QED BY <2>3, <2>4, <3>1, <3>2, ClearsFirstAfter
    <2> QED BY <1>3, <2>2, <2>3, <2>4, DroppedCovered DEF HiddenFrom, Covered
  <1>4. CASE (SaveConfig(r) \/ (CreateConfig(r) /\ Proceed(r))) /\ UNCHANGED <<rows, primary>>
    <2>1. k = "user"
      BY <1>4 DEF Same
    <2>2. PICK op \in {"selectedFolderID", "preferences", "insert configuration"} : Doing(r, op)
      BY <1>4 DEF SaveConfig, CreateConfig
    <2>3. Left(todo'[r], todo[r], 1) /\ fresh' = fresh
      <3>1. PICK c, m : Continue(r, Tail(todo[r]), c, m)
        BY <1>4 DEF SaveConfig, Proceed
      <3>2. todo'[r] = Tail(todo[r]) /\ fresh' = fresh
        BY <3>1, ContinueMoves
      <3>3. Left(Tail(todo[r]), todo[r], 1)
        BY <2>2, DoingMoves
      <3> QED BY <3>2, <3>3
    <2> QED BY <2>1, <2>2, <2>3, SaveCovers
  <1>5. CASE CreateFromOIDC(r) /\ rows["account"] = 0 /\ Apply({Insert("account")}) /\ UNCHANGED config
    <2>1. Subjects({Insert("account")}) = {"account"}
      BY EffectRows DEF Subjects
    <2>2. k = "user"
      BY <1>5, <2>1, ApplySame, AccountEntry
    <2> QED BY <1>5, <2>2 DEF Account, CreateFromOIDC
  <1> QED BY <1>1, <1>2, <1>3, <1>4, <1>5, Changing

LEMMA OldRowsNext ==
  ASSUME NEW k, NEW f, f = cache'[k].own.folder
  PROVE  OldRows(k)' <=> cache'[k] # None /\ cache'[k].own # Own(k, f)'
  BY DEF OldRows, Own

LEMMA ActsCachedFresh ==
  ASSUME Typed, \A r \in Req : Orderly(r), Primaries, Account, Hidden, FetchedFresh, CachedFresh,
         NEW r \in Req, Acts(r), NEW k \in Key, OldRows(k)'
  PROVE  Covered(k)'
  <1>1. cache'[k] # None
    BY DEF OldRows
  <1>2. PICK f : f = cache'[k].own.folder
    OBVIOUS
  <1>3. cache'[k].own # Own(k, f)'
    BY <1>2, OldRowsNext
  <1>4. CASE cache'[k] = cache[k] /\ (k \in suspect => k \in suspect')
    <2>1. CASE Same(k)
      <3>1. cache[k].own # Own(k, f)
        BY <1>3, <1>4, <2>1, SameOwn
      <3>2. OldRows(k)
        BY <1>1, <1>2, <1>4, <3>1 DEF OldRows
      <3>3. Covered(k)
        BY <3>2 DEF CachedFresh
      <3> QED BY <1>1, <1>4, <2>1, <3>3, KeepsCovered
    <2>2. CASE ~Same(k)
      BY <1>1, <2>2, ChangeCovered
    <2> QED BY <2>1, <2>2
  <1>5. CASE Store(r) /\ k = fetched[r].key /\ cache'[k] = fetched[r].answer /\ (k \in met[r] => k \in suspect')
    <2>1. CASE k \in met[r]
      BY <1>5, <2>1 DEF Covered
    <2>2. CASE k \notin met[r]
      <3>1. fetched[r].answer.own = Own(k, f)
        BY <1>2, <1>5, <2>2 DEF FetchedFresh, Matches, Store
      <3>2. Own(k, f)' = Own(k, f)
        BY <1>5, AllSame, SameOwn DEF Store
      <3> QED BY <1>3, <1>5, <3>1, <3>2
    <2> QED BY <2>1, <2>2
  <1>6. CASE ClearEntry(r) /\ (cache'[k] = None \/ k \in suspect')
    BY <1>1, <1>6 DEF Covered
  <1> QED BY <1>4, <1>5, <1>6, ActsCache

LEMMA NextCachedFresh ==
  ASSUME Typed, \A r \in Req : Orderly(r), Primaries, Account, Hidden, FetchedFresh, CachedFresh, [Next]_vars
  PROVE  CachedFresh'
  <1> SUFFICES ASSUME NEW k \in Key, OldRows(k)' PROVE Covered(k)'
    BY DEF CachedFresh
  <1>1. ASSUME NEW r \in Req, Acts(r) PROVE Covered(k)'
    BY <1>1, ActsCachedFresh
  <1>2. PICK f : f = cache'[k].own.folder
    OBVIOUS
  <1>3. cache'[k] # None /\ cache'[k].own # Own(k, f)'
    BY <1>2, OldRowsNext
  <1>4. ASSUME UNCHANGED database, cache'[k] = cache[k] PROVE Covered(k)
    <2>1. Own(k, f)' = Own(k, f)
      BY <1>4, AllSame, SameOwn
    <2>2. OldRows(k)
      BY <1>2, <1>3, <1>4, <2>1 DEF OldRows
    <2> QED BY <2>2 DEF CachedFresh
  <1>5. ASSUME NEW r \in Req, Start(r) PROVE Covered(k)'
    <2>1. UNCHANGED <<database, cache, todo, suspect>> /\ fresh' = fresh \ {r}
      BY <1>5 DEF Start
    <2>2. ASSUME NEW q \in Req, k \in Owed(q), ~Doomed(q) PROVE k \in Owed(q)' /\ ~Doomed(q)'
      BY <2>1, <2>2 DEF Owed, Doomed, database
    <2> QED BY <1>4, <2>1, <2>2 DEF Covered, database
  <1>6. CASE Crash
    <2>1. UNCHANGED <<database, cache>> /\ suspect' = suspect \cup UNION {Owed(r) : r \in Req}
      BY <1>6 DEF Crash
    <2> QED BY <1>4, <2>1 DEF Covered, database
  <1>7. ASSUME NEW j \in Key, Expire(j) PROVE Covered(k)'
    <2>1. UNCHANGED <<database, todo, fresh>> /\ cache' = [cache EXCEPT ![j] = None] /\ suspect' = suspect \ {j}
      BY <1>7 DEF Expire
    <2>2. k # j /\ cache'[k] = cache[k]
      BY <1>3, <2>1, Facts
    <2>3. \A q \in Req : Owed(q)' = Owed(q) /\ Doomed(q)' = Doomed(q)
      BY <2>1 DEF Owed, Doomed, database
    <2> QED BY <1>4, <2>1, <2>2, <2>3 DEF Covered, database
  <1>8. CASE UNCHANGED vars
    <2>1. UNCHANGED <<database, todo, fresh, cache, suspect>>
      BY <1>8 DEF vars
    <2>2. \A q \in Req : Owed(q)' = Owed(q) /\ Doomed(q)' = Doomed(q)
      BY <2>1 DEF Owed, Doomed, database
    <2> QED BY <1>4, <2>1, <2>2 DEF Covered, database
  <1> QED BY <1>1, <1>5, <1>6, <1>7, <1>8, NextSteps

-----------------------------------------------------------------------------
(* The inductive invariant. *)

LEMMA NextPrimaries ==
  ASSUME Primaries, [Next]_vars
  PROVE  Primaries'
  <1>1. ASSUME UNCHANGED database PROVE Primaries'
    BY <1>1 DEF Primaries, database
  <1>2. ASSUME NEW r \in Req, Acts(r) PROVE Primaries'
    BY <1>2, ActsPrimaries
  <1>3. ASSUME NEW r \in Req, Start(r) PROVE Primaries'
    BY <1>1, <1>3 DEF Start
  <1>4. ASSUME NEW k \in Key, Expire(k) PROVE Primaries'
    BY <1>1, <1>4 DEF Expire
  <1>5. CASE Crash
    BY <1>1, <1>5 DEF Crash
  <1>6. CASE UNCHANGED vars
    BY <1>1, <1>6 DEF vars
  <1> QED BY <1>2, <1>3, <1>4, <1>5, <1>6, NextSteps

\* The order the handlers of the code keep.
Ordered(s) == Clearing(s) /\ Choosing(s) /\ UnsetsAllFirst(s)
HandlersOrdered == \A w \in Workload, r \in Req : Ordered(w[r])

UserInv ==
  /\ Typed /\ \A r \in Req : Orderly(r)
  /\ Noticed /\ Primaries /\ Account /\ FetchedFresh /\ Hidden /\ CachedFresh /\ CopyFresh

LEMMA InitTxTyped == Init => TxTyped
  BY DEF Init, TxTyped

LEMMA InitOrderly ==
  ASSUME HandlersOrdered, Init, NEW r \in Req
  PROVE  Orderly(r) /\ ~Running(r)
  <1>1. /\ fetched[r] = None /\ tx[r] = {} /\ copy[r] = None /\ Ordered(todo[r])
        /\ r \in fresh <=> todo[r] # <<>>
    BY DEF Init, HandlersOrdered
  <1> QED BY <1>1 DEF Orderly, Ordered, Running

LEMMA InitUserInv == HandlersOrdered /\ Init => UserInv
  <1> SUFFICES ASSUME HandlersOrdered, Init PROVE UserInv
    OBVIOUS
  <1>1. Typed
    BY InitIInv, InitTxTyped DEF Typed
  <1>2. \A r \in Req : Orderly(r) /\ ~Running(r)
    BY InitOrderly
  <1>3. /\ cache = [k \in Key |-> None] /\ fetched = [r \in Req |-> None]
        /\ copy = [r \in Req |-> None] /\ tx = [r \in Req |-> {}] /\ primary = {}
    BY DEF Init
  <1>4. Noticed /\ Primaries /\ Account /\ FetchedFresh /\ CopyFresh
    BY <1>2, <1>3 DEF Noticed, Primaries, Account, FetchedFresh, CopyFresh, Key
  <1>5. Hidden
    BY <1>3 DEF Hidden, Entries, Subjects
  <1>6. CachedFresh
    BY <1>3 DEF CachedFresh, OldRows
  <1> QED BY <1>1, <1>2, <1>4, <1>5, <1>6 DEF UserInv

LEMMA NextUserInv == UserInv /\ [Next]_vars => UserInv'
  <1> SUFFICES ASSUME UserInv, [Next]_vars PROVE UserInv'
    OBVIOUS
  <1>1. /\ Typed /\ \A r \in Req : Orderly(r)
        /\ Noticed /\ Primaries /\ Account /\ FetchedFresh /\ Hidden /\ CachedFresh /\ CopyFresh
    BY DEF UserInv
  <1>2. Typed'
    BY <1>1, NextTyped
  <1>3. \A r \in Req : Orderly(r)'
    BY <1>1, NextOrderly
  <1>4. Noticed' /\ Primaries' /\ Account'
    BY <1>1, NextNoticed, NextPrimaries, NextAccount
  <1>5. FetchedFresh' /\ Hidden'
    BY <1>1, NextFetchedFresh, NextHidden
  <1>6. CachedFresh' /\ CopyFresh'
    BY <1>1, NextCachedFresh, NextCopyFresh
  <1> QED BY <1>2, <1>3, <1>4, <1>5, <1>6 DEF UserInv

LEMMA SpecUserInv ==
  ASSUME HandlersOrdered
  PROVE  Spec => []UserInv
  BY InitUserInv, NextUserInv, PTL DEF Spec

LEMMA UserInvOldRows == UserInv => RowsOldOnlyByOverlap
  BY DEF UserInv, CachedFresh, Covered, RowsOldOnlyByOverlap

\* No lost update.
LEMMA SavesFromCopy ==
  ASSUME UserInv, [Next]_vars, NEW r \in Req, Doing(r, "selectedFolderID") \/ Doing(r, "preferences"),
         todo'[r] # todo[r], config' # config
  PROVE  config' = [config EXCEPT ![Step(r)[1]] = Step(r)[2]] \/ "user" \in met[r]
  <1>0. Typed /\ (\A q \in Req : Orderly(q)) /\ (copy[r] # None => copy[r] = config \/ "user" \in met[r])
    BY DEF UserInv, CopyFresh
  <1>1. ASSUME NEW q \in Req, Acts(q) PROVE SaveConfig(r)
    <2>1. q = r
      BY <1>0, <1>1, Moves DEF Orderly
    <2>2. SaveConfig(r) \/ CreateConfig(r)
      BY <1>1, <2>1, Changing DEF database, CreateFromOIDC, Statement, CommitTransaction
    <2>3. ~CreateConfig(r)
      BY DEF CreateConfig, Doing
    <2> QED BY <2>2, <2>3
  <1>2. SaveConfig(r)
    <2>1. ASSUME NEW q \in Req, Start(q) PROVE FALSE
      BY <2>1 DEF Start
    <2>2. ASSUME NEW k \in Key, Expire(k) PROVE FALSE
      BY <2>2 DEF Expire
    <2>3. ~Crash
      BY DEF Crash, database
    <2>4. ~UNCHANGED vars
      BY DEF vars
    <2> QED BY <1>1, <2>1, <2>2, <2>3, <2>4, NextSteps
  <1>3. copy[r] # None /\ config' = [copy[r] EXCEPT ![Step(r)[1]] = Step(r)[2]]
    BY <1>2 DEF SaveConfig
  <1> QED BY <1>0, <1>3

LEMMA UserInvNoLost ==
  UserInv /\ [Next]_vars =>
    [\A r \in Req :
       /\ Doing(r, "selectedFolderID") \/ Doing(r, "preferences")
       /\ todo'[r] # todo[r] /\ config' # config
       => config' = [config EXCEPT ![Step(r)[1]] = Step(r)[2]] \/ "user" \in met[r]]_vars
  BY SavesFromCopy

LEMMA OrderedOldRows == HandlersOrdered => (Spec => []RowsOldOnlyByOverlap)
  <1> SUFFICES ASSUME HandlersOrdered PROVE Spec => []RowsOldOnlyByOverlap
    OBVIOUS
  <1>1. Spec => []UserInv
    BY SpecUserInv
  <1> QED BY <1>1, UserInvOldRows, PTL

LEMMA OrderedNoLost == HandlersOrdered => (Spec => NoLostUpdate)
  <1> SUFFICES ASSUME HandlersOrdered PROVE Spec => NoLostUpdate
    OBVIOUS
  <1>1. Spec => []UserInv
    BY SpecUserInv
  <1> QED BY <1>1, UserInvNoLost, PTL DEF Spec, NoLostUpdate

-----------------------------------------------------------------------------
(* The primary stylus. *)

\* A request that is about to make a stylus primary has unset all others, or has
\* noticed that somebody else is at work on them.
Unset(r) == "styluses" \in met[r] \/ \A s \in primary : UnsetPrimary(s) \in tx[r]
CommitsBy(s, i) == \E m \in 1 .. i : s[m] = Commit
Sets(E) == \E s \in Stylus : SetPrimary(s) \in E

UnsetBefore(r) ==
  \A i \in DOMAIN todo[r] : SetsPrimary(todo[r][i]) =>
    UnsetsFirst(todo[r], i) \/ (Undivided(todo[r], 1, i) /\ Unset(r))
SetInTx(r) ==
  Sets(tx[r]) =>
    /\ OneSet(tx[r]) /\ (todo[r] = <<>> \/ Unset(r))
    /\ \A i \in DOMAIN todo[r] : SetsPrimary(todo[r][i]) => CommitsBy(todo[r], i)
PrimaryInv ==
  /\ \A r \in Req : UnsetBefore(r) /\ SetInTx(r)
  /\ IsFiniteSet(primary)

\* Commits and questions end what is undivided.
LEMMA UnsetsFirstLeft ==
  ASSUME NEW s \in Seq(Steps), NEW t, Left(t, s, 1), NEW i \in DOMAIN t, UnsetsFirst(s, i + 1)
  PROVE  UnsetsFirst(t, i) \/ (s[1] = UnsetAll /\ Undivided(s, 1, i + 1))
  <1>1. DOMAIN t = 1..Len(t) /\ DOMAIN s = 1..Len(s) /\ Len(s) \in Nat /\ Len(t) = Len(s) - 1 /\ i \in Nat
    BY DEF Left
  <1>2. PICK j \in 1 .. (i + 1) - 1 : s[j] = UnsetAll /\ Undivided(s, j, i + 1)
    BY DEF UnsetsFirst
  <1>3. CASE j = 1
    BY <1>2, <1>3
  <1>4. CASE j # 1
    <2> DEFINE u == j - 1
    <2>1. u \in 1 .. i - 1 /\ u \in 1..Len(t) /\ j = u + 1
      BY <1>1, <1>2, <1>4
    <2>2. t[u] = UnsetAll
      BY <1>2, <2>1 DEF Left
    <2>3. ASSUME NEW m \in u .. i PROVE t[m] # Commit /\ t[m][1] # "get"
      <3>1. m \in 1..Len(t) /\ m + 1 \in j .. i + 1
        BY <1>1, <2>1, <2>3
      <3>2. t[m] = s[m + 1]
        BY <3>1 DEF Left
      <3> QED BY <1>2, <3>1, <3>2 DEF Undivided
    <2> HIDE DEF u
    <2> QED BY <2>1, <2>2, <2>3 DEF UnsetsFirst, Undivided
  <1> QED BY <1>3, <1>4

LEMMA UndividedLeft ==
  ASSUME NEW s \in Seq(Steps), NEW t, Left(t, s, 1), NEW i \in DOMAIN t, Undivided(s, 1, i + 1)
  PROVE  Undivided(t, 1, i) /\ s[1] # Commit /\ s[1][1] # "get"
  <1>1. DOMAIN t = 1..Len(t) /\ Len(t) \in Nat /\ i \in Nat
    BY DEF Left
  <1>2. ASSUME NEW m \in 1 .. i PROVE t[m] # Commit /\ t[m][1] # "get"
    <2>1. m \in 1..Len(t) /\ m + 1 \in 1 .. i + 1
      BY <1>1
    <2>2. t[m] = s[m + 1]
      BY <2>1 DEF Left
    <2> QED BY <2>1, <2>2 DEF Undivided
  <1>3. 1 \in 1 .. i + 1
    BY <1>1
  <1> QED BY <1>2, <1>3 DEF Undivided

LEMMA CommitsByLeft ==
  ASSUME NEW s \in Seq(Steps), NEW t, Left(t, s, 1), NEW i \in DOMAIN t, CommitsBy(s, i + 1), s[1] # Commit
  PROVE  CommitsBy(t, i)
  <1>1. DOMAIN t = 1..Len(t) /\ Len(t) \in Nat /\ i \in Nat
    BY DEF Left
  <1>2. PICK m \in 1 .. i + 1 : s[m] = Commit
    BY DEF CommitsBy
  <1>3. m - 1 \in 1 .. i /\ m - 1 \in 1..Len(t) /\ (m - 1) + 1 = m
    BY <1>1, <1>2
  <1>4. t[m - 1] = Commit
    BY <1>2, <1>3 DEF Left
  <1> QED BY <1>3, <1>4 DEF CommitsBy

LEMMA LeftStep ==
  ASSUME NEW s \in Seq(Steps), NEW t, Left(t, s, 1), NEW i \in DOMAIN t
  PROVE  i \in Nat /\ i + 1 \in DOMAIN s /\ i + 1 > 1 /\ t[i] = s[i + 1]
  BY DEF Left

\* A request at rest, or not begun.
LEMMA AtRest ==
  ASSUME NEW r \in Req, Orderly(r), ~Running(r), SetInTx(r)
  PROVE  UnsetBefore(r) /\ (r \in fresh => tx[r] = {} /\ UnsetsAllFirst(todo[r])) /\ (r \notin fresh => todo[r] = <<>>)
  <1>1. r \in fresh => tx[r] = {} /\ UnsetsAllFirst(todo[r])
    BY DEF Orderly
  <1>2. r \notin fresh => todo[r] = <<>>
    BY DEF Running
  <1> QED BY <1>1, <1>2 DEF UnsetBefore, UnsetsAllFirst

\* A request at rest stays so.
LEMMA RestsPrimary ==
  ASSUME NEW r \in Req, Orderly(r), SetInTx(r), ~Running(r), todo'[r] = todo[r], tx'[r] = tx[r]
  PROVE  UnsetBefore(r)' /\ SetInTx(r)'
  <1>1. CASE r \in fresh
    <2>1. tx[r] = {} /\ UnsetsAllFirst(todo[r])
      BY <1>1, AtRest
    <2> QED BY <2>1 DEF UnsetBefore, SetInTx, UnsetsAllFirst, Sets
  <1>2. CASE r \notin fresh
    <2>1. todo[r] = <<>>
      BY <1>2, AtRest
    <2> QED BY <2>1 DEF UnsetBefore, SetInTx
  <1> QED BY <1>1, <1>2

\* What another does to the styluses is noticed.
LEMMA UndisturbedPrimary ==
  ASSUME NEW r \in Req, Orderly(r), UnsetBefore(r), SetInTx(r), todo'[r] = todo[r], tx'[r] = tx[r],
         \/ ~Running(r)
         \/ "styluses" \in met'[r]
         \/ primary' = primary /\ met[r] \subseteq met'[r]
  PROVE  UnsetBefore(r)' /\ SetInTx(r)'
  <1>1. CASE Running(r)
    <2>1. Unset(r) => Unset(r)'
      BY <1>1 DEF Unset
    <2> QED BY <2>1 DEF UnsetBefore, SetInTx
  <1>2. CASE ~Running(r)
    BY <1>2, RestsPrimary
  <1> QED BY <1>1, <1>2

\* A request that is over.
LEMMA OverPrimary ==
  ASSUME NEW r \in Req, SetInTx(r), todo'[r] = <<>>, tx'[r] \subseteq tx[r]
  PROVE  UnsetBefore(r)' /\ SetInTx(r)'
  <1>1. Sets(tx'[r]) => Sets(tx[r]) /\ (OneSet(tx[r]) => OneSet(tx'[r]))
    BY DEF Sets, OneSet
  <1> QED BY <1>1 DEF UnsetBefore, SetInTx

\* A question or a commit: what is left still unsets all others first.
LEMMA BoundaryPrimary ==
  ASSUME Typed, NEW r \in Req, UnsetBefore(r), NEW op \in {"get", "commit"}, Doing(r, op),
         Left(todo'[r], todo[r], 1), tx'[r] = {}
  PROVE  UnsetBefore(r)' /\ SetInTx(r)' /\ \A i \in DOMAIN todo'[r] : SetsPrimary(todo'[r][i]) => UnsetsFirst(todo'[r], i)
  <1> DEFINE s == todo[r]
             t == todo'[r]
  <1>1. s \in Seq(Steps) /\ s[1][1] = op /\ s[1] \in Steps
    BY DoingMoves
  <1>2. s[1] = Commit \/ s[1][1] = "get"
    BY <1>1, CommitStep
  <1>3. s[1] # UnsetAll
    <2>1. UnsetAll[1] = "unset all"
      BY DEF UnsetAll
    <2>2. op # "unset all"
      OBVIOUS
    <2> QED BY <1>1, <2>1, <2>2
  <1>4. ASSUME NEW i \in DOMAIN t, SetsPrimary(t[i]) PROVE UnsetsFirst(t, i)
    <2>1. i + 1 \in DOMAIN s /\ t[i] = s[i + 1]
      BY <1>1, LeftStep
    <2>2. ~Undivided(s, 1, i + 1)
      BY <1>1, <1>2, UndividedLeft
    <2>3. UnsetsFirst(s, i + 1)
      BY <1>4, <2>1, <2>2 DEF UnsetBefore
    <2> QED BY <1>1, <1>3, <2>3, UnsetsFirstLeft
  <1>5. ~Sets(tx'[r])
    BY DEF Sets
  <1> QED BY <1>4, <1>5 DEF UnsetBefore, SetInTx

\* Within a transaction.
LEMMA InsidePrimary ==
  ASSUME Typed, NEW r \in Req, Orderly(r), UnsetBefore(r), SetInTx(r), NEW op, Doing(r, op), op \notin {"get", "commit"},
         Left(todo'[r], todo[r], 1), CommitsAfter(todo[r], 1), primary' = primary, met[r] \subseteq met'[r],
         NEW E, tx'[r] = tx[r] \cup E,
         Sets(E) => SetsPrimary(todo[r][1]) /\ E = todo[r][1][2],
         todo[r][1] = UnsetAll => \A x \in primary : UnsetPrimary(x) \in E
  PROVE  UnsetBefore(r)' /\ SetInTx(r)'
  <1> DEFINE s == todo[r]
             t == todo'[r]
  <1>1. s \in Seq(Steps) /\ s # <<>> /\ 1 \in DOMAIN s /\ s[1][1] = op /\ s[1] # Commit /\ Choosing(s)
    BY DoingMoves DEF Orderly, Commit
  <1>2. Unset(r) => Unset(r)'
    BY DEF Unset
  <1>3. s[1] = UnsetAll => Unset(r)'
    BY DEF Unset
  <1>4. ASSUME NEW i \in DOMAIN t, SetsPrimary(t[i])
        PROVE  UnsetsFirst(t, i) \/ (Undivided(t, 1, i) /\ Unset(r)')
    <2>1. i + 1 \in DOMAIN s /\ t[i] = s[i + 1]
      BY <1>1, LeftStep
    <2>2. UnsetsFirst(s, i + 1) \/ (Undivided(s, 1, i + 1) /\ Unset(r))
      BY <1>4, <2>1 DEF UnsetBefore
    <2> QED BY <1>1, <1>2, <1>3, <2>2, UnsetsFirstLeft, UndividedLeft
  <1>5. ASSUME Sets(tx[r]), ~Sets(E) PROVE SetInTx(r)'
    <2>1. /\ OneSet(tx[r]) /\ Unset(r)
          /\ \A i \in DOMAIN s : SetsPrimary(s[i]) => CommitsBy(s, i)
      BY <1>1, <1>5 DEF SetInTx
    <2>2. OneSet(tx'[r])
      BY <1>5, <2>1 DEF OneSet, Sets
    <2>3. ASSUME NEW i \in DOMAIN t, SetsPrimary(t[i]) PROVE CommitsBy(t, i)
      BY <1>1, <2>1, <2>3, LeftStep, CommitsByLeft
    <2> QED BY <1>2, <2>1, <2>2, <2>3 DEF SetInTx
  <1>6. ASSUME Sets(E) PROVE SetInTx(r)'
    <2>1. SetsPrimary(s[1]) /\ E = s[1][2] /\ SetsOnce(s, 1)
      BY <1>1, <1>6 DEF Choosing
    <2>2. Unset(r)
      <3>1. ~UnsetsFirst(s, 1)
        BY DEF UnsetsFirst
      <3> QED BY <1>1, <2>1, <3>1 DEF UnsetBefore
    <2>3. ~Sets(tx[r])
      <3>1. ~CommitsBy(s, 1)
        BY <1>1 DEF CommitsBy
      <3> QED BY <1>1, <2>1, <3>1 DEF SetInTx
    <2>4. OneSet(tx'[r])
      BY <2>1, <2>3 DEF SetsOnce, OneSet, Sets
    <2>5. ASSUME NEW i \in DOMAIN t, SetsPrimary(t[i]) PROVE CommitsBy(t, i)
      <3>1. i + 1 \in DOMAIN s /\ i + 1 > 1 /\ t[i] = s[i + 1]
        BY <1>1, LeftStep
      <3>2. CommitsBy(s, i + 1)
        BY <2>1, <2>5, <3>1 DEF SetsOnce, CommitsBy
      <3> QED BY <1>1, <3>2, CommitsByLeft
    <2> QED BY <1>2, <2>2, <2>4, <2>5 DEF SetInTx
  <1>7. ASSUME ~Sets(tx[r]), ~Sets(E) PROVE SetInTx(r)'
    BY <1>7 DEF SetInTx, Sets
  <1> QED BY <1>4, <1>5, <1>6, <1>7 DEF UnsetBefore

\* Without a commit ahead no stylus is made primary.
LEMMA OutsidePrimary ==
  ASSUME Typed, NEW r \in Req, Orderly(r), NEW op, Doing(r, op), op # "commit",
         Left(todo'[r], todo[r], 1), ~CommitsAfter(todo[r], 1), tx'[r] = tx[r]
  PROVE  UnsetBefore(r)' /\ SetInTx(r)' /\ ~SetsPrimary(todo[r][1])
  <1> DEFINE s == todo[r]
  <1>1. s \in Seq(Steps) /\ 1 \in DOMAIN s /\ Choosing(s) /\ tx[r] = {}
    BY DoingMoves, InsideTransaction DEF Orderly
  <1>2. ASSUME NEW i \in DOMAIN s, SetsPrimary(s[i]) PROVE FALSE
    <2>1. i \in Nat /\ i >= 1 /\ CommitsAfter(s, i)
      BY <1>1, <1>2 DEF Choosing, SetsOnce
    <2>2. PICK j \in DOMAIN s : j > i /\ s[j] = Commit
      BY <2>1 DEF CommitsAfter
    <2>3. j > 1
      BY <1>1, <2>1, <2>2
    <2> QED BY <2>2, <2>3 DEF CommitsAfter
  <1>3. \A i \in DOMAIN todo'[r] : ~SetsPrimary(todo'[r][i])
    BY <1>1, <1>2, LeftStep
  <1> QED BY <1>1, <1>2, <1>3 DEF UnsetBefore, SetInTx, Sets

LEMMA ReadPrimary ==
  ASSUME Typed, NEW r \in Req, Orderly(r), UnsetBefore(r), SetInTx(r), Doing(r, "get"), tx' = tx,
         NEW c, NEW m, Continue(r, Tail(todo[r]), c, m)
  PROVE  UnsetBefore(r)' /\ SetInTx(r)'
  <1>1. tx'[r] = {}
    BY InsideTransaction
  <1>2. Left(todo'[r], todo[r], 1)
    BY ContinueMoves, DoingMoves
  <1> QED BY <1>1, <1>2, BoundaryPrimary

\* Without the folder, the next question is skipped as well.
LEMMA NotFoundPrimary ==
  ASSUME Typed, NEW r \in Req, Orderly(r), UnsetBefore(r), SetInTx(r), NotFound(r)
  PROVE  UnsetBefore(r)' /\ SetInTx(r)'
  <1> DEFINE s == todo[r]
             t == todo'[r]
             k == Wanted(r)
  <1>1. Doing(r, "get") /\ tx' = tx /\ tx[r] = {}
    BY InsideTransaction DEF NotFound
  <1>2. s \in Seq(Steps) /\ s # <<>> /\ 1 \in DOMAIN s /\ s[1] = Step(r) /\ s[1][1] = "get" /\ Choosing(s)
    BY <1>1, DoingMoves DEF Orderly
  <1>3. CASE t = <<>>
    BY <1>1, <1>3, OverPrimary
  <1>4. CASE t = <<InsertUser>>
    <2>1. InsertUser[1] = "insert user"
      BY DEF InsertUser
    <2>2. ~SetsPrimary(InsertUser)
      BY <2>1 DEF SetsPrimary
    <2>3. \A i \in DOMAIN t : t[i] = InsertUser
      BY <1>4
    <2> QED BY <1>1, <2>2, <2>3 DEF UnsetBefore, SetInTx, Sets
  <1>5. CASE k # "user" /\ t = SubSeq(s, 3, Len(s)) /\ t # <<>>
    <2>1. k \in Folder
      BY <1>5 DEF NotFound, Missing
    <2>2. s[1][2] = "folder"
      <3>1. s[1][2] \notin Folder
        BY <1>2 DEF Choosing, SkipsReads
      <3>2. k = s[1][2] \/ s[1][2] = "folder" \/ k = None
        BY <1>2 DEF Wanted
      <3> QED BY <2>1, <3>1, <3>2 DEF NotFound
    <2>3. Len(s) >= 2
      <3>1. ASSUME ~(Len(s) >= 2) PROVE FALSE
        <4>1. Len(s) \in Int /\ Len(s) < 3
          BY <1>2, <3>1
        <4>2. SubSeq(s, 3, Len(s)) = <<>>
          BY <4>1, SubSeqEmpty
        <4> QED BY <1>5, <4>2
      <3> QED BY <3>1
    <2>4. 2 \in DOMAIN s /\ s[2][1] = "get"
      <3>1. 1 + 1 \in DOMAIN s /\ 1 + 1 = 2
        BY <1>2, <2>3
      <3> QED BY <1>2, <2>2, <3>1 DEF Choosing, SkipsReads
    <2>5. Left(t, s, 2)
      BY <1>2, <1>5, <2>3, SkipLeft
    <2>6. ASSUME NEW i \in DOMAIN t, SetsPrimary(t[i]) PROVE UnsetsFirst(t, i)
      <3>1. DOMAIN t = 1..Len(t) /\ Len(t) \in Nat /\ i \in Nat
        BY <2>5 DEF Left
      <3>2. i + 2 \in DOMAIN s /\ t[i] = s[i + 2]
        BY <2>5 DEF Left
      <3>3. ~Undivided(s, 1, i + 2)
        <4>1. 1 \in 1 .. i + 2
          BY <3>1
        <4> QED BY <1>2, <4>1 DEF Undivided
      <3>4. PICK j \in 1 .. (i + 2) - 1 : s[j] = UnsetAll /\ Undivided(s, j, i + 2)
        BY <2>6, <3>2, <3>3 DEF UnsetBefore, UnsetsFirst
      <3>5. UnsetAll[1] = "unset all"
        BY DEF UnsetAll
      <3>6. j # 1 /\ j # 2
        BY <1>2, <2>4, <3>4, <3>5
      <3> DEFINE u == j - 2
      <3>7. u \in 1 .. i - 1 /\ u \in 1..Len(t) /\ j = u + 2
        BY <3>1, <3>4, <3>6
      <3>8. t[u] = UnsetAll
        BY <2>5, <3>4, <3>7 DEF Left
      <3>9. ASSUME NEW m \in u .. i PROVE t[m] # Commit /\ t[m][1] # "get"
        <4>1. m \in 1..Len(t) /\ m + 2 \in j .. i + 2
          BY <3>1, <3>7, <3>9
        <4>2. t[m] = s[m + 2]
          BY <2>5, <4>1 DEF Left
        <4> QED BY <3>4, <4>1, <4>2 DEF Undivided
      <3> HIDE DEF u
      <3> QED BY <3>7, <3>8, <3>9 DEF UnsetsFirst, Undivided
    <2> QED BY <1>1, <2>6 DEF UnsetBefore, SetInTx, Sets
  <1>6. \/ t = <<>> \/ t = <<InsertUser>>
        \/ k # "user" /\ t = SubSeq(s, 3, Len(s))
    <2>1. \/ Continue(r, <<InsertUser>>, None, met[r])
          \/ End(r)
          \/ k # "user" /\ Continue(r, SubSeq(s, 3, Len(s)), copy[r], met[r])
      BY DEF NotFound
    <2> QED BY <2>1, ContinueMoves DEF End
  <1> QED BY <1>3, <1>4, <1>5, <1>6

LEMMA MoreToDo ==
  ASSUME NEW s \in Seq(Steps), NEW t, Left(t, s, 1), CommitsAfter(s, 1)
  PROVE  t # <<>>
  <1>1. PICK j \in DOMAIN s : j > 1
    BY DEF CommitsAfter
  <1>2. Len(s) \in Nat /\ Len(s) > 1
    BY <1>1
  <1>3. Len(t) = Len(s) - 1
    BY DEF Left
  <1>4. Len(t) > 0
    BY <1>2, <1>3
  <1>5. Len(<<>>) = 0
    OBVIOUS
  <1> QED BY <1>4, <1>5

LEMMA StatementPrimary ==
  ASSUME Typed, Primaries, NEW r \in Req, Orderly(r), UnsetBefore(r), SetInTx(r), Statement(r)
  PROVE  UnsetBefore(r)' /\ SetInTx(r)'
  <1>1. PICK op \in {"write", "unset all"} : Doing(r, op)
    BY DEF Statement
  <1>2. 1 \in DOMAIN todo[r] /\ todo[r][1] = Step(r) /\ todo[r][1][1] = op /\ Left(todo'[r], todo[r], 1)
    BY <1>1, StatementEffects, ProceedGoes, DoingMoves
  <1>3. CASE CommitsAfter(todo[r], 1)
    <2>1. tx' = [tx EXCEPT ![r] = @ \cup Effects(r)] /\ UNCHANGED <<rows, primary>>
      BY <1>1, <1>3, StatementEffects, InTransactionAfter DEF Execute
    <2>2. tx'[r] = tx[r] \cup Effects(r)
      BY <2>1, Facts
    <2>3. met[r] \subseteq met'[r]
      <3>1. todo[r] \in Seq(Steps)
        BY Facts
      <3>2. todo'[r] # <<>>
        BY <1>2, <1>3, <3>1, MoreToDo
      <3>3. Continue(r, Tail(todo[r]), copy[r], met[r])
        BY StatementEffects DEF Proceed
      <3>4. todo'[r] = Tail(todo[r])
        BY <3>3, ContinueMoves
      <3> QED BY <3>2, <3>3, <3>4, ContinueMoves
    <2>4. Sets(Effects(r)) => SetsPrimary(todo[r][1]) /\ Effects(r) = todo[r][1][2]
      <3>1. CASE op = "write"
        BY <1>2, <3>1 DEF Effects, Sets, SetsPrimary
      <3>2. CASE op = "unset all"
        <4>1. \A x, y \in Stylus : SetPrimary(x) # UnsetPrimary(y)
          BY DEF SetPrimary, UnsetPrimary
        <4>2. Effects(r) = {UnsetPrimary(s) : s \in {x \in Stylus : rows[x] # 0}}
          BY <1>2, <3>2 DEF Effects
        <4> QED BY <4>1, <4>2 DEF Sets
      <3> QED BY <3>1, <3>2
    <2>5. todo[r][1] = UnsetAll => \A x \in primary : UnsetPrimary(x) \in Effects(r)
      <3>1. UnsetAll[1] = "unset all"
        BY DEF UnsetAll
      <3>2. \A x \in primary : x \in Stylus /\ rows[x] # 0
        BY Facts DEF Primaries
      <3> QED BY <1>2, <3>1, <3>2 DEF Effects
    <2> QED BY <1>1, <1>2, <1>3, <2>1, <2>2, <2>3, <2>4, <2>5, InsidePrimary
  <1>4. CASE ~CommitsAfter(todo[r], 1)
    <2>1. tx' = tx
      BY <1>1, <1>4, StatementEffects, InTransactionAfter DEF Execute
    <2> QED BY <1>1, <1>2, <1>4, <2>1, OutsidePrimary
  <1> QED BY <1>3, <1>4

\* A step that is no statement, question or commit.
LEMMA PassingPrimary ==
  ASSUME Typed, NEW r \in Req, Orderly(r), UnsetBefore(r), SetInTx(r),
         NEW op \in {"verify", "reread", "clear", "selectedFolderID", "preferences", "insert configuration"},
         Doing(r, op), tx' = tx, UNCHANGED primary, NEW c, Continue(r, Tail(todo[r]), c, met[r])
  PROVE  UnsetBefore(r)' /\ SetInTx(r)'
  <1>1. 1 \in DOMAIN todo[r] /\ todo[r][1][1] = op /\ Left(todo'[r], todo[r], 1)
    <2>1. 1 \in DOMAIN todo[r] /\ todo[r][1][1] = op /\ Left(Tail(todo[r]), todo[r], 1)
      BY DoingMoves
    <2>2. todo'[r] = Tail(todo[r])
      BY ContinueMoves
    <2> QED BY <2>1, <2>2
  <1>2. CASE todo'[r] = <<>>
    BY <1>2, OverPrimary
  <1>3. CASE todo'[r] # <<>> /\ CommitsAfter(todo[r], 1)
    <2>1. met[r] \subseteq met'[r]
      BY <1>3, ContinueMoves
    <2>2. tx'[r] = tx[r] \cup {} /\ ~Sets({})
      BY DEF Sets
    <2>3. todo[r][1] # UnsetAll
      <3>1. UnsetAll[1] = "unset all"
        BY DEF UnsetAll
      <3> QED BY <1>1, <3>1
    <2> QED BY <1>1, <1>3, <2>1, <2>2, <2>3, InsidePrimary
  <1>4. CASE ~CommitsAfter(todo[r], 1)
    BY <1>1, <1>4, OutsidePrimary
  <1> QED BY <1>2, <1>3, <1>4

LEMMA ActsPrimary ==
  ASSUME Typed, Primaries, NEW r \in Req, Orderly(r), UnsetBefore(r), SetInTx(r), Acts(r)
  PROVE  UnsetBefore(r)' /\ SetInTx(r)'
  <1>1. CASE Skip(r)
    <2>1. Doing(r, "get") /\ tx' = tx /\ Continue(r, Tail(todo[r]), copy[r], met[r])
      BY <1>1 DEF Skip, Proceed
    <2> QED BY <2>1, ReadPrimary
  <1>2. CASE Hit(r) \/ Query(r)
    <2>1. Doing(r, "get") /\ tx' = tx /\ \E c, m : Continue(r, Tail(todo[r]), c, m)
      BY <1>2 DEF Hit, Query, Read
    <2> QED BY <2>1, ReadPrimary
  <1>3. CASE NotFound(r)
    BY <1>3, NotFoundPrimary
  <1>4. CASE Store(r)
    <2>1. Continue(r, todo[r], copy[r], met[r] \cap {"user", "styluses"}) /\ tx' = tx /\ UNCHANGED primary
      BY <1>4 DEF Store, database
    <2>2. todo'[r] = todo[r] /\ (todo[r] # <<>> => met'[r] = met[r] \cap {"user", "styluses"})
      BY <2>1, ContinueMoves
    <2>3. CASE todo[r] = <<>>
      BY <2>1, <2>2, <2>3, OverPrimary
    <2>4. CASE todo[r] # <<>>
      <3>1. Unset(r) => Unset(r)'
        BY <2>1, <2>2, <2>4 DEF Unset
      <3> QED BY <2>1, <2>2, <2>4, <3>1 DEF UnsetBefore, SetInTx
    <2> QED BY <2>3, <2>4
  <1>5. CASE Statement(r)
    BY <1>5, StatementPrimary
  <1>6. CASE CommitTransaction(r)
    <2>1. Doing(r, "commit") /\ Proceed(r) /\ tx'[r] = {}
      BY <1>6, Facts DEF CommitTransaction
    <2>2. Left(todo'[r], todo[r], 1)
      BY <2>1, ProceedGoes
    <2> QED BY <2>1, <2>2, BoundaryPrimary
  <1>7. CASE Refuse(r) \/ NoConfig(r) \/ CreateFromOIDC(r)
    <2>1. End(r) /\ tx'[r] \subseteq tx[r]
      BY <1>7, Facts DEF Refuse, NoConfig, CreateFromOIDC
    <2> QED BY <2>1, EndGoes, OverPrimary
  <1>8. CASE Accept(r) \/ Find(r) \/ SaveConfig(r) \/ CreateConfig(r) \/ ClearEntry(r)
    <2>1. tx' = tx /\ UNCHANGED primary
      BY <1>8 DEF Accept, Find, SaveConfig, CreateConfig, ClearEntry, database
    <2>2. PICK op \in {"verify", "reread", "clear", "selectedFolderID", "preferences", "insert configuration"} :
            Doing(r, op)
      BY <1>8 DEF Accept, Find, SaveConfig, CreateConfig, ClearEntry
    <2>3. End(r) \/ \E c : Continue(r, Tail(todo[r]), c, met[r])
      BY <1>8 DEF Accept, Find, SaveConfig, CreateConfig, ClearEntry, Proceed
    <2>4. CASE End(r)
      BY <2>1, <2>4, EndGoes, OverPrimary
    <2>5. CASE \E c : Continue(r, Tail(todo[r]), c, met[r])
      BY <2>1, <2>2, <2>5, PassingPrimary
    <2> QED BY <2>3, <2>4, <2>5
  <1> QED BY <1>1, <1>2, <1>3, <1>4, <1>5, <1>6, <1>7, <1>8 DEF Acts

\* What becomes primary.
LEMMA ApplyPrimary ==
  ASSUME Typed, NEW E, Apply(E)
  PROVE  /\ ~Sets(E) => primary' \subseteq primary
         /\ OneSet(E) => \E x : primary' \subseteq primary \cup {x}
         /\ OneSet(E) /\ (\A x \in primary : UnsetPrimary(x) \in E) => \E x : primary' \subseteq {x}
  <1>1. \A y \in primary' : y \in Stylus /\ (SetPrimary(y) \in E \/ (y \in primary /\ UnsetPrimary(y) \notin E))
    BY DEF Apply
  <1>2. ~Sets(E) => primary' \subseteq primary
    BY <1>1 DEF Sets
  <1>3. CASE Sets(E)
    <2>1. PICK x \in Stylus : SetPrimary(x) \in E
      BY <1>3 DEF Sets
    <2>2. OneSet(E) => \A y \in primary' : y = x \/ (y \in primary /\ UnsetPrimary(y) \notin E)
      BY <1>1, <2>1 DEF OneSet
    <2> QED BY <1>2, <1>3, <2>2
  <1> QED BY <1>1, <1>2, <1>3 DEF Sets

LEMMA ActsChoose ==
  ASSUME Typed, Primaries, NEW r \in Req, Orderly(r), UnsetBefore(r), SetInTx(r), Acts(r)
  PROVE  \/ primary' \subseteq primary
         \/ CommitTransaction(r) /\ Apply(tx[r]) /\ OneSet(tx[r]) /\ Unset(r)
  <1>1. CASE Statement(r) /\ ~InTransaction(r) /\ Apply(Effects(r))
    <2>1. PICK op \in {"write", "unset all"} : Doing(r, op)
      BY <1>1 DEF Statement
    <2>2. todo[r][1] = Step(r) /\ todo[r][1][1] = op /\ Left(todo'[r], todo[r], 1)
      BY <1>1, <2>1, StatementEffects, ProceedGoes, DoingMoves
    <2>3. tx'[r] = tx[r] /\ ~CommitsAfter(todo[r], 1)
      BY <1>1, <2>1, StatementEffects, InTransactionAfter DEF Execute
    <2>4. ~SetsPrimary(todo[r][1])
      BY <2>1, <2>2, <2>3, OutsidePrimary
    <2>5. ~Sets(Effects(r))
      <3>1. \A x, y \in Stylus : SetPrimary(x) # UnsetPrimary(y)
        BY DEF SetPrimary, UnsetPrimary
      <3> QED BY <2>2, <2>4, <3>1 DEF Effects, Sets, SetsPrimary
    <2> QED BY <1>1, <2>5, ApplyPrimary
  <1>2. CASE CommitTransaction(r) /\ Apply(tx[r])
    <2>1. CASE Sets(tx[r])
      <3>1. todo[r] # <<>>
        BY <1>2 DEF CommitTransaction, Doing
      <3> QED BY <1>2, <2>1, <3>1 DEF SetInTx
    <2>2. CASE ~Sets(tx[r])
      BY <1>2, <2>2, ApplyPrimary
    <2> QED BY <2>1, <2>2
  <1>3. CASE CreateFromOIDC(r) /\ Apply({Insert("account")})
    <2>1. ~Sets({Insert("account")})
      BY DEF Sets, Insert, SetPrimary
    <2> QED BY <1>3, <2>1, ApplyPrimary
  <1> QED BY <1>1, <1>2, <1>3, Changing DEF database

\* Whoever changes the primary stylus of a request at work is noticed by it.
LEMMA OthersPrimary ==
  ASSUME Typed, Noticed, Primaries, NEW r \in Req, NEW q \in Req, q # r, Acts(q), Running(r)
  PROVE  primary' = primary \/ "styluses" \in met[r]
  <1>1. "styluses" \in Key /\ "styluses" \in Followed(r)
    BY DEF Key, Followed
  <1>2. Same("styluses") \/ "styluses" \in MayChange(q)
    BY <1>1, ActsSame
  <1> QED BY <1>1, <1>2 DEF Same, Noticed

LEMMA NextPrimaryInv ==
  ASSUME UserInv, PrimaryInv, [Next]_vars
  PROVE  PrimaryInv'
  <1>0. /\ Typed /\ Noticed /\ Primaries /\ \A r \in Req : Orderly(r) /\ UnsetBefore(r) /\ SetInTx(r)
        /\ IsFiniteSet(primary)
    BY DEF UserInv, PrimaryInv
  <1>1. ASSUME NEW q \in Req, Acts(q) PROVE PrimaryInv'
    <2>1. ASSUME NEW r \in Req PROVE UnsetBefore(r)' /\ SetInTx(r)'
      <3>1. CASE r = q
        BY <1>0, <1>1, <3>1, ActsPrimary
      <3>2. CASE r # q
        <4>1. todo'[r] = todo[r] /\ tx'[r] = tx[r] /\ met'[r] = met[r] /\ fresh' = fresh
          BY <1>0, <1>1, <3>2, Moves DEF Orderly
        <4>2. ~Running(r) \/ primary' = primary \/ "styluses" \in met[r]
          BY <1>0, <1>1, <3>2, OthersPrimary
        <4> QED BY <1>0, <4>1, <4>2, UndisturbedPrimary
      <3> QED BY <3>1, <3>2
    <2>2. \E x : primary' \subseteq primary \cup {x}
      BY <1>0, <1>1, ActsChoose, ApplyPrimary
    <2>3. IsFiniteSet(primary')
      BY <1>0, <2>2, FS_AddElement, FS_Subset
    <2> QED BY <2>1, <2>3 DEF PrimaryInv
  <1>2. ASSUME NEW q \in Req, Start(q) PROVE PrimaryInv'
    <2>1. /\ UNCHANGED <<todo, tx, primary>> /\ fresh' = fresh \ {q} /\ q \in fresh
          /\ met' = [r \in Req |-> IF r = q THEN UnsettledByOthers(q) \cap Followed(q)
                       ELSE IF Running(r) THEN met[r] \cup (Unsettled(q)' \cap Followed(r)) ELSE {}]
      BY <1>2 DEF Start, locals, database
    <2>2. ASSUME NEW r \in Req PROVE UnsetBefore(r)' /\ SetInTx(r)'
      <3>1. ~Running(q)
        BY <2>1 DEF Running
      <3>2. ~Running(r) \/ met[r] \subseteq met'[r]
        BY <2>1, <3>1
      <3>3. todo'[r] = todo[r] /\ tx'[r] = tx[r] /\ primary' = primary
        BY <2>1
      <3>4. Orderly(r) /\ UnsetBefore(r) /\ SetInTx(r)
        BY <1>0
      <3>5. CASE ~Running(r)
        BY <3>3, <3>4, <3>5, RestsPrimary
      <3>6. CASE met[r] \subseteq met'[r]
        BY <3>3, <3>4, <3>6, UndisturbedPrimary
      <3> QED BY <3>2, <3>5, <3>6
    <2> QED BY <1>0, <2>1, <2>2 DEF PrimaryInv
  <1>3. CASE Crash
    <2>1. /\ UNCHANGED primary /\ \A r \in Req : tx'[r] = {} /\ todo'[r] = IF r \in fresh THEN todo[r] ELSE <<>>
      BY <1>3 DEF Crash, database
    <2>2. ASSUME NEW r \in Req PROVE UnsetBefore(r)' /\ SetInTx(r)'
      <3>1. r \in fresh => UnsetsAllFirst(todo[r])
        BY <1>0 DEF Orderly
      <3> QED BY <2>1, <3>1 DEF UnsetBefore, SetInTx, Sets, UnsetsAllFirst
    <2> QED BY <1>0, <2>1, <2>2 DEF PrimaryInv
  <1>4. CASE (\E k \in Key : Expire(k)) \/ UNCHANGED vars
    <2>1. UNCHANGED <<todo, tx, primary, met, fresh>>
      BY <1>4 DEF Expire, vars, locals, database
    <2>2. ASSUME NEW r \in Req PROVE UnsetBefore(r)' /\ SetInTx(r)'
      BY <1>0, <2>1, UndisturbedPrimary
    <2> QED BY <1>0, <2>1, <2>2 DEF PrimaryInv
  <1> QED BY <1>1, <1>2, <1>3, <1>4, NextSteps

LEMMA InitPrimaryInv ==
  ASSUME HandlersOrdered, Init
  PROVE  PrimaryInv
  <1>1. primary = {} /\ \A r \in Req : tx[r] = {}
    BY DEF Init
  <1>2. ASSUME NEW r \in Req PROVE UnsetsAllFirst(todo[r])
    BY DEF Init, HandlersOrdered, Ordered
  <1> QED BY <1>1, <1>2, FS_EmptySet DEF PrimaryInv, UnsetBefore, SetInTx, UnsetsAllFirst, Sets

LEMMA UserInvOnePrimary ==
  UserInv /\ PrimaryInv /\ [Next]_vars =>
    [Cardinality(primary') > 1 /\ Cardinality(primary) <= 1 =>
       \E r \in Req : Doing(r, "commit") /\ todo'[r] # todo[r] /\ "styluses" \in met[r]]_vars
  <1> SUFFICES ASSUME UserInv, PrimaryInv, [Next]_vars, Cardinality(primary') > 1, Cardinality(primary) <= 1
               PROVE  \E r \in Req : Doing(r, "commit") /\ todo'[r] # todo[r] /\ "styluses" \in met[r]
    OBVIOUS
  <1>0. /\ Typed /\ Noticed /\ Primaries /\ \A r \in Req : Orderly(r) /\ UnsetBefore(r) /\ SetInTx(r)
        /\ IsFiniteSet(primary)
    BY DEF UserInv, PrimaryInv
  <1>1. ~(primary' \subseteq primary)
    <2>1. ASSUME primary' \subseteq primary PROVE FALSE
      <3>1. Cardinality(primary') <= Cardinality(primary)
        BY <1>0, <2>1, FS_Subset
      <3>2. Cardinality(primary) \in Nat /\ Cardinality(primary') \in Nat
        BY <1>0, <2>1, FS_Subset, FS_CardinalityType
      <3> QED BY <3>1, <3>2
    <2> QED BY <2>1
  <1>2. PICK r \in Req : Acts(r)
    <2>1. (\E r \in Req : Start(r)) \/ (\E k \in Key : Expire(k)) \/ Crash \/ UNCHANGED vars => UNCHANGED primary
      BY DEF Start, Expire, Crash, vars, database
    <2> QED BY <1>1, <2>1, NextSteps
  <1>3. CommitTransaction(r) /\ Apply(tx[r]) /\ OneSet(tx[r]) /\ Unset(r)
    BY <1>0, <1>1, <1>2, ActsChoose
  <1>4. "styluses" \in met[r]
    <2>1. ASSUME \A x \in primary : UnsetPrimary(x) \in tx[r] PROVE FALSE
      <3>1. PICK x : primary' \subseteq {x}
        BY <1>0, <1>3, <2>1, ApplyPrimary
      <3>2. IsFiniteSet({x}) /\ Cardinality({x}) = 1
        BY FS_Singleton
      <3>3. Cardinality(primary') <= 1 /\ Cardinality(primary') \in Nat
        BY <3>1, <3>2, FS_Subset, FS_CardinalityType
      <3> QED BY <3>3
    <2> QED BY <1>3, <2>1 DEF Unset
  <1>5. Doing(r, "commit") /\ todo'[r] # todo[r]
    <2>1. Doing(r, "commit") /\ Proceed(r)
      BY <1>3 DEF CommitTransaction
    <2>2. Left(todo'[r], todo[r], 1) /\ todo[r] \in Seq(Steps)
      BY <1>0, <2>1, ProceedGoes, DoingMoves
    <2>3. Len(todo'[r]) = Len(todo[r]) - 1 /\ Len(todo[r]) \in Nat
      BY <2>2 DEF Left
    <2>4. Len(todo'[r]) # Len(todo[r])
      BY <2>3
    <2> QED BY <2>1, <2>4
  <1> QED BY <1>4, <1>5

LEMMA OrderedOnePrimary == HandlersOrdered => (Spec => OnePrimary)
  <1> SUFFICES ASSUME HandlersOrdered PROVE Spec => OnePrimary
    OBVIOUS
  <1>1. Spec => []UserInv
    BY SpecUserInv
  <1>2. Init => PrimaryInv
    BY InitPrimaryInv
  <1>3. UserInv /\ PrimaryInv /\ [Next]_vars => PrimaryInv'
    BY NextPrimaryInv
  <1> QED BY <1>1, <1>2, <1>3, UserInvOnePrimary, PTL DEF Spec, OnePrimary

-----------------------------------------------------------------------------
(* The handlers of the code keep that order. *)

LEMMA Ops ==
  ASSUME NEW x
  PROVE  /\ Get(x)[1] = "get" /\ Get(x)[2] = x /\ Clear(x)[1] = "clear" /\ Clear(x)[2] = x
         /\ Write(x)[1] = "write" /\ Write(x)[2] = x /\ Reread(x)[1] = "reread" /\ Reread(x)[2] = x
         /\ SaveFolder(x)[1] = "selectedFolderID" /\ SavePreferences(x)[1] = "preferences"
  BY DEF Get, Clear, Write, Reread, SaveFolder, SavePreferences

LEMMA Words ==
  /\ UnsetAll[1] = "unset all" /\ InsertConfig[1] = "insert configuration" /\ InsertUser[1] = "insert user"
  /\ Verify[1] = "verify" /\ Commit[1] = "commit"
  BY DEF UnsetAll, InsertConfig, InsertUser, Verify, Commit

LEMMA StepsTyped ==
  /\ \A k \in Key : Get(k) \in Steps /\ Clear(k) \in Steps
  /\ Get("folder") \in Steps /\ Verify \in Steps /\ Commit \in Steps /\ UnsetAll \in Steps
  /\ InsertConfig \in Steps
  /\ \A E \in SUBSET Effect : Write(E) \in Steps
  /\ \A x \in Row : Reread(x) \in Steps
  /\ \A f \in Folder : SaveFolder(f) \in Steps
  /\ \A p \in 0..1 : SavePreferences(p) \in Steps
  BY DEF Steps, Get, Clear, Verify, Commit, UnsetAll, InsertConfig, Write, Reread, SaveFolder, SavePreferences

LEMMA Keys ==
  /\ {"user", "folders", "releases", "styluses", "plays"} \subseteq Key
  /\ {"user", "folders", "folder", "releases", "styluses", "plays"} \cap Folder = {}
  BY RowsAssumption DEF Key

LEMMA EffectTyped ==
  ASSUME NEW x \in Row
  PROVE  {Insert(x), Update(x), Upsert(x), Delete(x), SetPrimary(x)} \subseteq Effect
  BY DEF Insert, Update, Upsert, Delete, SetPrimary, Effect

\* The entries of rows.
LEMMA EntriesOf ==
  /\ \A x \in Play : Entries({x}) \subseteq {"plays", "releases"}
  /\ \A x \in Cleaning : Entries({x}) \subseteq {"releases"}
  /\ \A X \in SUBSET Stylus : Entries(X) \subseteq {"styluses"}
  /\ \A X \in SUBSET Folder : Entries(X) \subseteq {"folders"} \cup X
  /\ Entries({"collection"}) \subseteq {"releases"}
  /\ Entries({"account"}) \subseteq {"user"}
  <1>1. ASSUME NEW x \in Play, NEW k \in Entries({x}) PROVE k \in {"plays", "releases"}
    BY <1>1, RowsAssumption DEF Entries, Watched, Key
  <1>2. ASSUME NEW x \in Cleaning, NEW k \in Entries({x}) PROVE k \in {"releases"}
    BY <1>2, RowsAssumption DEF Entries, Watched, Key
  <1>3. ASSUME NEW X \in SUBSET Stylus, NEW k \in Entries(X) PROVE k \in {"styluses"}
    BY <1>3, RowsAssumption DEF Entries, Watched, Key
  <1>4. ASSUME NEW X \in SUBSET Folder, NEW k \in Entries(X) PROVE k \in {"folders"} \cup X
    BY <1>4, RowsAssumption DEF Entries, Watched, Key
  <1>5. ASSUME NEW k \in Entries({"collection"}) PROVE k \in {"releases"}
    BY <1>5, RowsAssumption DEF Entries, Watched, Key
  <1>6. ASSUME NEW k \in Entries({"account"}) PROVE k \in {"user"}
    BY <1>6, RowsAssumption DEF Entries, Watched, Key
  <1> QED BY <1>1, <1>2, <1>3, <1>4, <1>5, <1>6

LEMMA DueOfWrite ==
  ASSUME NEW E
  PROVE  Due(Write(E)) \subseteq Entries(Subjects(E)) \ {f \in Folder : Delete(f) \in E}
  <1>1. Write(E)[1] = "write" /\ Write(E)[2] = E
    BY Ops
  <1>2. Target(Write(E)) = Subjects(E)
    BY <1>1 DEF Target, Subjects
  <1>3. Dropped(Write(E)) = {f \in Folder : Delete(f) \in E}
    BY <1>1 DEF Dropped
  <1> QED BY <1>2, <1>3 DEF Due

LEMMA DueOfUnset == Due(UnsetAll) \subseteq {"styluses"}
  <1>1. Target(UnsetAll) = Stylus
    BY Words DEF Target
  <1> QED BY <1>1, EntriesOf DEF Due

\* A statement about one row.
LEMMA DueOfRow ==
  ASSUME NEW x, NEW e \in {Insert(x), Update(x), Upsert(x), Delete(x)}
  PROVE  Due(Write({e})) \subseteq Entries({x}) /\ ~SetsPrimary(Write({e}))
  <1>1. Subjects({e}) = {x}
    BY EffectRows DEF Subjects
  <1>2. \A y \in Stylus : SetPrimary(y) # e
    BY DEF SetPrimary, Insert, Update, Upsert, Delete
  <1>3. Write({e})[2] = {e}
    BY Ops
  <1> QED BY <1>1, <1>2, <1>3, DueOfWrite DEF SetsPrimary

LEMMA DomainOf ==
  ASSUME NEW s \in Seq(Steps), NEW w \in Nat
  PROVE  /\ DOMAIN s = 1..Len(s) /\ Len(s) \in Nat /\ DOMAIN s \subseteq Nat
         /\ \A i \in DOMAIN s : i < w \/ i = w \/ i > w
         /\ \A m \in DOMAIN s : \A j \in w + 1 .. m - 1 : j \in DOMAIN s /\ j > w
  OBVIOUS

\* Handlers without a transaction: questions, one change, and clearing.
LEMMA OrderedPlain ==
  ASSUME NEW s \in Seq(Steps), NEW w \in Nat \ {0},
         \A i \in DOMAIN s : i < w => s[i][1] \in {"get", "verify"},
         \A i \in DOMAIN s : SkipsReads(s, i),
         \A i \in DOMAIN s : i > w =>
            \/ s[i][1] = "clear"
            \/ /\ i = w + 1 /\ s[i][1] = "reread" /\ s[w][1] = "write"
               /\ Update(s[i][2]) \in s[w][2] /\ Delete(s[i][2]) \notin s[w][2]
               /\ \A k \in Key : (\E m \in DOMAIN s : m > w /\ s[m] = Clear(k)) => s[i][2] \in Watched(k),
         w \in DOMAIN s =>
           /\ s[w][1] \notin {"commit", "insert user", "reread"}
           /\ Writes(s[w]) => \A k \in Due(s[w]) : \E m \in DOMAIN s : m > w /\ s[m] = Clear(k)
           /\ Saves(s[w]) => \E m \in DOMAIN s : m > w /\ s[m] = Clear("user")
           /\ s[w][1] = "write" => \A e \in s[w][2] : e[2] = "account" => e = Update("account")
           /\ ~SetsPrimary(s[w])
  PROVE  Ordered(s)
  <1>0. DOMAIN s \subseteq Nat /\ \A i \in DOMAIN s : i < w \/ i = w \/ i > w
    BY DomainOf
  <1>1. \A i \in DOMAIN s : i # w => s[i][1] \in {"get", "verify", "clear", "reread"}
    BY <1>0
  <1>2. \A i \in DOMAIN s : s[i][1] # "commit" /\ s[i] # Commit
    BY <1>1, Words
  <1>3. \A i \in Nat : ~CommitsAfter(s, i)
    BY <1>2 DEF CommitsAfter
  <1>4. ASSUME NEW k, NEW m \in DOMAIN s, m > w, s[m] = Clear(k)
        PROVE  ClearsNext(s, w, k)
    <2>1. ASSUME NEW j \in w + 1 .. m - 1 PROVE s[j][1] \in {"clear", "reread"}
      <3>1. j \in DOMAIN s /\ j > w
        BY <1>4, DomainOf
      <3> QED BY <3>1
    <2> QED BY <1>4, <2>1 DEF ClearsNext
  <1>5. ASSUME NEW i \in DOMAIN s
        PROVE  /\ WritesCleared(s, i) /\ SavesCleared(s, i) /\ NothingRead(s, i)
               /\ AccountStays(s, i) /\ SetsOnce(s, i) /\ ~SetsPrimary(s[i])
    <2>1. CASE i = w
      BY <1>0, <1>3, <1>4, <2>1 DEF WritesCleared, SavesCleared, NothingRead, AccountStays, SetsOnce
    <2>2. CASE i # w
      <3>1. ~Writes(s[i]) /\ ~Saves(s[i]) /\ s[i][1] # "write" /\ s[i][1] # "insert user"
        BY <1>1, <2>2 DEF Writes, Saves
      <3> QED BY <3>1 DEF WritesCleared, SavesCleared, NothingRead, AccountStays, SetsOnce, SetsPrimary
    <2> QED BY <2>1, <2>2
  <1>6. ASSUME NEW i \in DOMAIN s PROVE RereadsWritten(s, i)
    <2>1. CASE s[i][1] = "reread"
      <3>1. /\ i = w + 1 /\ s[w][1] = "write" /\ Update(s[i][2]) \in s[w][2] /\ Delete(s[i][2]) \notin s[w][2]
            /\ \A k \in Key : (\E m \in DOMAIN s : m > w /\ s[m] = Clear(k)) => s[i][2] \in Watched(k)
        BY <1>0, <2>1
      <3>2. i - 1 = w
        BY <3>1
      <3>3. ASSUME NEW k \in Key, ClearsNext(s, i, k) PROVE s[i][2] \in Watched(k)
        <4>1. PICK m \in DOMAIN s : m > i /\ s[m] = Clear(k)
          BY <3>3 DEF ClearsNext
        <4>2. m > w
          BY <1>0, <3>1, <4>1
        <4> QED BY <3>1, <4>1, <4>2
      <3> QED BY <3>1, <3>2, <3>3 DEF RereadsWritten
    <2>2. CASE s[i][1] # "reread"
      BY <2>2 DEF RereadsWritten
    <2> QED BY <2>1, <2>2
  <1> QED BY <1>5, <1>6 DEF Ordered, Clearing, Choosing, UnsetsAllFirst

\* Handlers that change everything in transactions.
LEMMA OrderedTransactions ==
  ASSUME NEW s \in Seq(Steps),
         \A i \in DOMAIN s : s[i][1] \in {"get", "verify", "write", "unset all", "clear", "commit"},
         \A i \in DOMAIN s : SkipsReads(s, i),
         \A i \in DOMAIN s : Writes(s[i]) =>
            /\ CommitsAfter(s, i) /\ \A k \in Due(s[i]) : ClearsFirst(s, i, k)
            /\ \A j \in DOMAIN s : j > i => s[j][1] # "get",
         \A i \in DOMAIN s : s[i][1] = "write" => \A e \in s[i][2] : e[2] # "account",
         \A i \in DOMAIN s : SetsPrimary(s[i]) =>
            OneSet(s[i][2]) /\ UnsetsFirst(s, i) /\ \A j \in DOMAIN s : j > i => ~SetsPrimary(s[j])
  PROVE  Ordered(s)
  <1>1. ASSUME NEW i \in DOMAIN s
        PROVE  /\ WritesCleared(s, i) /\ SavesCleared(s, i) /\ NothingRead(s, i)
               /\ AccountStays(s, i) /\ RereadsWritten(s, i)
    <2>1. WritesCleared(s, i) /\ NothingRead(s, i)
      BY DEF WritesCleared, NothingRead
    <2>2. ~Saves(s[i]) /\ s[i][1] # "insert user" /\ s[i][1] # "reread"
      BY DEF Saves
    <2> QED BY <2>1, <2>2 DEF SavesCleared, AccountStays, RereadsWritten
  <1>2. ASSUME NEW i \in DOMAIN s PROVE SetsOnce(s, i)
    <2>1. SetsPrimary(s[i]) => Writes(s[i])
      BY DEF SetsPrimary, Writes
    <2> QED BY <2>1 DEF SetsOnce
  <1> QED BY <1>1, <1>2 DEF Ordered, Clearing, Choosing, UnsetsAllFirst

\* Only the user is asked for.
LEMMA AsksForUser ==
  ASSUME NEW s, NEW i \in DOMAIN s, s[i][1] # "get" \/ s[i] = Get("user")
  PROVE  SkipsReads(s, i)
  <1>1. Get("user")[2] = "user" /\ "user" \notin Folder
    BY Ops, Keys
  <1> QED BY <1>1 DEF SkipsReads

\* The entries of a row are cleared after its change.
Cleared(s, w) == {k \in Key : \E m \in DOMAIN s : m > w /\ s[m] = Clear(k)}

LEMMA ChangesRow ==
  ASSUME NEW s \in Seq(Steps), NEW w \in DOMAIN s, NEW x, NEW e \in {Insert(x), Update(x), Upsert(x), Delete(x)},
         s[w] = Write({e}), Entries({x}) \subseteq Cleared(s, w), x # "account" \/ e = Update("account"),
         \A i \in DOMAIN s : i < w => s[i] \in {Get("user"), Verify},
         \A i \in DOMAIN s : i > w => s[i][1] = "clear" \/ (i = w + 1 /\ s[i] = Reread(x) /\ e = Update(x)),
         Cleared(s, w) \subseteq Entries({x})
  PROVE  Ordered(s)
  <1>1. w \in Nat \ {0} /\ \A i \in DOMAIN s : i < w \/ i = w \/ i > w
    BY DomainOf
  <1>2. s[w][1] = "write" /\ s[w][2] = {e}
    BY Ops
  <1>3. \A i \in DOMAIN s : i < w => s[i][1] \in {"get", "verify"}
    <2>1. Get("user")[1] = "get" /\ Verify[1] = "verify"
      BY Ops, Words
    <2> QED BY <2>1
  <1>4. ASSUME NEW i \in DOMAIN s PROVE s[i][1] # "get" \/ s[i] = Get("user")
    <2>1. CASE i < w
      BY <2>1, Words
    <2>2. CASE i = w
      BY <1>2, <2>2
    <2>3. CASE i > w
      BY <2>3, Ops
    <2> QED BY <1>1, <2>1, <2>2, <2>3
  <1>5. \A i \in DOMAIN s : SkipsReads(s, i)
    BY <1>4, AsksForUser
  <1>6. Due(s[w]) \subseteq Entries({x}) /\ ~SetsPrimary(s[w])
    BY DueOfRow
  <1>7. Writes(s[w]) => \A k \in Due(s[w]) : \E m \in DOMAIN s : m > w /\ s[m] = Clear(k)
    BY <1>6 DEF Cleared
  <1>8. s[w][1] = "write" => \A d \in s[w][2] : d[2] = "account" => d = Update("account")
    <2>1. e[2] = x
      BY EffectRows
    <2> QED BY <1>2, <2>1
  <1>9. ~Saves(s[w])
    BY <1>2 DEF Saves
  <1>10. ASSUME NEW i \in DOMAIN s, i > w
         PROVE  \/ s[i][1] = "clear"
                \/ /\ i = w + 1 /\ s[i][1] = "reread" /\ s[w][1] = "write"
                   /\ Update(s[i][2]) \in s[w][2] /\ Delete(s[i][2]) \notin s[w][2]
                   /\ \A k \in Key : (\E m \in DOMAIN s : m > w /\ s[m] = Clear(k)) => s[i][2] \in Watched(k)
    <2>1. CASE s[i][1] = "clear"
      BY <2>1
    <2>2. CASE i = w + 1 /\ s[i] = Reread(x) /\ e = Update(x)
      <3>1. s[i][1] = "reread" /\ s[i][2] = x
        BY <2>2, Ops
      <3>2. Update(x) \in s[w][2] /\ Delete(x) \notin s[w][2]
        BY <1>2, <2>2 DEF Update, Delete
      <3>3. \A k \in Key : (\E m \in DOMAIN s : m > w /\ s[m] = Clear(k)) => x \in Watched(k)
        BY DEF Cleared, Entries
      <3> QED BY <1>2, <2>2, <3>1, <3>2, <3>3
    <2> QED BY <1>10, <2>1, <2>2
  <1> QED BY <1>1, <1>2, <1>3, <1>5, <1>7, <1>8, <1>9, <1>6, <1>10, OrderedPlain

LEMMA EntriesOfRow ==
  /\ \A x \in Play : Entries({x}) = {"plays", "releases"}
  /\ \A x \in Cleaning : Entries({x}) = {"releases"}
  /\ \A x \in Stylus : Entries({x}) = {"styluses"}
  /\ Entries({"account"}) = {"user"}
  <1>1. ASSUME NEW x \in Play PROVE Entries({x}) = {"plays", "releases"}
    <2>1. "plays" \in Entries({x}) /\ "releases" \in Entries({x})
      BY <1>1 DEF Entries, Watched, Key
    <2>2. Entries({x}) \subseteq {"plays", "releases"}
      BY EntriesOf
    <2> QED BY <2>1, <2>2
  <1>2. ASSUME NEW x \in Cleaning PROVE Entries({x}) = {"releases"}
    <2>1. "releases" \in Entries({x})
      BY <1>2 DEF Entries, Watched, Key
    <2>2. Entries({x}) \subseteq {"releases"}
      BY EntriesOf
    <2> QED BY <2>1, <2>2
  <1>3. ASSUME NEW x \in Stylus PROVE Entries({x}) = {"styluses"}
    <2>1. "styluses" \in Entries({x})
      BY <1>3 DEF Entries, Watched, Key
    <2>2. {x} \in SUBSET Stylus
      OBVIOUS
    <2>3. Entries({x}) \subseteq {"styluses"}
      BY <2>2, EntriesOf
    <2> QED BY <2>1, <2>3
  <1> QED BY <1>1, <1>2, <1>3, AccountEntry

\* What is cleared at the end.
LEMMA ClearedLast ==
  ASSUME NEW s \in Seq(Steps), NEW w \in DOMAIN s, NEW k \in Key, Len(s) = w + 1, s[w + 1] = Clear(k)
  PROVE  Cleared(s, w) = {k}
  <1>1. w + 1 \in DOMAIN s /\ w + 1 > w /\ \A m \in DOMAIN s : m > w => m = w + 1
    BY DomainOf
  <1>2. \A j : Clear(j) = Clear(k) => j = k
    BY Ops
  <1> QED BY <1>1, <1>2 DEF Cleared

LEMMA ClearedTwo ==
  ASSUME NEW s \in Seq(Steps), NEW w \in DOMAIN s, NEW k \in Key, NEW l \in Key, NEW v \in {w, w + 1}, Len(s) = v + 2,
         s[v + 1] = Clear(k), s[v + 2] = Clear(l), v = w + 1 => s[v][1] # "clear"
  PROVE  Cleared(s, w) = {k, l}
  <1>1. /\ v + 1 \in DOMAIN s /\ v + 1 > w /\ v + 2 \in DOMAIN s /\ v + 2 > w
        /\ \A m \in DOMAIN s : m > w => m = v + 1 \/ m = v + 2 \/ (m = v /\ v = w + 1)
    BY DomainOf
  <1>2. \A i, j : Clear(i) = Clear(j) => i = j
    BY Ops
  <1>3. \A j : Clear(j)[1] = "clear"
    BY Ops
  <1> QED BY <1>1, <1>2, <1>3 DEF Cleared

LEMMA PlayOrdered ==
  ASSUME NEW p \in Play, NEW e \in {Insert(p), Delete(p)}, NEW s \in Seq(Steps), Len(s) = 5,
         s[1] = Get("user"), s[2] = Verify, s[3] = Write({e}), s[4] = Clear("plays"), s[5] = Clear("releases")
  PROVE  Ordered(s)
  <1>1. 3 \in DOMAIN s /\ \A i \in DOMAIN s : (i < 3 => i \in {1, 2}) /\ (i > 3 => i \in {4, 5})
    BY DomainOf
  <1>2. Cleared(s, 3) = {"plays", "releases"}
    <2>1. Len(s) = 3 + 2 /\ s[3 + 1] = Clear("plays") /\ s[3 + 2] = Clear("releases") /\ 3 # 3 + 1
      OBVIOUS
    <2> QED BY <1>1, <2>1, Keys, ClearedTwo
  <1>3. Entries({p}) = Cleared(s, 3)
    BY <1>2, EntriesOfRow
  <1>4. p # "account"
    BY RowsAssumption
  <1>5. \A i \in DOMAIN s : i > 3 => s[i][1] = "clear"
    BY <1>1, Ops
  <1>6. \A i \in DOMAIN s : i < 3 => s[i] \in {Get("user"), Verify}
    BY <1>1
  <1> QED BY <1>1, <1>3, <1>4, <1>5, <1>6, ChangesRow, ZenonT(40)

LEMMA UpdatePlayOrdered ==
  ASSUME NEW p \in Play, NEW s \in Seq(Steps), Len(s) = 6, s[1] = Get("user"), s[2] = Verify, s[3] = Write({Update(p)}),
         s[4] = Reread(p), s[5] = Clear("plays"), s[6] = Clear("releases")
  PROVE  Ordered(s)
  <1>1. 3 \in DOMAIN s /\ \A i \in DOMAIN s : (i < 3 => i \in {1, 2}) /\ (i > 3 => i \in {4, 5, 6})
    BY DomainOf
  <1>2. Cleared(s, 3) = {"plays", "releases"}
    <2>1. Len(s) = 4 + 2 /\ s[4 + 1] = Clear("plays") /\ s[4 + 2] = Clear("releases") /\ 4 \in {3, 3 + 1}
      OBVIOUS
    <2>2. s[4][1] # "clear"
      BY Ops
    <2> QED BY <1>1, <2>1, <2>2, Keys, ClearedTwo
  <1>3. Entries({p}) = Cleared(s, 3)
    BY <1>2, EntriesOfRow
  <1>4. p # "account"
    BY RowsAssumption
  <1>5. \A i \in DOMAIN s : i > 3 => s[i][1] = "clear" \/ (i = 3 + 1 /\ s[i] = Reread(p))
    BY <1>1, Ops
  <1>6. \A i \in DOMAIN s : i < 3 => s[i] \in {Get("user"), Verify}
    BY <1>1
  <1> QED BY <1>1, <1>3, <1>4, <1>5, <1>6, ChangesRow

LEMMA CleaningOrdered ==
  ASSUME NEW c \in Cleaning, NEW e \in {Insert(c), Delete(c)}, NEW s \in Seq(Steps), Len(s) = 4,
         s[1] = Get("user"), s[2] = Verify, s[3] = Write({e}), s[4] = Clear("releases")
  PROVE  Ordered(s)
  <1>1. 3 \in DOMAIN s /\ \A i \in DOMAIN s : (i < 3 => i \in {1, 2}) /\ (i > 3 => i = 4)
    BY DomainOf
  <1>2. Cleared(s, 3) = {"releases"}
    <2>1. Len(s) = 3 + 1 /\ s[3 + 1] = Clear("releases")
      OBVIOUS
    <2> QED BY <1>1, <2>1, Keys, ClearedLast
  <1>3. Entries({c}) = Cleared(s, 3)
    BY <1>2, EntriesOfRow
  <1>4. c # "account"
    BY RowsAssumption
  <1>5. \A i \in DOMAIN s : i > 3 => s[i][1] = "clear"
    BY <1>1, Ops
  <1>6. \A i \in DOMAIN s : i < 3 => s[i] \in {Get("user"), Verify}
    BY <1>1
  <1> DEFINE w == 3
  <1>7. /\ w \in DOMAIN s /\ s[w] = Write({e}) /\ e \in {Insert(c), Update(c), Upsert(c), Delete(c)}
        /\ Entries({c}) \subseteq Cleared(s, w) /\ Cleared(s, w) \subseteq Entries({c})
        /\ \A i \in DOMAIN s : i < w => s[i] \in {Get("user"), Verify}
        /\ \A i \in DOMAIN s : i > w => s[i][1] = "clear"
    BY <1>1, <1>3, <1>5, <1>6
  <1> HIDE DEF w
  <1> QED BY <1>4, <1>7, ChangesRow

LEMMA UpdateCleaningOrdered ==
  ASSUME NEW c \in Cleaning, NEW s \in Seq(Steps), Len(s) = 5, s[1] = Get("user"), s[2] = Verify,
         s[3] = Write({Update(c)}), s[4] = Reread(c), s[5] = Clear("releases")
  PROVE  Ordered(s)
  <1>1. 3 \in DOMAIN s /\ \A i \in DOMAIN s : (i < 3 => i \in {1, 2}) /\ (i > 3 => i \in {4, 5})
    BY DomainOf
  <1>2. Cleared(s, 3) = {"releases"}
    <2>1. 5 \in DOMAIN s /\ \A m \in DOMAIN s : m > 3 => m = 5 \/ (m = 4 /\ s[m][1] = "reread")
      BY <1>1, DomainOf, Ops
    <2>2. \A i, j : Clear(i)[1] = "clear" /\ (Clear(i) = Clear(j) => i = j)
      BY Ops
    <2> QED BY <2>1, <2>2, Keys DEF Cleared
  <1>3. Entries({c}) = Cleared(s, 3)
    BY <1>2, EntriesOfRow
  <1>4. c # "account"
    BY RowsAssumption
  <1>5. \A i \in DOMAIN s : i > 3 => s[i][1] = "clear" \/ (i = 3 + 1 /\ s[i] = Reread(c))
    BY <1>1, Ops
  <1>6. \A i \in DOMAIN s : i < 3 => s[i] \in {Get("user"), Verify}
    BY <1>1
  <1> QED BY <1>1, <1>3, <1>4, <1>5, <1>6, ChangesRow

\* A stylus is deleted; the row of the user is updated on logging in.
LEMMA DeleteStylusOrdered ==
  ASSUME NEW x \in Stylus, NEW s \in Seq(Steps), Len(s) = 3,
         s[1] = Get("user"), s[2] = Write({Delete(x)}), s[3] = Clear("styluses")
  PROVE  Ordered(s)
  <1> DEFINE w == 2
  <1>1. 2 \in DOMAIN s /\ \A i \in DOMAIN s : (i < 2 => i = 1) /\ (i > 2 => i = 3)
    BY DomainOf
  <1>2. Cleared(s, 2) = {"styluses"}
    <2>1. Len(s) = 2 + 1 /\ s[2 + 1] = Clear("styluses")
      OBVIOUS
    <2> QED BY <1>1, <2>1, Keys, ClearedLast
  <1>3. Entries({x}) = Cleared(s, 2) /\ x # "account"
    BY <1>2, EntriesOfRow, RowsAssumption
  <1>4. \A i \in DOMAIN s : i > 2 => s[i][1] = "clear"
    BY <1>1, Ops
  <1>5. /\ w \in DOMAIN s /\ s[w] = Write({Delete(x)}) /\ Delete(x) \in {Insert(x), Update(x), Upsert(x), Delete(x)}
        /\ Entries({x}) \subseteq Cleared(s, w) /\ Cleared(s, w) \subseteq Entries({x})
        /\ \A i \in DOMAIN s : i < w => s[i] \in {Get("user"), Verify}
        /\ \A i \in DOMAIN s : i > w => s[i][1] = "clear"
    BY <1>1, <1>3, <1>4
  <1> HIDE DEF w
  <1> QED BY <1>3, <1>5, ChangesRow

LEMMA LogInOrdered ==
  ASSUME NEW s \in Seq(Steps), Len(s) = 4,
         s[1] = Verify, s[2] = Get("user"), s[3] = Write({Update("account")}), s[4] = Clear("user")
  PROVE  Ordered(s)
  <1> DEFINE w == 3
             x == "account"
  <1>1. 3 \in DOMAIN s /\ \A i \in DOMAIN s : (i < 3 => i \in {1, 2}) /\ (i > 3 => i = 4)
    BY DomainOf
  <1>2. Cleared(s, 3) = {"user"}
    <2>1. Len(s) = 3 + 1 /\ s[3 + 1] = Clear("user")
      OBVIOUS
    <2> QED BY <1>1, <2>1, Keys, ClearedLast
  <1>3. Entries({"account"}) = Cleared(s, 3)
    BY <1>2, EntriesOfRow
  <1>4. \A i \in DOMAIN s : i > 3 => s[i][1] = "clear"
    BY <1>1, Ops
  <1>5. /\ w \in DOMAIN s /\ s[w] = Write({Update(x)}) /\ Update(x) \in {Insert(x), Update(x), Upsert(x), Delete(x)}
        /\ Entries({x}) \subseteq Cleared(s, w) /\ Cleared(s, w) \subseteq Entries({x})
        /\ \A i \in DOMAIN s : i < w => s[i] \in {Get("user"), Verify}
        /\ \A i \in DOMAIN s : i > w => s[i][1] = "clear"
    BY <1>1, <1>3, <1>4
  <1> HIDE DEF w, x
  <1> QED BY <1>5, ChangesRow

\* The configuration is saved.
LEMMA SavesOrdered ==
  ASSUME NEW s \in Seq(Steps), NEW w \in DOMAIN s, Saves(s[w]), Len(s) > w, s[w + 1] = Clear("user"),
         \A i \in DOMAIN s : i < w => s[i] \in {Get("user"), Verify},
         \A i \in DOMAIN s : i > w => s[i][1] = "clear"
  PROVE  Ordered(s)
  <1>1. /\ w \in Nat \ {0} /\ w + 1 \in DOMAIN s /\ w + 1 > w
        /\ \A i \in DOMAIN s : i < w \/ i = w \/ i > w
    BY DomainOf
  <1>2. s[w][1] \notin {"commit", "insert user", "reread", "write", "unset all", "get"}
    BY DEF Saves
  <1>3. ~Writes(s[w]) /\ ~SetsPrimary(s[w])
    BY <1>2 DEF Writes, SetsPrimary
  <1>4. Get("user")[1] = "get" /\ Verify[1] = "verify"
    BY Ops, Words
  <1>5. ASSUME NEW i \in DOMAIN s PROVE s[i][1] # "get" \/ s[i] = Get("user")
    BY <1>1, <1>2, <1>4
  <1>6. \A i \in DOMAIN s : SkipsReads(s, i)
    BY <1>5, AsksForUser
  <1>7. \A i \in DOMAIN s : i < w => s[i][1] \in {"get", "verify"}
    BY <1>4
  <1> QED BY <1>1, <1>2, <1>3, <1>6, <1>7, OrderedPlain

LEMMA UpdateFolderOrdered ==
  ASSUME NEW f, NEW s \in Seq(Steps), Len(s) = 4,
         s[1] = Get("user"), s[2] = SaveFolder(f), s[3] = Clear("user"), s[4] = Clear("folders")
  PROVE  Ordered(s)
  <1> DEFINE w == 2
  <1>1. 2 \in DOMAIN s /\ \A i \in DOMAIN s : (i < 2 => i = 1) /\ (i > 2 => i \in {3, 4})
    BY DomainOf
  <1>2. Saves(s[2])
    <2>1. SaveFolder(f)[1] = "selectedFolderID"
      BY Ops
    <2> QED BY <2>1 DEF Saves
  <1>3. \A i \in DOMAIN s : i > 2 => s[i][1] = "clear"
    BY <1>1, Ops
  <1>4. /\ w \in DOMAIN s /\ Saves(s[w]) /\ Len(s) > w /\ s[w + 1] = Clear("user")
        /\ \A i \in DOMAIN s : i < w => s[i] \in {Get("user"), Verify}
        /\ \A i \in DOMAIN s : i > w => s[i][1] = "clear"
    BY <1>1, <1>2, <1>3
  <1> HIDE DEF w
  <1> QED BY <1>4, SavesOrdered

LEMMA VerifiedSaveOrdered ==
  ASSUME NEW save, Saves(save), NEW s \in Seq(Steps), Len(s) = 4,
         s[1] = Get("user"), s[2] = Verify, s[3] = save, s[4] = Clear("user")
  PROVE  Ordered(s)
  <1> DEFINE w == 3
  <1>1. 3 \in DOMAIN s /\ \A i \in DOMAIN s : (i < 3 => i \in {1, 2}) /\ (i > 3 => i = 4)
    BY DomainOf
  <1>2. \A i \in DOMAIN s : i > 3 => s[i][1] = "clear"
    BY <1>1, Ops
  <1>3. /\ w \in DOMAIN s /\ Saves(s[w]) /\ Len(s) > w /\ s[w + 1] = Clear("user")
        /\ \A i \in DOMAIN s : i < w => s[i] \in {Get("user"), Verify}
        /\ \A i \in DOMAIN s : i > w => s[i][1] = "clear"
    BY <1>1, <1>2
  <1> HIDE DEF w
  <1> QED BY <1>3, SavesOrdered

\* Questions and clearing need no order, but for the folder and the releases.
LEMMA HarmlessOrdered ==
  ASSUME NEW s \in Seq(Steps), \A i \in DOMAIN s : s[i][1] \in {"get", "clear"} /\ SkipsReads(s, i)
  PROVE  Ordered(s)
  <1>1. ASSUME NEW i \in DOMAIN s
        PROVE  ~Writes(s[i]) /\ ~Saves(s[i]) /\ ~SetsPrimary(s[i]) /\ s[i][1] \notin {"write", "insert user", "reread"}
    BY <1>1 DEF Writes, Saves, SetsPrimary
  <1>2. ASSUME NEW i \in DOMAIN s
        PROVE  /\ WritesCleared(s, i) /\ SavesCleared(s, i) /\ NothingRead(s, i)
               /\ AccountStays(s, i) /\ RereadsWritten(s, i) /\ SetsOnce(s, i)
    BY <1>1 DEF WritesCleared, SavesCleared, NothingRead, AccountStays, RereadsWritten, SetsOnce
  <1> QED BY <1>1, <1>2 DEF Ordered, Clearing, Choosing, UnsetsAllFirst

LEMMA GetUserOrdered ==
  ASSUME NEW s \in Seq(Steps), Len(s) = 6, s[1] = Get("user"), s[2] = Get("folders"), s[3] = Get("folder"),
         s[4] = Get("releases"), s[5] = Get("styluses"), s[6] = Get("plays")
  PROVE  Ordered(s)
  <1>1. \A i \in DOMAIN s : i \in 1..6
    BY DomainOf
  <1>2. ASSUME NEW i \in DOMAIN s PROVE s[i][1] = "get" /\ s[i][2] \notin Folder /\ (s[i][2] = "folder" => i = 3)
    <2>1. CASE i = 1
      BY <2>1, Ops, Keys
    <2>2. CASE i = 2
      BY <2>2, Ops, Keys
    <2>3. CASE i = 3
      BY <2>3, Ops, Keys
    <2>4. CASE i = 4
      BY <2>4, Ops, Keys
    <2>5. CASE i = 5
      BY <2>5, Ops, Keys
    <2>6. CASE i = 6
      BY <2>6, Ops, Keys
    <2> QED BY <1>1, <2>1, <2>2, <2>3, <2>4, <2>5, <2>6
  <1>3. s[3 + 1][1] = "get"
    BY Ops
  <1>4. \A i \in DOMAIN s : SkipsReads(s, i)
    BY <1>2, <1>3 DEF SkipsReads
  <1> QED BY <1>2, <1>4, HarmlessOrdered

LEMMA ListStylusesOrdered ==
  ASSUME NEW s \in Seq(Steps), Len(s) = 2, s[1] = Get("user"), s[2] = Get("styluses")
  PROVE  Ordered(s)
  <1>1. \A i \in DOMAIN s : i \in 1..2
    BY DomainOf
  <1>2. ASSUME NEW i \in DOMAIN s PROVE s[i][1] = "get" /\ s[i][2] \notin Folder /\ s[i][2] # "folder"
    <2>1. CASE i = 1
      BY <2>1, Ops, Keys
    <2>2. CASE i = 2
      BY <2>2, Ops, Keys
    <2> QED BY <1>1, <2>1, <2>2
  <1>3. \A i \in DOMAIN s : SkipsReads(s, i)
    BY <1>2 DEF SkipsReads
  <1> QED BY <1>2, <1>3, HarmlessOrdered

\* Logging out asks for the user and clears.
LEMMA LogOutOrdered ==
  ASSUME NEW s \in Seq(Steps), s[1] = Get("user"), \A i \in DOMAIN s : i > 1 => s[i][1] = "clear"
  PROVE  Ordered(s)
  <1>1. \A i \in DOMAIN s : i = 1 \/ i > 1
    BY DomainOf
  <1>2. Get("user")[1] = "get"
    BY Ops
  <1>3. \A i \in DOMAIN s : SkipsReads(s, i)
    BY <1>1, AsksForUser
  <1> QED BY <1>1, <1>2, <1>3, HarmlessOrdered

LEMMA NothingOrdered == Ordered(<<>>)
  BY DEF Ordered, Clearing, Choosing, UnsetsAllFirst

\* A handler in one transaction: the user is asked for at first, if at all.
OneCommit(s) ==
  /\ s # <<>> /\ s[Len(s)] = Commit
  /\ \A i \in DOMAIN s : i < Len(s) => s[i][1] \in {"get", "verify", "write", "unset all", "clear"}
  /\ \A i \in DOMAIN s : s[i][1] = "get" => i = 1 /\ s[i] = Get("user")
WritesOnce(s) ==
  \A i \in DOMAIN s :
    /\ Writes(s[i]) => Due(s[i]) \subseteq Cleared(s, i)
    /\ s[i][1] = "write" => \A e \in s[i][2] : e[2] # "account"
    /\ SetsPrimary(s[i]) =>
         /\ OneSet(s[i][2]) /\ \A j \in DOMAIN s : j > i => ~SetsPrimary(s[j])
         /\ \E j \in 1 .. i - 1 : s[j] = UnsetAll

LEMMA OneCommitFacts ==
  ASSUME NEW s \in Seq(Steps), OneCommit(s)
  PROVE  /\ \A i \in DOMAIN s : i < Len(s) => s[i] # Commit
         /\ \A i \in DOMAIN s : s[i][1] \in {"get", "verify", "write", "unset all", "clear", "commit"}
         /\ \A i \in DOMAIN s : Writes(s[i]) => i < Len(s) /\ CommitsAfter(s, i)
         /\ \A i \in DOMAIN s : i > 1 => s[i][1] # "get"
  <1> DEFINE n == Len(s)
  <1>1. n \in DOMAIN s /\ \A i \in DOMAIN s : i \in Nat /\ (i < n \/ i = n)
    <2>1. s # <<>> => Len(s) \in DOMAIN s
      OBVIOUS
    <2>2. \A i \in DOMAIN s : i < Len(s) \/ i = Len(s)
      OBVIOUS
    <2> QED BY <2>1, <2>2, DomainOf DEF OneCommit
  <1>2. /\ s[n] = Commit /\ \A i \in DOMAIN s : i < n => s[i][1] \in {"get", "verify", "write", "unset all", "clear"}
    BY DEF OneCommit
  <1> HIDE DEF n
  <1>3. \A i \in DOMAIN s : i < n => s[i] # Commit
    BY <1>2, Words
  <1>4. \A i \in DOMAIN s : s[i][1] \in {"get", "verify", "write", "unset all", "clear", "commit"}
    BY <1>1, <1>2, Words
  <1>5. ASSUME NEW i \in DOMAIN s, Writes(s[i]) PROVE i < n /\ CommitsAfter(s, i)
    <2>1. s[i] # Commit
      BY <1>5, Words DEF Writes
    <2>2. i < n
      BY <1>1, <1>2, <2>1
    <2> QED BY <1>1, <1>2, <2>2 DEF CommitsAfter
  <1>6. \A i \in DOMAIN s : i > 1 => s[i][1] # "get"
    <2>1. \A i \in DOMAIN s : s[i][1] = "get" => i = 1
      BY Zenon DEF OneCommit
    <2>2. \A i \in DOMAIN s : i > 1 => i # 1
      OBVIOUS
    <2> QED BY Zenon, <2>1, <2>2
  <1> QED BY <1>3, <1>4, <1>5, <1>6 DEF n

LEMMA OneTransaction ==
  ASSUME NEW s \in Seq(Steps), OneCommit(s), WritesOnce(s)
  PROVE  Ordered(s)
  <1>1. \A i \in DOMAIN s : SkipsReads(s, i)
    BY AsksForUser DEF OneCommit
  <1>2. ASSUME NEW i \in DOMAIN s, Writes(s[i])
        PROVE  /\ CommitsAfter(s, i) /\ \A k \in Due(s[i]) : ClearsFirst(s, i, k)
               /\ \A j \in DOMAIN s : j > i => s[j][1] # "get"
    <2>1. CommitsAfter(s, i)
      BY <1>2, OneCommitFacts
    <2>2. ASSUME NEW k \in Due(s[i]) PROVE ClearsFirst(s, i, k)
      <3>1. PICK m \in DOMAIN s : m > i /\ s[m] = Clear(k)
        BY <1>2, <2>2 DEF WritesOnce, Cleared
      <3>2. \A j \in i + 1 .. m - 1 : j \in DOMAIN s /\ j < Len(s)
        OBVIOUS
      <3>3. \A j \in i + 1 .. m - 1 : s[j] # Commit
        BY <3>2, OneCommitFacts
      <3> QED BY <3>1, <3>3 DEF ClearsFirst
    <2>3. ASSUME NEW j \in DOMAIN s, j > i PROVE s[j][1] # "get"
      <3>1. j > 1
        BY <2>3
      <3> QED BY <3>1, OneCommitFacts
    <2> QED BY <2>1, <2>2, <2>3
  <1>3. ASSUME NEW i \in DOMAIN s, SetsPrimary(s[i])
        PROVE  OneSet(s[i][2]) /\ UnsetsFirst(s, i) /\ \A j \in DOMAIN s : j > i => ~SetsPrimary(s[j])
    <2>1. PICK j \in 1 .. i - 1 : s[j] = UnsetAll
      BY <1>3 DEF WritesOnce
    <2>2. Writes(s[i])
      BY <1>3 DEF SetsPrimary, Writes
    <2>3. i < Len(s)
      BY <2>2, OneCommitFacts
    <2>4. ASSUME NEW m \in j .. i PROVE s[m] # Commit /\ s[m][1] # "get"
      <3>1. m \in DOMAIN s /\ m < Len(s) /\ (m = j \/ m > 1)
        BY <2>1, <2>3, <2>4
      <3>2. s[j][1] # "get"
        BY <2>1, Words
      <3> QED BY <3>1, <3>2, OneCommitFacts
    <2>5. UnsetsFirst(s, i)
      BY <2>1, <2>4 DEF UnsetsFirst, Undivided
    <2> QED BY <1>3, <2>5 DEF WritesOnce
  <1>4. \A i \in DOMAIN s : s[i][1] \in {"get", "verify", "write", "unset all", "clear", "commit"}
    BY OneCommitFacts
  <1>5. \A i \in DOMAIN s : s[i][1] = "write" => \A e \in s[i][2] : e[2] # "account"
    BY DEF WritesOnce
  <1> QED BY <1>1, <1>2, <1>3, <1>4, <1>5, OrderedTransactions

LEMMA GetsFirst ==
  ASSUME NEW s, s[1] = Get("user"), \A i \in DOMAIN s : s[i][1] = "get" => i = 1
  PROVE  \A i \in DOMAIN s : s[i][1] = "get" => i = 1 /\ s[i] = Get("user")
  BY Zenon

LEMMA NoPrimary ==
  ASSUME NEW step, step[1] # "write"
  PROVE  ~SetsPrimary(step)
  BY DEF SetsPrimary

LEMMA WriteRow ==
  ASSUME NEW x, x # "account", NEW e \in {Insert(x), Update(x), Upsert(x), Delete(x)}
  PROVE  /\ Write({e})[1] = "write" /\ \A d \in Write({e})[2] : d[2] # "account"
         /\ ~SetsPrimary(Write({e})) /\ Due(Write({e})) \subseteq Entries({x})
  <1>1. Write({e})[1] = "write" /\ Write({e})[2] = {e}
    BY Ops
  <1>2. e[2] = x
    BY EffectRows
  <1>3. \A d \in Write({e})[2] : d[2] # "account"
    BY <1>1, <1>2
  <1> QED BY <1>1, <1>3, DueOfRow


\* Statements that make nothing primary.
LEMMA WritesPlainly ==
  ASSUME NEW s \in Seq(Steps),
         \A i \in DOMAIN s : Writes(s[i]) =>
            /\ s[i][1] = "write" /\ ~SetsPrimary(s[i]) /\ Due(s[i]) \subseteq Cleared(s, i)
            /\ \A e \in s[i][2] : e[2] # "account"
  PROVE  WritesOnce(s)
  BY DEF WritesOnce, Writes, SetsPrimary

LEMMA LogBothOrdered ==
  ASSUME NEW p \in Play, NEW c \in Cleaning, NEW s \in Seq(Steps), Len(s) = 8,
         s[1] = Get("user"), s[2] = Verify, s[3] = Write({Insert(p)}), s[4] = Clear("plays"), s[5] = Clear("releases"),
         s[6] = Write({Insert(c)}), s[7] = Clear("releases"), s[8] = Commit
  PROVE  Ordered(s)
  <1>1. DOMAIN s = 1..8 /\ s # <<>>
    BY DomainOf
  <1>2. /\ s[1][1] = "get" /\ s[2][1] = "verify" /\ s[3][1] = "write" /\ s[4][1] = "clear" /\ s[5][1] = "clear"
        /\ s[6][1] = "write" /\ s[7][1] = "clear" /\ s[8][1] = "commit"
    BY DEF Get, Verify, Write, Clear, Commit
  <1>3. \A i \in 1..8 : i \in {1, 2, 3, 4, 5, 6, 7, 8}
    OBVIOUS
  <1>4. OneCommit(s)
    <2>1. ASSUME NEW i \in DOMAIN s, i < 8
          PROVE  s[i][1] \in {"get", "verify", "write", "unset all", "clear"}
      <3>1. i \in 1..7
        BY <1>1, <2>1
      <3>2. i \in {1, 2, 3, 4, 5, 6, 7}
        BY <3>1
      <3> QED BY <1>2, <3>2
    <2>2. ASSUME NEW i \in DOMAIN s, s[i][1] = "get" PROVE i = 1
      <3>1. i \in {1, 2, 3, 4, 5, 6, 7, 8}
        BY <1>1, <1>3
      <3> QED BY <1>2, <2>2, <3>1
    <2>3. \A i \in DOMAIN s : s[i][1] = "get" => i = 1 /\ s[i] = Get("user")
      BY <2>2, GetsFirst
    <2> QED BY <1>1, <2>1, <2>3 DEF OneCommit
  <1>5. \A i \in DOMAIN s : Writes(s[i]) => i = 3 \/ i = 6
    BY <1>1, <1>2, <1>3 DEF Writes
  <1>6. p # "account" /\ c # "account"
    BY RowsAssumption
  <1>7. (\A d \in s[3][2] : d[2] # "account") /\ ~SetsPrimary(s[3]) /\ Due(s[3]) \subseteq Entries({p})
    BY <1>6, WriteRow
  <1>8. (\A d \in s[6][2] : d[2] # "account") /\ ~SetsPrimary(s[6]) /\ Due(s[6]) \subseteq Entries({c})
    BY <1>6, WriteRow
  <1>9. Due(s[3]) \subseteq Cleared(s, 3) /\ Due(s[6]) \subseteq Cleared(s, 6)
    <2>1. "plays" \in Cleared(s, 3) /\ "releases" \in Cleared(s, 3) /\ "releases" \in Cleared(s, 6)
      <3>1. /\ 4 \in DOMAIN s /\ 4 > 3 /\ 5 \in DOMAIN s /\ 5 > 3 /\ 7 \in DOMAIN s /\ 7 > 6
        BY <1>1
      <3> QED BY <3>1, Keys DEF Cleared
    <2>2. Entries({p}) = {"plays", "releases"} /\ Entries({c}) = {"releases"}
      BY EntriesOfRow
    <2> QED BY <1>7, <1>8, <2>1, <2>2
  <1>10. WritesOnce(s)
    BY <1>2, <1>5, <1>7, <1>8, <1>9, WritesPlainly
  <1> QED BY <1>4, <1>10, OneTransaction

LEMMA ReleasesOrdered ==
  ASSUME NEW s \in Seq(Steps), Len(s) = 3, s[1] = Write({Upsert("collection")}), s[2] = Clear("releases"), s[3] = Commit
  PROVE  Ordered(s)
  <1>1. DOMAIN s = 1..3 /\ s # <<>>
    BY DomainOf
  <1>2. s[1][1] = "write" /\ s[2][1] = "clear" /\ s[3][1] = "commit"
    BY DEF Write, Clear, Commit
  <1>3. \A i \in 1..3 : i \in {1, 2, 3}
    OBVIOUS
  <1>4. OneCommit(s)
    <2>1. ASSUME NEW i \in DOMAIN s, i < 3
          PROVE  s[i][1] \in {"get", "verify", "write", "unset all", "clear"}
      <3>1. i \in 1..2
        BY <1>1, <2>1
      <3>2. i \in {1, 2}
        BY <3>1
      <3> QED BY <1>2, <3>2
    <2>3. ASSUME NEW i \in DOMAIN s PROVE s[i][1] # "get"
      <3>1. i \in {1, 2, 3}
        BY <1>1, <1>3
      <3> QED BY <1>2, <3>1
    <2> QED BY <1>1, <2>1, <2>3 DEF OneCommit
  <1>5. \A i \in DOMAIN s : Writes(s[i]) => i = 1
    BY <1>1, <1>2, <1>3 DEF Writes
  <1>6. "collection" # "account"
    OBVIOUS
  <1>7. (\A d \in s[1][2] : d[2] # "account") /\ ~SetsPrimary(s[1]) /\ Due(s[1]) \subseteq Entries({"collection"})
    BY <1>6, WriteRow
  <1>8. Due(s[1]) \subseteq Cleared(s, 1)
    <2>1. "releases" \in Cleared(s, 1)
      <3>1. 2 \in DOMAIN s /\ 2 > 1
        BY <1>1
      <3> QED BY <3>1, Keys DEF Cleared
    <2>2. Entries({"collection"}) \subseteq {"releases"}
      BY EntriesOf
    <2> QED BY <1>7, <2>1, <2>2
  <1>9. WritesOnce(s)
    BY <1>2, <1>5, <1>7, <1>8, WritesPlainly
  <1> QED BY <1>4, <1>9, OneTransaction

\* What is written about one stylus.
LEMMA WriteStylus ==
  ASSUME NEW x \in Stylus, NEW e \in {Insert(x), Update(x)}, NEW E \in {{}, {SetPrimary(x)}}, NEW step,
         step = Write({e} \cup E)
  PROVE  /\ step[1] = "write" /\ (\A d \in step[2] : d[2] # "account") /\ Due(step) \subseteq {"styluses"}
         /\ OneSet(step[2]) /\ (E = {} => ~SetsPrimary(step))
  <1> DEFINE F == {e} \cup E
  <1>1. step[1] = "write" /\ step[2] = F
    BY Ops
  <1>2. \A d \in F : d[2] = x
    BY EffectRows
  <1>3. x # "account"
    BY RowsAssumption
  <1>4. \A y \in Stylus : SetPrimary(y) # e
    BY DEF SetPrimary, Insert, Update
  <1>5. \A y \in Stylus : SetPrimary(y) = SetPrimary(x) => y = x
    BY EffectRows
  <1>6. OneSet(F)
    BY <1>4, <1>5 DEF OneSet
  <1>7. E = {} => ~SetsPrimary(step)
    BY <1>1, <1>4 DEF SetsPrimary
  <1>8. step = Write(F)
    OBVIOUS
  <1> HIDE DEF F
  <1>9. Due(step) \subseteq {"styluses"}
    <2>1. Due(Write(F)) \subseteq Entries(Subjects(F))
      BY DueOfWrite
    <2>2. Subjects(F) \in SUBSET Stylus
      BY <1>2 DEF Subjects
    <2>3. Entries(Subjects(F)) \subseteq {"styluses"}
      BY <2>2, EntriesOf
    <2> QED BY <1>8, <2>1, <2>3
  <1>10. (\A d \in step[2] : d[2] # "account") /\ OneSet(step[2])
    BY <1>1, <1>2, <1>3, <1>6
  <1> QED BY <1>1, <1>7, <1>9, <1>10

LEMMA StylusOrdered ==
  ASSUME NEW x \in Stylus, NEW e \in {Insert(x), Update(x)}, NEW s \in Seq(Steps), Len(s) = 5,
         s[1] = Get("user"), s[2] = Verify, s[3] = Write({e} \cup {}), s[4] = Clear("styluses"), s[5] = Commit
  PROVE  Ordered(s)
  <1>1. DOMAIN s = 1..5 /\ s # <<>>
    BY DomainOf, SMTT(30)
  <1>2. s[1][1] = "get" /\ s[2][1] = "verify" /\ s[3][1] = "write" /\ s[4][1] = "clear" /\ s[5][1] = "commit"
    BY DEF Get, Verify, Write, Clear, Commit
  <1>3. \A i \in 1..5 : i \in {1, 2, 3, 4, 5}
    OBVIOUS
  <1>4. OneCommit(s)
    <2>1. ASSUME NEW i \in DOMAIN s, i < 5
          PROVE  s[i][1] \in {"get", "verify", "write", "unset all", "clear"}
      <3>1. i \in 1..4
        BY <1>1, <2>1
      <3>2. i \in {1, 2, 3, 4}
        BY <3>1
      <3> QED BY <1>2, <3>2
    <2>2. ASSUME NEW i \in DOMAIN s, s[i][1] = "get" PROVE i = 1
      <3>1. i \in {1, 2, 3, 4, 5}
        BY <1>1, <1>3
      <3> QED BY <1>2, <2>2, <3>1
    <2>3. \A i \in DOMAIN s : s[i][1] = "get" => i = 1 /\ s[i] = Get("user")
      BY <2>2, GetsFirst
    <2> QED BY <1>1, <2>1, <2>3 DEF OneCommit
  <1>5. \A i \in DOMAIN s : Writes(s[i]) => i = 3
    BY <1>1, <1>2, <1>3 DEF Writes
  <1>6. (\A d \in s[3][2] : d[2] # "account") /\ ~SetsPrimary(s[3]) /\ Due(s[3]) \subseteq {"styluses"}
    BY WriteStylus
  <1>7. Due(s[3]) \subseteq Cleared(s, 3)
    <2>1. 4 \in DOMAIN s /\ 4 > 3
      BY <1>1
    <2>2. "styluses" \in Cleared(s, 3)
      BY <2>1, Keys DEF Cleared
    <2> QED BY <1>6, <2>2
  <1>8. WritesOnce(s)
    BY <1>2, <1>5, <1>6, <1>7, WritesPlainly
  <1> QED BY <1>4, <1>8, OneTransaction

LEMMA PrimaryStylusOrdered ==
  ASSUME NEW x \in Stylus, NEW e \in {Insert(x), Update(x)}, NEW s \in Seq(Steps), Len(s) = 7,
         s[1] = Get("user"), s[2] = Verify, s[3] = UnsetAll, s[4] = Clear("styluses"),
         s[5] = Write({e} \cup {SetPrimary(x)}), s[6] = Clear("styluses"), s[7] = Commit
  PROVE  Ordered(s)
  <1>1. DOMAIN s = 1..7 /\ s # <<>>
    <2>1. DOMAIN s = 1..7
      BY DomainOf
    <2> QED BY <2>1
  <1>2. /\ s[1][1] = "get" /\ s[2][1] = "verify" /\ s[3][1] = "unset all" /\ s[4][1] = "clear" /\ s[5][1] = "write"
        /\ s[6][1] = "clear" /\ s[7][1] = "commit"
    <2>0. s[1][1] = "get"
      BY Ops
    <2>1. s[2][1] = "verify" /\ s[3][1] = "unset all" /\ s[7][1] = "commit"
      BY Words
    <2>2. s[4][1] = "clear" /\ s[6][1] = "clear"
      BY Ops
    <2>3. s[5][1] = "write"
      BY Ops
    <2> QED BY <2>0, <2>1, <2>2, <2>3
  <1>3. \A i \in 1..7 : i \in {1, 2, 3, 4, 5, 6, 7}
    OBVIOUS
  <1>4. OneCommit(s)
    <2>1. ASSUME NEW i \in DOMAIN s, i < 7
          PROVE  s[i][1] \in {"get", "verify", "write", "unset all", "clear"}
      <3>1. i \in 1..6
        BY <1>1, <2>1
      <3>2. i \in {1, 2, 3, 4, 5, 6}
        BY <3>1
      <3> QED BY <1>2, <3>2
    <2>2. ASSUME NEW i \in DOMAIN s, s[i][1] = "get" PROVE i = 1
      <3>1. i \in {1, 2, 3, 4, 5, 6, 7}
        BY <1>1, <1>3
      <3> QED BY <1>2, <2>2, <3>1
    <2>3. \A i \in DOMAIN s : s[i][1] = "get" => i = 1 /\ s[i] = Get("user")
      BY <2>2, GetsFirst
    <2> QED BY <1>1, <2>1, <2>3 DEF OneCommit
  <1>5. \A i \in DOMAIN s : (s[i][1] = "write" => i = 5) /\ (s[i][1] = "unset all" => i = 3)
    BY <1>1, <1>2, <1>3
  <1>6. (\A d \in s[5][2] : d[2] # "account") /\ OneSet(s[5][2]) /\ Due(s[5]) \subseteq {"styluses"}
    BY WriteStylus
  <1>7. Due(s[3]) \subseteq Cleared(s, 3) /\ Due(s[5]) \subseteq Cleared(s, 5)
    <2>1. 4 \in DOMAIN s /\ 4 > 3 /\ 6 \in DOMAIN s /\ 6 > 5
      BY <1>1
    <2>2. "styluses" \in Cleared(s, 3) /\ "styluses" \in Cleared(s, 5)
      BY <2>1, Keys DEF Cleared
    <2> QED BY <1>6, <2>2, DueOfUnset
  <1>8. \A i \in DOMAIN s : SetsPrimary(s[i]) => i = 5
    BY <1>5, NoPrimary
  <1>9. 3 \in 1 .. 5 - 1
    OBVIOUS
  <1>10. \A i \in DOMAIN s : Writes(s[i]) => Due(s[i]) \subseteq Cleared(s, i)
    BY <1>5, <1>7 DEF Writes
  <1>11. \A i \in DOMAIN s : s[i][1] = "write" => \A f \in s[i][2] : f[2] # "account"
    BY <1>5, <1>6
  <1>12. ASSUME NEW i \in DOMAIN s, SetsPrimary(s[i])
         PROVE  /\ OneSet(s[i][2]) /\ \A j \in DOMAIN s : j > i => ~SetsPrimary(s[j])
                /\ \E j \in 1 .. i - 1 : s[j] = UnsetAll
    <2>1. i = 5
      BY <1>8, <1>12
    <2>2. \A j \in DOMAIN s : j > 5 => ~SetsPrimary(s[j])
      <3>1. \A j \in DOMAIN s : j > 5 => j # 5
        OBVIOUS
      <3> QED BY <1>8, <3>1
    <2>3. \E j \in 1 .. 5 - 1 : s[j] = UnsetAll
      BY <1>9
    <2> QED BY <1>6, <2>1, <2>2, <2>3
  <1>13. WritesOnce(s)
    BY <1>10, <1>11, <1>12 DEF WritesOnce
  <1> QED BY <1>4, <1>13, OneTransaction

\* The synchronisation of folders: two transactions, each with one statement about folders.
LEMMA FolderTransactions ==
  ASSUME NEW s \in Seq(Steps),
         \A i \in DOMAIN s : s[i][1] \in {"write", "clear", "commit"},
         \A i \in DOMAIN s : s[i][1] = "write" =>
           /\ CommitsAfter(s, i) /\ \A k \in Due(s[i]) : ClearsFirst(s, i, k)
           /\ \A e \in s[i][2] : \E f \in Folder : e = Upsert(f) \/ e = Delete(f)
  PROVE  Ordered(s)
  <1>1. \A i \in DOMAIN s : s[i][1] \in {"get", "verify", "write", "unset all", "clear", "commit"}
    OBVIOUS
  <1>2. \A i \in DOMAIN s : s[i][1] # "get" /\ s[i][1] # "unset all"
    OBVIOUS
  <1>3. \A i \in DOMAIN s : SkipsReads(s, i)
    BY <1>2 DEF SkipsReads
  <1>4. \A i \in DOMAIN s : Writes(s[i]) =>
            /\ CommitsAfter(s, i) /\ \A k \in Due(s[i]) : ClearsFirst(s, i, k)
            /\ \A j \in DOMAIN s : j > i => s[j][1] # "get"
    BY <1>2 DEF Writes
  <1>5. ASSUME NEW i \in DOMAIN s, s[i][1] = "write", NEW e \in s[i][2] PROVE e[2] # "account"
    <2>1. PICK f \in Folder : e = Upsert(f) \/ e = Delete(f)
      BY <1>5
    <2> QED BY <2>1, EffectRows, RowsAssumption
  <1>6. ASSUME NEW i \in DOMAIN s PROVE ~SetsPrimary(s[i])
    <2> SUFFICES ASSUME s[i][1] = "write", NEW x \in Stylus, SetPrimary(x) \in s[i][2] PROVE FALSE
      BY DEF SetsPrimary
    <2>1. PICK f \in Folder : SetPrimary(x) = Upsert(f) \/ SetPrimary(x) = Delete(f)
      OBVIOUS
    <2> QED BY <2>1 DEF SetPrimary, Upsert, Delete
  <1> QED BY <1>1, <1>3, <1>4, <1>5, <1>6, OrderedTransactions

LEMMA ClearedAtOnce ==
  ASSUME NEW s \in Seq(Steps), NEW w \in DOMAIN s, NEW k, w + 1 \in DOMAIN s, s[w + 1] = Clear(k)
  PROVE  ClearsFirst(s, w, k)
  <1>1. w \in Nat /\ w + 1 > w /\ w + 1 .. (w + 1) - 1 = {}
    BY DomainOf
  <1> QED BY <1>1 DEF ClearsFirst

LEMMA DueOfUpserts ==
  ASSUME NEW F \in SUBSET Folder, NEW step, step = Write({Upsert(f) : f \in F})
  PROVE  /\ step[1] = "write" /\ (\A e \in step[2] : \E f \in Folder : e = Upsert(f) \/ e = Delete(f))
         /\ Due(step) \subseteq {"folders"} \cup F
  <1> DEFINE E == {Upsert(f) : f \in F}
  <1>1. step[1] = "write" /\ step[2] = E
    BY Ops
  <1>2. Subjects(E) = F
    <2>1. \A f \in F : Upsert(f)[2] = f
      BY EffectRows
    <2> QED BY <2>1 DEF Subjects
  <1>3. Entries(F) \subseteq {"folders"} \cup F
    BY EntriesOf
  <1>4. \A e \in E : \E f \in Folder : e = Upsert(f) \/ e = Delete(f)
    OBVIOUS
  <1>5. step = Write(E)
    OBVIOUS
  <1> HIDE DEF E
  <1> QED BY <1>1, <1>2, <1>3, <1>4, <1>5, DueOfWrite

LEMMA DueOfDeletes ==
  ASSUME NEW F \in SUBSET Folder, NEW step, step = Write({Delete(f) : f \in F})
  PROVE  /\ step[1] = "write" /\ (\A e \in step[2] : \E f \in Folder : e = Upsert(f) \/ e = Delete(f))
         /\ Due(step) \subseteq {"folders"}
  <1> DEFINE E == {Delete(f) : f \in F}
  <1>1. step[1] = "write" /\ step[2] = E
    BY Ops
  <1>2. Subjects(E) = F
    <2>1. \A f \in F : Delete(f)[2] = f
      BY EffectRows
    <2> QED BY <2>1 DEF Subjects
  <1>3. Entries(F) \subseteq {"folders"} \cup F
    BY EntriesOf
  <1>4. \A e \in E : \E f \in Folder : e = Upsert(f) \/ e = Delete(f)
    OBVIOUS
  <1>5. F \subseteq {f \in Folder : Delete(f) \in E}
    OBVIOUS
  <1>6. step = Write(E)
    OBVIOUS
  <1> HIDE DEF E
  <1>7. Due(step) \subseteq Entries(F) \ {f \in Folder : Delete(f) \in E}
    BY <1>2, <1>6, DueOfWrite
  <1>8. Due(step) \subseteq {"folders"}
    BY <1>3, <1>5, <1>7
  <1> QED BY <1>1, <1>4, <1>8

LEMMA NoFoldersOrdered ==
  ASSUME NEW F \in SUBSET Folder, NEW s \in Seq(Steps), Len(s) = 5,
         s[1] = Commit, s[2] = Write({Delete(f) : f \in F}), s[3] = Clear("folders"), s[4] = Commit,
         s[5] = Clear("folders")
  PROVE  Ordered(s)
  <1>1. \A i \in DOMAIN s : i \in {1, 2, 3, 4, 5}
    BY DomainOf
  <1>2. /\ s[1][1] = "commit" /\ s[4][1] = "commit"
        /\ s[3][1] = "clear" /\ s[5][1] = "clear"
    <2>1. s[1][1] = "commit" /\ s[4][1] = "commit"
      BY Words
    <2> QED BY <2>1, Ops
  <1>3. /\ s[2][1] = "write" /\ (\A e \in s[2][2] : \E f \in Folder : e = Upsert(f) \/ e = Delete(f))
        /\ Due(s[2]) \subseteq {"folders"}
    BY DueOfDeletes
  <1>4. \A i \in DOMAIN s : s[i][1] \in {"write", "clear", "commit"}
    BY <1>1, <1>2, <1>3
  <1>5. \A i \in DOMAIN s : s[i][1] = "write" => i = 2
    BY <1>1, <1>2
  <1>6. ClearsFirst(s, 2, "folders")
    <2>1. 2 \in DOMAIN s /\ 2 + 1 \in DOMAIN s /\ s[2 + 1] = Clear("folders")
      BY DomainOf
    <2> QED BY <2>1, ClearedAtOnce
  <1>7. CommitsAfter(s, 2)
    <2>1. 4 \in DOMAIN s /\ 4 > 2
      BY DomainOf
    <2> QED BY <2>1 DEF CommitsAfter
  <1>8. \A i \in DOMAIN s : s[i][1] = "write" =>
           /\ CommitsAfter(s, i) /\ \A k \in Due(s[i]) : ClearsFirst(s, i, k)
           /\ \A e \in s[i][2] : \E f \in Folder : e = Upsert(f) \/ e = Delete(f)
    BY <1>3, <1>5, <1>6, <1>7
  <1> QED BY <1>4, <1>8, FolderTransactions

LEMMA FoldersOrdered ==
  ASSUME NEW G \in SUBSET Folder, NEW F \in SUBSET Folder, NEW n \in Nat, NEW s \in Seq(Steps), Len(s) = n + 7,
         s[1] = Write({Upsert(f) : f \in G}), s[2] = Clear("folders"),
         \A i \in 1..n : s[i + 2][1] = "clear",
         \A f \in G : \E i \in 1..n : s[i + 2] = Clear(f),
         s[n + 3] = Commit, s[n + 4] = Write({Delete(f) : f \in F}), s[n + 5] = Clear("folders"),
         s[n + 6] = Commit, s[n + 7] = Clear("folders")
  PROVE  Ordered(s)
  <1>1. DOMAIN s = 1..(n + 7)
    BY DomainOf
  <1>2. /\ s[1][1] = "write" /\ (\A e \in s[1][2] : \E f \in Folder : e = Upsert(f) \/ e = Delete(f))
        /\ Due(s[1]) \subseteq {"folders"} \cup G
    BY DueOfUpserts
  <1>3. /\ s[n + 4][1] = "write" /\ (\A e \in s[n + 4][2] : \E f \in Folder : e = Upsert(f) \/ e = Delete(f))
        /\ Due(s[n + 4]) \subseteq {"folders"}
    BY DueOfDeletes
  <1>4. \A i \in 2 .. n + 2 : s[i][1] = "clear"
    <2>1. ASSUME NEW i \in 2 .. n + 2, i # 2 PROVE s[i][1] = "clear"
      <3>1. i - 2 \in 1..n /\ (i - 2) + 2 = i
        BY <2>1
      <3> QED BY <3>1
    <2>2. s[2][1] = "clear"
      BY Ops
    <2> QED BY <2>1, <2>2
  <1>5. /\ s[n + 3][1] = "commit" /\ s[n + 6][1] = "commit"
        /\ s[n + 5][1] = "clear" /\ s[n + 7][1] = "clear"
    <2>1. s[n + 3][1] = "commit" /\ s[n + 6][1] = "commit"
      BY Words
    <2> QED BY <2>1, Ops
  <1>6. \A i \in DOMAIN s : i = 1 \/ i \in 2 .. n + 2 \/ i = n + 3 \/ i = n + 4 \/ i = n + 5 \/ i = n + 6 \/ i = n + 7
    BY <1>1, SMTT(30)
  <1>7. \A i \in DOMAIN s : s[i][1] \in {"write", "clear", "commit"} /\ (s[i][1] = "write" => i = 1 \/ i = n + 4)
    BY <1>2, <1>3, <1>4, <1>5, <1>6
  <1>8. CommitsAfter(s, 1) /\ CommitsAfter(s, n + 4)
    <2>1. n + 3 \in DOMAIN s /\ n + 3 > 1 /\ n + 6 \in DOMAIN s /\ n + 6 > n + 4
      BY <1>1
    <2> QED BY <2>1 DEF CommitsAfter
  <1>9. ClearsFirst(s, 1, "folders") /\ ClearsFirst(s, n + 4, "folders")
    <2>1. 1 \in DOMAIN s /\ 1 + 1 \in DOMAIN s /\ s[1 + 1] = Clear("folders")
      BY <1>1
    <2>2. n + 4 \in DOMAIN s /\ (n + 4) + 1 \in DOMAIN s /\ s[(n + 4) + 1] = Clear("folders")
      BY <1>1
    <2> QED BY <2>1, <2>2, ClearedAtOnce
  <1>10. ASSUME NEW f \in G PROVE ClearsFirst(s, 1, f)
    <2>1. PICK i \in 1..n : s[i + 2] = Clear(f)
      OBVIOUS
    <2>2. i + 2 \in DOMAIN s /\ i + 2 > 1 /\ \A j \in 1 + 1 .. (i + 2) - 1 : j \in 2 .. n + 2
      BY <1>1
    <2>3. \A j \in 1 + 1 .. (i + 2) - 1 : s[j] # Commit
      BY <1>4, <2>2, Words
    <2> QED BY <2>1, <2>2, <2>3 DEF ClearsFirst
  <1>11. \A i \in DOMAIN s : s[i][1] = "write" =>
           /\ CommitsAfter(s, i) /\ \A k \in Due(s[i]) : ClearsFirst(s, i, k)
           /\ \A e \in s[i][2] : \E f \in Folder : e = Upsert(f) \/ e = Delete(f)
    BY <1>2, <1>3, <1>7, <1>8, <1>9, <1>10
  <1> QED BY <1>7, <1>11, FolderTransactions

\* The functions of the code that handle requests; a request that is not made takes no steps.
CodeHandlers ==
  {GetUser, ListStyluses, UpdateDiscogsToken, HandleOIDCCallback, ExecuteSyncOperations, <<>>}
    \cup {UpdateSelectedFolder(f) : f \in Folder} \cup {UpdateUserPreferences(p) : p \in 0..1}
    \cup {LogoutUser(valid) : valid \in BOOLEAN}
    \cup {LogPlay(p) : p \in Play} \cup {UpdatePlay(p) : p \in Play} \cup {DeletePlay(p) : p \in Play}
    \cup {LogCleaning(c) : c \in Cleaning} \cup {UpdateCleaning(c) : c \in Cleaning}
    \cup {DeleteCleaning(c) : c \in Cleaning} \cup {LogBoth(p, c) : p \in Play, c \in Cleaning}
    \cup {CreateUserStylus(x, isPrimary) : x \in Stylus, isPrimary \in BOOLEAN}
    \cup {UpdateUserStylus(x, isPrimary) : x \in Stylus, isPrimary \in BOOLEAN}
    \cup {DeleteUserStylus(x) : x \in Stylus}
    \cup {ProcessFoldersResponse(folders) : folders \in Seq(Folder)}

LEMMA Joined ==
  ASSUME NEW a \in Seq(Steps), NEW b \in Seq(Steps), NEW s, s = a \o b
  PROVE  /\ s \in Seq(Steps) /\ Len(s) = Len(a) + Len(b)
         /\ \A i \in 1..Len(a) : s[i] = a[i]
         /\ \A i \in 1..Len(b) : s[Len(a) + i] = b[i]
  OBVIOUS

LEMMA JoinedLast ==
  ASSUME NEW a \in Seq(Steps), NEW b \in Seq(Steps), NEW c \in Seq(Steps)
  PROVE  (a \o b) \o c = a \o (b \o c)
  OBVIOUS

LEMMA QuestionsKeepOrder ==
  ASSUME NEW s \in Seq(Steps), s = GetUser \/ s = ListStyluses
  PROVE  Ordered(s)
  <1>1. CASE s = GetUser
    <2>1. /\ Len(s) = 6 /\ s[1] = Get("user") /\ s[2] = Get("folders") /\ s[3] = Get("folder")
          /\ s[4] = Get("releases") /\ s[5] = Get("styluses") /\ s[6] = Get("plays")
      BY <1>1 DEF GetUser, RequireAuth, GetByOIDCUserID, GetUserFolders, GetFolderByID, GetUserReleasesByFolderID,
                  GetUserStyluses, GetUserPlayHistory
    <2> QED BY <2>1, GetUserOrdered
  <1>2. CASE s = ListStyluses
    <2>1. Len(s) = 2 /\ s[1] = Get("user") /\ s[2] = Get("styluses")
      BY <1>2 DEF ListStyluses, RequireAuth, GetByOIDCUserID, GetUserStyluses
    <2> QED BY <2>1, ListStylusesOrdered
  <1> QED BY <1>1, <1>2

LEMMA SavesKeepOrder ==
  ASSUME NEW s \in Seq(Steps),
         \/ s = UpdateDiscogsToken
         \/ \E f \in Folder : s = UpdateSelectedFolder(f)
         \/ \E p \in 0..1 : s = UpdateUserPreferences(p)
  PROVE  Ordered(s)
  <1>1. CASE s = UpdateDiscogsToken
    <2>1. Len(s) = 4 /\ s[1] = Get("user") /\ s[2] = Verify /\ s[3] = InsertConfig /\ s[4] = Clear("user")
      BY <1>1 DEF UpdateDiscogsToken, RequireAuth, GetByOIDCUserID, CreateOrUpdate, ClearUserCacheByUserID
    <2>2. Saves(InsertConfig)
      BY Words DEF Saves
    <2> QED BY <2>1, <2>2, VerifiedSaveOrdered
  <1>2. ASSUME NEW f \in Folder, s = UpdateSelectedFolder(f) PROVE Ordered(s)
    <2>1. Len(s) = 4 /\ s[1] = Get("user") /\ s[2] = SaveFolder(f) /\ s[3] = Clear("user") /\ s[4] = Clear("folders")
      BY <1>2 DEF UpdateSelectedFolder, RequireAuth, GetByOIDCUserID, UpdateConfiguration, ClearUserCacheByUserID,
                  ClearUserFoldersCache
    <2> QED BY <2>1, UpdateFolderOrdered
  <1>3. ASSUME NEW p \in 0..1, s = UpdateUserPreferences(p) PROVE Ordered(s)
    <2>1. Len(s) = 4 /\ s[1] = Get("user") /\ s[2] = Verify /\ s[3] = SavePreferences(p) /\ s[4] = Clear("user")
      BY <1>3 DEF UpdateUserPreferences, RequireAuth, GetByOIDCUserID, UpdateConfiguration, ClearUserCacheByUserID
    <2>2. Saves(SavePreferences(p))
      BY Ops DEF Saves
    <2> QED BY <2>1, <2>2, VerifiedSaveOrdered
  <1> QED BY <1>1, <1>2, <1>3

LEMMA SessionsKeepOrder ==
  ASSUME NEW s \in Seq(Steps), s = HandleOIDCCallback \/ \E valid \in BOOLEAN : s = LogoutUser(valid)
  PROVE  Ordered(s)
  <1>1. CASE s = HandleOIDCCallback
    <2>1. Len(s) = 4 /\ s[1] = Verify /\ s[2] = Get("user") /\ s[3] = Write({Update("account")}) /\ s[4] = Clear("user")
      BY <1>1 DEF HandleOIDCCallback, GetOrCreateOIDCUser, FindOrCreateOIDCUser, GetByOIDCUserID, UpdateUser, UpdateFromOIDC
    <2> QED BY <2>1, LogInOrdered
  <1>2. CASE s = LogoutUser(TRUE)
    <2>1. /\ Len(s) = 4 /\ s[1] = Get("user") /\ s[2] = Clear("user") /\ s[3] = Clear("plays")
          /\ s[4] = Clear("styluses")
      BY <1>2 DEF LogoutUser, RequireAuth, GetByOIDCUserID, ClearUserPlayHistoryCache, ClearUserStylusCache
    <2>2. \A i \in DOMAIN s : i > 1 => i \in {2, 3, 4}
      BY <2>1, DomainOf
    <2>3. \A i \in DOMAIN s : i > 1 => s[i][1] = "clear"
      BY <2>1, <2>2, Ops
    <2> QED BY <2>1, <2>3, LogOutOrdered
  <1>3. CASE s = LogoutUser(FALSE)
    <2>1. /\ Len(s) = 3 /\ s[1] = Get("user") /\ s[2] = Clear("plays") /\ s[3] = Clear("styluses")
      BY <1>3 DEF LogoutUser, RequireAuth, GetByOIDCUserID, ClearUserPlayHistoryCache, ClearUserStylusCache
    <2>2. \A i \in DOMAIN s : i > 1 => i \in {2, 3}
      BY <2>1, DomainOf
    <2>3. \A i \in DOMAIN s : i > 1 => s[i][1] = "clear"
      BY <2>1, <2>2, Ops
    <2> QED BY <2>1, <2>3, LogOutOrdered
  <1> QED BY <1>1, <1>2, <1>3

LEMMA HistoryKeepsOrder ==
  ASSUME NEW s \in Seq(Steps),
         \/ \E p \in Play : s \in {LogPlay(p), UpdatePlay(p), DeletePlay(p)}
         \/ \E c \in Cleaning : s \in {LogCleaning(c), UpdateCleaning(c), DeleteCleaning(c)}
  PROVE  Ordered(s)
  <1>1. ASSUME NEW p \in Play, s = LogPlay(p) PROVE Ordered(s)
    <2>1. /\ Len(s) = 5 /\ s[1] = Get("user") /\ s[2] = Verify /\ s[3] = Write({Insert(p)})
          /\ s[4] = Clear("plays") /\ s[5] = Clear("releases")
      BY <1>1 DEF LogPlay, RequireAuth, GetByOIDCUserID, CreatePlayHistory, ClearUserPlayHistoryCache,
                  ClearAllUserReleasesCache
    <2> QED BY <2>1, PlayOrdered
  <1>2. ASSUME NEW p \in Play, s = DeletePlay(p) PROVE Ordered(s)
    <2>1. /\ Len(s) = 5 /\ s[1] = Get("user") /\ s[2] = Verify /\ s[3] = Write({Delete(p)})
          /\ s[4] = Clear("plays") /\ s[5] = Clear("releases")
      BY <1>2 DEF DeletePlay, RequireAuth, GetByOIDCUserID, DeletePlayHistory, ClearUserPlayHistoryCache,
                  ClearAllUserReleasesCache
    <2> QED BY <2>1, PlayOrdered
  <1>3. ASSUME NEW p \in Play, s = UpdatePlay(p) PROVE Ordered(s)
    <2>1. /\ Len(s) = 6 /\ s[1] = Get("user") /\ s[2] = Verify /\ s[3] = Write({Update(p)})
          /\ s[4] = Reread(p) /\ s[5] = Clear("plays") /\ s[6] = Clear("releases")
      BY <1>3 DEF UpdatePlay, RequireAuth, GetByOIDCUserID, UpdatePlayHistory, ClearUserPlayHistoryCache,
                  ClearAllUserReleasesCache
    <2> QED BY <2>1, UpdatePlayOrdered
  <1>4. ASSUME NEW c \in Cleaning, s = LogCleaning(c) PROVE Ordered(s)
    <2>1. /\ Len(s) = 4 /\ s[1] = Get("user") /\ s[2] = Verify /\ s[3] = Write({Insert(c)})
          /\ s[4] = Clear("releases")
      BY <1>4 DEF LogCleaning, RequireAuth, GetByOIDCUserID, CreateCleaningHistory, ClearAllUserReleasesCache
    <2> QED BY <2>1, CleaningOrdered
  <1>5. ASSUME NEW c \in Cleaning, s = DeleteCleaning(c) PROVE Ordered(s)
    <2>1. /\ Len(s) = 4 /\ s[1] = Get("user") /\ s[2] = Verify /\ s[3] = Write({Delete(c)})
          /\ s[4] = Clear("releases")
      BY <1>5 DEF DeleteCleaning, RequireAuth, GetByOIDCUserID, DeleteCleaningHistory, ClearAllUserReleasesCache
    <2> QED BY <2>1, CleaningOrdered
  <1>6. ASSUME NEW c \in Cleaning, s = UpdateCleaning(c) PROVE Ordered(s)
    <2>1. /\ Len(s) = 5 /\ s[1] = Get("user") /\ s[2] = Verify /\ s[3] = Write({Update(c)})
          /\ s[4] = Reread(c) /\ s[5] = Clear("releases")
      BY <1>6 DEF UpdateCleaning, RequireAuth, GetByOIDCUserID, UpdateCleaningHistory, ClearAllUserReleasesCache
    <2> QED BY <2>1, UpdateCleaningOrdered
  <1> QED BY <1>1, <1>2, <1>3, <1>4, <1>5, <1>6

LEMMA BothKeepOrder ==
  ASSUME NEW s \in Seq(Steps), NEW p \in Play, NEW c \in Cleaning, s = LogBoth(p, c)
  PROVE  Ordered(s)
  <1> DEFINE a == LogPlay(p)
             b == CreateCleaningHistory(c) \o <<Commit>>
  <1>1. /\ Get("user") \in Steps /\ Verify \in Steps /\ Commit \in Steps /\ Clear("plays") \in Steps
        /\ Clear("releases") \in Steps
    BY StepsTyped, Keys
  <1>2. Write({Insert(p)}) \in Steps /\ Write({Insert(c)}) \in Steps
    <2>1. p \in Row /\ c \in Row
      BY DEF Row
    <2> QED BY <2>1, EffectTyped, StepsTyped
  <1>3. /\ a \in Seq(Steps) /\ Len(a) = 5 /\ a[1] = Get("user") /\ a[2] = Verify /\ a[3] = Write({Insert(p)})
        /\ a[4] = Clear("plays") /\ a[5] = Clear("releases")
    BY <1>1, <1>2 DEF LogPlay, RequireAuth, GetByOIDCUserID, CreatePlayHistory, ClearUserPlayHistoryCache,
                      ClearAllUserReleasesCache
  <1>4. /\ b \in Seq(Steps) /\ Len(b) = 3 /\ b[1] = Write({Insert(c)}) /\ b[2] = Clear("releases") /\ b[3] = Commit
    BY <1>1, <1>2 DEF CreateCleaningHistory, ClearAllUserReleasesCache
  <1>5. s = a \o b
    <2>1. s = a \o CreateCleaningHistory(c) \o <<Commit>>
      BY DEF LogBoth, LogPlay
    <2>2. CreateCleaningHistory(c) \in Seq(Steps) /\ <<Commit>> \in Seq(Steps)
      BY <1>1, <1>2 DEF CreateCleaningHistory, ClearAllUserReleasesCache
    <2>3. b = CreateCleaningHistory(c) \o <<Commit>>
      OBVIOUS
    <2> HIDE DEF a, b
    <2> QED BY <1>3, <2>1, <2>2, <2>3, JoinedLast
  <1> HIDE DEF a, b
  <1>6. /\ Len(s) = Len(a) + Len(b) /\ \A i \in 1..Len(a) : s[i] = a[i]
        /\ \A i \in 1..Len(b) : s[Len(a) + i] = b[i]
    <2>1. a \in Seq(Steps) /\ b \in Seq(Steps) /\ s = a \o b
      BY <1>3, <1>4, <1>5
    <2> QED BY <2>1, Joined
  <1>7. Len(s) = 8 /\ s[1] = a[1] /\ s[2] = a[2] /\ s[3] = a[3] /\ s[4] = a[4] /\ s[5] = a[5]
    BY <1>3, <1>4, <1>6
  <1>8. s[5 + 1] = b[1] /\ s[5 + 2] = b[2] /\ s[5 + 3] = b[3]
    BY <1>3, <1>4, <1>6
  <1>9. s[6] = b[1] /\ s[7] = b[2] /\ s[8] = b[3]
    BY <1>8
  <1>10. /\ s[1] = Get("user") /\ s[2] = Verify /\ s[3] = Write({Insert(p)}) /\ s[4] = Clear("plays")
         /\ s[5] = Clear("releases") /\ s[6] = Write({Insert(c)}) /\ s[7] = Clear("releases") /\ s[8] = Commit
    BY <1>3, <1>4, <1>7, <1>9, Zenon
  <1> QED BY <1>7, <1>10, LogBothOrdered

\* A statement about styluses and the commit, after other steps.
LEMMA StylusStatement ==
  ASSUME NEW p \in Seq(Steps), NEW e \in Steps, NEW s, s = p \o (<<e>> \o <<Clear("styluses")>>) \o <<Commit>>
  PROVE  /\ Len(s) = Len(p) + 3 /\ \A i \in 1..Len(p) : s[i] = p[i]
         /\ s[Len(p) + 1] = e /\ s[Len(p) + 2] = Clear("styluses") /\ s[Len(p) + 3] = Commit
  <1>1. PICK q : q = <<e>> \o <<Clear("styluses")>>
    OBVIOUS
  <1>2. PICK t : t = p \o q
    OBVIOUS
  <1>3. PICK c : c = <<Commit>>
    OBVIOUS
  <1>4. s = t \o c
    BY <1>1, <1>2, <1>3
  <1>5. q \in Seq(Steps) /\ Len(q) = 2 /\ q[1] = e /\ q[2] = Clear("styluses")
    BY <1>1, StepsTyped, Keys
  <1>6. c \in Seq(Steps) /\ Len(c) = 1 /\ c[1] = Commit
    BY <1>3, StepsTyped
  <1>7. /\ t \in Seq(Steps) /\ Len(t) = Len(p) + Len(q)
        /\ \A i \in 1..Len(p) : t[i] = p[i]
        /\ \A i \in 1..Len(q) : t[Len(p) + i] = q[i]
    <2>1. q \in Seq(Steps)
      BY <1>5
    <2> QED BY <1>2, <2>1, Joined
  <1>8. /\ Len(s) = Len(t) + Len(c)
        /\ \A i \in 1..Len(t) : s[i] = t[i]
        /\ \A i \in 1..Len(c) : s[Len(t) + i] = c[i]
    <2>1. c \in Seq(Steps) /\ t \in Seq(Steps)
      BY <1>6, <1>7
    <2> QED BY <1>4, <2>1, Joined
  <1>9. Len(p) \in Nat
    OBVIOUS
  <1>10. Len(t) = Len(p) + 2 /\ t[Len(p) + 1] = q[1] /\ t[Len(p) + 2] = q[2]
    BY <1>5, <1>7, <1>9
  <1>11. Len(s) = Len(p) + 3 /\ s[(Len(p) + 2) + 1] = c[1]
    BY <1>6, <1>8, <1>9, <1>10
  <1>12. /\ 1..Len(p) \subseteq 1..Len(t) /\ Len(p) + 1 \in 1..Len(t) /\ Len(p) + 2 \in 1..Len(t)
         /\ (Len(p) + 2) + 1 = Len(p) + 3
    BY <1>9, <1>10
  <1> QED BY <1>5, <1>6, <1>7, <1>8, <1>10, <1>11, <1>12

LEMMA PlainStylus ==
  ASSUME NEW s \in Seq(Steps), NEW x \in Stylus, NEW d \in {Insert(x), Update(x)}, Write({d} \cup {}) \in Steps
  PROVE  s = <<Get("user")>> \o <<Verify>> \o <<>> \o (<<Write({d} \cup {})>> \o <<Clear("styluses")>>) \o <<Commit>>
         => Ordered(s)
  <1>1. ASSUME s = <<Get("user")>> \o <<Verify>> \o <<>> \o (<<Write({d} \cup {})>> \o <<Clear("styluses")>>) \o <<Commit>>
        PROVE  Ordered(s)
    <2>1. PICK e \in Steps : e = Write({d} \cup {})
      OBVIOUS
    <2>2. PICK p : p = <<Get("user")>> \o <<Verify>> \o <<>>
      OBVIOUS
    <2>3. p \in Seq(Steps) /\ Len(p) = 2 /\ p[1] = Get("user") /\ p[2] = Verify
      <3>1. Get("user") \in Steps /\ Verify \in Steps
        BY StepsTyped, Keys
      <3> QED BY <2>2, <3>1
    <2>4. s = p \o (<<e>> \o <<Clear("styluses")>>) \o <<Commit>>
      BY <1>1, <2>1, <2>2
    <2>5. /\ Len(s) = Len(p) + 3 /\ \A i \in 1..Len(p) : s[i] = p[i]
          /\ s[Len(p) + 1] = e /\ s[Len(p) + 2] = Clear("styluses") /\ s[Len(p) + 3] = Commit
      <3>1. p \in Seq(Steps)
        BY <2>3
      <3> QED BY <2>4, <3>1, StylusStatement
    <2>6. Len(s) = 5 /\ s[1] = Get("user") /\ s[2] = Verify /\ s[3] = e /\ s[4] = Clear("styluses") /\ s[5] = Commit
      BY <2>3, <2>5
    <2> QED BY <2>1, <2>6, StylusOrdered
  <1> QED BY <1>1

LEMMA PrimaryStylus ==
  ASSUME NEW s \in Seq(Steps), NEW x \in Stylus, NEW d \in {Insert(x), Update(x)}, Write({d} \cup {SetPrimary(x)}) \in Steps
  PROVE  s = <<Get("user")>> \o <<Verify>> \o (<<UnsetAll>> \o <<Clear("styluses")>>)
                 \o (<<Write({d} \cup {SetPrimary(x)})>> \o <<Clear("styluses")>>) \o <<Commit>>
         => Ordered(s)
  <1>1. ASSUME s = <<Get("user")>> \o <<Verify>> \o (<<UnsetAll>> \o <<Clear("styluses")>>)
                        \o (<<Write({d} \cup {SetPrimary(x)})>> \o <<Clear("styluses")>>) \o <<Commit>>
        PROVE  Ordered(s)
    <2>1. PICK e \in Steps : e = Write({d} \cup {SetPrimary(x)})
      OBVIOUS
    <2>2. PICK p : p = <<Get("user")>> \o <<Verify>> \o (<<UnsetAll>> \o <<Clear("styluses")>>)
      OBVIOUS
    <2>3. /\ p \in Seq(Steps) /\ Len(p) = 4 /\ p[1] = Get("user") /\ p[2] = Verify
          /\ p[3] = UnsetAll /\ p[4] = Clear("styluses")
      <3>1. Get("user") \in Steps /\ Verify \in Steps /\ UnsetAll \in Steps /\ Clear("styluses") \in Steps
        BY StepsTyped, Keys
      <3> QED BY <2>2, <3>1
    <2>4. s = p \o (<<e>> \o <<Clear("styluses")>>) \o <<Commit>>
      BY <1>1, <2>1, <2>2
    <2>5. /\ Len(s) = Len(p) + 3 /\ \A i \in 1..Len(p) : s[i] = p[i]
          /\ s[Len(p) + 1] = e /\ s[Len(p) + 2] = Clear("styluses") /\ s[Len(p) + 3] = Commit
      <3>1. p \in Seq(Steps)
        BY <2>3
      <3> QED BY <2>4, <3>1, StylusStatement
    <2>6. /\ Len(s) = 7 /\ s[1] = Get("user") /\ s[2] = Verify /\ s[3] = UnsetAll /\ s[4] = Clear("styluses")
          /\ s[5] = e /\ s[6] = Clear("styluses") /\ s[7] = Commit
      BY <2>3, <2>5
    <2> QED BY <2>1, <2>6, PrimaryStylusOrdered
  <1> QED BY <1>1

LEMMA StylusesKeepOrder ==
  ASSUME NEW s \in Seq(Steps), NEW x \in Stylus,
         \/ s = DeleteUserStylus(x)
         \/ \E isPrimary \in BOOLEAN : s \in {CreateUserStylus(x, isPrimary), UpdateUserStylus(x, isPrimary)}
  PROVE  Ordered(s)
  <1>1. CASE s = DeleteUserStylus(x)
    <2>1. Len(s) = 3 /\ s[1] = Get("user") /\ s[2] = Write({Delete(x)}) /\ s[3] = Clear("styluses")
      BY <1>1 DEF DeleteUserStylus, RequireAuth, GetByOIDCUserID, DeleteStylus, ClearUserStylusCache
    <2> QED BY <2>1, DeleteStylusOrdered
  <1>0. /\ {Insert(x)} \cup {} \in SUBSET Effect /\ {Update(x)} \cup {} \in SUBSET Effect
        /\ {Insert(x)} \cup {SetPrimary(x)} \in SUBSET Effect /\ {Update(x)} \cup {SetPrimary(x)} \in SUBSET Effect
    <2>1. x \in Row
      BY DEF Row
    <2> QED BY <2>1, EffectTyped
  <1>2. CASE s = CreateUserStylus(x, FALSE)
    <2>1. s = <<Get("user")>> \o <<Verify>> \o <<>>
                \o (<<Write({Insert(x)} \cup {})>> \o <<Clear("styluses")>>) \o <<Commit>>
      BY <1>2 DEF CreateUserStylus, RequireAuth, GetByOIDCUserID, IfPrimary, CreateStylus, Primary, ClearUserStylusCache
    <2>2. Write({Insert(x)} \cup {}) \in Steps
      BY <1>0, StepsTyped
    <2> QED BY <2>1, <2>2, PlainStylus
  <1>3. CASE s = UpdateUserStylus(x, FALSE)
    <2>1. s = <<Get("user")>> \o <<Verify>> \o <<>>
                \o (<<Write({Update(x)} \cup {})>> \o <<Clear("styluses")>>) \o <<Commit>>
      BY <1>3 DEF UpdateUserStylus, RequireAuth, GetByOIDCUserID, IfPrimary, UpdateStylus, Primary, ClearUserStylusCache
    <2>2. Write({Update(x)} \cup {}) \in Steps
      BY <1>0, StepsTyped
    <2> QED BY <2>1, <2>2, PlainStylus
  <1>4. CASE s = CreateUserStylus(x, TRUE)
    <2>1. s = <<Get("user")>> \o <<Verify>> \o (<<UnsetAll>> \o <<Clear("styluses")>>)
                \o (<<Write({Insert(x)} \cup {SetPrimary(x)})>> \o <<Clear("styluses")>>) \o <<Commit>>
      BY <1>4 DEF CreateUserStylus, RequireAuth, GetByOIDCUserID, IfPrimary, UnsetAllPrimary, CreateStylus, Primary, ClearUserStylusCache
    <2>2. Write({Insert(x)} \cup {SetPrimary(x)}) \in Steps
      BY <1>0, StepsTyped
    <2> QED BY <2>1, <2>2, PrimaryStylus
  <1>5. CASE s = UpdateUserStylus(x, TRUE)
    <2>1. s = <<Get("user")>> \o <<Verify>> \o (<<UnsetAll>> \o <<Clear("styluses")>>)
                \o (<<Write({Update(x)} \cup {SetPrimary(x)})>> \o <<Clear("styluses")>>) \o <<Commit>>
      BY <1>5 DEF UpdateUserStylus, RequireAuth, GetByOIDCUserID, IfPrimary, UnsetAllPrimary, UpdateStylus, Primary, ClearUserStylusCache
    <2>2. Write({Update(x)} \cup {SetPrimary(x)}) \in Steps
      BY <1>0, StepsTyped
    <2> QED BY <2>1, <2>2, PrimaryStylus
  <1> QED BY <1>1, <1>2, <1>3, <1>4, <1>5

LEMMA ReleasesKeepOrder ==
  ASSUME NEW s \in Seq(Steps), s = ExecuteSyncOperations
  PROVE  Ordered(s)
  <1>1. Len(s) = 3 /\ s[1] = Write({Upsert("collection")}) /\ s[2] = Clear("releases") /\ s[3] = Commit
    BY DEF ExecuteSyncOperations, ReleaseBatch
  <1> QED BY <1>1, ReleasesOrdered

\* What follows the upserts.
LEMMA OrphansDeleted ==
  ASSUME NEW folders \in Seq(Folder), NEW d,
         d = <<Commit>> \o DeleteOrphanFolders(folders) \o <<Commit>> \o ClearUserFoldersCache
  PROVE  /\ d \in Seq(Steps) /\ Len(d) = 5 /\ d[1] = Commit
         /\ d[2] = Write({Delete(f) : f \in Folder \ Range(folders)})
         /\ d[3] = Clear("folders") /\ d[4] = Commit /\ d[5] = Clear("folders")
  <1>1. Commit \in Steps /\ Clear("folders") \in Steps
    BY StepsTyped, Keys
  <1>2. Write({Delete(f) : f \in Folder \ Range(folders)}) \in Steps
    <2>1. \A f \in Folder : Delete(f) \in Effect
      BY EffectTyped DEF Row
    <2>2. {Delete(f) : f \in Folder \ Range(folders)} \in SUBSET Effect
      BY <2>1
    <2> QED BY <2>2, StepsTyped
  <1> QED BY <1>1, <1>2 DEF DeleteOrphanFolders, ClearUserFoldersCache

LEMMA FoldersUpserted ==
  ASSUME NEW folders \in Seq(Folder), folders # <<>>, NEW u, u = UpsertFolders(folders)
  PROVE  /\ u \in Seq(Steps) /\ Len(u) = 2 + Len(folders)
         /\ u[1] = Write({Upsert(f) : f \in Range(folders)}) /\ u[2] = Clear("folders")
         /\ \A i \in 1..Len(folders) : u[2 + i] = Clear(folders[i])
  <1> DEFINE a == <<Write({Upsert(f) : f \in Range(folders)})>> \o ClearUserFoldersCache
             b == ClearIndividualFolderCaches(folders)
  <1>1. Range(folders) \subseteq Folder
    BY DEF Range
  <1>2. Write({Upsert(f) : f \in Range(folders)}) \in Steps
    <2>1. \A f \in Folder : Upsert(f) \in Effect
      BY EffectTyped DEF Row
    <2>2. {Upsert(f) : f \in Range(folders)} \in SUBSET Effect
      BY <1>1, <2>1
    <2> QED BY <2>2, StepsTyped
  <1>3. /\ a \in Seq(Steps) /\ Len(a) = 2 /\ a[1] = Write({Upsert(f) : f \in Range(folders)}) /\ a[2] = Clear("folders")
    <2>1. Clear("folders") \in Steps
      BY StepsTyped, Keys
    <2> QED BY <1>2, <2>1 DEF ClearUserFoldersCache
  <1>4. /\ b \in Seq(Steps) /\ Len(b) = Len(folders) /\ \A i \in 1..Len(folders) : b[i] = Clear(folders[i])
    <2>1. \A f \in Folder : Clear(f) \in Steps
      BY StepsTyped DEF Key
    <2>2. DOMAIN folders = 1..Len(folders) /\ Len(folders) \in Nat
      OBVIOUS
    <2>3. b = [i \in 1..Len(folders) |-> Clear(folders[i])]
      BY <2>2 DEF ClearIndividualFolderCaches
    <2>4. \A i \in 1..Len(folders) : Clear(folders[i]) \in Steps
      BY <2>1
    <2>5. b \in Seq(Steps)
      BY <2>2, <2>3, <2>4
    <2>6. Len(b) = Len(folders)
      BY <2>2, <2>3, <2>5
    <2> QED BY <2>3, <2>5, <2>6
  <1>5. u = a \o b
    BY DEF UpsertFolders
  <1> HIDE DEF a, b
  <1>6. /\ u \in Seq(Steps) /\ Len(u) = Len(a) + Len(b)
        /\ \A i \in 1..Len(a) : u[i] = a[i]
        /\ \A i \in 1..Len(b) : u[Len(a) + i] = b[i]
    <2>1. a \in Seq(Steps) /\ b \in Seq(Steps)
      BY <1>3, <1>4
    <2> QED BY <1>5, <2>1, Joined
  <1> QED BY <1>3, <1>4, <1>6

LEMMA FoldersInTwo ==
  ASSUME NEW folders \in Seq(Folder), UpsertFolders(folders) \in Seq(Steps)
  PROVE  ProcessFoldersResponse(folders) =
           UpsertFolders(folders) \o (<<Commit>> \o DeleteOrphanFolders(folders) \o <<Commit>> \o ClearUserFoldersCache)
  <1>1. Commit \in Steps /\ Clear("folders") \in Steps
    BY StepsTyped, Keys
  <1>2. Write({Delete(f) : f \in Folder \ Range(folders)}) \in Steps
    <2>1. \A f \in Folder : Delete(f) \in Effect
      BY EffectTyped DEF Row
    <2>2. {Delete(f) : f \in Folder \ Range(folders)} \in SUBSET Effect
      BY <2>1
    <2> QED BY <2>2, StepsTyped
  <1>3. DeleteOrphanFolders(folders) \in Seq(Steps) /\ <<Commit>> \in Seq(Steps) /\ ClearUserFoldersCache \in Seq(Steps)
    BY <1>1, <1>2 DEF DeleteOrphanFolders, ClearUserFoldersCache
  <1>4. PICK u, a, b, e : /\ u = UpsertFolders(folders) /\ a = <<Commit>> /\ b = DeleteOrphanFolders(folders)
                          /\ e = ClearUserFoldersCache
    OBVIOUS
  <1>5. u \o a \o b \o a \o e = u \o (a \o b \o a \o e)
    <2>1. u \in Seq(Steps) /\ a \in Seq(Steps) /\ b \in Seq(Steps) /\ e \in Seq(Steps)
      BY <1>3, <1>4
    <2>2. PICK x : x = a \o b
      OBVIOUS
    <2>3. PICK y : y = x \o a
      OBVIOUS
    <2>4. x \in Seq(Steps)
      BY <2>1, <2>2, Joined
    <2>5. y \in Seq(Steps)
      BY <2>1, <2>3, <2>4, Joined
    <2>6. (u \o a) \o b = u \o x
      <3>1. u \in Seq(Steps) /\ a \in Seq(Steps) /\ b \in Seq(Steps)
        BY <2>1
      <3>2. (u \o a) \o b = u \o (a \o b)
        BY ONLY <3>1, JoinedLast, Zenon
      <3> QED BY <2>2, <3>2
    <2>7. (u \o x) \o a = u \o y
      <3>1. u \in Seq(Steps) /\ x \in Seq(Steps) /\ a \in Seq(Steps)
        BY <2>1, <2>4
      <3>2. (u \o x) \o a = u \o (x \o a)
        BY ONLY <3>1, JoinedLast, Zenon
      <3> QED BY <2>3, <3>2
    <2>8. (u \o y) \o e = u \o (y \o e)
      <3>1. u \in Seq(Steps) /\ y \in Seq(Steps) /\ e \in Seq(Steps)
        BY <2>1, <2>5
      <3> QED BY ONLY <3>1, JoinedLast, Zenon
    <2> QED BY <2>2, <2>3, <2>6, <2>7, <2>8, Zenon
  <1> QED BY <1>4, <1>5 DEF ProcessFoldersResponse

LEMMA FoldersKeepOrder ==
  ASSUME NEW s \in Seq(Steps), NEW folders \in Seq(Folder)
  PROVE  s = ProcessFoldersResponse(folders) => Ordered(s)
  <1>1. ASSUME s = ProcessFoldersResponse(folders) PROVE Ordered(s)
    <2>1. PICK d : d = <<Commit>> \o DeleteOrphanFolders(folders) \o <<Commit>> \o ClearUserFoldersCache
      OBVIOUS
    <2>2. PICK F \in SUBSET Folder : F = Folder \ Range(folders)
      OBVIOUS
    <2>3. /\ d \in Seq(Steps) /\ Len(d) = 5 /\ d[1] = Commit
          /\ d[2] = Write({Delete(f) : f \in F})
          /\ d[3] = Clear("folders") /\ d[4] = Commit /\ d[5] = Clear("folders")
      BY <2>1, <2>2, OrphansDeleted
    <2>4. CASE folders = <<>>
      <3>1. UpsertFolders(folders) = <<>>
        BY <2>4 DEF UpsertFolders
      <3>2. s = <<>> \o d
        <4>1. UpsertFolders(folders) \in Seq(Steps)
          BY <3>1
        <4> QED BY <1>1, <2>1, <3>1, <4>1, FoldersInTwo, Zenon
      <3>3. s = d
        BY <2>3, <3>2
      <3> QED BY <2>3, <3>3, NoFoldersOrdered
    <2>5. CASE folders # <<>>
      <3>1. PICK u : u = UpsertFolders(folders)
        OBVIOUS
      <3>2. PICK G \in SUBSET Folder : G = Range(folders)
        <4>1. Range(folders) \subseteq Folder
          BY DEF Range
        <4> QED BY <4>1
      <3>3. /\ u \in Seq(Steps) /\ Len(u) = 2 + Len(folders)
            /\ u[1] = Write({Upsert(f) : f \in G}) /\ u[2] = Clear("folders")
            /\ \A i \in 1..Len(folders) : u[2 + i] = Clear(folders[i])
        BY <2>5, <3>1, <3>2, FoldersUpserted
      <3>4. s = u \o d
        BY <1>1, <2>1, <3>1, <3>3, FoldersInTwo
      <3>5. /\ Len(s) = Len(u) + Len(d)
            /\ \A i \in 1..Len(u) : s[i] = u[i]
            /\ \A i \in 1..Len(d) : s[Len(u) + i] = d[i]
        <4>1. u \in Seq(Steps) /\ d \in Seq(Steps)
          BY <2>3, <3>3
        <4> QED BY <3>4, <4>1, Joined
      <3>6. PICK n \in Nat : n = Len(folders)
        OBVIOUS
      <3>7. Len(s) = n + 7 /\ s[1] = u[1] /\ s[2] = u[2] /\ \A i \in 1..n : s[i + 2] = Clear(folders[i])
        <4>1. /\ 1 \in 1..Len(u) /\ 2 \in 1..Len(u)
              /\ \A i \in 1..n : 2 + i \in 1..Len(u) /\ 2 + i = i + 2
          BY <3>3, <3>6
        <4> QED BY <2>3, <3>3, <3>5, <3>6, <4>1
      <3>8. s[n + 3] = Commit /\ s[n + 4] = d[2] /\ s[n + 5] = d[3] /\ s[n + 6] = Commit /\ s[n + 7] = d[5]
        <4>1. /\ 1 \in 1..Len(d) /\ 2 \in 1..Len(d) /\ 3 \in 1..Len(d) /\ 4 \in 1..Len(d) /\ 5 \in 1..Len(d)
          BY <2>3
        <4>2. /\ Len(u) + 1 = n + 3 /\ Len(u) + 2 = n + 4 /\ Len(u) + 3 = n + 5 /\ Len(u) + 4 = n + 6
              /\ Len(u) + 5 = n + 7
          BY <3>3, <3>6
        <4>3. /\ s[Len(u) + 1] = d[1] /\ s[Len(u) + 2] = d[2] /\ s[Len(u) + 3] = d[3] /\ s[Len(u) + 4] = d[4]
              /\ s[Len(u) + 5] = d[5]
          BY <3>5, <4>1
        <4> QED BY <2>3, <4>2, <4>3, Zenon
      <3>9. \A i \in 1..n : s[i + 2][1] = "clear"
        BY <3>7, Ops
      <3>10. \A f \in G : \E i \in 1..n : s[i + 2] = Clear(f)
        <4>1. \A f \in G : \E i \in 1..n : f = folders[i]
          BY <3>2, <3>6 DEF Range
        <4> QED BY <3>7, <4>1
      <3>11. /\ s[1] = Write({Upsert(f) : f \in G}) /\ s[2] = Clear("folders")
             /\ s[n + 4] = Write({Delete(f) : f \in F}) /\ s[n + 5] = Clear("folders") /\ s[n + 7] = Clear("folders")
        BY <2>3, <3>3, <3>7, <3>8, Zenon
      <3>12. Len(s) = n + 7 /\ s[n + 3] = Commit /\ s[n + 6] = Commit
        BY <3>7, <3>8, Zenon
      <3> QED BY <3>9, <3>10, <3>11, <3>12, FoldersOrdered
    <2> QED BY <2>4, <2>5
  <1> QED BY <1>1

\* Whatever requests are made, the code's handlers keep the order.
LEMMA HandlersKeepOrder == Workload \subseteq [Req -> CodeHandlers] => HandlersOrdered
  <1> SUFFICES ASSUME Workload \subseteq [Req -> CodeHandlers], NEW w \in Workload, NEW r \in Req
               PROVE  Ordered(w[r])
    BY DEF HandlersOrdered
  <1>1. PICK s : s = w[r]
    OBVIOUS
  <1>2. s \in Seq(Steps) /\ s \in CodeHandlers
    BY <1>1, WorkloadAssumption
  <1>3. CASE s \in {GetUser, ListStyluses, UpdateDiscogsToken, HandleOIDCCallback, ExecuteSyncOperations}
    BY <1>1, <1>2, <1>3, QuestionsKeepOrder, SavesKeepOrder, SessionsKeepOrder, ReleasesKeepOrder
  <1>4. CASE \/ \E f \in Folder : s = UpdateSelectedFolder(f)
             \/ \E p \in 0..1 : s = UpdateUserPreferences(p)
    BY <1>1, <1>2, <1>4, SavesKeepOrder
  <1>5. CASE \E valid \in BOOLEAN : s = LogoutUser(valid)
    BY <1>1, <1>2, <1>5, SessionsKeepOrder
  <1>6. CASE \/ \E p \in Play : s \in {LogPlay(p), UpdatePlay(p), DeletePlay(p)}
             \/ \E c \in Cleaning : s \in {LogCleaning(c), UpdateCleaning(c), DeleteCleaning(c)}
    BY <1>1, <1>2, <1>6, HistoryKeepsOrder
  <1>7. CASE \E p \in Play, c \in Cleaning : s = LogBoth(p, c)
    BY <1>1, <1>2, <1>7, BothKeepOrder
  <1>8. CASE \E x \in Stylus :
               \/ s = DeleteUserStylus(x)
               \/ \E isPrimary \in BOOLEAN : s \in {CreateUserStylus(x, isPrimary), UpdateUserStylus(x, isPrimary)}
    BY <1>1, <1>2, <1>8, StylusesKeepOrder
  <1>9. CASE \E folders \in Seq(Folder) : s = ProcessFoldersResponse(folders)
    BY <1>1, <1>2, <1>9, FoldersKeepOrder
  <1>10. CASE s = <<>>
    BY <1>1, <1>10, NothingOrdered
  <1> QED BY <1>2, <1>3, <1>4, <1>5, <1>6, <1>7, <1>8, <1>9, <1>10 DEF CodeHandlers

\* For any requests handled by the functions of the code, and any failed deletions, expiries
\* and crashes: in the rows that an entry is cleared for (not those preloaded into it, and
\* for the folder it was filled for), it differs from the database only while a request has
\* yet to clear it, or if it was filled during such a change or left by a fault, or if it is
\* the entry of a deleted folder.
THEOREM UserDataRowsOldOnlyByOverlap ==
  Workload \subseteq [Req -> CodeHandlers] => (Spec => []RowsOldOnlyByOverlap)
  BY HandlersKeepOrder, OrderedOldRows

\* Under the same conditions, saving the folder or the preferences changes the other field,
\* back to what it was, only if another request wrote the configuration after the copy was
\* read or while it was cached.
THEOREM UserDataNoLostUpdate == Workload \subseteq [Req -> CodeHandlers] => (Spec => NoLostUpdate)
  BY HandlersKeepOrder, OrderedNoLost

\* Under the same conditions a user gets a second primary stylus only when a transaction
\* commits that overlapped another change of the user's styluses.
THEOREM UserDataOnePrimary == Workload \subseteq [Req -> CodeHandlers] => (Spec => OnePrimary)
  BY HandlersKeepOrder, OrderedOnePrimary

=============================================================================
