----------------------- MODULE DiscogsRateLimiterProofs -----------------------
(***************************************************************************)
(* Type correctness of DiscogsRateLimiter and its two bounds, for any      *)
(* number of callers, limit and window.                                    *)
(***************************************************************************)
EXTENDS DiscogsRateLimiter, FiniteSetTheorems, TLAPS

N == Cardinality(Caller)

\* A caller that lags behind the clock is in a check.
TypeInv == TypeOK /\ \A c \in Caller : pc[c] \notin Checking => reading[c] = 0

-----------------------------------------------------------------------------
(* Facts about the operators *)

LEMMA CallersCount ==
  /\ N \in Nat \ {0}
  /\ \A S \in SUBSET Caller :
       IsFiniteSet(S) /\ Cardinality(S) \in Nat /\ Cardinality(S) <= N
<1>1. IsFiniteSet(Caller) /\ Caller # {}
  BY LimiterAssumption
<1>2. N \in Nat
  BY <1>1, FS_CardinalityType DEF N
<1>3. N # 0
  BY <1>1, FS_EmptySet DEF N
<1>4. ASSUME NEW S \in SUBSET Caller
      PROVE  IsFiniteSet(S) /\ Cardinality(S) \in Nat /\ Cardinality(S) <= N
  BY <1>1, FS_Subset, FS_CardinalityType DEF N
<1> QED
  BY <1>2, <1>3, <1>4

LEMMA MembersCount ==
  \A S \in SUBSET RequestId :
    /\ IsFiniteSet(S) /\ Cardinality(S) \in Nat
    /\ \A T \in SUBSET S : Cardinality(T) <= Cardinality(S)
<1> TAKE S \in SUBSET RequestId
<1>1. IsFiniteSet(S) /\ Cardinality(S) \in Nat
  BY LimiterAssumption, FS_Subset, FS_CardinalityType
<1>2. ASSUME NEW T \in SUBSET S
      PROVE  Cardinality(T) <= Cardinality(S)
  BY <1>1, FS_Subset
<1> QED
  BY <1>1, <1>2

LEMMA ThrottleDelayType == \A n \in Nat : ThrottleDelay(n) \in Nat
BY LimiterAssumption DEF ThrottleDelay

\* A request that is granted gets an id that nothing else uses.
LEMMA Granted ==
  ASSUME NEW c \in Caller, AddRequest(c), ~Fail(c, "cache")
  PROVE  \E id \in RequestId \ members :
           /\ age[id] = Old
           /\ members' = members \cup {id}
           /\ age' = [age EXCEPT ![id] = reading[c]]
           /\ pc[c] = "add"
           /\ pc' = [pc EXCEPT ![c] = "expire"]
           /\ reading' = [reading EXCEPT ![c] = 0]
           /\ UNCHANGED <<ttl, lapsed, count, wait>>
<1> DEFINE id == CHOOSE i \in Unused : TRUE
<1>1. Unused # {} /\ members' = members \cup {id} /\ age' = [age EXCEPT ![id] = reading[c]]
  BY DEF AddRequest
<1>2. id \in RequestId \ members /\ age[id] = Old
  BY <1>1 DEF Unused
<1> HIDE DEF id
<1>3. /\ pc[c] = "add"
      /\ pc' = [pc EXCEPT ![c] = "expire"]
      /\ reading' = [reading EXCEPT ![c] = 0]
      /\ UNCHANGED <<ttl, lapsed, count, wait>>
  BY DEF AddRequest, Goto
<1> QED
  BY <1>1, <1>2, <1>3

\* A step that only moves callers keeps the types of what it leaves alone.
LEMMA ReturnType ==
  ASSUME TypeInv, NEW c \in Caller, Return(c)
  PROVE  /\ pc' = [pc EXCEPT ![c] = "idle"]
         /\ pc' \in [Caller -> Labels]
         /\ reading' \in [Caller -> 0..MaxLag]
         /\ count' \in [Caller -> Nat]
         /\ wait' \in [Caller -> Nat]
         /\ \A d \in Caller : pc'[d] \notin Checking => reading'[d] = 0
BY LimiterAssumption DEF TypeInv, TypeOK, Return, Goto, Labels, Checking

-----------------------------------------------------------------------------
(* Type correctness *)

LEMMA InitType == Init => TypeInv
<1> SUFFICES ASSUME Init PROVE TypeInv
  OBVIOUS
<1>1. Old \in Ages
  BY LimiterAssumption DEF Ages, Old
<1>2. age \in [RequestId -> Ages] /\ pc \in [Caller -> Labels]
  BY <1>1 DEF Init, Labels
<1>3. members \subseteq RequestId /\ lapsed \in BOOLEAN
  BY DEF Init
<1>4. ttl \in 0..(2 * Window)
  <2>1. ttl = 0 /\ Window \in Nat
    BY LimiterAssumption DEF Init
  <2> QED
    BY <2>1
<1>5. /\ reading \in [Caller -> 0..MaxLag] /\ count \in [Caller -> Nat]
      /\ wait \in [Caller -> Nat]
  BY LimiterAssumption DEF Init
<1>6. \A c \in Caller : reading[c] = 0
  BY DEF Init
<1> QED
  BY <1>2, <1>3, <1>4, <1>5, <1>6 DEF TypeInv, TypeOK

LEMMA FailType ==
  ASSUME TypeInv, NEW c \in Caller, NEW kind, Fail(c, kind)
  PROVE  TypeInv'
BY ReturnType DEF TypeInv, TypeOK, Fail, key, Ages

LEMMA StepType ==
  ASSUME TypeInv, NEW c \in Caller, Step(c)
  PROVE  TypeInv'
<1> USE LimiterAssumption DEF TypeInv, TypeOK
<1>1. CASE Call(c)
  BY <1>1 DEF Call, Goto, key, locals, Labels, Checking
<1>2. CASE RemoveExpired(c)
  <2>1. CASE Fail(c, "cache")
    BY <2>1, FailType
  <2>2. CASE ~Fail(c, "cache")
    BY <1>2, <2>2 DEF RemoveExpired, SetMembers, Goto, locals, Labels, Checking
  <2> QED
    BY <2>1, <2>2
<1>3. CASE CountRequests(c)
  <2> DEFINE n == Cardinality(members)
  <2>1. n \in Nat /\ ThrottleDelay(n) \in Nat
    BY MembersCount, ThrottleDelayType
  <2>2. CASE Fail(c, "cache")
    BY <2>2, FailType
  <2>3. CASE n >= Limit /\ Throttle(c, n) /\ UNCHANGED key
    BY <2>1, <2>3 DEF Throttle, Goto, key, Labels, Checking
  <2>4. CASE n < Limit /\ Goto(c, "add") /\ count' = [count EXCEPT ![c] = n]
             /\ UNCHANGED <<reading, wait>> /\ UNCHANGED key
    BY <1>3, <2>1, <2>4 DEF CountRequests, Goto, key, Labels, Checking
  <2> QED
    BY <1>3, <2>2, <2>3, <2>4 DEF CountRequests
<1>4. CASE AddRequest(c)
  <2>1. CASE Fail(c, "cache")
    BY <2>1, FailType
  <2>2. CASE ~Fail(c, "cache")
    <3>1. PICK id \in RequestId \ members :
            /\ members' = members \cup {id}
            /\ age' = [age EXCEPT ![id] = reading[c]]
            /\ pc' = [pc EXCEPT ![c] = "expire"]
            /\ reading' = [reading EXCEPT ![c] = 0]
            /\ UNCHANGED <<ttl, lapsed, count, wait>>
      BY <1>4, <2>2, Granted
    <3>2. reading[c] \in Ages
      BY DEF Ages, Old
    <3> QED
      BY <3>1, <3>2 DEF Labels, Checking
  <2> QED
    BY <2>1, <2>2
<1>5. CASE ExpireKey(c)
  BY <1>5, ReturnType DEF ExpireKey
<1>6. CASE WaitForSlot(c)
  <2>1. CASE Fail(c, "cache")
    BY <2>1, FailType
  <2>2. CASE ~Fail(c, "cache")
    BY <1>6, <2>2 DEF WaitForSlot, Goto, key, Labels, Checking
  <2> QED
    BY <2>1, <2>2
<1>7. CASE Retry(c)
  BY <1>7 DEF Retry, Goto, key, locals, Labels, Checking
<1>8. CASE Cancel(c)
  BY <1>8, FailType DEF Cancel
<1> QED
  BY <1>1, <1>2, <1>3, <1>4, <1>5, <1>6, <1>7, <1>8 DEF Step

LEMMA TickType ==
  ASSUME TypeInv, Tick
  PROVE  TypeInv'
<1> USE LimiterAssumption DEF TypeInv, TypeOK, Tick
<1>1. members' \subseteq RequestId /\ ttl' \in 0..(2 * Window)
  OBVIOUS
<1>2. age' \in [RequestId -> Ages]
  BY DEF Ages, Old
<1>3. reading' \in [Caller -> 0..MaxLag]
  OBVIOUS
<1>4. wait' \in [Caller -> Nat]
  OBVIOUS
<1>5. lapsed' \in BOOLEAN
  OBVIOUS
<1> QED
  BY <1>1, <1>2, <1>3, <1>4, <1>5

LEMMA TypeInvInductive == TypeInv /\ [Next]_vars => TypeInv'
<1> SUFFICES ASSUME TypeInv, [Next]_vars PROVE TypeInv'
  OBVIOUS
<1>1. CASE UNCHANGED vars
  BY <1>1 DEF vars, TypeInv, TypeOK
<1> QED
  BY <1>1, StepType, TickType DEF Next

LEMMA TypeInvHolds == Spec => []TypeInv
BY InitType, TypeInvInductive, PTL DEF Spec

\* Types of the sorted set, of its key and of the callers' locals
\* (checkAndAddRequest and CheckUserRateLimit).
THEOREM LimiterTypeCorrect == Spec => []TypeOK
<1>1. TypeInv => TypeOK
  BY DEF TypeInv
<1> QED
  BY <1>1, TypeInvHolds, PTL

-----------------------------------------------------------------------------
(* The bound on the sorted set *)

Adders == {c \in Caller : pc[c] = "add"}

\* Callers that have counted and not yet added come on top of the members: they
\* may all have seen the same count.
StoredInv == Cardinality(members) + Cardinality(Adders) <= Limit + N - 1

LEMMA StoredShrinks ==
  ASSUME TypeInv, StoredInv, members' \subseteq members, Adders' \subseteq Adders
  PROVE  StoredInv'
<1>1. Cardinality(members') <= Cardinality(members)
  BY MembersCount DEF TypeInv, TypeOK
<1>2. Adders \in SUBSET Caller /\ IsFiniteSet(Adders)
  BY CallersCount DEF Adders
<1>3. Cardinality(Adders') <= Cardinality(Adders)
  BY <1>2, FS_Subset
<1>4. /\ Cardinality(members) \in Nat /\ Cardinality(members') \in Nat
      /\ Cardinality(Adders) \in Nat /\ Cardinality(Adders') \in Nat
  BY <1>2, MembersCount, FS_Subset, FS_CardinalityType DEF TypeInv, TypeOK
<1> QED
  BY <1>1, <1>3, <1>4, CallersCount, LimiterAssumption DEF StoredInv

LEMMA StoredStep ==
  ASSUME TypeInv, StoredInv, NEW c \in Caller, Step(c)
  PROVE  StoredInv'
<1>1. CASE AddRequest(c) /\ ~Fail(c, "cache")
  <2>1. PICK id \in RequestId \ members :
          members' = members \cup {id} /\ pc[c] = "add" /\ pc' = [pc EXCEPT ![c] = "expire"]
    BY <1>1, Granted
  <2>2. Adders' = Adders \ {c} /\ c \in Adders
    BY <2>1 DEF Adders, TypeInv, TypeOK
  <2>3. IsFiniteSet(Adders) /\ Cardinality(Adders) \in Nat
    BY CallersCount DEF Adders
  <2>4. Cardinality(Adders') = Cardinality(Adders) - 1
    BY <2>2, <2>3, FS_RemoveElement
  <2>5. IsFiniteSet(members) /\ Cardinality(members) \in Nat
    BY MembersCount DEF TypeInv, TypeOK
  <2>6. Cardinality(members') = Cardinality(members) + 1
    BY <2>1, <2>5, FS_AddElement
  <2> QED
    BY <2>3, <2>4, <2>5, <2>6, CallersCount, LimiterAssumption DEF StoredInv
<1>2. CASE CountRequests(c) /\ Cardinality(members) < Limit /\ UNCHANGED members
  <2>1. Cardinality(members) \in Nat /\ Cardinality(members') = Cardinality(members)
    BY <1>2, MembersCount DEF TypeInv, TypeOK
  <2>2. Cardinality(Adders') \in Nat /\ Cardinality(Adders') <= N
    BY CallersCount DEF Adders
  <2> QED
    BY <1>2, <2>1, <2>2, CallersCount, LimiterAssumption DEF StoredInv
<1>3. CASE members' \subseteq members /\ Adders' \subseteq Adders
  BY <1>3, StoredShrinks
<1>4. ASSUME NEW l \in Labels \ {"add"}, pc' = [pc EXCEPT ![c] = l]
      PROVE  Adders' \subseteq Adders
  BY <1>4 DEF Adders, TypeInv, TypeOK
<1>5. ASSUME NEW kind, Fail(c, kind)
      PROVE  members' = members /\ Adders' \subseteq Adders
  BY <1>4, <1>5 DEF Fail, Return, Goto, key, Labels
<1>6. CASE RemoveExpired(c)
  BY <1>3, <1>4, <1>5, <1>6 DEF RemoveExpired, SetMembers, Goto, Labels
<1>7. CASE CountRequests(c)
  BY <1>2, <1>3, <1>4, <1>5, <1>7 DEF CountRequests, Throttle, Goto, key, Labels
<1>8. CASE AddRequest(c)
  BY <1>1, <1>3, <1>5, <1>8
<1>9. CASE Call(c) \/ Retry(c)
  BY <1>3, <1>4, <1>9 DEF Call, Retry, Goto, key, Labels
<1>10. CASE ExpireKey(c)
  BY <1>3, <1>4, <1>10 DEF ExpireKey, Return, Goto, Labels
<1>11. CASE WaitForSlot(c)
  BY <1>3, <1>4, <1>5, <1>11 DEF WaitForSlot, Goto, key, Labels
<1>12. CASE Cancel(c)
  BY <1>3, <1>5, <1>12 DEF Cancel
<1> QED
  BY <1>6, <1>7, <1>8, <1>9, <1>10, <1>11, <1>12 DEF Step

LEMMA StoredInductive == TypeInv /\ StoredInv /\ [Next]_vars => StoredInv'
<1> SUFFICES ASSUME TypeInv, StoredInv, [Next]_vars PROVE StoredInv'
  OBVIOUS
<1>1. CASE Tick
  BY <1>1, StoredShrinks DEF Tick, Adders
<1>2. CASE UNCHANGED vars
  BY <1>2, StoredShrinks DEF vars, Adders
<1> QED
  BY <1>1, <1>2, StoredStep DEF Next

LEMMA InitStored == Init => StoredInv
<1> SUFFICES ASSUME Init PROVE StoredInv
  OBVIOUS
<1>1. Cardinality(members) = 0 /\ Cardinality(Adders) = 0
  BY FS_EmptySet DEF Init, Adders
<1> QED
  BY <1>1, CallersCount, LimiterAssumption DEF StoredInv

LEMMA StoredInvHolds == Spec => [](TypeInv /\ StoredInv)
BY InitType, InitStored, TypeInvInductive, StoredInductive, PTL DEF Spec

\* The sorted set holds at most the limit plus one request for each further
\* caller, however the commands of checkAndAddRequest interleave, whatever
\* fails and whenever the key expires.
THEOREM StoredWithinBound == Spec => []StoredBound
<1>1. TypeInv /\ StoredInv => StoredBound
  <2> SUFFICES ASSUME TypeInv, StoredInv PROVE StoredBound
    OBVIOUS
  <2>1. Cardinality(Adders) \in Nat
    BY CallersCount DEF Adders
  <2>2. Cardinality(members) \in Nat
    BY MembersCount DEF TypeInv, TypeOK
  <2> QED
    BY <2>1, <2>2, CallersCount, LimiterAssumption DEF StoredInv, StoredBound, N
<1> QED
  BY <1>1, StoredInvHolds, PTL

-----------------------------------------------------------------------------
(* The bound on a window *)

\* Callers that can still add to a window that begins from seconds ago.
Pending(from) == {c \in Caller : pc[c] \in Checking /\ from <= reading[c]}

\* While the sorted set has all of a window, its bound is the set's.  A caller
\* removes a part of it only after it has read a clock that is past the window,
\* and from then on it is no longer one that can add to it.
Covered(from) == GrantedIn(from) \subseteq members
Closing(from) ==
  Cardinality(GrantedIn(from)) + Cardinality(Pending(from)) <= Limit + 2 * (N - 1)
WindowInv ==
  ~lapsed => /\ Covered(0)
             /\ \A from \in 1..MaxLag : Covered(from) \/ Closing(from)

LEMMA WindowCounts ==
  \A from :
    /\ IsFiniteSet(GrantedIn(from)) /\ Cardinality(GrantedIn(from)) \in Nat
    /\ IsFiniteSet(Pending(from)) /\ Cardinality(Pending(from)) \in Nat
    /\ IsFiniteSet(GrantedIn(from)') /\ Cardinality(GrantedIn(from)') \in Nat
    /\ IsFiniteSet(Pending(from)') /\ Cardinality(Pending(from)') \in Nat
<1> TAKE from
<1>1. /\ GrantedIn(from) \in SUBSET RequestId /\ GrantedIn(from)' \in SUBSET RequestId
      /\ Pending(from) \in SUBSET Caller /\ Pending(from)' \in SUBSET Caller
  BY DEF GrantedIn, Pending
<1> QED
  BY <1>1, MembersCount, CallersCount

\* Fewer pending callers, the same members: the window stays as it is.
LEMMA WindowQuiet ==
  ASSUME WindowInv, UNCHANGED <<members, age, lapsed>>,
         \A from \in 1..MaxLag : Pending(from)' \subseteq Pending(from)
  PROVE  WindowInv'
<1>1. \A from : GrantedIn(from)' = GrantedIn(from)
  BY DEF GrantedIn
<1>2. ASSUME NEW from \in 1..MaxLag, Closing(from)
      PROVE  Closing(from)'
  <2>1. Cardinality(Pending(from)') <= Cardinality(Pending(from))
    BY WindowCounts, FS_Subset
  <2>2. Cardinality(GrantedIn(from)') = Cardinality(GrantedIn(from))
    BY <1>1
  <2> QED
    BY <1>2, <2>1, <2>2, WindowCounts, CallersCount, LimiterAssumption DEF Closing
<1> QED
  BY <1>1, <1>2 DEF WindowInv, Covered

\* ZADD puts a request into the windows its caller was pending for.
LEMMA WindowAdd ==
  ASSUME TypeInv, WindowInv, NEW c \in Caller, AddRequest(c), ~Fail(c, "cache")
  PROVE  WindowInv'
<1>1. PICK id \in RequestId \ members :
        /\ age[id] = Old
        /\ members' = members \cup {id}
        /\ age' = [age EXCEPT ![id] = reading[c]]
        /\ pc[c] = "add"
        /\ pc' = [pc EXCEPT ![c] = "expire"]
        /\ reading' = [reading EXCEPT ![c] = 0]
        /\ lapsed' = lapsed
  BY Granted
<1>2. \A from : GrantedIn(from)' \subseteq GrantedIn(from) \cup {id}
  BY <1>1 DEF GrantedIn, TypeInv, TypeOK
<1>3. \A from \in 0..MaxLag : Covered(from) => Covered(from)'
  BY <1>1, <1>2 DEF Covered
<1>4. ASSUME NEW from \in 1..MaxLag, Closing(from)
      PROVE  Closing(from)'
  <2>1. Pending(from)' \subseteq Pending(from) \ {c}
    BY <1>1 DEF Pending, Checking, TypeInv, TypeOK
  <2>2. CASE from <= reading[c]
    <3>1. c \in Pending(from)
      BY <1>1, <2>2 DEF Pending, Checking
    <3>2. Cardinality(Pending(from) \ {c}) = Cardinality(Pending(from)) - 1
      BY <3>1, WindowCounts, FS_RemoveElement
    <3>3. Cardinality(Pending(from)') <= Cardinality(Pending(from)) - 1
      BY <2>1, <3>2, WindowCounts, FS_Subset, FS_RemoveElement
    <3>4. Cardinality(GrantedIn(from) \cup {id}) <= Cardinality(GrantedIn(from)) + 1
          /\ IsFiniteSet(GrantedIn(from) \cup {id})
          /\ Cardinality(GrantedIn(from) \cup {id}) \in Nat
      <4>1. CASE id \in GrantedIn(from)
        <5>1. GrantedIn(from) \cup {id} = GrantedIn(from)
          BY <4>1
        <5> QED
          BY <5>1, WindowCounts
      <4>2. CASE id \notin GrantedIn(from)
        BY <4>2, WindowCounts, FS_AddElement
      <4> QED
        BY <4>1, <4>2
    <3>5. Cardinality(GrantedIn(from)') <= Cardinality(GrantedIn(from)) + 1
      BY <1>2, <3>4, WindowCounts, FS_Subset
    <3> QED
      BY <1>4, <3>3, <3>5, WindowCounts, CallersCount, LimiterAssumption DEF Closing
  <2>3. CASE ~(from <= reading[c])
    <3>1. GrantedIn(from)' \subseteq GrantedIn(from)
      BY <1>1, <1>2, <2>3 DEF GrantedIn, TypeInv, TypeOK
    <3>2. /\ Cardinality(GrantedIn(from)') <= Cardinality(GrantedIn(from))
          /\ Cardinality(Pending(from)') <= Cardinality(Pending(from))
      BY <2>1, <3>1, WindowCounts, FS_Subset
    <3> QED
      BY <1>4, <3>2, WindowCounts, CallersCount, LimiterAssumption DEF Closing
  <2> QED
    BY <2>2, <2>3
<1>5. 0 \in 0..MaxLag /\ 1..MaxLag \subseteq 0..MaxLag
  BY LimiterAssumption
<1> QED
  BY <1>1, <1>3, <1>4, <1>5 DEF WindowInv

\* ZREMRANGEBYSCORE takes from a window only what its caller's clock is past.
LEMMA WindowRemove ==
  ASSUME TypeInv, StoredInv, WindowInv, NEW c \in Caller,
         RemoveExpired(c), ~Fail(c, "cache")
  PROVE  WindowInv'
<1>1. /\ members' = {i \in members : age[i] < reading[c] + Window}
      /\ pc[c] = "clean" /\ pc' = [pc EXCEPT ![c] = "count"]
      /\ UNCHANGED <<age, lapsed, reading>>
  BY DEF RemoveExpired, SetMembers, Goto, locals
<1>2. \A from : GrantedIn(from)' = GrantedIn(from)
  BY <1>1 DEF GrantedIn
<1>3. \A from : Pending(from)' = Pending(from)
  BY <1>1 DEF Pending, Checking, TypeInv, TypeOK
<1>4. Covered(0) => Covered(0)'
  BY <1>1, <1>2, LimiterAssumption DEF Covered, GrantedIn, TypeInv, TypeOK, Ages, Old
<1>5. ASSUME NEW from \in 1..MaxLag, Covered(from), ~Covered(from)'
      PROVE  Closing(from)'
  <2>1. PICK i \in GrantedIn(from) : i \notin members'
    BY <1>2, <1>5 DEF Covered
  <2>2. i \in members /\ age[i] \in Nat /\ age[i] < from + Window
    BY <1>5, <2>1, LimiterAssumption
       DEF Covered, GrantedIn, TypeInv, TypeOK, Ages, Old
  <2>3. reading[c] \in Nat /\ from \in Nat
    BY LimiterAssumption DEF TypeInv, TypeOK
  <2>4. reading[c] < from
    BY <1>1, <2>1, <2>2, <2>3, LimiterAssumption
  <2>5. Pending(from) \subseteq Caller \ {c}
    BY <2>3, <2>4 DEF Pending
  <2>6. Cardinality(Pending(from)) <= N - 1
    <3>1. IsFiniteSet(Caller \ {c}) /\ Cardinality(Caller \ {c}) = N - 1
      BY LimiterAssumption, FS_RemoveElement DEF N
    <3> QED
      BY <2>5, <3>1, FS_Subset
  <2>7. Cardinality(GrantedIn(from)) <= Cardinality(members)
    BY <1>5, MembersCount DEF Covered, TypeInv, TypeOK
  <2>8. Cardinality(members) \in Nat /\ Cardinality(Adders) \in Nat
    BY MembersCount, CallersCount DEF Adders, TypeInv, TypeOK
  <2>9. Cardinality(GrantedIn(from)) + Cardinality(Pending(from)) <= Limit + 2 * (N - 1)
    BY <2>6, <2>7, <2>8, WindowCounts, CallersCount, LimiterAssumption DEF StoredInv
  <2> QED
    BY <1>2, <1>3, <2>9 DEF Closing
<1>6. ASSUME NEW from \in 1..MaxLag, Closing(from)
      PROVE  Closing(from)'
  BY <1>2, <1>3, <1>6 DEF Closing
<1> QED
  BY <1>1, <1>4, <1>5, <1>6 DEF WindowInv

\* A second on, a window is the one that began a second later.
LEMMA WindowTick ==
  ASSUME TypeInv, WindowInv, Tick
  PROVE  WindowInv'
<1> USE LimiterAssumption
<1> SUFFICES ASSUME ~lapsed'
             PROVE  Covered(0)' /\ \A from \in 1..MaxLag : Covered(from)' \/ Closing(from)'
  BY DEF WindowInv
<1>1. Covered(0) /\ \A from \in 1..MaxLag : Covered(from) \/ Closing(from)
  BY DEF Tick, WindowInv
<1>2. \A i \in RequestId :
        age[i] \in 0..Old /\ age'[i] = IF age[i] < Old THEN age[i] + 1 ELSE Old
  BY DEF Tick, TypeInv, TypeOK, Ages
<1>3. MaxLag \in Nat /\ Window \in Nat \ {0} /\ Old = MaxLag + Window
  BY DEF Old
<1>4. GrantedIn(0)' \subseteq GrantedIn(0)
  BY <1>2, <1>3 DEF GrantedIn
<1>5. ASSUME NEW from \in 1..MaxLag
      PROVE  GrantedIn(from)' \subseteq GrantedIn(from - 1)
  BY <1>2, <1>3 DEF GrantedIn
<1>6. ASSUME NEW from \in 1..MaxLag
      PROVE  Pending(from)' \subseteq Pending(from - 1)
  BY DEF Pending, Tick, TypeInv, TypeOK
<1>7. ASSUME NEW from \in 0..MaxLag, NEW before \in 0..MaxLag, Covered(before),
             GrantedIn(from)' \subseteq GrantedIn(before)
      PROVE  Covered(from)'
  <2>1. CASE ttl = 1
    <3>1. \A i \in members : ~(age'[i] < Old)
      BY <2>1 DEF Tick
    <3>2. GrantedIn(from)' = {}
      BY <1>7, <3>1 DEF GrantedIn, Covered, Old
    <3> QED
      BY <3>2 DEF Covered
  <2>2. CASE ttl # 1
    BY <1>7, <2>2 DEF Covered, Tick
  <2> QED
    BY <2>1, <2>2
<1>8. Covered(0)'
  BY <1>1, <1>3, <1>4, <1>7
<1>9. ASSUME NEW from \in 1..MaxLag
      PROVE  Covered(from)' \/ Closing(from)'
  <2>1. from \in 0..MaxLag /\ from - 1 \in 0..MaxLag /\ (from - 1 = 0 \/ from - 1 \in 1..MaxLag)
    BY <1>3
  <2>2. CASE Covered(from - 1)
    BY <1>5, <1>7, <2>1, <2>2
  <2>3. CASE Closing(from - 1)
    <3>1. /\ Cardinality(GrantedIn(from)') <= Cardinality(GrantedIn(from - 1))
          /\ Cardinality(Pending(from)') <= Cardinality(Pending(from - 1))
      BY <1>5, <1>6, WindowCounts, FS_Subset
    <3> QED
      BY <2>3, <3>1, WindowCounts, CallersCount DEF Closing
  <2> QED
    BY <1>1, <2>1, <2>2, <2>3
<1> QED
  BY <1>8, <1>9

LEMMA WindowStep ==
  ASSUME TypeInv, StoredInv, WindowInv, NEW c \in Caller, Step(c)
  PROVE  WindowInv'
<1> USE DEF TypeInv, TypeOK, Pending, Checking
<1>1. ASSUME NEW l \in Labels \ Checking, pc' = [pc EXCEPT ![c] = l],
             \A d \in Caller \ {c} : reading'[d] = reading[d],
             UNCHANGED <<members, age, lapsed>>
      PROVE  WindowInv'
  BY <1>1, WindowQuiet
<1>2. ASSUME NEW kind, Fail(c, kind)
      PROVE  WindowInv'
  BY <1>1, <1>2 DEF Fail, Return, Goto, key, Labels
<1>3. CASE Call(c) \/ Retry(c)
  <2>1. reading[c] = 0 /\ reading' = reading /\ UNCHANGED <<members, age, lapsed>>
    BY <1>3 DEF Call, Retry, key, locals
  <2>2. \A d \in Caller \ {c} : pc'[d] = pc[d]
    BY <1>3 DEF Call, Retry, Goto
  <2>3. \A from \in 1..MaxLag : Pending(from)' \subseteq Pending(from)
    BY <2>1, <2>2, LimiterAssumption
  <2> QED
    BY <2>1, <2>3, WindowQuiet
<1>4. CASE RemoveExpired(c)
  BY <1>2, <1>4, WindowRemove
<1>5. CASE CountRequests(c)
  <2>1. CASE Fail(c, "cache")
    BY <1>2, <2>1
  <2>2. CASE Throttle(c, Cardinality(members)) /\ UNCHANGED key
    BY <1>1, <2>2 DEF Throttle, Goto, key, Labels
  <2>3. CASE Goto(c, "add") /\ UNCHANGED reading /\ UNCHANGED key
    BY <1>5, <2>3, WindowQuiet DEF CountRequests, Goto, key
  <2> QED
    BY <1>5, <2>1, <2>2, <2>3 DEF CountRequests
<1>6. CASE AddRequest(c)
  BY <1>2, <1>6, WindowAdd
<1>7. CASE ExpireKey(c)
  BY <1>1, <1>7 DEF ExpireKey, Return, Goto, Labels
<1>8. CASE WaitForSlot(c)
  BY <1>1, <1>2, <1>8 DEF WaitForSlot, Goto, key, Labels
<1>9. CASE Cancel(c)
  BY <1>2, <1>9 DEF Cancel
<1> QED
  BY <1>3, <1>4, <1>5, <1>6, <1>7, <1>8, <1>9 DEF Step

LEMMA WindowInductive == TypeInv /\ StoredInv /\ WindowInv /\ [Next]_vars => WindowInv'
<1> SUFFICES ASSUME TypeInv, StoredInv, WindowInv, [Next]_vars PROVE WindowInv'
  OBVIOUS
<1>1. CASE UNCHANGED vars
  BY <1>1, WindowQuiet DEF vars, Pending
<1> QED
  BY <1>1, WindowStep, WindowTick DEF Next

LEMMA InitWindow == Init => WindowInv
<1> SUFFICES ASSUME Init PROVE WindowInv
  OBVIOUS
<1>1. \A from : GrantedIn(from) = {}
  <2>1. Old \in Nat /\ \A i \in RequestId : age[i] = Old
    BY LimiterAssumption DEF Init, Old
  <2> QED
    BY <2>1 DEF GrantedIn
<1> QED
  BY <1>1 DEF WindowInv, Covered

LEMMA WindowInvHolds == Spec => [](TypeInv /\ StoredInv /\ WindowInv)
BY InitType, InitStored, InitWindow, TypeInvInductive, StoredInductive, WindowInductive,
   PTL DEF Spec

\* Until the key has expired too early, no window of Window seconds holds more
\* granted requests than the limit plus two for each further caller.
THEOREM WindowWithinLimit == Spec => []WindowLimit
<1>1. TypeInv /\ StoredInv /\ WindowInv => WindowLimit
  <2> SUFFICES ASSUME TypeInv, StoredInv, WindowInv, ~lapsed, NEW from \in 0..MaxLag
               PROVE  Cardinality(GrantedIn(from)) <= Limit + 2 * (N - 1)
    BY DEF WindowLimit, N
  <2>1. CASE Covered(from)
    <3>1. Cardinality(GrantedIn(from)) <= Cardinality(members)
      BY <2>1, MembersCount DEF Covered, TypeInv, TypeOK
    <3>2. Cardinality(members) \in Nat /\ Cardinality(Adders) \in Nat
      BY MembersCount, CallersCount DEF Adders, TypeInv, TypeOK
    <3> QED
      BY <3>1, <3>2, WindowCounts, CallersCount, LimiterAssumption DEF StoredInv
  <2>2. CASE Closing(from)
    BY <2>2, WindowCounts, CallersCount, LimiterAssumption DEF Closing
  <2>3. from = 0 \/ from \in 1..MaxLag
    BY LimiterAssumption
  <2> QED
    BY <2>1, <2>2, <2>3 DEF WindowInv
<1> QED
  BY <1>1, WindowInvHolds, PTL

=============================================================================
