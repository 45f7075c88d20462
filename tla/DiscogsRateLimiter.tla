-------------------------- MODULE DiscogsRateLimiter --------------------------
(***************************************************************************)
(* The sliding-window rate limiter of one user's Discogs requests          *)
(* (services/discogsRateLimiter.service.go).  A sorted set in Valkey holds *)
(* a member per granted request, scored with the second it asked in.  A    *)
(* caller removes the old members, counts the rest and adds its own, in    *)
(* separate commands between which other callers and the clock may run; a  *)
(* caller over the limit sleeps and tries again.                           *)
(*                                                                         *)
(* Only differences of times matter, so times are kept as ages: Tick makes *)
(* every score and every clock reading a second older.                     *)
(***************************************************************************)
EXTENDS Integers, FiniteSets

CONSTANTS
  Caller,        \* goroutines that call CheckUserRateLimit for the user
  RequestId,     \* members of the sorted set
  Limit,         \* DISCOGS_RATE_LIMIT
  Window,        \* DISCOGS_RATE_WINDOW, in seconds
  DelayMedium, DelayHigh,  \* THROTTLE_DELAY_MEDIUM, THROTTLE_DELAY_HIGH
  MaxRetryWait,  \* MAX_RETRY_WAIT
  MaxLag,        \* bound: seconds between a caller's clock reading and its ZADD
  Faults         \* which of FaultKinds may happen

FaultKinds ==
  {"cache",   \* a Valkey command fails, and the caller gives up
   "cancel",  \* the caller's context ends while it sleeps
   "expire"}  \* EXPIRE fails, which is ignored, or ZADD's reply is lost

ASSUME LimiterAssumption ==
  /\ IsFiniteSet(Caller) /\ Caller # {}
  /\ IsFiniteSet(RequestId)
  /\ Limit \in Nat \ {0} /\ Window \in Nat \ {0}
  /\ DelayMedium \in Nat /\ DelayHigh \in Nat
  /\ MaxRetryWait \in Nat \ {0} /\ MaxLag \in Nat
  /\ Faults \subseteq FaultKinds

VARIABLES
  members,  \* the members of the sorted set
  age,      \* the age of the second a request was scored with
  ttl,      \* seconds until the key expires, 0 if it never does
  pc,       \* where each caller is in CheckUserRateLimit
  reading,  \* the age of the "now" a check starts with
  count,    \* currentCount
  wait,     \* seconds a sleeping caller has left
  lapsed    \* history: the key has expired with a member younger than Old

vars == <<members, age, ttl, pc, reading, count, wait, lapsed>>
key == <<members, age, ttl, lapsed>>
locals == <<reading, count, wait>>

Old == MaxLag + Window  \* ages from here on are all alike
Ages == 0..Old
Labels == {"idle", "clean", "count", "add", "expire", "throttle", "sleep"}
Checking == {"clean", "count", "add"}

-----------------------------------------------------------------------------
(* Helpers *)

Goto(c, l) == pc' = [pc EXCEPT ![c] = l]

\* calculateThrottleDelay
ThrottleDelay(n) ==
  IF 2 * n < Limit THEN 0 ELSE IF 4 * n < 3 * Limit THEN DelayMedium ELSE DelayHigh

\* The time until a member expires, capped.  The buffer of 100 ms only makes
\* sure that its second has come.
UntilExpiry(i) ==
  IF age[i] >= Window THEN 0
  ELSE IF Window - age[i] > MaxRetryWait THEN MaxRetryWait ELSE Window - age[i]

\* calculateNextSlotAvailable: what ZRANGE 0 0 says of the oldest member.
NextSlot(d) ==
  \/ members = {} /\ d = 0
  \/ \E i \in members : /\ \A j \in members : age[j] <= age[i]
                       /\ d = UntilExpiry(i)

\* uuid.New() is one of these.
Unused == {i \in RequestId \ members : age[i] = Old}

\* A key without members does not exist, and has no time to live.
SetMembers(m) ==
  /\ members' = m
  /\ ttl' = IF m = {} THEN 0 ELSE ttl

\* The call returns, and its locals are gone.
Return(c) ==
  /\ Goto(c, "idle")
  /\ reading' = [reading EXCEPT ![c] = 0]
  /\ count' = [count EXCEPT ![c] = 0]
  /\ wait' = [wait EXCEPT ![c] = 0]

Fail(c, kind) == kind \in Faults /\ Return(c) /\ UNCHANGED key

-----------------------------------------------------------------------------
(* CheckUserRateLimit *)

\* A call begins with a check, and a check with the time of day.
Call(c) ==
  /\ pc[c] = "idle"
  /\ Goto(c, "clean")
  /\ UNCHANGED <<key, locals>>

\* Mutant: a member expires a second early.
RemoveExpiredEarly(c) ==
  /\ pc[c] = "clean"
  /\ SetMembers({i \in members : age[i] + 1 < reading[c] + Window})
  /\ Goto(c, "count")
  /\ UNCHANGED <<age, lapsed, locals>>

\* ZREMRANGEBYSCORE -inf windowStart
RemoveExpired(c) ==
  /\ pc[c] = "clean"
  /\ \/ /\ SetMembers({i \in members : age[i] < reading[c] + Window})
        /\ Goto(c, "count")
        /\ UNCHANGED <<age, lapsed, locals>>
     \/ Fail(c, "cache")

\* Over the limit the check ends, and the caller sleeps for the throttle delay.
Throttle(c, n) ==
  /\ Goto(c, "throttle")
  /\ reading' = [reading EXCEPT ![c] = 0]
  /\ count' = [count EXCEPT ![c] = n]
  /\ wait' = [wait EXCEPT ![c] = ThrottleDelay(n)]

\* Mutant: one request more than the limit passes.
CountRequestsPastLimit(c) ==
  /\ pc[c] = "count"
  /\ \/ Cardinality(members) > Limit /\ Throttle(c, Cardinality(members))
     \/ /\ Cardinality(members) <= Limit
        /\ Goto(c, "add")
        /\ count' = [count EXCEPT ![c] = Cardinality(members)]
        /\ UNCHANGED <<reading, wait>>
  /\ UNCHANGED key

\* ZCARD
CountRequests(c) ==
  /\ pc[c] = "count"
  /\ \/ Cardinality(members) >= Limit /\ Throttle(c, Cardinality(members))
     \/ /\ Cardinality(members) < Limit
        /\ Goto(c, "add")
        /\ count' = [count EXCEPT ![c] = Cardinality(members)]
        /\ UNCHANGED <<reading, wait>>
     \/ Fail(c, "cache")
  /\ UNCHANGED key

\* ZADD with the second read at the start.
AddRequest(c) ==
  /\ pc[c] = "add"
  /\ \/ /\ Unused # {}
        /\ LET id == CHOOSE i \in Unused : TRUE
           IN /\ members' = members \cup {id}
              /\ age' = [age EXCEPT ![id] = reading[c]]
        /\ Goto(c, "expire")
        /\ reading' = [reading EXCEPT ![c] = 0]
        /\ UNCHANGED <<ttl, lapsed, count, wait>>
     \/ Fail(c, "cache")

\* Mutant: the time to live is added to and not set.
ExpireKeyLater(c) ==
  /\ pc[c] = "expire"
  /\ ttl' = IF members = {} THEN 0 ELSE ttl + 2 * Window
  /\ Return(c)
  /\ UNCHANGED <<members, age, lapsed>>

\* EXPIRE, twice the window; the request is granted.
ExpireKey(c) ==
  /\ pc[c] = "expire"
  /\ \/ ttl' = (IF members = {} THEN 0 ELSE 2 * Window)
     \/ "expire" \in Faults /\ UNCHANGED ttl
  /\ Return(c)
  /\ UNCHANGED <<members, age, lapsed>>

\* After the throttle delay, sleep until the next slot.
WaitForSlot(c) ==
  /\ pc[c] = "throttle" /\ wait[c] = 0
  /\ \/ /\ \E d \in 0..MaxRetryWait :
             NextSlot(d) /\ wait' = [wait EXCEPT ![c] = d]
        /\ Goto(c, "sleep")
        /\ UNCHANGED <<key, reading, count>>
     \/ Fail(c, "cache")

\* Mutant: the loop goes back to the sleep and not to the check.
RetrySleep(c) ==
  /\ pc[c] = "sleep" /\ wait[c] = 0
  /\ Goto(c, "throttle")
  /\ UNCHANGED <<key, locals>>

Retry(c) ==
  /\ pc[c] = "sleep" /\ wait[c] = 0
  /\ Goto(c, "clean")
  /\ UNCHANGED <<key, locals>>

Cancel(c) ==
  /\ pc[c] \in {"throttle", "sleep"}
  /\ Fail(c, "cancel")

Step(c) ==
  \/ Call(c) \/ RemoveExpired(c) \/ CountRequests(c) \/ AddRequest(c) \/ ExpireKey(c)
  \/ WaitForSlot(c) \/ Retry(c) \/ Cancel(c)

-----------------------------------------------------------------------------
(* The clock *)

\* A second passes; the key may expire.
Tick ==
  /\ \A c \in Caller : pc[c] \in Checking => reading[c] < MaxLag
  /\ age' = [i \in RequestId |-> IF age[i] < Old THEN age[i] + 1 ELSE Old]
  /\ reading' = [c \in Caller |-> IF pc[c] \in Checking THEN reading[c] + 1 ELSE 0]
  /\ wait' = [c \in Caller |-> IF wait[c] > 0 THEN wait[c] - 1 ELSE 0]
  /\ ttl' = IF ttl > 0 THEN ttl - 1 ELSE 0
  /\ members' = IF ttl = 1 THEN {} ELSE members
  /\ lapsed' = (lapsed \/ (ttl = 1 /\ \E i \in members : age'[i] < Old))
  /\ UNCHANGED <<pc, count>>

-----------------------------------------------------------------------------
(* Specification *)

Init ==
  /\ members = {} /\ ttl = 0
  /\ age = [i \in RequestId |-> Old]
  /\ pc = [c \in Caller |-> "idle"]
  /\ reading = [c \in Caller |-> 0]
  /\ count = [c \in Caller |-> 0]
  /\ wait = [c \in Caller |-> 0]
  /\ lapsed = FALSE

Next == (\E c \in Caller : Step(c)) \/ Tick

Spec == Init /\ [][Next]_vars

\* Goroutines that are in a call are scheduled, and time passes.
FairSpec ==
  /\ Spec
  /\ \A c \in Caller : WF_vars(Step(c) /\ pc[c] # "idle")
  /\ WF_vars(Tick)

-----------------------------------------------------------------------------
(* Properties *)

TypeOK ==
  /\ members \subseteq RequestId
  /\ age \in [RequestId -> Ages]
  /\ ttl \in 0..(2 * Window)
  /\ pc \in [Caller -> Labels]
  /\ reading \in [Caller -> 0..MaxLag]
  /\ count \in [Caller -> Nat]
  /\ wait \in [Caller -> Nat]
  /\ lapsed \in BOOLEAN

\* The sorted set never holds more than the limit plus one request for each
\* further caller: with one caller the count and the add are as good as atomic,
\* and each of the others can slip one in (checkAndAddRequest).
StoredBound == Cardinality(members) <= Limit + Cardinality(Caller) - 1

\* What the limiter is for: no window of Window seconds holds more granted
\* requests than the limit, plus two for each further caller, one that it adds
\* after a count it shares with others and one that it counts after another has
\* removed what was in the window it read the clock in.  This is as long as the
\* key has not expired too early: a member whose EXPIRE fails, or comes late,
\* goes with the time to live of an earlier one.
GrantedIn(from) ==
  {i \in RequestId : from <= age[i] /\ age[i] < from + Window /\ age[i] < Old}
WindowLimit ==
  ~lapsed => \A from \in 0..MaxLag :
    Cardinality(GrantedIn(from)) <= Limit + 2 * (Cardinality(Caller) - 1)

\* A call does not wait for ever while nobody is granted a request.
WaitersProceed ==
  \A c \in Caller :
    (pc[c] # "idle") ~> (pc[c] = "idle" \/ \E d \in Caller : pc[d] = "expire")

=============================================================================
