------------------------ MODULE MCDailyRecommendation ------------------------
(***************************************************************************)
(* DailyRecommendation for TLC.  The clock ticks every 6 hours.  A user    *)
(* has none, or two recommendations of the days before.                    *)
(***************************************************************************)
EXTENDS DailyRecommendation

CONSTANTS s1, s2

\* Created at one of the given times, oldest first; each listened to or not.
Past(times) ==
  {[i \in 1..Len(times) |->
      [created |-> times[i], date |-> times[i] \div Day, listened |-> l[i],
       plays |-> IF l[i] THEN 1 ELSE 0]] : l \in [1..Len(times) -> BOOLEAN]}
MCHistory == UNION {Past(times) : times \in {<<>>, <<-8, -1>>}}

Symmetric == Permutations(Session)

=============================================================================
