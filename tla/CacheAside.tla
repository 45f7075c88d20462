----------------------------- MODULE CacheAside -----------------------------
(***************************************************************************)
(* What the repositories promise of one cached entry, whatever the entry   *)
(* holds (CACHE_STRATEGY.md, "Caching Pattern"): look in the cache, on a   *)
(* miss ask the database, store the answer, drop the entry when the data   *)
(* changes.                                                                *)
(*                                                                         *)
(* So an entry only ever holds what somebody got as an answer from the     *)
(* database.  A writer drops the entry and never warms it with what it has *)
(* written, and nothing that is not committed is ever cached.  An answer   *)
(* may be stored long after it was given: the pattern does not promise     *)
(* that an entry is up to date.                                            *)
(***************************************************************************)
CONSTANT None

VARIABLES
  answers,  \* what the database may answer now, one answer for each question
  pending,  \* answers given and not yet stored
  cached    \* the entry, None when there is none

vars == <<answers, pending, cached>>

Init == pending = {} /\ cached = None

\* The data changes, and a question may be answered from the new data; answers are
\* stored or forgotten.
Ask == pending' \subseteq pending \cup answers'
Store == cached' \in pending
Drop == cached' = None

Next == Ask /\ (Store \/ Drop \/ UNCHANGED cached)

Spec == Init /\ [][Next]_vars

=============================================================================
