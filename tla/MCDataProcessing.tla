-------------------------- MODULE MCDataProcessing --------------------------
(***************************************************************************)
(* DataProcessing for TLC: the two files the genres come from, the steps   *)
(* on genres and the one before them.                                      *)
(***************************************************************************)
EXTENDS DataProcessing

CONSTANTS d1, p1

MCFileSeq == SubSeq(AllFiles, 3, 4)
MCStepSeq == SubSeq(AllSteps, 4, 10)

\* Last month left nothing, or a record half processed.
MCLastMonth ==
  {NoRow, [id |-> PreviousId, status |-> "processing", steps |-> {"releases_processing"}]}

=============================================================================
