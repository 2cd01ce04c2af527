------------------------- MODULE MCTranscriptExport --------------------------
(***************************************************************************)
(* A small instance of TranscriptExport: the session of one child, with    *)
(* messages and a compaction, and a second child without any; one thread   *)
(* that reports beside the loop and the run's own.                         *)
(***************************************************************************)
EXTENDS TranscriptExport

CONSTANTS t1, t2, reporter

TwoMessages == [t \in Targets |-> IF t = t1 THEN 2 ELSE 0]
OneCompaction == [t \in Targets |-> IF t = t1 THEN 2 ELSE 1]
OneReport == [t \in Targets |-> 1]
=============================================================================
