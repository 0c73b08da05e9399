--------------------------- MODULE MCProcessingJobs ---------------------------
(***************************************************************************)
(* Small instances of ProcessingJobs for TLC.                              *)
(***************************************************************************)
EXTENDS ProcessingJobs, TLC

CONSTANTS c1, d1, d2, e1, e2

(* The intake's stage and the scan alone, for what one job's executions do to
   each other: every stage is the last one. *)
OneStep == {"FILE_VALIDATION", "VIRUS_SCAN", "OCR"}
NoChain == [s \in OneStep |-> NoStage]
ChainOfTwo == [NoChain EXCEPT !["FILE_VALIDATION"] = "OCR"]
OneOrTwo == [s \in OneStep |-> IF s = "OCR" THEN 2 ELSE 1]
FreeScan == [OneOrTwo EXCEPT !["VIRUS_SCAN"] = 0]

OneCase == [d \in Documents |-> c1]

Symmetry == Permutations(Executions) \cup Permutations(Documents)
=============================================================================
