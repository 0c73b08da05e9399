-------------------------- MODULE MCAssistantBudget --------------------------
(***************************************************************************)
(* Small instances of AssistantBudget for TLC.                             *)
(***************************************************************************)
EXTENDS AssistantBudget, TLC

CONSTANTS c1, d1, e1, q1, q2

Steps == {"FILE_VALIDATION", "VIRUS_SCAN", "OCR"}
NoChain == [s \in Steps |-> NoStage]
OneEach == [s \in Steps |-> 1]
OneCase == [d \in Documents |-> c1]

Symmetry == Permutations(Questions)
=============================================================================
