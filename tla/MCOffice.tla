------------------------------ MODULE MCOffice ------------------------------
(* A small instance of Office, for TLC: one job of one document, cancelled and
   resumed while two questions are answered at a cost of one each; two cases
   with changing responsible people, a day of two ticks; an export with three
   attempts and two workers, one of which dies, or is blocked twice; two case records. *)
EXTENDS Office, TLC

CONSTANTS x1, x2, x3, q1, q2, c1, c2, ana, bia, w1, w2, Nothing

Steps == {"FILE_VALIDATION", "VIRUS_SCAN", "OCR"}
NoChain == [s \in Steps |-> NoStage]
OneEach == [s \in Steps |-> 1]
OneCase == [d \in Documents |-> x1]

(* One item goes back and forth, the other is settled. *)
ItemAsked == [i \in {x1, x2} |->
    IF i = x1 THEN {"MISSING", "NOT_APPLICABLE"} ELSE {"VALIDATED"}]

(* Three inputs open a case, one only changes it. *)
Input(code, number, level, openedAt, closedAt) ==
    [code |-> code, number |-> number, level |-> level, openedAt |-> openedAt, closedAt |-> closedAt]
SomeInputs ==
    {Input(x1, "keep", "keep", -1, 1), Input(x2, x3, "CONFIDENTIAL", -1, -1),
     Input(x1, x3, "CONFIDENTIAL", -1, -1), Input("keep", x3, "STANDARD", 2, -1)}

Symmetry == Permutations({q1, q2})
=============================================================================
