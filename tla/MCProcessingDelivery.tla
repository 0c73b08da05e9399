------------------------ MODULE MCProcessingDelivery ------------------------
(***************************************************************************)
(* Small instances of ProcessingDelivery for TLC.                          *)
(***************************************************************************)
EXTENDS ProcessingDelivery, TLC

CONSTANTS j1, j2, w1, w2
=============================================================================
