------------------------- MODULE MCReadSlotScheduler -------------------------
(* The read pool with few permits, so that queueing, holding and promoting   *)
(* all happen.                                                               *)
EXTENDS ReadSlotScheduler
==============================================================================
