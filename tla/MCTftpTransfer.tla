--------------------------- MODULE MCTftpTransfer ---------------------------
(* A file long enough for the block numbers to wrap, and short ones.         *)
EXTENDS TftpTransfer

Request(op, options, window, swaps, blocks) ==
  [op |-> op, options |-> options, window |-> window, swaps |-> swaps, blocks |-> blocks]

AllTransfers ==
  {Request("RRQ", FALSE, 1, TRUE, 9), Request("RRQ", TRUE, 2, TRUE, 9), Request("RRQ", TRUE, 2, TRUE, 2),
   Request("RRQ", TRUE, 1, TRUE, 2), Request("WRQ", FALSE, 1, FALSE, 9), Request("WRQ", TRUE, 1, TRUE, 9),
   Request("WRQ", TRUE, 2, TRUE, 9)}
==============================================================================
