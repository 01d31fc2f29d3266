--------------------------- MODULE BlockTransfer ---------------------------
(***************************************************************************)
(* What a download promises, whatever the link does: the blocks reach the  *)
(* application of the server in order, each of them once, and the transfer *)
(* is closed only when all have arrived, after which none follows.         *)
(***************************************************************************)
EXTENDS Naturals, Sequences

CONSTANT BLOCKS    \* number of blocks of the download

VARIABLES
  written,   \* the blocks given to fn_transfer_data
  closed     \* fn_transfer_exit has run

BlockInit == written = <<>> /\ closed = FALSE

Write ==
  /\ ~closed /\ Len(written) < BLOCKS
  /\ written' = Append(written, Len(written) + 1)
  /\ UNCHANGED closed

Close == Len(written) = BLOCKS /\ closed' = TRUE /\ UNCHANGED written

BlockSpec == BlockInit /\ [][Write \/ Close]_<<written, closed>>
=============================================================================
