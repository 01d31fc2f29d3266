----------------------------- MODULE MCNetwork -----------------------------
(***************************************************************************)
(* A small instance of UdsNetwork: the block counter wraps, and the erase  *)
(* routine is a service of the application.                                *)
(***************************************************************************)
EXTENDS UdsNetwork, TLC

NoDids == << >>
EraseService ==
  {[sid |-> ROUTINE_CONTROL, min_len |-> 4, sess |-> Sessions, sec |-> 0,
    subs |-> {1}, user |-> TRUE]}
Intervals == <<1, 1, 2>>
=============================================================================
