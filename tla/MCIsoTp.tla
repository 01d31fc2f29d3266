------------------------------ MODULE MCIsoTp ------------------------------
(***************************************************************************)
(* An ECU and a tester for TLC.  Frames carry one byte (single frames two), *)
(* so that a message of four takes three consecutive frames: more than a   *)
(* block, and enough for the sequence number to wrap.                      *)
(***************************************************************************)
EXTENDS IsoTpLink

Message(id, len) == [id |-> id, len |-> len]

Short == Message("short", 2)
Mid == Message("mid", 3)
Long == Message("long", 4)
Other == Message("other", 3)

Ends == {"ecu", "tester"}

OwnMixed == [n \in Ends |-> IF n = "ecu" THEN {Mid, Other} ELSE {Short, Long}]
OwnLong == [n \in Ends |-> IF n = "ecu" THEN {} ELSE {Long}]
AllMessages == {Short, Mid, Long, Other}

\* The ECU starts as uds_tp_isotp_init leaves it, with blocks of two instead of
\* eight; the tester is of another make.
Blocks == [n \in Ends |-> IF n = "ecu" THEN {2} ELSE {0, 2}]
Separation == [n \in Ends |-> IF n = "ecu" THEN {0} ELSE {1}]
SameBlocks == [n \in Ends |-> {2}]
NoSeparation == [n \in Ends |-> {0}]
=============================================================================
