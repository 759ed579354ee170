------------------------- MODULE MCSharedMsgQueue --------------------------
(* SharedMsgQueue for TLC: enough messages for the queue to overflow while  *)
(* the receiver holds one it has not yet backed up.                         *)
EXTENDS SharedMsgQueue
=============================================================================
