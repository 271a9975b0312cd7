---------------------------- MODULE MCScanSource ----------------------------
(***************************************************************************)
(* A scan and the start of a restore on two disks, small enough for TLC.   *)
(***************************************************************************)
EXTENDS DestinationRoot

CONSTANTS d1, d2

MCDisks == {d1, d2}

(* A read in two pieces, and one of the second piece alone.                *)
MCReads == {[offset |-> 0, length |-> 2], [offset |-> 1, length |-> 1]}
=============================================================================
