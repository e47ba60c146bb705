---------------------------- MODULE MCMatchWorkers ----------------------------
(***************************************************************************)
(* TLC instance of MatchWorkers: one key a second, windows of three keys.  *)
(* With the two qualities 1 and 12 a position can stand out from the third *)
(* on, and no quotient is exactly 1.7 before the eighteenth.               *)
(***************************************************************************)
EXTENDS MatchWorkers

(* An empty track, one shorter than the recording, one too short to be     *)
(* scanned, and one with five positions.                                   *)
MCTrackSizes == {0, 3, 5, 11}
MCDistance == {0, 1, 12}
===============================================================================
