----------------------------- MODULE MCCommandLine -----------------------------
(***************************************************************************)
(* TLC instance of CommandLine: two keys a second, parts of four keys.     *)
(***************************************************************************)
EXTENDS CommandLine

MCSizes == 0 .. 18
MCSeconds == {-1, 0, 1, 2, 4, 5}
MCTryes == {1, 9}
================================================================================
