---------------------------- MODULE AmatchSession ----------------------------
(***************************************************************************)
(* AmatchApp implements SyncSession: isMatching is the search that waits   *)
(* for its answer, the seek of the player the seek to it, and a player in  *)
(* state "started" is what is heard.                                       *)
(***************************************************************************)
EXTENDS AmatchApp

Session == INSTANCE SyncSession WITH
    Activity  <- Instance,
    Nobody    <- None,
    open      <- live,
    searching <- isMatching,
    sought    <- [i \in Instance |-> seek[i] # NoSeek],
    audible   <- [i \in Instance |-> player[i] = "started"]

(* Whatever the threads, dialogs and player callbacks do, the user sees a  *)
(* behaviour of SyncSession: an answer is given once per search, nothing   *)
(* but an answered search starts the sound, and a destroyed activity never *)
(* speaks again.                                                           *)
ImplementsSession == Session!SessionSpec
==============================================================================
