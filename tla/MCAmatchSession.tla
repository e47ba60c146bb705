--------------------------- MODULE MCAmatchSession ---------------------------
(***************************************************************************)
(* TLC instance of AmatchSession: AmatchApp and its session.               *)
(***************************************************************************)
EXTENDS AmatchSession, TLC

(* An index before MinIndex, and one nine seconds into the track.          *)
MCFoundIndex == {9, 800}

(* A track that is over before the found position, and one that is not.    *)
MCDuration == {15000, 60000}
MCElapsed == {10000}

(* A whole file, one cut short and one that is missing or empty.           *)
MCIndexFiles ==
    {[len |-> 2, keys |-> 2], [len |-> 2, keys |-> 1], [len |-> 0, keys |-> 0]}

(* The identities of threads are interchangeable: no property names one.   *)
ThreadSymmetry == Permutations(Recorder) \cup Permutations(Loader)
==============================================================================
