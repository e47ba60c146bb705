----------------------------- MODULE MCAmatchApp -----------------------------
(***************************************************************************)
(* TLC instances of AmatchApp.                                             *)
(***************************************************************************)
EXTENDS AmatchApp, TLC

(* An index before MinIndex, and one nine seconds into the track.           *)
MCFoundIndex == {9, 800}

(* A track that is over before the found position, and one that is not.    *)
MCDuration == {15000, 60000}
MCElapsed == {10000}

(* A whole file, one cut short and one that is missing or empty.           *)
MCIndexFiles ==
    {[len |-> 2, keys |-> 2], [len |-> 2, keys |-> 1], [len |-> 0, keys |-> 0]}

(* The same with at most one key.                                          *)
MCShortFiles ==
    {[len |-> 1, keys |-> 1], [len |-> 1, keys |-> 0], [len |-> 0, keys |-> 0]}

(* A single file: what is loaded matters to no property of that run.       *)
MCCutShort == {[len |-> 2, keys |-> 1]}

(* Whole files only.                                                       *)
MCWholeFile == {[len |-> 2, keys |-> 2]}

(* Without a choice: a found position, a track that contains it.           *)
MCOneFound == {800}
MCOneDuration == {60000}

(* The identities of threads are interchangeable (safety runs only).       *)
ThreadSymmetry == Permutations(Recorder) \cup Permutations(Loader)
AllSymmetry == ThreadSymmetry \cup Permutations(Instance)
==============================================================================
