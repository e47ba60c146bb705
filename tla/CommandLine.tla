------------------------------ MODULE CommandLine ------------------------------
(***************************************************************************)
(* The experiments of src/bin: amatch, amatch_sample and                   *)
(* amatch_sample_double compare a file of keys of a sample with one of a   *)
(* track, position by position, by match_single_pass, match_single_sample  *)
(* and match_double_pass of src/src/amatch.cpp.                            *)
(*                                                                         *)
(* Keys are left out: what is modelled is which of them are read.  Sizes   *)
(* are those of the code, in keys, unsigned (32 bits) or size_t (64 bits), *)
(* and wrap around.  The keys of a position are read in one step.          *)
(***************************************************************************)
EXTENDS Integers

CONSTANTS
    KEYS_IN_SEC,     \* keys_in_sec (86)
    SecNum, SecDen,  \* sec_per_sample
    UINT, SIZE,      \* values of an unsigned int and of a size_t
    FIRST,           \* first position of the sample that amatch looks for (100)
    SAMPLE_SEC,      \* seconds from one to the next (20)
    UNUSED,          \* keys that amatch leaves out at the end (10)
    TAIL_SEC,        \* seconds of the track that the others leave out (10)
    DOUBLE_SEC,      \* seconds that amatch_sample_double compares (5)
    SHIFT_SEC,       \* seconds between its two windows (10)
    SKIPPED,         \* positions it leaves out (500)
    Sizes,           \* keys that a file may have
    Seconds, Tryes   \* the arguments

ASSUME KeysAssumption == KEYS_IN_SEC \in Nat \ {0}
ASSUME SecAssumption == SecNum \in Nat \ {0} /\ SecDen \in Nat \ {0}
(* 86 keys of 128/11025 seconds are a little less than a second.           *)
ASSUME RateAssumption == KEYS_IN_SEC * SecNum =< SecDen
ASSUME UintAssumption == UINT \in Nat /\ UINT >= 2 * (KEYS_IN_SEC + 1)
ASSUME SizeAssumption == SIZE \in Nat \ {0} /\ SIZE > UINT
ASSUME PositionAssumption ==
    /\ FIRST \in Nat /\ UNUSED \in Nat /\ SKIPPED \in Nat
    /\ SAMPLE_SEC \in Nat \ {0}
    /\ TAIL_SEC \in Nat /\ DOUBLE_SEC \in Nat \ {0} /\ SHIFT_SEC \in Nat
    /\ DOUBLE_SEC * KEYS_IN_SEC < UINT
ASSUME SizesAssumption == Sizes \subseteq 0 .. UINT - 2
(* atoi and atof make any number of an argument, also a negative one.      *)
ASSUME ArgumentAssumption == Seconds \subseteq Int /\ Tryes \subseteq Int

VARIABLES
    program,    \* which of the three
    track,      \* track_keys.size()
    sample,     \* sample_keys.size()
    nsec,       \* seconds to compare
    max_tryes,  \* tests that amatch makes at most
    window,     \* nsec in keys: w, msize, keys_to_match
    pc,         \* how far the program is
    start_sample, from_end_of_record, ntest,    \* the loop of amatch
    track_epos, \* where the others stop
    i           \* position in the track

argVars == <<program, track, sample, nsec, max_tryes, window>>
testVars == <<start_sample, from_end_of_record, ntest>>
vars == <<argVars, pc, testVars, track_epos, i>>

Program == {"amatch", "amatch_sample", "amatch_sample_double"}

(* "crashed" is a division of integers by zero or an exception; what a     *)
(* program does after a read outside an array is "undefined".              *)
Ended == {"done", "crashed", "undefined"}
ProgramState == {"main", "scan"} \cup Ended

Wrap(n) == n % UINT
WrapSize(n) == n % SIZE
AsInt(n) == IF 2 * n < UINT THEN n ELSE n - UINT

sample_size == SAMPLE_SEC * KEYS_IN_SEC
track_spos == KEYS_IN_SEC \div 10 + 1

(* nsec * keys_in_sec is an int that amatch takes for a size_t, so that a  *)
(* negative one becomes huge.  The others have a double, which becomes any *)
(* unsigned when none holds it.                                            *)
Windows ==
    IF program = "amatch" THEN {WrapSize(nsec * KEYS_IN_SEC)}
    ELSE IF nsec * KEYS_IN_SEC \in 0 .. UINT - 1 THEN {nsec * KEYS_IN_SEC}
    ELSE 0 .. UINT - 1

TypeOK ==
    /\ program \in Program
    /\ track \in Sizes /\ sample \in Sizes
    /\ nsec \in Seconds \cup {DOUBLE_SEC} /\ max_tryes \in Tryes
    /\ window \in 0 .. SIZE - 1
    /\ pc \in ProgramState
    /\ start_sample \in Nat /\ ntest \in Nat
    /\ from_end_of_record \in 0 .. SIZE - 1
    /\ track_epos \in 0 .. UINT - 1
    /\ i \in Nat

Init ==
    /\ program \in Program
    /\ track \in Sizes /\ sample \in Sizes
    /\ nsec \in IF program = "amatch_sample_double" THEN {DOUBLE_SEC} ELSE Seconds
    /\ max_tryes \in Tryes
    /\ window \in Windows
    /\ pc = "main"
    /\ start_sample = FIRST /\ from_end_of_record = track /\ ntest = 0
    /\ track_epos = 0
    /\ i = 0

-----------------------------------------------------------------------------
(* What a position reads.                                                  *)

(* The keys that the loop of calc_dist, hamming_distance or                *)
(* calc_dist_double goes through; hamming_distance counts in int.          *)
Length == IF program = "amatch_sample" THEN AsInt(window) ELSE window

(* The furthest window into the sample begins here.                        *)
sample_first ==
    CASE program = "amatch" -> start_sample
      [] program = "amatch_sample" -> 0
      [] OTHER -> 1 + SHIFT_SEC * KEYS_IN_SEC

track_first == IF program = "amatch" THEN 0 ELSE track_spos

InRange ==
    /\ track_first + i + Length =< track
    /\ sample_first + Length =< sample

(* Mutant: the last window begins where the track ends.                    *)
Positions_ToEnd ==
    CASE program = "amatch" -> track
      [] program = "amatch_sample" -> AsInt(Wrap(track_epos - track_spos))
      [] OTHER -> WrapSize(Wrap((track_epos - track_spos) - window + 1) - SKIPPED)

(* The bound of the loop over positions: max_i, len, max_track_pos - 500.  *)
Positions ==
    CASE program = "amatch" -> WrapSize(track - (nsec + 1) * KEYS_IN_SEC)
      [] program = "amatch_sample" -> AsInt(Wrap(track_epos - track_spos))
      [] OTHER -> WrapSize(Wrap((track_epos - track_spos) - window + 1) - SKIPPED)

-----------------------------------------------------------------------------
(* amatch looks for one part of the sample after the other.                *)

StartTest ==
    /\ program = "amatch" /\ pc = "main"
    /\ from_end_of_record > sample_size
    /\ pc' = "scan" /\ i' = 0
    /\ UNCHANGED <<argVars, testVars, track_epos>>

NoMoreTests ==
    /\ program = "amatch" /\ pc = "main"
    /\ from_end_of_record =< sample_size
    /\ pc' = "done"
    /\ UNCHANGED <<argVars, testVars, track_epos, i>>

(* Mutant: what is left is a signed number.                                *)
FromEnd_Signed(start) == (sample - UNUSED) - (start + sample_size)

(* Mutant: what is left is counted to the end of the sample.               *)
FromEnd_Whole(start) == WrapSize(sample - start)

(* (nsamples - 10) - (start_sample + sample_size)                          *)
FromEnd(start) == WrapSize((sample - UNUSED) - (start + sample_size))

(* match_single_pass returns 0 whatever it found.                          *)
EndTest ==
    /\ program = "amatch" /\ pc = "scan"
    /\ i >= Positions
    /\ start_sample' = start_sample + sample_size
    /\ from_end_of_record' = FromEnd(start_sample')
    /\ ntest' = ntest + 1
    /\ pc' = IF ntest' >= max_tryes THEN "done" ELSE "main"
    /\ UNCHANGED <<argVars, track_epos, i>>

-----------------------------------------------------------------------------
(* The others scan once.                                                   *)

end_of_track == WrapSize(track - sample + 1)

(* (unsigned)(track_esec - 10.0) * keys_in_sec: a number of seconds that   *)
(* an unsigned int cannot hold is converted to any.                        *)
EndPositions ==
    LET secs == (end_of_track * SecNum) \div SecDen - TAIL_SEC
    IN  IF secs \in 0 .. UINT - 1 THEN {Wrap(secs * KEYS_IN_SEC)}
        ELSE {Wrap(n * KEYS_IN_SEC) : n \in 0 .. UINT - 1}

(* diffs1.reserve of a size that wrapped around may throw.                 *)
Prepare ==
    /\ program # "amatch" /\ pc = "main"
    /\ track_epos' \in EndPositions
    /\ pc' \in {"scan"} \cup
         IF program = "amatch_sample_double"
              /\ Wrap((track_epos' - track_spos) - window + 1) > track
         THEN {"crashed"} ELSE {}
    /\ UNCHANGED <<argVars, testVars, i>>

(* With no position, process_diffs takes the largest of nothing.           *)
EndScan ==
    /\ program # "amatch" /\ pc = "scan"
    /\ i >= Positions
    /\ pc' = IF program = "amatch_sample_double" /\ i = 0 THEN "undefined" ELSE "done"
    /\ UNCHANGED <<argVars, testVars, track_epos, i>>

-----------------------------------------------------------------------------
(* One position of the loop.                                               *)

Scanning == pc = "scan" /\ i < Positions

ReadOutside ==
    /\ Scanning
    /\ Length > 0 /\ ~InRange
    /\ pc' = "undefined"
    /\ UNCHANGED <<argVars, testVars, track_epos, i>>

(* hamming_distance divides by the number of keys, calc_dist of amatch by  *)
(* the number of bits that differ: there are none in a perfect copy.       *)
DivideByZero ==
    /\ Scanning
    /\ Length = 0 \/ (program = "amatch" /\ InRange)
    /\ pc' = "crashed"
    /\ UNCHANGED <<argVars, testVars, track_epos, i>>

(* With a negative length no key is read and the distance is 0.            *)
Compare ==
    /\ Scanning
    /\ Length < 0 \/ (Length > 0 /\ InRange)
    /\ i' = i + 1
    /\ UNCHANGED <<argVars, pc, testVars, track_epos>>

(* match_simple returns the first position that stands out, never 0.       *)
Found ==
    /\ program = "amatch_sample" /\ Scanning
    /\ Length > 0 /\ InRange /\ i > 0
    /\ pc' = "done"
    /\ UNCHANGED <<argVars, testVars, track_epos, i>>

Next ==
    \/ StartTest \/ NoMoreTests \/ EndTest \/ Prepare \/ EndScan
    \/ ReadOutside \/ DivideByZero \/ Compare \/ Found

Spec == Init /\ [][Next]_vars

-----------------------------------------------------------------------------
(* Properties.                                                             *)

(* Sizes with which no count wraps around and every window is inside the   *)
(* sample, for a number of seconds that is not negative: amatch needs two  *)
(* parts after the first, also when its first test is its last but one; a  *)
(* double pass needs the two windows in the sample and a track that is     *)
(* longer than the sample by the tail, a window and the positions left     *)
(* out.                                                                    *)
Adequate ==
    CASE program = "amatch" ->
            /\ nsec \in 0 .. 2 * SAMPLE_SEC
            /\ (nsec + 1) * KEYS_IN_SEC =< track
            /\ FIRST + 2 * sample_size + UNUSED =< sample
      [] program = "amatch_sample" ->
            /\ nsec >= 0 /\ nsec * KEYS_IN_SEC =< sample
            /\ sample + (TAIL_SEC * SecDen) \div SecNum =< track
      [] OTHER ->
            /\ 1 + SHIFT_SEC * KEYS_IN_SEC + window =< sample
            /\ SecNum * (track - sample + 1) >=
                 SecDen * (TAIL_SEC + 1 + (track_spos + window + SKIPPED) \div KEYS_IN_SEC)

(* With files that are adequate for the number of seconds, and no negative *)
(* one, a program never reads outside them.                                *)
UndefinedOnlyOnBadSizes == pc = "undefined" => ~Adequate

(* amatch that was not stopped by max_tryes has gone through the sample:   *)
(* behind the last part it looked for are at most two parts and the UNUSED *)
(* keys, and at least one part and those.  For a sample that is too short  *)
(* this fails, or the program ends otherwise.                              *)
TestsCoverSample ==
    program = "amatch" /\ pc = "done" /\ Adequate /\ ntest > 0 /\ ntest < max_tryes =>
        /\ start_sample + sample_size + UNUSED =< sample
        /\ sample =< start_sample + 2 * sample_size + UNUSED
================================================================================
