----------------------------- MODULE MatchWorkers -----------------------------
(***************************************************************************)
(* match_single_sample_mt of src/src/amatch.cpp, as match_sample calls it: *)
(* two threads scan the track, one for the beginning of the recording and  *)
(* one for the recording without its first two seconds; the position is    *)
(* believed when the two agree.                                            *)
(*                                                                         *)
(* Keys are abstracted to the distance hamming_distance finds at each      *)
(* position, chosen when the position is read: any distance of Distance    *)
(* may occur anywhere.  Sizes and positions are those of the code, in keys.*)
(* Seconds are rational: a key lasts SecNum/SecDen seconds (128/11025).    *)
(***************************************************************************)
EXTENDS Sums, Sequences

CONSTANTS
    KEYS_IN_SEC,     \* keys_in_sec (86)
    SecNum, SecDen,  \* sec_per_sample
    SEC_TO_MATCH,    \* longest window (7)
    TAIL_SEC,            \* seconds left out at the end of the track (10)
    SampleSize,      \* keys of the recording (729)
    TrackSizes,      \* keys that the track may have
    UINT,            \* values of an unsigned int, and of a size_t (2^32)
    Distance,        \* what hamming_distance may return
    Scale            \* unit of 1/distance: a common multiple of the distances

ASSUME KeysAssumption == KEYS_IN_SEC \in Nat \ {0}
ASSUME SecAssumption == SecNum \in Nat \ {0} /\ SecDen \in Nat \ {0}
(* 86 keys of 128/11025 seconds are a little less than a second.           *)
ASSUME RateAssumption == KEYS_IN_SEC * SecNum =< SecDen
ASSUME MatchAssumption == SEC_TO_MATCH \in Nat /\ TAIL_SEC \in Nat
ASSUME SampleAssumption == SampleSize \in Nat
ASSUME TrackAssumption == TrackSizes \subseteq {n \in Nat : 2 * n < UINT}
(* A second is hardly longer than its keys, and a recording is short: what *)
(* is left of a track shorter than it, wrapped around, is no int.          *)
ASSUME WrapAssumption ==
    /\ UINT \in Nat /\ UINT % 2 = 0
    /\ UINT >= 8 * (SampleSize + KEYS_IN_SEC * (TAIL_SEC + 2))
    /\ 4 * (KEYS_IN_SEC * SecNum) >= 3 * SecDen
ASSUME DistanceAssumption == Distance \subseteq 0 .. 32
ASSUME ScaleAssumption ==
    Scale \in Nat /\ \A h \in Distance \ {0} : Scale % h = 0 /\ Scale \div h > 0

VARIABLES
    size,       \* keys of the track
    caller,     \* how far match_single_sample_mt has come
    worker,     \* where each thread is
    i,          \* its loop counter
    m,          \* its running sum of d, in units of msize/Scale
    seen,       \* the distances it has read, for the properties
    index,      \* index1 and index2
    answer      \* the value returned

vars == <<size, caller, worker, i, m, seen, index, answer>>

Worker == {1, 2}
CallerState == {"spawn1", "spawn2", "join1", "join2", "returned"}
WorkerState == {"new", "scan", "done"}

-----------------------------------------------------------------------------
(* Sizes.                                                                  *)

shift_between_samples == 2 * KEYS_IN_SEC

(* The keys worker w compares: sample, or sample2.                         *)
SizeOf(w) ==
    IF w = 1 THEN SampleSize
    ELSE IF SampleSize > shift_between_samples
         THEN SampleSize - shift_between_samples
         ELSE 0

(* min(keys * sec_per_sample, secs_to_match) * keys_in_sec                 *)
msize(w) ==
    LET all == (SizeOf(w) * SecNum * KEYS_IN_SEC) \div SecDen
        most == SEC_TO_MATCH * KEYS_IN_SEC
    IN  IF all < most THEN all ELSE most

(* With no key to compare, hamming_distance divides by zero.               *)
ASSUME WindowAssumption == \A w \in Worker : msize(w) > 0

track_spos == KEYS_IN_SEC \div 10 + 1

(* nrecords - sample_size_keys + 1 of match_sample, as a size_t.           *)
end_of_track(n) == (n - SampleSize + 1) % UINT

(* The same in seconds, less the tail, in keys of whole seconds.  A track  *)
(* too short for the tail converts a negative double to unsigned, which is *)
(* 0 on the device.                                                        *)
track_epos(n) ==
    LET secs == (end_of_track(n) * SecNum) \div SecDen
    IN  IF secs >= TAIL_SEC THEN ((secs - TAIL_SEC) * KEYS_IN_SEC) % UINT ELSE 0

(* Mutant: the span of the scan is unsigned.                               *)
AsInt_Unsigned(n) == n % UINT

(* The int that has the bits of an unsigned n.                             *)
AsInt(n) == IF 2 * (n % UINT) < UINT THEN n % UINT ELSE (n % UINT) - UINT

len == AsInt(track_epos(size) - track_spos)

-----------------------------------------------------------------------------
(* The scan.                                                               *)

Infinite == -1

(* Mutant: a distance of zero counts as half a bit.                        *)
Quality_Half(h) == IF h = 0 THEN 2 * Scale ELSE Scale \div h

(* d = msize / hamming_distance(...), in units of msize/Scale.             *)
Quality(h) == IF h = 0 THEN Infinite ELSE Scale \div h

(* m += d                                                                  *)
Plus(a, d) == IF a = Infinite \/ d = Infinite THEN Infinite ELSE a + d

(* d/(m/i) > 1.7 in doubles: for i = 0 the quotient is 0, and once m is    *)
(* infinite it is 0 or not a number.                                       *)
Exceeds(d, sum, pos) == pos > 0 /\ sum # Infinite /\ 10 * pos * d > 17 * sum

TypeOK ==
    /\ size \in TrackSizes
    /\ caller \in CallerState
    /\ worker \in [Worker -> WorkerState]
    /\ i \in [Worker -> Nat]
    /\ m \in [Worker -> Nat \cup {Infinite}]
    /\ seen \in [Worker -> Seq(Distance)]
    /\ index \in [Worker -> Nat]
    /\ answer \in Nat

Init ==
    /\ size \in TrackSizes
    /\ caller = "spawn1"
    /\ worker = [w \in Worker |-> "new"]
    /\ i = [w \in Worker |-> 0]
    /\ m = [w \in Worker |-> 0]
    /\ seen = [w \in Worker |-> <<>>]
    /\ index = [w \in Worker |-> 0]
    /\ answer = 0

(* One iteration of the loop of match_simple; a hit returns.               *)
ScanPosition(w) ==
    /\ worker[w] = "scan"
    /\ i[w] < len
    /\ \E h \in Distance :
         LET d == Quality(h)
             sum == Plus(m[w], d)
             hit == Exceeds(d, sum, i[w])
         IN  /\ m' = [m EXCEPT ![w] = sum]
             /\ seen' = [seen EXCEPT ![w] = Append(@, h)]
             /\ index' = [index EXCEPT ![w] = IF hit THEN i[w] ELSE @]
             /\ worker' = [worker EXCEPT ![w] = IF hit THEN "done" ELSE @]
             /\ i' = [i EXCEPT ![w] = IF hit THEN @ ELSE @ + 1]
    /\ UNCHANGED <<size, caller, answer>>

(* Mutant: the loop ends at len exactly, which may be negative.            *)
PastEnd_Equal(w) == i[w] = len

PastEnd(w) == i[w] >= len

(* Mutant: a thread that finds nothing says -1, as is usual.               *)
NotFound_Minus == -1

(* index = 0                                                               *)
NotFound == 0

EndOfTrack(w) ==
    /\ worker[w] = "scan"
    /\ PastEnd(w)
    /\ index' = [index EXCEPT ![w] = NotFound]
    /\ worker' = [worker EXCEPT ![w] = "done"]
    /\ UNCHANGED <<size, caller, i, m, seen, answer>>

-----------------------------------------------------------------------------
(* The caller.                                                             *)

(* boost::thread match_simple_thread1, 2                                   *)
Spawn(w) ==
    /\ caller = IF w = 1 THEN "spawn1" ELSE "spawn2"
    /\ caller' = IF w = 1 THEN "spawn2" ELSE "join1"
    /\ worker' = [worker EXCEPT ![w] = "scan"]
    /\ UNCHANGED <<size, i, m, seen, index, answer>>

(* Mutant: only the first thread is waited for.                            *)
Joined_First(w) == w = 2 \/ worker[w] = "done"

Joined(w) == worker[w] = "done"

JoinFirst ==
    /\ caller = "join1"
    /\ Joined(1)
    /\ caller' = "join2"
    /\ UNCHANGED <<size, worker, i, m, seen, index, answer>>

Abs(n) == IF n < 0 THEN -n ELSE n

(* Mutant: the absolute value is forgotten.                                *)
Agree_OneSided(i1, i2) == 2 * ((i2 - i1) - shift_between_samples) < KEYS_IN_SEC

(* diff < 0.5 * keys_in_sec                                                *)
Agree(i1, i2) == 2 * Abs((i2 - i1) - shift_between_samples) < KEYS_IN_SEC

JoinSecondAndReturn ==
    /\ caller = "join2"
    /\ Joined(2)
    /\ answer' = IF Agree(index[1], index[2]) THEN index[1] ELSE 0
    /\ caller' = "returned"
    /\ UNCHANGED <<size, worker, i, m, seen, index>>

CallerStep ==
    \/ \E w \in Worker : Spawn(w)
    \/ JoinFirst
    \/ JoinSecondAndReturn

WorkerStep(w) == ScanPosition(w) \/ EndOfTrack(w)

Next == CallerStep \/ \E w \in Worker : WorkerStep(w)

Spec == Init /\ [][Next]_vars

(* Every thread is scheduled.                                              *)
FairSpec ==
    /\ Spec
    /\ WF_vars(CallerStep)
    /\ \A w \in Worker : WF_vars(WorkerStep(w))

-----------------------------------------------------------------------------
(* The reference: what the scan of one thread looks for.                   *)

(* The qualities read up to position p, added up.                          *)
SumTo(s, p) == SumBelow([k \in Nat |-> Scale \div s[k + 1]], p + 1)

(* Position p stands out: no position so far was a perfect copy, and it is *)
(* 1.7 times better than the average.                                      *)
StandsOut(s, p) ==
    /\ p > 0
    /\ \A k \in 1 .. p + 1 : s[k] # 0
    /\ 10 * p * (Scale \div s[p + 1]) > 17 * SumTo(s, p)

(* The first position that stands out, 0 when none does.                   *)
FirstPeak(s) ==
    LET peaks == {p \in 1 .. Len(s) - 1 : StandsOut(s, p)}
    IN  IF peaks = {} THEN 0 ELSE CHOOSE p \in peaks : \A q \in peaks : p =< q

(* What is returned depends on the keys alone, however the two threads and *)
(* the caller interleave: the first peak of the recording, if the shifted  *)
(* recording has its own two seconds after it.                             *)
AnswerIsDetermined ==
    caller = "returned" =>
        LET p == FirstPeak(seen[1])
            q == FirstPeak(seen[2])
        IN  answer = IF Agree(p, q) THEN p ELSE 0

(* 0 stands for "not found" in index1, index2 and the answer, and is never *)
(* taken for a position: an answer is a peak that both threads found, two  *)
(* seconds apart to within half a second.                                  *)
AnswerIsCorroborated ==
    answer # 0 =>
        /\ caller = "returned"
        /\ answer = index[1]
        /\ index[2] # 0
        /\ 2 * index[2] > 2 * index[1] + 3 * KEYS_IN_SEC
        /\ 2 * index[2] < 2 * index[1] + 5 * KEYS_IN_SEC

(* hamming_distance reads inside the track and inside the sample, also of  *)
(* a track that is empty or shorter than the recording.                    *)
ReadsInRange ==
    \A w \in Worker : worker[w] = "scan" /\ i[w] < len =>
        /\ track_spos + i[w] + msize(w) =< size
        /\ msize(w) =< SizeOf(w)

(* A thread that meets a perfect copy (distance 0) finds nothing, there or *)
(* later: its average is infinite for the rest of the track.               *)
PerfectCopyIsLost ==
    \A w \in Worker :
      (\E k \in 1 .. Len(seen[w]) : seen[w][k] = 0) => index[w] = 0

(* The match returns.                                                      *)
MatchReturns == <>(caller = "returned")
===============================================================================
