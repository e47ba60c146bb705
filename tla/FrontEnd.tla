------------------------------- MODULE FrontEnd -------------------------------
(***************************************************************************)
(* How many samples, frames and keys the stages of wav2bits of             *)
(* src/src/sigproc.cpp make of a recording, and whether a stage reads      *)
(* inside the array it is given.  All counts are unsigned: a subtraction   *)
(* below zero wraps around.  The values of samples are left out.           *)
(***************************************************************************)
EXTENDS Integers

CONSTANTS
    UINT,            \* values of an unsigned int (2^32)
    FRAMESIZE,       \* samples of a frame (2048)
    OVERLAPSAMPLES,  \* samples from one frame to the next (64)
    KEYWIDTH,        \* frames that a key looks at (100)
    OFREQ1MULT, OFREQ2MULT,    \* samples that become one (8 and 2)
    OFREQ1LESS, OFREQ2LESS,    \* samples left out at the end (3 and 9)
    FILTERLEN44, FILTERLEN11   \* samples a low pass filter reads (31 and 17)

ASSUME FrameAssumption ==
    /\ OVERLAPSAMPLES \in Nat \ {0}
    /\ FRAMESIZE \in Nat \ {0}
    /\ FRAMESIZE % OVERLAPSAMPLES = 0
    /\ KEYWIDTH \in Nat \ {0, 1}
    /\ KEYWIDTH % 2 = 0
ASSUME FilterAssumption ==
    /\ OFREQ1MULT \in Nat \ {0} /\ OFREQ2MULT \in Nat \ {0}
    /\ OFREQ1LESS \in Nat /\ OFREQ2LESS \in Nat
    /\ FILTERLEN44 \in Nat \ {0} /\ FILTERLEN44 =< OFREQ1MULT * (OFREQ1LESS + 1)
    /\ FILTERLEN11 \in Nat \ {0} /\ FILTERLEN11 =< OFREQ2MULT * (OFREQ2LESS + 1)
ASSUME UintAssumption == UINT \in Nat /\ UINT > FRAMESIZE + KEYWIDTH

(* Sampling rates: 44100 Hz, 11025 Hz, 5513 Hz; wav2bits refuses others.   *)
Supported == {"OFREQ1", "OFREQ2", "DFREQ"}
Freq == Supported \cup {"other"}

Wrap(n) == n % UINT

-----------------------------------------------------------------------------
(* downsample: "samples" samples become newnsamples; each is read from     *)
(* Taps samples, Mult apart.                                               *)

Mult(freq) == IF freq = "OFREQ1" THEN OFREQ1MULT ELSE OFREQ2MULT
Less(freq) == IF freq = "OFREQ1" THEN OFREQ1LESS ELSE OFREQ2LESS
Taps(freq) == IF freq = "OFREQ1" THEN FILTERLEN44 ELSE FILTERLEN11

(* Mutant: no sample is left out for the filter at the end.                *)
newnsamples_Whole(samples, freq) ==
    IF freq = "DFREQ" THEN samples ELSE samples \div Mult(freq)

newnsamples(samples, freq) ==
    IF freq = "DFREQ" THEN samples
    ELSE Wrap(samples \div Mult(freq) - Less(freq))

ConvolvesInRange(samples, freq) ==
    \/ freq = "DFREQ"
    \/ newnsamples(samples, freq) = 0
    \/ Mult(freq) * (newnsamples(samples, freq) - 1) + Taps(freq) =< samples

-----------------------------------------------------------------------------
(* wdft: one frame every OVERLAPSAMPLES samples, and integralimage, which  *)
(* reads the first frame without a test.                                   *)

WholeSteps(samples) == (samples \div OVERLAPSAMPLES) * OVERLAPSAMPLES

nframes(samples) == Wrap(WholeSteps(samples) - FRAMESIZE) \div OVERLAPSAMPLES

FramesInRange(samples) ==
    /\ nframes(samples) > 0
    /\ (nframes(samples) - 1) * OVERLAPSAMPLES + FRAMESIZE =< samples

-----------------------------------------------------------------------------
(* computebits: memory for nbits keys, and a key for each time from        *)
(* first_time to last_time.                                                *)

first_time == KEYWIDTH \div 2 + 1
last_time(frames) == Wrap(frames - KEYWIDTH \div 2)

(* Mutant: the last time is not counted.                                   *)
nbitsOf_Short(frames) == Wrap(last_time(frames) - first_time)

nbitsOf(frames) == Wrap(last_time(frames) - first_time + 1)

(* The keys that the loop over t2 stores.                                  *)
KeysStored(frames) ==
    IF last_time(frames) < first_time THEN 0
    ELSE last_time(frames) - first_time + 1

(* The corners of filters that fit are within half a key of t2.            *)
CornersInRange(frames) ==
    KeysStored(frames) > 0 => last_time(frames) + KEYWIDTH \div 2 =< frames

-----------------------------------------------------------------------------
(* A recording of which wdft makes KEYWIDTH frames, which is one too few   *)
(* for a key.  With fewer the counts wrap around.                          *)
Enough == FRAMESIZE + KEYWIDTH * OVERLAPSAMPLES

LongEnough(samples, freq) ==
    IF freq = "DFREQ" THEN samples >= Enough
    ELSE samples \div Mult(freq) >= Less(freq) + Enough
===============================================================================
