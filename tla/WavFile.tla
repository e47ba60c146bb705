-------------------------------- MODULE WavFile --------------------------------
(***************************************************************************)
(* wavread of src/src/sigproc.cpp: the samples of a WAV file, mixed to one *)
(* channel, block by block.  A sample is abstracted to the number of the   *)
(* frame of the file that it was made of.                                  *)
(*                                                                         *)
(* libsndfile is external: sf_read_float gives all that is asked for       *)
(* unless the file ends, and nothing when asked for a part of a frame.     *)
(* The counts stay far below 2^32, as a WAV file does.                     *)
(***************************************************************************)
EXTENDS Integers

CONSTANTS
    BLOCKSIZE,      \* values read at once (4096)
    Wavs            \* the files: what the header says, and what is there

ASSUME BlockAssumption == BLOCKSIZE \in Nat \ {0, 1} /\ BLOCKSIZE % 2 = 0
(* A file holds "data" frames, its header announces "frames".              *)
ASSUME WavsAssumption ==
    \A w \in Wavs : w.frames \in Nat /\ w.data \in 0 .. w.frames
                        /\ w.channels \in Nat \ {0} /\ w.readable \in BOOLEAN

VARIABLES
    wav,            \* the file
    samples,        \* the array that wavread returns
    samplesleft     \* frames still to be read

wavVars == <<wav, samples, samplesleft>>

None == -1          \* a sample that malloc left as it was

WavTypeOK ==
    /\ wav \in Wavs
    /\ samples \in [0 .. wav.frames - 1 -> 0 .. wav.frames - 1 \cup {None}]
    /\ samplesleft \in 0 .. wav.frames

WavInit ==
    /\ wav \in Wavs
    /\ samples = [k \in 0 .. wav.frames - 1 |-> None]
    /\ samplesleft = wav.frames

Lesser(a, b) == IF a < b THEN a ELSE b

(* Mutant: frames are counted where values are meant.                      *)
Asked_Frames == Lesser(BLOCKSIZE, samplesleft)

Asked == Lesser(BLOCKSIZE, samplesleft * wav.channels)

position == wav.frames - samplesleft

(* The frames that sf_read_float delivers next.                            *)
FramesRead ==
    IF Asked % wav.channels # 0 THEN 0
    ELSE Lesser(Asked \div wav.channels, wav.data - position)

(* Mutant: two channels are copied as one.                                 *)
Step_One == 1

(* Mono is copied value by value; of everything else two values are taken  *)
(* for a frame.                                                            *)
Step == IF wav.channels = 1 THEN 1 ELSE 2

Stored == {j \in 0 .. BLOCKSIZE - 1 : j * Step < FramesRead * wav.channels}

(* Mutant: values are counted where frames are meant.                      *)
Left_Values == samplesleft - FramesRead * wav.channels

Left == samplesleft - FramesRead

(* One block.  A store beyond the array is outside "samples".              *)
ReadBlock ==
    /\ samplesleft > 0
    /\ samples' = [k \in DOMAIN samples |->
                     IF k - position \in Stored
                     THEN position + ((k - position) * Step) \div wav.channels
                     ELSE samples[k]]
    /\ samplesleft' = Left
    /\ UNCHANGED wav

(* The block stores beyond the array: files of more than two channels.     *)
Overruns == \E j \in Stored : position + j >= wav.frames

InPlace == \A k \in DOMAIN samples : samples[k] = k
================================================================================
