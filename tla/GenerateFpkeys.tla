---------------------------- MODULE GenerateFpkeys ----------------------------
(***************************************************************************)
(* The program generate_fpkeys: generate_fpkeys of src/src/asearch.cpp     *)
(* reads a WAV file, computes its keys stage by stage and writes them to a *)
(* key file, which another program may open at any time.                   *)
(*                                                                         *)
(* A stage that reads outside its array may crash the program or go on     *)
(* with what it found.                                                     *)
(***************************************************************************)
EXTENDS WavFile, FrontEnd, KeyFile

(* A file has a rate, and a name with or without .wav; frames are counted  *)
(* in an unsigned int.                                                     *)
ASSUME ArgumentAssumption ==
    \A w \in Wavs : w.frames < UINT /\ w.freq \in Freq /\ w.named \in BOOLEAN

VARIABLES
    pc,             \* how far the program is
    count,          \* nsamples in wav2bits, then nframes
    bits            \* what the array of keys holds

genVars == <<pc, count, bits>>
vars == <<wavVars, keyFileVars, genVars>>

(* "failed" is an exit with a message, "crashed" a signal or an exception, *)
(* "killed" an end from outside.                                           *)
Ended == {"done", "failed", "crashed", "killed"}
ProgramState ==
    {"open", "read", "downsample", "wdft", "computebits", "name", "write"} \cup Ended
BitsState == {"unset", "null", "computed", "garbage"}

TypeOK ==
    /\ WavTypeOK /\ KeyFileTypeOK
    /\ pc \in ProgramState /\ count \in Nat /\ bits \in BitsState

Init ==
    /\ WavInit /\ KeyFileInit
    /\ pc = "open" /\ count = 0 /\ bits = "unset"

(* A stage goes on to "next"; outside its array it may also crash.         *)
Proceed(inRange, next) == pc' \in {next} \cup IF inRange THEN {} ELSE {"crashed"}

-----------------------------------------------------------------------------

Open ==
    /\ pc = "open"
    /\ pc' = IF wav.readable THEN "read" ELSE "failed"
    /\ UNCHANGED <<wavVars, keyFileVars, count, bits>>

Read ==
    /\ pc = "read"
    /\ ReadBlock
    /\ Proceed(~Overruns, "read")
    /\ UNCHANGED <<keyFileVars, count, bits>>

(* wavread returns, and wav2bits looks at the rate: of one it does not     *)
(* support it makes no keys, and leaves their count uninitialised.         *)
StartWav2bits ==
    /\ pc = "read" /\ samplesleft = 0
    /\ count' = wav.frames
    /\ IF wav.freq \in Supported
       THEN pc' = "downsample" /\ UNCHANGED <<bits, nbits>>
       ELSE pc' = "name" /\ bits' = "null" /\ nbits' \in 0 .. MaxKeys
    /\ UNCHANGED <<wavVars, put, ondisk, full, readerVars>>

Downsample ==
    /\ pc = "downsample"
    /\ count' = newnsamples(count, wav.freq)
    /\ Proceed(ConvolvesInRange(count, wav.freq), "wdft")
    /\ UNCHANGED <<wavVars, keyFileVars, bits>>

Wdft ==
    /\ pc = "wdft"
    /\ count' = nframes(count)
    /\ Proceed(FramesInRange(count), "computebits")
    /\ UNCHANGED <<wavVars, keyFileVars, bits>>

(* Keys that the loop does not store stay as malloc left them.             *)
Computebits ==
    /\ pc = "computebits"
    /\ nbits' = nbitsOf(count)
    /\ bits' = IF KeysStored(count) = nbits' THEN "computed" ELSE "garbage"
    /\ Proceed(CornersInRange(count) /\ KeysStored(count) =< nbits', "name")
    /\ UNCHANGED <<wavVars, put, ondisk, full, readerVars, count>>

(* The name of the key file is that of the WAV file with .fpkeys for .wav; *)
(* replace throws when there is none.  Then the file is created.           *)
NameAndOpen ==
    /\ pc = "name"
    /\ pc' \in IF wav.named THEN {"write", "failed"} ELSE {"crashed"}
    /\ UNCHANGED <<wavVars, keyFileVars, count, bits>>

(* A key is taken from the null pointer, or from more memory than there is.*)
Unreadable ==
    put >= 2 * WORDBYTES /\ put < Bytes /\ bits \in {"null", "garbage"}

Write ==
    /\ pc = "write"
    /\ fwrite
    /\ Unreadable => bits = "garbage"
    /\ UNCHANGED <<wavVars, genVars>>

CrashInWrite ==
    /\ pc = "write" /\ Unreadable
    /\ pc' = "crashed"
    /\ UNCHANGED <<wavVars, keyFileVars, count, bits>>

BufferDrains == pc = "write" /\ WriteOut /\ UNCHANGED <<wavVars, genVars>>

DiskBecomesFull == pc = "write" /\ DiskFills /\ UNCHANGED <<wavVars, genVars>>

Close ==
    /\ pc = "write" /\ Flushed
    /\ pc' = "done"
    /\ UNCHANGED <<wavVars, keyFileVars, count, bits>>

Kill ==
    /\ pc \notin Ended
    /\ pc' = "killed"
    /\ UNCHANGED <<wavVars, keyFileVars, count, bits>>

ProgramStep ==
    \/ Open \/ Read \/ StartWav2bits \/ Downsample \/ Wdft \/ Computebits
    \/ NameAndOpen \/ Write \/ CrashInWrite \/ BufferDrains \/ Close

Reader ==
    /\ OpenToRead(pc = "done") \/ ReaderStep
    /\ UNCHANGED <<wavVars, genVars>>

Next == ProgramStep \/ DiskBecomesFull \/ Kill \/ Reader

Spec == Init /\ [][Next]_vars

(* The program runs until it ends, and its buffer is written out.          *)
FairSpec == Spec /\ WF_vars(ProgramStep)

-----------------------------------------------------------------------------
(* Properties.                                                             *)

Usable == wav.channels =< 2 /\ wav.freq \in Supported /\ LongEnough(wav.frames, wav.freq)

(* Past wavread every frame of a mono or stereo file is where it belongs,  *)
(* also when the length is no multiple of a block; a file that holds less  *)
(* than its header says never gets there.                                  *)
SamplesInPlace ==
    pc \in {"downsample", "wdft", "computebits", "name", "write", "done"} =>
        /\ wav.data = wav.frames
        /\ wav.channels =< 2 => InPlace

(* Whatever crashes the program is in its arguments: more than two         *)
(* channels, a rate it refuses, a name without .wav, or a recording that   *)
(* makes fewer frames than a key looks at.                                 *)
CrashesOnlyOnBadInput == pc = "crashed" => ~Usable \/ ~wav.named

(* The keys of a usable recording are all computed, and they are one fewer *)
(* than would fit: wdft leaves out the last frame that fits, so the frames *)
(* it makes for the keys end at least one step before the end of the       *)
(* samples, and less than two.                                             *)
KeysCoverRecording ==
    pc \in {"name", "write", "done"} /\ Usable =>
        LET reach == FRAMESIZE + (KEYWIDTH + nbits - 1) * OVERLAPSAMPLES
            size == newnsamples(wav.frames, wav.freq)
        IN  /\ bits = "computed"
            /\ reach + OVERLAPSAMPLES =< size
            /\ size < reach + 2 * OVERLAPSAMPLES

(* A reader that finds as many keys as the file announces has read the     *)
(* whole file, or no key at all: a program that is killed, or a full disk, *)
(* cannot make a shorter index that looks complete.                        *)
SilentLossIsTotal ==
    reader = "returned" /\ nkeys = len => nkeys = 0 \/ (nkeys = nbits /\ tellg = Bytes)

(* What is read from a file that was closed on a disk with room is what    *)
(* was written.                                                            *)
RoundTrip ==
    reader = "returned" /\ ~early /\ ~full => len = nbits /\ nkeys = nbits

(* A usable recording that is there to its end is dealt with.              *)
GenerateEnds == Usable /\ wav.data = wav.frames => <>(pc \in Ended)
===============================================================================
