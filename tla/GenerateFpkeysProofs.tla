------------------------- MODULE GenerateFpkeysProofs -------------------------
(***************************************************************************)
(* Theorems about GenerateFpkeys, for every file and every size of frame,  *)
(* key and word.                                                           *)
(***************************************************************************)
EXTENDS GenerateFpkeys, TLAPS

(* Division of natural numbers, in terms of multiplication.                *)
LEMMA DivBounds ==
    ASSUME NEW a \in Nat, NEW b \in Nat \ {0}
    PROVE  /\ a \div b \in Nat
           /\ b * (a \div b) =< a
           /\ a < b * (a \div b) + b
OBVIOUS

(* A quotient is at most q if the number is below that many divisors more. *)
LEMMA DivIsBelow ==
    ASSUME NEW a \in Nat, NEW b \in Nat \ {0}, NEW q \in Nat, a < q * b
    PROVE  a \div b < q
<1>1. b * (a \div b) =< a /\ a \div b \in Nat  BY DivBounds
<1>2. SUFFICES ASSUME a \div b >= q PROVE FALSE  BY <1>1
<1>3. b * (a \div b) >= b * q  BY <1>1, <1>2
<1> QED  BY <1>1, <1>3

LEMMA DivIsAtMost ==
    ASSUME NEW a \in Nat, NEW b \in Nat \ {0}, NEW q \in Nat, a =< q * b
    PROVE  a \div b =< q
<1>1. a < (q + 1) * b  OBVIOUS
<1>2. a \div b < q + 1  BY <1>1, DivIsBelow
<1> QED  BY <1>2, DivBounds

-----------------------------------------------------------------------------
(* The sizes of the front end.                                             *)

LEMMA WrapBelow ==
    ASSUME NEW n \in Nat, n < UINT
    PROVE  Wrap(n) = n
<1>1. n \div UINT = 0
  <2>1. n \div UINT < 1  BY UintAssumption, FrameAssumption, DivIsBelow
  <2> QED  BY <2>1, UintAssumption, FrameAssumption, DivBounds
<1>2. n = UINT * (n \div UINT) + (n % UINT)  BY UintAssumption, FrameAssumption
<1>3. n % UINT \in Nat  BY UintAssumption, FrameAssumption
<1> QED  BY <1>1, <1>2, <1>3, UintAssumption DEF Wrap

LEMMA WrapType ==
    ASSUME NEW n \in Int
    PROVE  Wrap(n) \in 0 .. UINT - 1
BY UintAssumption, FrameAssumption DEF Wrap

(* downsample of a recording that is long enough makes enough samples, and *)
(* its last convolution ends inside the recording.                         *)
LEMMA DownsampleIsSafe ==
    ASSUME NEW n \in Nat, n < UINT, NEW f \in Supported, LongEnough(n, f)
    PROVE  /\ newnsamples(n, f) \in Nat
           /\ newnsamples(n, f) < UINT
           /\ newnsamples(n, f) >= Enough
           /\ ConvolvesInRange(n, f)
<1>0. Enough \in Nat /\ Enough > 0
  <2>1. KEYWIDTH * OVERLAPSAMPLES \in Nat  BY FrameAssumption
  <2> QED  BY <2>1, FrameAssumption DEF Enough
<1>1. CASE f = "DFREQ"
  BY <1>0, <1>1 DEF newnsamples, ConvolvesInRange, LongEnough
<1>2. CASE f # "DFREQ"
  <2>1. /\ Mult(f) \in Nat \ {0} /\ Less(f) \in Nat /\ Taps(f) \in Nat
        /\ Taps(f) =< Mult(f) * (Less(f) + 1)
    BY FilterAssumption DEF Mult, Less, Taps
  <2> DEFINE q == n \div Mult(f)
  <2>2. q \in Nat /\ Mult(f) * q =< n  BY <2>1, DivBounds
  <2>3. q =< n
    <3>1. Mult(f) * q >= q  BY <2>1, <2>2
    <3> QED  BY <2>2, <2>1, <3>1
  <2>4. q >= Less(f) + Enough  BY <1>2 DEF LongEnough
  <2> HIDE DEF q
  <2>5. q - Less(f) \in Nat /\ q - Less(f) < UINT /\ q - Less(f) >= Enough
    BY <1>0, <2>1, <2>2, <2>3, <2>4, UintAssumption
  <2>6. newnsamples(n, f) = q - Less(f)
    BY <1>2, <2>5, WrapBelow DEF newnsamples, q
  <2>7. Mult(f) * (q - Less(f) - 1) + Taps(f) =< n
    <3>1. Mult(f) * (q - Less(f) - 1) = Mult(f) * q - Mult(f) * (Less(f) + 1)
      BY <2>1, <2>2
    <3>2. Mult(f) * q \in Nat /\ Mult(f) * (Less(f) + 1) \in Nat  BY <2>1, <2>2
    <3> QED  BY <3>1, <3>2, <2>1, <2>2
  <2> QED  BY <2>5, <2>6, <2>7 DEF ConvolvesInRange
<1> QED  BY <1>1, <1>2

(* The frames of such samples lie inside them, and are as many as a key     *)
(* looks at.                                                               *)
LEMMA FramesAreSafe ==
    ASSUME NEW s \in Nat, s < UINT, s >= Enough
    PROVE  /\ nframes(s) \in Nat
           /\ nframes(s) >= KEYWIDTH
           /\ nframes(s) < UINT
           /\ FramesInRange(s)
           /\ nframes(s) * OVERLAPSAMPLES + FRAMESIZE =< s
           /\ s < nframes(s) * OVERLAPSAMPLES + FRAMESIZE + OVERLAPSAMPLES
<1> DEFINE o == OVERLAPSAMPLES
           q == s \div o
           r == FRAMESIZE \div o
<1>1. o \in Nat \ {0} /\ FRAMESIZE \in Nat /\ KEYWIDTH \in Nat /\ KEYWIDTH > 0
  BY FrameAssumption
<1>2. q \in Nat /\ o * q =< s /\ s < o * q + o  BY <1>1, DivBounds
<1>3. r \in Nat /\ FRAMESIZE = r * o  BY FrameAssumption
<1>4. WholeSteps(s) = q * o  BY DEF WholeSteps
<1>5. s >= r * o + KEYWIDTH * o  BY <1>3 DEF Enough
<1> HIDE DEF q, r, o
<1>6. q >= r + KEYWIDTH
  <2>1. SUFFICES ASSUME q + 1 =< r + KEYWIDTH PROVE FALSE  BY <1>1, <1>2, <1>3
  <2>2. (q + 1) * o =< (r + KEYWIDTH) * o  BY <1>1, <1>2, <1>3, <2>1
  <2>3. (r + KEYWIDTH) * o = r * o + KEYWIDTH * o /\ (q + 1) * o = o * q + o
    BY <1>1, <1>2, <1>3
  <2>4. r * o \in Nat /\ KEYWIDTH * o \in Nat /\ o * q \in Nat  BY <1>1, <1>2, <1>3
  <2> QED  BY <1>1, <1>2, <1>5, <2>2, <2>3, <2>4
<1>7. q - r \in Nat  BY <1>1, <1>2, <1>3, <1>6
<1>8. q * o - FRAMESIZE = (q - r) * o  BY <1>1, <1>2, <1>3
<1>9. (q - r) * o \in Nat /\ (q - r) * o < UINT
  <2>1. q * o = o * q /\ (q - r) * o \in Nat  BY <1>1, <1>2, <1>7
  <2> QED  BY <2>1, <1>1, <1>2, <1>8, UintAssumption
<1>10. nframes(s) = q - r
  <2>1. Wrap(WholeSteps(s) - FRAMESIZE) = (q - r) * o  BY <1>4, <1>8, <1>9, WrapBelow
  <2>2. ((q - r) * o) \div o = q - r  BY <1>1, <1>7
  <2> QED  BY <2>1, <2>2 DEF nframes, o
<1>11. (q - r) * o + FRAMESIZE = q * o /\ q * o = o * q
  BY <1>1, <1>2, <1>7, <1>8
<1>12. q - r < UINT
  <2>1. (q - r) * o >= q - r  BY <1>1, <1>7
  <2> QED  BY <2>1, <1>7, <1>9, UintAssumption
<1>13. (q - r - 1) * o + FRAMESIZE =< s
  <2>1. (q - r - 1) * o = (q - r) * o - o  BY <1>1, <1>7
  <2> QED  BY <2>1, <1>1, <1>2, <1>9, <1>11
<1>14. FramesInRange(s)
  <2>1. q - r > 0  BY <1>1, <1>2, <1>3, <1>6
  <2>2. (nframes(s) - 1) * OVERLAPSAMPLES + FRAMESIZE =< s  BY <1>10, <1>13 DEF o
  <2> QED  BY <1>10, <2>1, <2>2 DEF FramesInRange
<1>15. (q - r) * o + FRAMESIZE =< s /\ s < (q - r) * o + FRAMESIZE + o
  BY <1>1, <1>2, <1>11
<1>16. q - r >= KEYWIDTH  BY <1>1, <1>2, <1>3, <1>6
<1> QED
  BY <1>7, <1>10, <1>12, <1>14, <1>15, <1>16 DEF o

(* With as many frames as a key is wide, the keys that are allocated are   *)
(* the keys that are stored, and each looks at frames that exist.          *)
LEMMA KeysAreSafe ==
    ASSUME NEW n \in Nat, n < UINT, n >= KEYWIDTH
    PROVE  /\ nbitsOf(n) = n - KEYWIDTH
           /\ KeysStored(n) = n - KEYWIDTH
           /\ CornersInRange(n)
<1>1. PICK h \in Nat : KEYWIDTH = 2 * h /\ KEYWIDTH \div 2 = h /\ h > 0
  BY FrameAssumption
<1>2. last_time(n) = n - h
  <2>1. n - h \in Nat /\ n - h < UINT  BY <1>1, UintAssumption
  <2> QED  BY <1>1, <2>1, WrapBelow DEF last_time
<1>3. first_time = h + 1  BY <1>1 DEF first_time
<1>4. nbitsOf(n) = n - KEYWIDTH
  <2>1. n - h - (h + 1) + 1 = n - KEYWIDTH  BY <1>1
  <2>2. n - KEYWIDTH \in Nat /\ n - KEYWIDTH < UINT  BY <1>1, UintAssumption
  <2>3. nbitsOf(n) = Wrap(n - KEYWIDTH)  BY <1>2, <1>3, <2>1 DEF nbitsOf
  <2> QED  BY <2>2, <2>3, WrapBelow
<1> QED  BY <1>1, <1>2, <1>3, <1>4 DEF KeysStored, CornersInRange

(* The application always records 110250 samples of 11025 Hz, and hands    *)
(* the matcher the 729 keys that SampleSize of MatchWorkers stands for.    *)
THEOREM TenSecondsMake729Keys ==
    ASSUME UINT = 4294967296, FRAMESIZE = 2048, OVERLAPSAMPLES = 64, KEYWIDTH = 100,
           OFREQ2MULT = 2, OFREQ2LESS = 9
    PROVE  nbitsOf(nframes(newnsamples(110250, "OFREQ2"))) = 729
<1>1. newnsamples(110250, "OFREQ2") = 55116  BY DEF newnsamples, Wrap, Mult, Less
<1>2. nframes(55116) = 829  BY DEF nframes, WholeSteps, Wrap
<1>3. nbitsOf(829) = 729  BY DEF nbitsOf, last_time, first_time, Wrap
<1> QED  BY <1>1, <1>2, <1>3

-----------------------------------------------------------------------------
(* A block.                                                                *)

(* sf_read_float delivers no more frames than are left.                    *)
LEMMA FramesReadType ==
    ASSUME WavTypeOK, position =< wav.data
    PROVE  /\ FramesRead \in 0 .. samplesleft
           /\ position + FramesRead =< wav.data
           /\ FramesRead =< BLOCKSIZE
           /\ position \in 0 .. wav.frames
<1>1. /\ wav.frames \in Nat /\ wav.data \in 0 .. wav.frames
      /\ wav.channels \in Nat \ {0} /\ samplesleft \in 0 .. wav.frames
  BY WavsAssumption DEF WavTypeOK
<1>2. position \in 0 .. wav.frames  BY <1>1 DEF position
<1>3. samplesleft * wav.channels \in Nat  BY <1>1
<1>4. /\ Asked \in Nat /\ Asked =< samplesleft * wav.channels /\ Asked =< BLOCKSIZE
  BY <1>3, BlockAssumption DEF Asked, Lesser
<1>5. Asked \div wav.channels \in 0 .. samplesleft
  BY <1>1, <1>4, DivIsAtMost, DivBounds
<1>6. Asked \div wav.channels =< BLOCKSIZE
  <2>1. BLOCKSIZE * wav.channels >= BLOCKSIZE  BY <1>1, BlockAssumption
  <2>2. Asked =< BLOCKSIZE * wav.channels  BY <2>1, <1>1, <1>4, BlockAssumption
  <2> QED  BY <2>2, <1>1, <1>4, BlockAssumption, DivIsAtMost
<1>7. wav.data - position \in Nat  BY <1>1, <1>2
<1> QED
  BY <1>1, <1>2, <1>5, <1>6, <1>7, BlockAssumption DEF FramesRead, Lesser

(* A value that is stored was made of a frame that was read.               *)
LEMMA StoredFrame ==
    ASSUME WavTypeOK, position =< wav.data, NEW j \in Stored
    PROVE  /\ j \in Nat
           /\ position + (j * Step) \div wav.channels \in 0 .. wav.frames - 1
           /\ wav.channels =< 2 => j < FramesRead /\ (j * Step) \div wav.channels = j
<1>1. /\ wav.frames \in Nat /\ wav.channels \in Nat \ {0}
      /\ samplesleft \in 0 .. wav.frames
  BY WavsAssumption DEF WavTypeOK
<1>2. FramesRead \in 0 .. samplesleft /\ position \in 0 .. wav.frames
  BY FramesReadType
<1>3. j \in Nat /\ Step \in {1, 2} /\ j * Step \in Nat
      /\ j * Step < FramesRead * wav.channels
  BY <1>1, BlockAssumption DEF Stored, Step
<1>4. (j * Step) \div wav.channels < FramesRead  BY <1>1, <1>2, <1>3, DivIsBelow
<1>5. (j * Step) \div wav.channels \in Nat  BY <1>1, <1>3, DivBounds
<1>6. wav.channels =< 2 => wav.channels = Step  BY <1>1 DEF Step
<1>7. wav.channels = Step => (j * Step) \div wav.channels = j  BY <1>3
<1> QED
  BY <1>1, <1>2, <1>3, <1>4, <1>5, <1>6, <1>7 DEF position

(* In a mono or stereo file the values stored are the frames read.         *)
LEMMA StoredFrames ==
    ASSUME WavTypeOK, position =< wav.data, wav.channels =< 2,
           NEW j \in 0 .. FramesRead - 1
    PROVE  j \in Stored
<1>1. FramesRead \in Nat /\ FramesRead =< BLOCKSIZE
  BY FramesReadType, WavsAssumption DEF WavTypeOK
<1>2. wav.channels \in Nat /\ wav.channels = Step /\ Step \in {1, 2}
  BY WavsAssumption DEF WavTypeOK, Step
<1>3. j * Step < FramesRead * wav.channels  BY <1>1, <1>2
<1> QED  BY <1>1, <1>3, BlockAssumption DEF Stored

-----------------------------------------------------------------------------
(* Types, and what has been read.                                          *)

Beyond == {"downsample", "wdft", "computebits", "name", "write", "done"}

(* What was read is there, in its place.                                   *)
ReadInv ==
    /\ position =< wav.data
    /\ wav.channels =< 2 => \A k \in 0 .. position - 1 : samples[k] = k
    /\ pc \in Beyond => samplesleft = 0

WavInv == TypeOK /\ ReadInv

LEMMA WavTypes ==
    ASSUME WavTypeOK
    PROVE  /\ wav.frames \in Nat /\ wav.data \in 0 .. wav.frames
           /\ wav.channels \in Nat \ {0}
           /\ wav.frames < UINT /\ wav.freq \in Freq /\ wav.named \in BOOLEAN
           /\ samplesleft \in 0 .. wav.frames
           /\ position \in 0 .. wav.frames
BY WavsAssumption, ArgumentAssumption DEF WavTypeOK, position

LEMMA InitWav == Init => WavInv
<1> SUFFICES ASSUME Init PROVE WavInv  OBVIOUS
<1>1. WavTypeOK  BY WavsAssumption DEF Init, WavInit, WavTypeOK
<1>2. position = 0  BY WavTypes, <1>1 DEF Init, WavInit, position
<1>3. ReadInv  BY <1>1, <1>2, WavTypes DEF Init, ReadInv, Beyond
<1>4. KeyFileTypeOK
  <2>1. full \in BOOLEAN /\ early \in BOOLEAN  BY DEF Init, KeyFileInit
  <2>2. nbits \in Nat /\ put \in Nat /\ ondisk \in 0 .. put
    BY DEF Init, KeyFileInit
  <2>3. reader \in ReaderState  BY DEF Init, KeyFileInit, ReaderState
  <2>4. tellg \in Nat /\ len \in Nat /\ nkeys \in Nat  BY DEF Init, KeyFileInit
  <2> QED  BY <2>1, <2>2, <2>3, <2>4 DEF KeyFileTypeOK
<1>5. pc \in ProgramState /\ count \in Nat /\ bits \in BitsState
  BY DEF Init, ProgramState, Ended, BitsState
<1> QED  BY <1>1, <1>3, <1>4, <1>5 DEF WavInv, TypeOK

(* A block keeps the array in order.                                       *)
LEMMA ReadKeepsWav ==
    ASSUME WavInv, Read
    PROVE  WavInv'
<1> USE DEF Read, ReadBlock
<1>1. WavTypeOK /\ position =< wav.data  BY DEF WavInv, TypeOK, ReadInv
<1>2. /\ FramesRead \in 0 .. samplesleft /\ position + FramesRead =< wav.data
      /\ position \in 0 .. wav.frames
  BY <1>1, FramesReadType
<1>3. samplesleft' \in 0 .. wav.frames /\ position' = position + FramesRead
  BY <1>1, <1>2, WavTypes DEF Left, position
<1>4. samples' \in [0 .. wav.frames - 1 -> 0 .. wav.frames - 1 \cup {None}]
  <2>1. ASSUME NEW k \in 0 .. wav.frames - 1
        PROVE  samples'[k] \in 0 .. wav.frames - 1 \cup {None}
    <3>1. CASE k - position \in Stored
      BY <3>1, <1>1, StoredFrame DEF WavTypeOK
    <3>2. CASE k - position \notin Stored
      BY <3>2, <1>1 DEF WavTypeOK
    <3> QED  BY <3>1, <3>2
  <2>2. DOMAIN samples = 0 .. wav.frames - 1  BY <1>1 DEF WavTypeOK
  <2> QED  BY <2>1, <2>2
<1>5. WavTypeOK'  BY <1>1, <1>3, <1>4 DEF WavTypeOK
<1>6. wav.channels =< 2 => \A k \in 0 .. position' - 1 : samples'[k] = k
  <2> SUFFICES ASSUME wav.channels =< 2, NEW k \in 0 .. position' - 1
               PROVE  samples'[k] = k
    OBVIOUS
  <2>1. k \in DOMAIN samples  BY <1>1, <1>2, <1>3, WavTypes DEF WavTypeOK
  <2>2. CASE k - position \in Stored
    <3>1. ((k - position) * Step) \div wav.channels = k - position
      BY <2>2, <1>1, StoredFrame
    <3> QED  BY <2>1, <2>2, <3>1, <1>2
  <2>3. CASE k - position \notin Stored
    <3>1. k < position
      <4>1. SUFFICES ASSUME k >= position PROVE FALSE  BY <1>2
      <4>2. k - position \in 0 .. FramesRead - 1  BY <4>1, <1>2, <1>3
      <4> QED  BY <4>2, <2>3, <1>1, StoredFrames
    <3> QED  BY <2>1, <2>3, <3>1, <1>2 DEF WavInv, ReadInv
  <2> QED  BY <2>2, <2>3
<1>7. ReadInv'
  BY <1>1, <1>2, <1>3, <1>6 DEF ReadInv, Beyond, Proceed
<1>8. TypeOK'
  BY <1>5 DEF WavInv, TypeOK, KeyFileTypeOK, keyFileVars, Proceed, ProgramState, Ended
<1> QED  BY <1>7, <1>8 DEF WavInv

(* nbits stays a number in every stage.                                    *)
LEMMA NextKeepsWav ==
    ASSUME WavInv, [Next]_vars
    PROVE  WavInv'
<1> USE DEF WavInv
<1>0. WavTypeOK /\ KeyFileTypeOK /\ ReadInv  BY DEF TypeOK
<1>1. CASE Read  BY <1>1, ReadKeepsWav
<1>2. ASSUME UNCHANGED wavVars, pc' \in Beyond => pc \in Beyond
      PROVE  WavTypeOK' /\ ReadInv'
  BY <1>0, <1>2 DEF wavVars, WavTypeOK, ReadInv, position
<1>3. \A n \in Int : Wrap(n) \in Nat  BY WrapType, UintAssumption
<1>4. CASE Open
  BY <1>4, <1>0, <1>2 DEF Open, TypeOK, keyFileVars, KeyFileTypeOK, ProgramState, Ended, Beyond
<1>5. CASE StartWav2bits
  <2>1. UNCHANGED wavVars /\ samplesleft = 0  BY <1>5 DEF StartWav2bits
  <2>2. WavTypeOK' /\ ReadInv'  BY <2>1, <1>0 DEF wavVars, WavTypeOK, ReadInv, position
  <2>3. count' \in Nat  BY <1>5, <1>0, WavTypes DEF StartWav2bits
  <2>4. nbits' \in Nat
    BY <1>5, <1>0, MaxKeysAssumption DEF StartWav2bits, KeyFileTypeOK
  <2> QED
    BY <2>2, <2>3, <2>4, <1>5, <1>0 DEF StartWav2bits, TypeOK, KeyFileTypeOK, readerVars,
       ProgramState, Ended, BitsState
<1>6. CASE Downsample
  <2>1. count' \in Nat
    <3>1. count \div Mult(wav.freq) - Less(wav.freq) \in Int
      <4>1. count \in Nat  BY DEF TypeOK
      <4>2. Mult(wav.freq) \in Nat \ {0} /\ Less(wav.freq) \in Nat
        BY FilterAssumption DEF Mult, Less
      <4> QED  BY <4>1, <4>2, DivBounds
    <3> QED  BY <3>1, <1>3, <1>6 DEF Downsample, newnsamples, TypeOK
  <2> QED
    BY <2>1, <1>6, <1>0, <1>2 DEF Downsample, Proceed, TypeOK, keyFileVars, KeyFileTypeOK,
       ProgramState, Ended, Beyond
<1>7. CASE Wdft
  <2>1. count' \in Nat
    <3>1. count \in Nat  BY DEF TypeOK
    <3>2. WholeSteps(count) - FRAMESIZE \in Int
      BY <3>1, FrameAssumption, DivBounds DEF WholeSteps
    <3>3. Wrap(WholeSteps(count) - FRAMESIZE) \in Nat  BY <3>2, <1>3
    <3> QED  BY <3>3, <1>7, FrameAssumption, DivBounds DEF Wdft, nframes
  <2> QED
    BY <2>1, <1>7, <1>0, <1>2 DEF Wdft, Proceed, TypeOK, keyFileVars, KeyFileTypeOK,
       ProgramState, Ended, Beyond
<1>8. CASE Computebits
  <2>1. nbits' \in Nat
    <3>1. count \in Nat  BY DEF TypeOK
    <3>2. KEYWIDTH \div 2 \in Nat  BY FrameAssumption
    <3>3. last_time(count) \in Nat  BY <3>1, <3>2, <1>3 DEF last_time
    <3>4. last_time(count) - first_time + 1 \in Int  BY <3>2, <3>3 DEF first_time
    <3> QED  BY <3>4, <1>3, <1>8 DEF Computebits, nbitsOf
  <2> QED
    BY <2>1, <1>8, <1>0, <1>2 DEF Computebits, Proceed, TypeOK, readerVars, KeyFileTypeOK,
       ProgramState, Ended, Beyond, BitsState
<1>9. CASE NameAndOpen
  BY <1>9, <1>0, <1>2 DEF NameAndOpen, TypeOK, keyFileVars, KeyFileTypeOK, ProgramState, Ended, Beyond
<1>10. CASE Write
  <2>1. put' \in Nat /\ ondisk \in 0 .. put'
    BY <1>10, <1>0, WordAssumption DEF Write, fwrite, KeyFileTypeOK
  <2> QED
    BY <2>1, <1>10, <1>0, <1>2 DEF Write, fwrite, genVars, TypeOK, readerVars, KeyFileTypeOK
<1>11. CASE CrashInWrite \/ Close \/ Kill
  BY <1>11, <1>0, <1>2 DEF CrashInWrite, Close, Kill, TypeOK, keyFileVars, KeyFileTypeOK,
     ProgramState, Ended, Beyond
<1>12. CASE BufferDrains \/ DiskBecomesFull
  <2>1. KeyFileTypeOK'
    <3>1. CASE BufferDrains
      BY <3>1, <1>0 DEF BufferDrains, WriteOut, readerVars, KeyFileTypeOK
    <3>2. CASE DiskBecomesFull
      BY <3>2, <1>0 DEF DiskBecomesFull, DiskFills, readerVars, KeyFileTypeOK
    <3> QED  BY <1>12, <3>1, <3>2
  <2> QED
    BY <2>1, <1>12, <1>2 DEF BufferDrains, DiskBecomesFull, genVars, TypeOK
<1>13. CASE Reader
  <2>1. KeyFileTypeOK'
    <3>1. CASE OpenToRead(pc = "done")
      BY <3>1, <1>0 DEF OpenToRead, writerVars, KeyFileTypeOK, ReaderState
    <3>2. CASE ReaderStep
      BY <3>2, <1>0, WordAssumption DEF ReaderStep, ReadMagic, ReadLen, ReadKey, push_back,
         writerVars, KeyFileTypeOK, ReaderState
    <3> QED  BY <1>13, <3>1, <3>2 DEF Reader
  <2> QED
    BY <2>1, <1>13, <1>2 DEF Reader, genVars, TypeOK
<1>14. CASE UNCHANGED vars
  BY <1>14, <1>0, <1>2 DEF vars, genVars, keyFileVars, TypeOK, KeyFileTypeOK
<1> QED
  BY <1>1, <1>4, <1>5, <1>6, <1>7, <1>8, <1>9, <1>10, <1>11, <1>12, <1>13, <1>14
     DEF Next, ProgramStep

(* The program keeps its types: counts that wrap around are still counts,  *)
(* and every sample that wavread stores in the array is that of a frame.   *)
THEOREM GenerateTypeCorrect == Spec => []TypeOK
<1>1. WavInv => TypeOK  BY DEF WavInv
<1> QED  BY InitWav, NextKeepsWav, <1>1, PTL DEF Spec

(* The stages after wavread see all of a mono or stereo file, in place,    *)
(* whatever the size of a block, and never a file that is cut short.       *)
THEOREM SamplesAreInPlace == Spec => []SamplesInPlace
<1>1. WavInv => SamplesInPlace
  <2> SUFFICES ASSUME WavInv, pc \in Beyond
               PROVE  wav.data = wav.frames /\ (wav.channels =< 2 => InPlace)
    BY DEF SamplesInPlace, Beyond
  <2>1. WavTypeOK  BY DEF WavInv, TypeOK
  <2>2. position = wav.frames  BY <2>1, WavTypes DEF WavInv, ReadInv, position
  <2>3. DOMAIN samples = 0 .. wav.frames - 1  BY <2>1 DEF WavTypeOK
  <2> QED  BY <2>1, <2>2, <2>3, WavTypes DEF WavInv, ReadInv, InPlace
<1> QED  BY InitWav, NextKeepsWav, <1>1, PTL DEF Spec

-----------------------------------------------------------------------------
(* The stages of a usable recording.                                       *)

Size == newnsamples(wav.frames, wav.freq)

StageInv ==
    /\ pc = "downsample" => count = wav.frames
    /\ Usable =>
        /\ pc = "wdft" => count = Size
        /\ pc = "computebits" => count = nframes(Size)
        /\ pc \in {"name", "write", "done"} =>
            bits = "computed" /\ nbits = nframes(Size) - KEYWIDTH
    /\ pc = "crashed" => ~Usable \/ ~wav.named

(* Every stage of a usable recording reads inside its array.               *)
LEMMA UsableSizes ==
    ASSUME WavTypeOK, Usable
    PROVE  /\ Size \in Nat /\ nframes(Size) \in Nat /\ nframes(Size) >= KEYWIDTH
           /\ ConvolvesInRange(wav.frames, wav.freq)
           /\ FramesInRange(Size)
           /\ CornersInRange(nframes(Size))
           /\ nbitsOf(nframes(Size)) = nframes(Size) - KEYWIDTH
           /\ KeysStored(nframes(Size)) = nframes(Size) - KEYWIDTH
           /\ nframes(Size) * OVERLAPSAMPLES + FRAMESIZE =< Size
           /\ Size < nframes(Size) * OVERLAPSAMPLES + FRAMESIZE + OVERLAPSAMPLES
<1>1. /\ wav.frames \in Nat /\ wav.frames < UINT /\ wav.freq \in Supported
      /\ LongEnough(wav.frames, wav.freq)
  BY WavTypes DEF Usable
<1>2. /\ Size \in Nat /\ Size < UINT /\ Size >= Enough
      /\ ConvolvesInRange(wav.frames, wav.freq)
  BY <1>1, DownsampleIsSafe DEF Size
<1> HIDE DEF Size
<1>3. /\ nframes(Size) \in Nat /\ nframes(Size) >= KEYWIDTH /\ nframes(Size) < UINT
      /\ FramesInRange(Size)
      /\ nframes(Size) * OVERLAPSAMPLES + FRAMESIZE =< Size
      /\ Size < nframes(Size) * OVERLAPSAMPLES + FRAMESIZE + OVERLAPSAMPLES
  BY <1>2, FramesAreSafe
<1>4. /\ nbitsOf(nframes(Size)) = nframes(Size) - KEYWIDTH
      /\ KeysStored(nframes(Size)) = nframes(Size) - KEYWIDTH
      /\ CornersInRange(nframes(Size))
  BY <1>3, KeysAreSafe
<1> QED  BY <1>2, <1>3, <1>4

(* A mono or stereo block is stored inside the array.                      *)
LEMMA NoOverrun ==
    ASSUME WavTypeOK, position =< wav.data, wav.channels =< 2
    PROVE  ~Overruns
<1> SUFFICES ASSUME NEW j \in Stored PROVE position + j < wav.frames  BY WavTypes, StoredFrame DEF Overruns
<1>1. j \in Nat /\ j < FramesRead  BY StoredFrame
<1> QED  BY <1>1, FramesReadType, WavTypes DEF position

LEMMA InitStage == Init => StageInv
BY DEF Init, StageInv

LEMMA NextKeepsStage ==
    ASSUME WavInv, StageInv, [Next]_vars
    PROVE  StageInv'
<1>0. WavTypeOK /\ position =< wav.data  BY DEF WavInv, TypeOK, ReadInv
<1>1. wav' = wav /\ Usable' = Usable /\ Size' = Size
  <2>1. wav' = wav
    BY DEF Next, vars, wavVars, ProgramStep, Open, Read, ReadBlock, StartWav2bits, Downsample,
       Wdft, Computebits, NameAndOpen, Write, CrashInWrite, BufferDrains, Close,
       DiskBecomesFull, Kill, Reader
  <2> QED  BY <2>1 DEF Usable, Size
<1>2. ASSUME UNCHANGED <<pc, count, bits, nbits>> PROVE StageInv'
  BY <1>1, <1>2 DEF StageInv
<1>3. CASE Open  BY <1>1, <1>3 DEF StageInv, Open
<1>4. CASE Read
  <2>1. Usable => pc' = "read"
    BY <1>0, <1>4, NoOverrun DEF Read, Proceed, Usable
  <2>2. pc' \in {"read", "crashed"}  BY <1>4 DEF Read, Proceed
  <2> QED  BY <1>1, <2>1, <2>2 DEF StageInv
<1>5. CASE StartWav2bits
  BY <1>1, <1>5 DEF StageInv, StartWav2bits, Usable
<1>6. CASE Downsample
  <2>1. pc = "downsample" /\ count = wav.frames /\ count' = Size
    BY <1>6 DEF Downsample, StageInv, Size
  <2>2. Usable => pc' = "wdft"
    BY <1>0, <1>6, <2>1, UsableSizes DEF Downsample, Proceed
  <2>3. pc' \in {"wdft", "crashed"}  BY <1>6 DEF Downsample, Proceed
  <2> QED  BY <1>1, <2>1, <2>2, <2>3 DEF StageInv
<1>7. CASE Wdft
  <2>1. Usable => count = Size /\ count' = nframes(Size)  BY <1>7 DEF Wdft, StageInv
  <2>2. Usable => pc' = "computebits"
    BY <1>0, <1>7, <2>1, UsableSizes DEF Wdft, Proceed
  <2>3. pc' \in {"computebits", "crashed"}  BY <1>7 DEF Wdft, Proceed
  <2> QED  BY <1>1, <2>1, <2>2, <2>3 DEF StageInv
<1>8. CASE Computebits
  <2>1. Usable => count = nframes(Size) /\ nbits' = nframes(Size) - KEYWIDTH
    BY <1>0, <1>8, UsableSizes DEF Computebits, StageInv
  <2>2. Usable => KeysStored(count) = nbits'
    BY <1>0, <2>1, UsableSizes
  <2>3. Usable => KeysStored(count) =< nbits' /\ CornersInRange(count)
    BY <1>0, <2>1, <2>2, UsableSizes, FrameAssumption
  <2>4. Usable => bits' = "computed" /\ pc' = "name"
    BY <1>8, <2>2, <2>3 DEF Computebits, Proceed
  <2>5. pc' \in {"name", "crashed"}  BY <1>8 DEF Computebits, Proceed
  <2> QED  BY <1>1, <2>1, <2>4, <2>5 DEF StageInv
<1>9. CASE NameAndOpen
  <2>1. UNCHANGED <<count, bits, nbits>> /\ pc = "name"
    BY <1>9 DEF NameAndOpen, keyFileVars
  <2>2. pc' \in {"write", "failed"} \/ (pc' = "crashed" /\ ~wav.named)
    BY <1>9 DEF NameAndOpen
  <2> QED  BY <1>1, <2>1, <2>2 DEF StageInv
<1>10. CASE CrashInWrite
  BY <1>1, <1>10 DEF StageInv, CrashInWrite, Unreadable, keyFileVars
<1>11. CASE Close
  BY <1>1, <1>11 DEF StageInv, Close, keyFileVars
<1>12. CASE Kill
  BY <1>1, <1>12 DEF StageInv, Kill, keyFileVars
<1>13. CASE Write \/ BufferDrains \/ DiskBecomesFull \/ Reader \/ UNCHANGED vars
  BY <1>2, <1>13 DEF Write, fwrite, BufferDrains, WriteOut, DiskBecomesFull, DiskFills, Reader,
     OpenToRead, ReaderStep, ReadMagic, ReadLen, ReadKey, writerVars, genVars, vars, keyFileVars
<1> QED
  BY <1>3, <1>4, <1>5, <1>6, <1>7, <1>8, <1>9, <1>10, <1>11, <1>12, <1>13
     DEF Next, ProgramStep

(* generate_fpkeys crashes on its arguments only: whatever the length of a *)
(* recording that is long enough, every stage reads inside its array.         *)
THEOREM CrashesAreExplained == Spec => []CrashesOnlyOnBadInput
<1>1. StageInv => CrashesOnlyOnBadInput  BY DEF StageInv, CrashesOnlyOnBadInput
<1> QED  BY InitWav, NextKeepsWav, InitStage, NextKeepsStage, <1>1, PTL DEF Spec

(* The keys are all computed, from frames that end one step, and less than *)
(* two, before the end of the samples.                                     *)
THEOREM RecordingIsCovered == Spec => []KeysCoverRecording
<1>1. WavInv /\ StageInv => KeysCoverRecording
  <2> SUFFICES ASSUME WavInv, StageInv, pc \in {"name", "write", "done"}, Usable
               PROVE  /\ bits = "computed"
                      /\ FRAMESIZE + (KEYWIDTH + nbits - 1) * OVERLAPSAMPLES + OVERLAPSAMPLES =< Size
                      /\ Size < FRAMESIZE + (KEYWIDTH + nbits - 1) * OVERLAPSAMPLES + 2 * OVERLAPSAMPLES
    BY DEF KeysCoverRecording, Size
  <2>1. bits = "computed" /\ nbits = nframes(Size) - KEYWIDTH  BY DEF StageInv
  <2>2. /\ Size \in Nat /\ nframes(Size) \in Nat
        /\ nframes(Size) * OVERLAPSAMPLES + FRAMESIZE =< Size
        /\ Size < nframes(Size) * OVERLAPSAMPLES + FRAMESIZE + OVERLAPSAMPLES
    BY UsableSizes DEF WavInv, TypeOK
  <2>3. FRAMESIZE + (KEYWIDTH + nbits - 1) * OVERLAPSAMPLES + OVERLAPSAMPLES
          = nframes(Size) * OVERLAPSAMPLES + FRAMESIZE
    <3>1. KEYWIDTH + nbits - 1 = nframes(Size) - 1
      BY <2>1, <2>2, FrameAssumption
    <3>2. PICK n \in Nat : n = nframes(Size)
      BY <2>2
    <3>3. (n - 1) * OVERLAPSAMPLES + OVERLAPSAMPLES = n * OVERLAPSAMPLES
      BY FrameAssumption
    <3>4. (n - 1) * OVERLAPSAMPLES \in Int /\ n * OVERLAPSAMPLES \in Int
      BY FrameAssumption
    <3> QED  BY <3>1, <3>2, <3>3, <3>4, FrameAssumption
  <2>4. PICK x \in Int : x = (KEYWIDTH + nbits - 1) * OVERLAPSAMPLES
    BY <2>1, <2>2, FrameAssumption
  <2>5. PICK y \in Int : y = nframes(Size) * OVERLAPSAMPLES
    BY <2>2, FrameAssumption
  <2>6. FRAMESIZE \in Int /\ OVERLAPSAMPLES \in Int /\ Size \in Int
    BY <2>2, FrameAssumption
  <2>7. FRAMESIZE + x + OVERLAPSAMPLES = y + FRAMESIZE  BY <2>3, <2>4, <2>5
  <2>8. y + FRAMESIZE =< Size /\ Size < y + FRAMESIZE + OVERLAPSAMPLES
    BY <2>2, <2>5
  <2>9. /\ FRAMESIZE + x + OVERLAPSAMPLES =< Size
        /\ Size < FRAMESIZE + x + 2 * OVERLAPSAMPLES
    BY <2>6, <2>7, <2>8
  <2> QED  BY <2>1, <2>4, <2>9
<1> QED  BY InitWav, NextKeepsWav, InitStage, NextKeepsStage, <1>1, PTL DEF Spec

-----------------------------------------------------------------------------
(* The key file and its reader.                                            *)

(* What the reader was told and has read so far.                           *)
HasRead == len = nbits /\ tellg = WORDBYTES * (2 + nkeys) /\ ondisk > 0

FileInv ==
    /\ pc \in ProgramState \ {"write", "done", "crashed", "killed"} => put = 0
    /\ tellg =< ondisk
    /\ reader \in {"idle", "magic"} => tellg = 0 /\ nkeys = 0
    /\ reader = "len" => tellg = WORDBYTES /\ nkeys = 0
    /\ reader = "keys" => HasRead
    /\ reader = "returned" => nkeys = 0 \/ HasRead
    /\ ~early /\ reader # "idle" => pc = "done"
    /\ pc = "done" /\ ~full => ondisk = Bytes
    /\ reader = "returned" /\ ~early /\ ~full => len = nbits /\ nkeys = nbits

LEMMA InitFile == Init => FileInv
BY DEF Init, KeyFileInit, FileInv, ProgramState

(* The count of keys changes before the file exists only.                  *)
LEMMA CountIsFixed ==
    ASSUME WavInv, FileInv, [Next]_vars, ondisk > 0 \/ pc = "done"
    PROVE  nbits' = nbits
<1>1. KeyFileTypeOK  BY DEF WavInv, TypeOK
<1>2. pc \notin {"open", "read", "downsample", "wdft", "computebits", "name"}
  <2>1. SUFFICES ASSUME ondisk > 0 PROVE put # 0  BY DEF FileInv, ProgramState, Ended
  <2> QED  BY <1>1, <2>1 DEF KeyFileTypeOK
<1> QED
  BY <1>2 DEF Next, ProgramStep, Open, Read, StartWav2bits, Downsample, Wdft, Computebits,
     NameAndOpen, Write, fwrite, CrashInWrite, BufferDrains, WriteOut, Close, DiskBecomesFull,
     DiskFills, Kill, Reader, OpenToRead, ReaderStep, ReadMagic, ReadLen, ReadKey,
     writerVars, keyFileVars, vars

(* The program leaves the reader alone, and the bytes that are on the disk.*)
LEMMA WriterKeepsReader ==
    ASSUME WavInv, FileInv, ProgramStep \/ DiskBecomesFull \/ Kill \/ UNCHANGED vars
    PROVE  /\ UNCHANGED readerVars
           /\ ondisk' >= ondisk
           /\ pc = "done" => UNCHANGED <<pc, writerVars>>
<1>1. ondisk \in Nat /\ put \in Nat  BY DEF WavInv, TypeOK, KeyFileTypeOK
<1> QED
  BY <1>1 DEF ProgramStep, Open, Read, StartWav2bits, Downsample, Wdft, Computebits,
     NameAndOpen, Write, fwrite, CrashInWrite, BufferDrains, WriteOut, Close, DiskBecomesFull,
     DiskFills, Kill, Ended, readerVars, writerVars, keyFileVars, genVars, vars

LEMMA WriterKeepsFile ==
    ASSUME WavInv, FileInv, ProgramStep \/ DiskBecomesFull \/ Kill \/ UNCHANGED vars
    PROVE  FileInv'
<1>1. /\ UNCHANGED readerVars /\ ondisk' >= ondisk
      /\ pc = "done" => UNCHANGED <<pc, writerVars>>
  BY WriterKeepsReader
<1>2. /\ ondisk \in Nat /\ put \in Nat /\ ondisk =< put /\ pc \in ProgramState
      /\ ondisk' \in Nat /\ tellg \in Nat /\ nkeys \in Nat /\ WORDBYTES > 0
  <2>1. KeyFileTypeOK' /\ TypeOK  BY NextKeepsWav DEF WavInv, TypeOK, Next
  <2> QED  BY <2>1, WordAssumption DEF TypeOK, KeyFileTypeOK
<1>3. ondisk > 0 \/ pc = "done" => nbits' = nbits  BY CountIsFixed DEF Next
<1>4. pc' \in ProgramState \ {"write", "done", "crashed", "killed"} => put' = 0
  BY <1>2 DEF FileInv, ProgramState, Ended, ProgramStep, Open, Read, StartWav2bits, Downsample,
     Wdft, Computebits, NameAndOpen, Write, CrashInWrite, BufferDrains, Close, DiskBecomesFull,
     Kill, Proceed, genVars, keyFileVars, vars
<1>5. HasRead => HasRead'  BY <1>1, <1>2, <1>3 DEF HasRead, readerVars
<1>6. pc' = "done" /\ ~full' => ondisk' = Bytes'
  <2>1. CASE pc = "done"  BY <1>1, <2>1 DEF FileInv, writerVars, Bytes
  <2>2. CASE pc # "done" /\ pc' = "done"
    <3>1. Close
      BY <2>2 DEF ProgramStep, Open, Read, StartWav2bits, Downsample, Wdft, Computebits,
         NameAndOpen, Write, CrashInWrite, BufferDrains, DiskBecomesFull, Kill, Proceed,
         genVars, vars
    <3> QED  BY <3>1 DEF Close, Flushed, Bytes, keyFileVars
  <2> QED  BY <2>1, <2>2
<1>7. tellg' =< ondisk'  BY <1>1, <1>2 DEF FileInv, readerVars
<1>8. ~early' /\ reader' # "idle" => pc' = "done"  BY <1>1 DEF FileInv, readerVars
<1>9. reader' = "returned" /\ ~early' /\ ~full' => len' = nbits' /\ nkeys' = nbits'
  <2> SUFFICES ASSUME reader' = "returned" /\ ~early' /\ ~full'
               PROVE  len' = nbits' /\ nkeys' = nbits'
    OBVIOUS
  <2>1. pc = "done" /\ reader = "returned" /\ ~early  BY <1>1 DEF FileInv, readerVars
  <2>2. ~full  BY <1>1, <2>1 DEF writerVars
  <2> QED  BY <1>1, <2>1, <2>2 DEF FileInv, readerVars, writerVars
<1>10. UNCHANGED <<reader, tellg, nkeys>>  BY <1>1 DEF readerVars
<1> QED  BY <1>4, <1>5, <1>6, <1>7, <1>8, <1>9, <1>10 DEF FileInv

(* Having read all of a complete file, the reader has read each key.       *)
LEMMA WholeFile ==
    ASSUME NEW n \in Nat, NEW k \in Nat,
           WORDBYTES * (2 + k) =< WORDBYTES * (2 + n),
           ~(WORDBYTES * (2 + k) + WORDBYTES =< WORDBYTES * (2 + n))
    PROVE  k = n
<1>1. WORDBYTES \in Nat /\ WORDBYTES > 0  BY WordAssumption
<1>2. ~(k > n)
  <2> SUFFICES ASSUME k >= n + 1 PROVE FALSE  OBVIOUS
  <2>1. WORDBYTES * (2 + k) >= WORDBYTES * (2 + n + 1)  BY <1>1
  <2>2. WORDBYTES * (2 + n + 1) = WORDBYTES * (2 + n) + WORDBYTES  BY <1>1
  <2>3. WORDBYTES * (2 + n) \in Nat  BY <1>1
  <2> QED  BY <1>1, <2>1, <2>2, <2>3
<1>3. ~(k < n)
  <2> SUFFICES ASSUME n >= k + 1 PROVE FALSE  OBVIOUS
  <2>1. WORDBYTES * (2 + n) >= WORDBYTES * (2 + k + 1)  BY <1>1
  <2>2. WORDBYTES * (2 + k + 1) = WORDBYTES * (2 + k) + WORDBYTES  BY <1>1
  <2> QED  BY <2>1, <2>2
<1> QED  BY <1>2, <1>3

LEMMA ReaderKeepsFile ==
    ASSUME WavInv, FileInv, Reader
    PROVE  FileInv'
<1>1. /\ nbits \in Nat /\ ondisk \in Nat /\ tellg \in Nat /\ nkeys \in Nat /\ early \in BOOLEAN
      /\ WORDBYTES \in Nat /\ WORDBYTES > 0
  BY WordAssumption DEF WavInv, TypeOK, KeyFileTypeOK
<1>2. UNCHANGED <<nbits, put, ondisk, full, pc>> /\ Bytes' = Bytes
  BY DEF Reader, OpenToRead, ReaderStep, ReadMagic, ReadLen, ReadKey, writerVars, genVars, Bytes
<1>3. CASE OpenToRead(pc = "done")
  <2>1. /\ reader = "idle" /\ reader' = "magic" /\ UNCHANGED <<tellg, len, nkeys>>
        /\ ~early' => pc = "done"
    BY <1>3 DEF OpenToRead
  <2> QED  BY <1>2, <2>1 DEF FileInv
<1>4. ASSUME ~WordOnDisk, reader \in {"magic", "len"}, ~early, ~full PROVE FALSE
  <2>1. pc = "done" /\ ondisk = Bytes /\ tellg \in {0, WORDBYTES}  BY <1>4 DEF FileInv
  <2>2. Bytes = WORDBYTES + WORDBYTES + WORDBYTES * nbits  BY <1>1 DEF Bytes
  <2>3. WORDBYTES * nbits \in Nat  BY <1>1
  <2> QED  BY <1>1, <1>4, <2>1, <2>2, <2>3 DEF WordOnDisk
<1>5. CASE ReadMagic
  <2>1. CASE WordOnDisk
    BY <1>1, <1>2, <1>5, <2>1 DEF ReadMagic, WordOnDisk, FileInv
  <2>2. CASE ~WordOnDisk
    BY <1>1, <1>2, <1>4, <1>5, <2>2 DEF ReadMagic, FileInv
  <2> QED  BY <2>1, <2>2
<1>6. CASE ReadLen
  <2>1. CASE WordOnDisk
    <3>1. WORDBYTES * (2 + 0) = WORDBYTES + WORDBYTES  BY <1>1
    <3> QED
      BY <1>1, <1>2, <1>6, <2>1, <3>1 DEF ReadLen, WordOnDisk, FileInv, HasRead
  <2>2. CASE ~WordOnDisk
    BY <1>1, <1>2, <1>4, <1>6, <2>2 DEF ReadLen, FileInv
  <2> QED  BY <2>1, <2>2
<1>7. CASE ReadKey
  <2>1. HasRead /\ reader = "keys"  BY <1>7 DEF ReadKey, FileInv
  <2>2. CASE WordOnDisk
    <3>1. WORDBYTES * (2 + (nkeys + 1)) = WORDBYTES * (2 + nkeys) + WORDBYTES  BY <1>1
    <3> QED
      BY <1>1, <1>2, <1>7, <2>1, <2>2, <3>1 DEF ReadKey, push_back, WordOnDisk, FileInv, HasRead
  <2>3. CASE ~WordOnDisk
    <3>1. ~early /\ ~full => nkeys = nbits
      <4> SUFFICES ASSUME ~early, ~full PROVE nkeys = nbits  OBVIOUS
      <4>1. ondisk = Bytes /\ tellg =< ondisk  BY <2>1 DEF FileInv
      <4> QED  BY <1>1, <2>1, <2>3, <4>1, WholeFile DEF HasRead, Bytes, WordOnDisk
    <3>2. HasRead'  BY <1>2, <1>7, <2>1, <2>3 DEF HasRead, ReadKey, push_back
    <3> QED
      BY <1>2, <1>7, <2>1, <2>3, <3>1, <3>2 DEF ReadKey, push_back, FileInv, HasRead
  <2> QED  BY <2>2, <2>3
<1> QED  BY <1>3, <1>5, <1>6, <1>7 DEF Reader, ReaderStep

LEMMA NextKeepsFile ==
    ASSUME WavInv, FileInv, [Next]_vars
    PROVE  FileInv'
BY WriterKeepsFile, ReaderKeepsFile DEF Next

(* Killed, crashed or out of disk at any byte, the program leaves a file   *)
(* whose count betrays it, or one that is read as no keys.                 *)
THEOREM LossIsTotal == Spec => []SilentLossIsTotal
<1>1. FileInv => SilentLossIsTotal  BY DEF FileInv, HasRead, Bytes, SilentLossIsTotal
<1> QED  BY InitWav, NextKeepsWav, InitFile, NextKeepsFile, <1>1, PTL DEF Spec

(* A key file that was closed on a disk with room reads as it was written. *)
THEOREM FilesRoundTrip == Spec => []RoundTrip
<1>1. FileInv => RoundTrip  BY DEF FileInv, RoundTrip
<1> QED  BY InitWav, NextKeepsWav, InitFile, NextKeepsFile, <1>1, PTL DEF Spec
===============================================================================
