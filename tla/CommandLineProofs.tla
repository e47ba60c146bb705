--------------------------- MODULE CommandLineProofs ---------------------------
(***************************************************************************)
(* Theorems about CommandLine for files of every size and every argument.  *)
(***************************************************************************)
EXTENDS CommandLine, TLAPS

USE KeysAssumption, SecAssumption, RateAssumption, UintAssumption, SizeAssumption,
    PositionAssumption, SizesAssumption, ArgumentAssumption

-----------------------------------------------------------------------------
(* Arithmetic.                                                             *)

LEMMA Quotient ==
  ASSUME NEW a \in Nat, NEW b \in Nat \ {0}
  PROVE  a \div b \in Nat /\ (a \div b) * b =< a /\ a < (a \div b) * b + b
<1>1. (a \div b) * b =< a /\ a < (a \div b) * b + b
  BY SMT
<1>2. a \div b \in Nat
  BY SMT
<1> QED
  BY <1>1, <1>2

(* A quotient is at least what fits into the number divided.               *)
LEMMA QuotientAtLeast ==
  ASSUME NEW a \in Nat, NEW b \in Nat \ {0}, NEW c \in Nat, c * b =< a
  PROVE  c =< a \div b
<1> DEFINE q == a \div b
<1>1. q \in Nat /\ a < q * b + b
  BY Quotient
<1> HIDE DEF q
<1>2. c * b < (q + 1) * b
  BY <1>1
<1>3. c < q + 1
  BY <1>1, <1>2
<1> QED
  BY <1>1, <1>3 DEF q

LEMMA Modulo ==
  ASSUME NEW x \in Int, NEW n \in Nat \ {0}
  PROVE  /\ x % n \in 0 .. n - 1
         /\ x \in 0 .. n - 1 => x % n = x
         /\ x \in -n .. -1 => x % n = x + n
<1> DEFINE q == x \div n
           r == x % n
<1>1. q \in Int /\ r \in 0 .. n - 1 /\ x = n * q + r
  OBVIOUS
<1> HIDE DEF q, r
<1>2. q >= 1 => n * q >= n
  BY <1>1
<1>3. q =< -1 => n * q =< -n
  BY <1>1
<1>4. q =< -2 => n * q =< -(2 * n)
  BY <1>1
<1>5. (q = 0 => n * q = 0) /\ (q = -1 => n * q = -n)
  OBVIOUS
<1>6. n * q \in Int
  BY <1>1
<1>7. x \in 0 .. n - 1 => q = 0
  BY <1>1, <1>2, <1>3, <1>6
<1>8. x \in -n .. -1 => q = -1
  BY <1>1, <1>2, <1>4, <1>5, <1>6
<1> QED
  BY <1>1, <1>5, <1>7, <1>8 DEF r

LEMMA Wrapped ==
  ASSUME NEW x \in Int
  PROVE  /\ Wrap(x) \in 0 .. UINT - 1
         /\ x \in 0 .. UINT - 1 => Wrap(x) = x
         /\ x \in -UINT .. -1 => Wrap(x) = x + UINT
<1>1. UINT \in Nat \ {0}
  OBVIOUS
<1> QED
  BY <1>1, Modulo DEF Wrap

LEMMA WrappedSize ==
  ASSUME NEW x \in Int
  PROVE  /\ WrapSize(x) \in 0 .. SIZE - 1
         /\ x \in 0 .. SIZE - 1 => WrapSize(x) = x
BY Modulo DEF WrapSize

LEMMA StartType == track_spos \in Nat \ {0} /\ track_spos =< KEYS_IN_SEC + 1
<1>1. KEYS_IN_SEC \div 10 \in Nat /\ (KEYS_IN_SEC \div 10) * 10 =< KEYS_IN_SEC
  BY Quotient
<1> QED
  BY <1>1 DEF track_spos

LEMMA SampleSizeType == sample_size \in Nat \ {0}
BY DEF sample_size

-----------------------------------------------------------------------------
(* Types.                                                                  *)

LEMMA WindowType == TypeOK => window \in Nat
BY DEF TypeOK

LEMMA WindowsType ==
  ASSUME nsec \in Int
  PROVE  Windows \subseteq 0 .. SIZE - 1
<1>1. PICK keys \in Int : keys = nsec * KEYS_IN_SEC
  OBVIOUS
<1>2. WrapSize(keys) \in 0 .. SIZE - 1
  BY WrappedSize
<1> QED
  BY <1>1, <1>2 DEF Windows

LEMMA EndPositionsType == EndPositions \subseteq 0 .. UINT - 1
<1> DEFINE secs == (end_of_track * SecNum) \div SecDen - TAIL_SEC
<1>1. \A n \in 0 .. UINT - 1 : Wrap(n * KEYS_IN_SEC) \in 0 .. UINT - 1
  BY Modulo DEF Wrap
<1>2. CASE secs \in 0 .. UINT - 1
  <2> DEFINE n == secs
  <2> HIDE DEF n
  <2>1. n \in 0 .. UINT - 1
    BY <1>2 DEF n
  <2>2. Wrap(n * KEYS_IN_SEC) \in 0 .. UINT - 1
    BY <2>1, <1>1
  <2>3. EndPositions = {Wrap(n * KEYS_IN_SEC)}
    BY <1>2 DEF EndPositions, n
  <2> QED
    BY <2>2, <2>3
<1>3. CASE secs \notin 0 .. UINT - 1
  BY <1>1, <1>3 DEF EndPositions
<1> QED
  BY <1>2, <1>3

LEMMA TypeInit == Init => TypeOK
<1> SUFFICES ASSUME Init PROVE TypeOK
  OBVIOUS
<1>1. track \in Nat /\ track < UINT
  BY DEF Init
<1>2. nsec \in Seconds \cup {DOUBLE_SEC} /\ nsec \in Int /\ window \in Windows
  BY DEF Init
<1>3. window \in 0 .. SIZE - 1
  BY <1>2, WindowsType
<1> QED
  BY <1>1, <1>2, <1>3 DEF Init, TypeOK, ProgramState

LEMMA TypeStep == TypeOK /\ [Next]_vars => TypeOK'
<1> SUFFICES ASSUME TypeOK, [Next]_vars PROVE TypeOK'
  OBVIOUS
<1> USE DEF TypeOK, ProgramState, Ended
<1>1. CASE StartTest
  BY <1>1 DEF StartTest, argVars, testVars
<1>2. CASE NoMoreTests
  BY <1>2 DEF NoMoreTests, argVars, testVars
<1>3. CASE EndTest
  <2>1. start_sample' \in Nat /\ ntest' \in Nat
    BY <1>3, SampleSizeType DEF EndTest
  <2>2. sample \in Nat /\ sample' = sample
    BY <1>3 DEF EndTest, argVars
  <2>3. FromEnd(start_sample') \in 0 .. SIZE - 1
    BY <2>1, <2>2, SampleSizeType, WrappedSize DEF FromEnd
  <2>4. pc' \in ProgramState /\ from_end_of_record' = FromEnd(start_sample')
    BY <1>3 DEF EndTest
  <2>5. UNCHANGED <<program, track, sample, nsec, max_tryes, window, track_epos, i>>
    BY <1>3 DEF EndTest, argVars
  <2> QED
    BY <2>1, <2>3, <2>4, <2>5
<1>4. CASE Prepare
  BY <1>4, EndPositionsType DEF Prepare, argVars, testVars
<1>5. CASE EndScan
  BY <1>5 DEF EndScan, argVars, testVars
<1>6. CASE ReadOutside
  BY <1>6 DEF ReadOutside, argVars, testVars
<1>7. CASE DivideByZero
  BY <1>7 DEF DivideByZero, argVars, testVars
<1>8. CASE Compare
  BY <1>8 DEF Compare, argVars, testVars
<1>9. CASE Found
  BY <1>9 DEF Found, argVars, testVars
<1>10. CASE UNCHANGED vars
  BY <1>10 DEF vars, argVars, testVars
<1> QED
  BY <1>1, <1>2, <1>3, <1>4, <1>5, <1>6, <1>7, <1>8, <1>9, <1>10 DEF Next

(* The variables of the three programs keep their types, whatever wraps    *)
(* around.                                                                 *)
THEOREM CommandLineTypeCorrect == Spec => []TypeOK
<1> QED
  BY TypeInit, TypeStep, PTL DEF Spec

-----------------------------------------------------------------------------
(* What adequate sizes mean.                                               *)

(* The number of seconds of adequate files, counted in keys, is converted  *)
(* without a change.                                                       *)
LEMMA WindowIs ==
  ASSUME TypeOK, Adequate, program # "amatch_sample_double", window \in Windows
  PROVE  nsec \in Nat /\ window = nsec * KEYS_IN_SEC
<1>1. track \in 0 .. UINT - 1 /\ sample \in 0 .. UINT - 1 /\ nsec \in Int
  BY DEF TypeOK
<1>2. CASE program = "amatch"
  <2>1. nsec \in Nat /\ (nsec + 1) * KEYS_IN_SEC =< track
    BY <1>2 DEF Adequate
  <2>2. (nsec + 1) * KEYS_IN_SEC = nsec * KEYS_IN_SEC + KEYS_IN_SEC
    BY <2>1
  <2>3. nsec * KEYS_IN_SEC \in 0 .. SIZE - 1
    BY <1>1, <2>1, <2>2
  <2> QED
    BY <1>2, <2>1, <2>3, WrappedSize DEF Windows
<1>3. CASE program = "amatch_sample"
  <2>1. nsec \in Nat /\ nsec * KEYS_IN_SEC =< sample
    BY <1>1, <1>3 DEF Adequate
  <2>2. nsec * KEYS_IN_SEC \in 0 .. UINT - 1
    BY <1>1, <2>1
  <2> QED
    BY <1>3, <2>1, <2>2 DEF Windows
<1> QED
  BY <1>2, <1>3 DEF TypeOK, Program

(* amatch: the windows of a test that has two parts before it end in time. *)
LEMMA AmatchInRange ==
  ASSUME TypeOK, Adequate, program = "amatch", window \in Windows,
         start_sample + 2 * sample_size + UNUSED =< sample, i < Positions
  PROVE  InRange
<1> DEFINE w == window
           ss == sample_size
<1>1. nsec \in Nat /\ nsec =< 2 * SAMPLE_SEC /\ w = nsec * KEYS_IN_SEC
  BY WindowIs DEF Adequate
<1>2. w \in Nat /\ ss \in Nat
  BY WindowType, SampleSizeType
<1>3. w =< 2 * ss
  <2>1. nsec * KEYS_IN_SEC =< (2 * SAMPLE_SEC) * KEYS_IN_SEC
    BY <1>1
  <2> QED
    BY <2>1, <1>1 DEF sample_size
<1>4. (nsec + 1) * KEYS_IN_SEC = w + KEYS_IN_SEC
  BY <1>1
<1> HIDE DEF w, ss
<1>5. track \in Nat /\ track < UINT /\ sample \in Nat
  BY DEF TypeOK
<1>6. w + KEYS_IN_SEC =< track
  BY <1>4 DEF Adequate
<1>7. Positions = track - (w + KEYS_IN_SEC)
  <2>1. Positions = WrapSize(track - (w + KEYS_IN_SEC))
    BY <1>4 DEF Positions
  <2>2. track - (w + KEYS_IN_SEC) \in 0 .. SIZE - 1
    BY <1>2, <1>5, <1>6
  <2> QED
    BY <2>1, <2>2, WrappedSize
<1>8. i \in Nat /\ start_sample \in Nat
  BY DEF TypeOK
<1>9. 0 + i + w =< track
  BY <1>2, <1>5, <1>7, <1>8
<1>10. start_sample + w =< sample
  <2>1. start_sample + 2 * ss + UNUSED =< sample
    BY DEF ss
  <2> QED
    BY <1>2, <1>3, <1>5, <1>8, <2>1
<1> QED
  BY <1>9, <1>10 DEF InRange, track_first, sample_first, Length, w

(* The others: the end of the scan, in whole seconds, is inside what the   *)
(* track has more than the sample.                                         *)
LEMMA EndInside ==
  ASSUME NEW n \in Nat, n < UINT, end_of_track = n,
         (n * SecNum) \div SecDen >= TAIL_SEC
  PROVE  LET secs == (n * SecNum) \div SecDen - TAIL_SEC
         IN  /\ secs \in Nat
             /\ secs * KEYS_IN_SEC \in Nat /\ secs * KEYS_IN_SEC =< n
             /\ EndPositions = {secs * KEYS_IN_SEC}
<1> DEFINE all == (n * SecNum) \div SecDen
           secs == all - TAIL_SEC
<1>1. all \in Nat /\ all * SecDen =< n * SecNum
  BY Quotient
<1> HIDE DEF all
<1>2. secs \in Nat /\ secs =< all
  BY <1>1 DEF all
<1>3. (all * KEYS_IN_SEC) * SecNum =< n * SecNum
  <2>1. all * (KEYS_IN_SEC * SecNum) =< all * SecDen
    BY <1>1
  <2> QED
    BY <1>1, <2>1
<1>4. all * KEYS_IN_SEC =< n
  BY <1>1, <1>3
<1>5. secs * KEYS_IN_SEC =< all * KEYS_IN_SEC
  BY <1>1, <1>2
<1>6. secs * KEYS_IN_SEC \in Nat /\ secs * KEYS_IN_SEC =< n
  BY <1>1, <1>2, <1>4, <1>5
<1>7. secs =< secs * KEYS_IN_SEC
  BY <1>2
<1>8. secs \in 0 .. UINT - 1 /\ secs * KEYS_IN_SEC \in 0 .. UINT - 1
  BY <1>2, <1>6, <1>7
<1>9. Wrap(secs * KEYS_IN_SEC) = secs * KEYS_IN_SEC
  BY <1>8, Wrapped
<1>10. EndPositions = {Wrap(secs * KEYS_IN_SEC)}
  BY <1>8 DEF EndPositions, all
<1> QED
  BY <1>2, <1>6, <1>9, <1>10 DEF all

(* The loop of match_simple, which counts in int, ends at track_epos.      *)
LEMMA ScanLength ==
  ASSUME TypeOK, i < AsInt(Wrap(track_epos - track_spos))
  PROVE  track_spos + i < track_epos
<1> DEFINE x == track_epos - track_spos
<1>1. i \in Nat /\ track_epos \in 0 .. UINT - 1
  BY DEF TypeOK
<1>2. x \in Int /\ x < UINT /\ 2 * x >= -UINT
  BY <1>1, StartType
<1>3. i < AsInt(Wrap(x))
  OBVIOUS
<1> HIDE DEF x
<1>4. CASE x >= 0
  <2>1. Wrap(x) = x
    BY <1>2, <1>4, Wrapped
  <2>2. i < x
    BY <1>1, <1>2, <1>3, <2>1 DEF AsInt
  <2> QED
    BY <1>1, <2>2, StartType DEF x
<1>5. CASE x < 0
  <2>1. Wrap(x) = x + UINT
    BY <1>2, <1>5, Wrapped
  <2> QED
    BY <1>1, <1>2, <1>3, <1>5, <2>1 DEF AsInt
<1> QED
  BY <1>2, <1>4, <1>5

(* amatch_sample: the tail and the length of the sample leave room.        *)
LEMMA SampleInRange ==
  ASSUME TypeOK, Adequate, program = "amatch_sample", window \in Windows,
         track_epos \in EndPositions, i < Positions
  PROVE  InRange
<1> DEFINE w == window
           keys == track - sample + 1
           t == (TAIL_SEC * SecDen) \div SecNum
<1>1. w \in Nat /\ track \in Nat /\ track < UINT /\ sample \in Nat /\ i \in Nat
  BY WindowType DEF TypeOK
<1>2. w =< sample /\ sample + t =< track
  BY WindowIs DEF Adequate
<1>3. t \in Nat /\ TAIL_SEC * SecDen < t * SecNum + SecNum
  BY Quotient
<1> HIDE DEF w, t
<1>4. keys \in Nat /\ keys < UINT /\ t + 1 =< keys
  <2>1. track =< UINT - 2
    BY DEF TypeOK
  <2> QED
    BY <1>1, <1>2, <1>3, <2>1
<1>5. end_of_track = keys
  BY <1>4, WrappedSize DEF end_of_track
<1> DEFINE k == keys
<1> HIDE DEF k
<1>6. k \in Nat /\ k < UINT /\ k = track - sample + 1 /\ t + 1 =< k /\ end_of_track = k
  BY <1>4, <1>5 DEF k
<1>7. TAIL_SEC * SecDen =< k * SecNum
  <2>1. (t + 1) * SecNum =< k * SecNum
    BY <1>3, <1>6
  <2> QED
    BY <1>3, <1>6, <2>1
<1>8. (k * SecNum) \div SecDen >= TAIL_SEC
  BY <1>6, <1>7, QuotientAtLeast
<1>9. track_epos \in Nat /\ track_epos =< k
  BY <1>6, <1>8, EndInside
<1>10. track_spos + i < track_epos
  BY <1>1, <1>9, ScanLength DEF Positions
<1>11. track_spos + i + w =< track
  BY <1>1, <1>2, <1>6, <1>9, <1>10, StartType
<1>12. track_first = track_spos /\ sample_first = 0
  BY DEF track_first, sample_first
<1>13. Length \in Int /\ Length =< w
  BY <1>1 DEF Length, AsInt, w
<1> QED
  BY <1>1, <1>2, <1>9, <1>11, <1>12, <1>13, StartType DEF InRange

(* amatch_sample_double: there is a position, and all are inside.          *)
LEMMA DoubleInRange ==
  ASSUME TypeOK, Adequate, program = "amatch_sample_double",
         track_epos \in EndPositions
  PROVE  /\ Positions \in Nat \ {0}
         /\ i < Positions => InRange
<1> DEFINE w == window
           k == track - sample + 1
           b == track_spos + w + SKIPPED
           q == b \div KEYS_IN_SEC
           first == 1 + SHIFT_SEC * KEYS_IN_SEC
<1>1. w \in Nat /\ track \in Nat /\ track =< UINT - 2 /\ sample \in Nat /\ i \in Nat
  BY WindowType DEF TypeOK
<1>2. first \in Nat /\ first >= 1
  OBVIOUS
<1>3. first + w =< sample /\ SecNum * k >= SecDen * (TAIL_SEC + 1 + q)
  BY DEF Adequate
<1> HIDE DEF w, first
<1>4. b \in Nat
  BY <1>1, StartType
<1> HIDE DEF b
<1>5. q \in Nat /\ b < q * KEYS_IN_SEC + KEYS_IN_SEC
  BY <1>4, Quotient
<1> HIDE DEF q
<1>6. k \in Int /\ k < UINT
  BY <1>1
<1> DEFINE n == SecDen * (TAIL_SEC + 1 + q)
<1>7. n \in Nat /\ n > 0
  BY <1>5
<1>8. SecNum * k >= n
  BY <1>3
<1> HIDE DEF n, k
<1>9. SecNum * k > 0
  BY <1>6, <1>7, <1>8
<1>10. k \in Nat /\ k < UINT
  BY <1>6, <1>9
<1>11. end_of_track = k
  BY <1>10, WrappedSize DEF end_of_track, k
<1>12. sample >= 1 /\ k =< track
  BY <1>1, <1>2, <1>3 DEF k
<1> DEFINE all == (k * SecNum) \div SecDen
<1>13. TAIL_SEC + 1 + q =< all
  <2>1. (TAIL_SEC + 1 + q) * SecDen =< k * SecNum
    BY <1>5, <1>10, <1>8 DEF n
  <2> QED
    BY <1>5, <1>10, <2>1, QuotientAtLeast
<1>14. all \in Nat
  BY <1>10, Quotient
<1>15. track_epos = (all - TAIL_SEC) * KEYS_IN_SEC /\ track_epos \in Nat /\ track_epos =< k
  BY <1>5, <1>10, <1>11, <1>13, <1>14, EndInside
<1> HIDE DEF all
<1>16. track_epos > b
  <2>1. (all - TAIL_SEC) * KEYS_IN_SEC >= (1 + q) * KEYS_IN_SEC
    BY <1>5, <1>13, <1>14
  <2> QED
    BY <1>4, <1>5, <1>15, <2>1
<1> DEFINE x == (track_epos - track_spos) - w + 1
<1>17. x \in Nat /\ x < UINT /\ x > SKIPPED
  BY <1>1, <1>10, <1>15, <1>16, StartType DEF b
<1>18. Positions = x - SKIPPED
  <2>1. Positions = WrapSize(Wrap(x) - SKIPPED)
    BY DEF Positions, w
  <2>2. Wrap(x) = x
    BY <1>17, Wrapped
  <2>3. x - SKIPPED \in 0 .. SIZE - 1
    BY <1>17
  <2> QED
    BY <2>1, <2>2, <2>3, WrappedSize
<1>19. i < Positions => track_spos + i + w =< track
  BY <1>1, <1>10, <1>12, <1>15, <1>17, <1>18, StartType
<1> QED
  BY <1>3, <1>17, <1>18, <1>19 DEF InRange, track_first, sample_first, Length, w, first

-----------------------------------------------------------------------------
(* The inductive invariant.                                                *)

(* amatch between two tests of adequate files: what is left is counted     *)
(* without wrapping around, and a test begins with two parts before it.    *)
TestsKept ==
    /\ start_sample + sample_size + UNUSED =< sample
    /\ ntest = 0 => start_sample = FIRST
    /\ ntest > 0 => from_end_of_record = (sample - UNUSED) - (start_sample + sample_size)
    /\ pc = "scan" => start_sample + 2 * sample_size + UNUSED =< sample
    /\ pc = "done" /\ ntest > 0 /\ ntest < max_tryes => from_end_of_record =< sample_size

Inv ==
    /\ TypeOK
    /\ window \in Windows
    /\ UndefinedOnlyOnBadSizes
    /\ program # "amatch" /\ pc = "scan" => track_epos \in EndPositions
    /\ program = "amatch" /\ Adequate => TestsKept

LEMMA InvInit == Init => Inv
<1> SUFFICES ASSUME Init PROVE Inv
  OBVIOUS
<1>1. TypeOK
  BY TypeInit
<1>2. pc = "main" /\ ntest = 0 /\ start_sample = FIRST /\ window \in Windows
  BY DEF Init
<1>3. ASSUME program = "amatch", Adequate PROVE TestsKept
  <2>1. FIRST + 2 * sample_size + UNUSED =< sample
    BY <1>3 DEF Adequate
  <2>2. sample \in Nat
    BY <1>1 DEF TypeOK
  <2> QED
    BY <1>2, <2>1, <2>2, SampleSizeType DEF TestsKept
<1> QED
  BY <1>1, <1>2, <1>3 DEF Inv, UndefinedOnlyOnBadSizes

(* Sizes and arguments stay, and with them what is adequate.               *)
LEMMA ArgumentsStay ==
  ASSUME UNCHANGED argVars
  PROVE  /\ UNCHANGED <<program, track, sample, nsec, max_tryes, window>>
         /\ Adequate' = Adequate /\ EndPositions' = EndPositions
         /\ Windows' = Windows
<1>1. UNCHANGED <<program, track, sample, nsec, max_tryes, window>>
  BY DEF argVars
<1>2. Adequate' = Adequate
  BY <1>1 DEF Adequate
<1>3. EndPositions' = EndPositions
  BY <1>1 DEF EndPositions, end_of_track
<1>4. Windows' = Windows
  BY <1>1 DEF Windows
<1> QED
  BY <1>1, <1>2, <1>3, <1>4

LEMMA InvStep == Inv /\ [Next]_vars => Inv'
<1> SUFFICES ASSUME Inv, [Next]_vars PROVE Inv'
  OBVIOUS
<1>1. TypeOK /\ TypeOK'
  BY TypeStep DEF Inv
<1>2. UNCHANGED argVars
  BY DEF Next, vars, StartTest, NoMoreTests, EndTest, Prepare, EndScan,
         ReadOutside, DivideByZero, Compare, Found
<1>3. /\ UNCHANGED <<program, track, sample, nsec, max_tryes, window>>
      /\ Adequate' = Adequate /\ EndPositions' = EndPositions
      /\ Windows' = Windows /\ window \in Windows
  BY <1>2, ArgumentsStay DEF Inv
<1>4. /\ sample \in Nat /\ sample < UINT /\ start_sample \in Nat /\ ntest \in Nat
      /\ max_tryes \in Int /\ from_end_of_record \in Nat
  BY <1>1 DEF TypeOK
<1>5. sample_size \in Nat \ {0} /\ sample_size' = sample_size
  BY SampleSizeType DEF sample_size
<1>6. UndefinedOnlyOnBadSizes'
  <2>1. CASE ReadOutside
    <3> SUFFICES ASSUME Adequate PROVE FALSE
      BY <1>3 DEF UndefinedOnlyOnBadSizes
    <3>1. i < Positions /\ ~InRange /\ pc = "scan"
      BY <2>1 DEF ReadOutside, Scanning
    <3>2. CASE program = "amatch"
      BY <1>1, <1>3, <3>1, <3>2, AmatchInRange DEF Inv, TestsKept
    <3>3. CASE program = "amatch_sample"
      BY <1>1, <1>3, <3>1, <3>3, SampleInRange DEF Inv
    <3>4. CASE program = "amatch_sample_double"
      BY <1>1, <3>1, <3>4, DoubleInRange DEF Inv
    <3> QED
      BY <1>1, <3>2, <3>3, <3>4 DEF TypeOK, Program
  <2>2. CASE EndScan
    <3>1. CASE program = "amatch_sample_double" /\ i = 0
      <4> SUFFICES ASSUME Adequate PROVE FALSE
        BY <1>3 DEF UndefinedOnlyOnBadSizes
      <4>1. track_epos \in EndPositions /\ i >= Positions
        BY <2>2, <3>1 DEF Inv, EndScan
      <4>2. Positions \in Nat \ {0}
        BY <1>1, <3>1, <4>1, DoubleInRange
      <4> QED
        BY <3>1, <4>1, <4>2
    <3>2. CASE ~(program = "amatch_sample_double" /\ i = 0)
      BY <2>2, <3>2 DEF EndScan, UndefinedOnlyOnBadSizes
    <3> QED
      BY <3>1, <3>2
  <2>3. CASE StartTest \/ NoMoreTests \/ EndTest \/ Prepare
             \/ DivideByZero \/ Compare \/ Found
    BY <2>3 DEF StartTest, NoMoreTests, EndTest, Prepare, DivideByZero, Compare, Found,
                Scanning, UndefinedOnlyOnBadSizes
  <2>4. CASE UNCHANGED vars
    BY <1>3, <2>4 DEF vars, Inv, UndefinedOnlyOnBadSizes
  <2> QED
    BY <2>1, <2>2, <2>3, <2>4 DEF Next
<1>7. (program # "amatch" /\ pc = "scan" => track_epos \in EndPositions)'
  BY <1>3 DEF Inv, Next, vars, testVars, StartTest, NoMoreTests, EndTest, Prepare,
              EndScan, ReadOutside, DivideByZero, Compare, Found, Scanning
<1>8. ASSUME program = "amatch", Adequate PROVE TestsKept'
  <2>1. TestsKept
    BY <1>8 DEF Inv
  <2>2. CASE StartTest
    <3>1. UNCHANGED <<start_sample, from_end_of_record, ntest>> /\ pc' = "scan"
          /\ from_end_of_record > sample_size
      BY <2>2 DEF StartTest, testVars
    <3>2. start_sample + 2 * sample_size + UNUSED =< sample
      <4>1. CASE ntest = 0
        BY <1>8, <2>1, <4>1 DEF Adequate, TestsKept
      <4>2. CASE ntest > 0
        BY <1>4, <1>5, <2>1, <3>1, <4>2 DEF TestsKept
      <4> QED
        BY <1>4, <4>1, <4>2
    <3> QED
      BY <1>3, <1>5, <2>1, <3>1, <3>2 DEF TestsKept
  <2>3. CASE NoMoreTests
    BY <1>3, <1>5, <2>1, <2>3 DEF NoMoreTests, testVars, TestsKept
  <2>4. CASE EndTest
    <3>1. /\ start_sample' = start_sample + sample_size /\ ntest' = ntest + 1
          /\ from_end_of_record' = WrapSize((sample - UNUSED) - (start_sample' + sample_size))
          /\ pc = "scan" /\ pc' \in {"done", "main"}
          /\ pc' = "done" => ntest' >= max_tryes
      BY <2>4 DEF EndTest, FromEnd
    <3>2. start_sample + 2 * sample_size + UNUSED =< sample
      BY <2>1, <3>1 DEF TestsKept
    <3> DEFINE rest == (sample - UNUSED) - (start_sample' + sample_size)
    <3>3. rest \in 0 .. SIZE - 1
      BY <1>4, <1>5, <3>1, <3>2
    <3>4. from_end_of_record' = rest
      BY <3>1, <3>3, WrappedSize
    <3>5. start_sample' + sample_size + UNUSED =< sample
      BY <1>4, <1>5, <3>1, <3>2
    <3> QED
      BY <1>3, <1>4, <1>5, <3>1, <3>4, <3>5 DEF TestsKept
  <2>5. CASE ReadOutside \/ DivideByZero \/ Compare
    BY <1>3, <1>5, <2>1, <2>5 DEF ReadOutside, DivideByZero, Compare, Scanning,
                                  testVars, TestsKept
  <2>6. CASE Prepare \/ EndScan \/ Found
    BY <1>8, <2>6 DEF Prepare, EndScan, Found
  <2>7. CASE UNCHANGED vars
    BY <1>3, <1>5, <2>1, <2>7 DEF vars, testVars, TestsKept
  <2> QED
    BY <2>2, <2>3, <2>4, <2>5, <2>6, <2>7 DEF Next
<1> QED
  BY <1>1, <1>3, <1>6, <1>7, <1>8 DEF Inv

(* Files that are adequate for the number of seconds, which then is not    *)
(* negative, are never read outside, whatever their sizes and keys; of     *)
(* other arguments, negative ones included, nothing is claimed.            *)
THEOREM ReadsOfAdequateFiles == Spec => []UndefinedOnlyOnBadSizes
<1>1. Inv => UndefinedOnlyOnBadSizes
  BY DEF Inv
<1> QED
  BY InvInit, InvStep, <1>1, PTL DEF Spec

LEMMA InvCovers == Inv => TestsCoverSample
<1> SUFFICES ASSUME Inv, program = "amatch", pc = "done", Adequate,
                    ntest > 0, ntest < max_tryes
             PROVE  /\ start_sample + sample_size + UNUSED =< sample
                    /\ sample =< start_sample + 2 * sample_size + UNUSED
  BY DEF TestsCoverSample
<1>1. TestsKept /\ sample \in Nat /\ start_sample \in Nat /\ from_end_of_record \in Nat
  BY DEF Inv, TypeOK
<1> QED
  BY <1>1, SampleSizeType DEF TestsKept

(* amatch goes through an adequate sample of any length until at most two  *)
(* parts and the UNUSED keys are left.                                     *)
THEOREM SampleIsCovered == Spec => []TestsCoverSample
BY InvInit, InvStep, InvCovers, PTL DEF Spec
================================================================================
