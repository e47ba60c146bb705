-------------------------- MODULE MatchWorkersProofs --------------------------
(***************************************************************************)
(* Theorems about MatchWorkers for every size of track and recording,      *)
(* every window and every sequence of distances.                           *)
(***************************************************************************)
EXTENDS MatchWorkers, SumsProofs

USE KeysAssumption, SecAssumption, RateAssumption, MatchAssumption,
    SampleAssumption, TrackAssumption, WrapAssumption, DistanceAssumption, ScaleAssumption,
    WindowAssumption

-----------------------------------------------------------------------------
(* Sizes.                                                                  *)

(* The quotient of a division is at most the number divided by the divisor. *)
LEMMA QuotientBound ==
  ASSUME NEW a \in Nat, NEW b \in Nat \ {0}
  PROVE  a \div b \in Nat /\ (a \div b) * b =< a
<1>1. (a \div b) * b =< a
  BY SMT
<1>2. a \div b \in Nat
  BY SMT
<1> QED
  BY <1>1, <1>2

(* n keys last at most n/KEYS_IN_SEC seconds.                              *)
LEMMA KeysOfSeconds ==
  ASSUME NEW n \in Nat
  PROVE  /\ (n * SecNum) \div SecDen \in Nat
         /\ ((n * SecNum) \div SecDen) * KEYS_IN_SEC =< n
<1> DEFINE q == (n * SecNum) \div SecDen
<1>1. n * SecNum \in Nat
  OBVIOUS
<1>2. q \in Nat /\ q * SecDen =< n * SecNum
  BY <1>1, QuotientBound
<1> HIDE DEF q
<1>3. (q * KEYS_IN_SEC) * SecNum =< n * SecNum
  <2>1. q * (KEYS_IN_SEC * SecNum) =< q * SecDen
    BY <1>2
  <2> QED
    BY <1>2, <2>1
<1>4. q * KEYS_IN_SEC =< n
  BY <1>2, <1>3
<1> QED
  BY <1>2, <1>4 DEF q

LEMMA WindowFits ==
  ASSUME NEW w \in Worker
  PROVE  msize(w) \in Nat /\ msize(w) =< SizeOf(w) /\ SizeOf(w) =< SampleSize
<1> DEFINE q == (SizeOf(w) * SecNum * KEYS_IN_SEC) \div SecDen
<1>1. SizeOf(w) \in Nat /\ SizeOf(w) =< SampleSize
  BY DEF SizeOf, shift_between_samples
<1> DEFINE s == SizeOf(w)
<1> HIDE DEF s
<1>2. s \in Nat
  BY <1>1 DEF s
<1>3. s * SecNum * KEYS_IN_SEC \in Nat
  BY <1>2
<1>4. ((s * SecNum * KEYS_IN_SEC) \div SecDen) * SecDen =< s * SecNum * KEYS_IN_SEC
  BY <1>3, QuotientBound
<1>5. (s * SecNum * KEYS_IN_SEC) \div SecDen \in Nat
  BY <1>3, QuotientBound
<1>6. s * SecNum * KEYS_IN_SEC =< s * SecDen
  BY <1>2
<1> DEFINE r == (s * SecNum * KEYS_IN_SEC) \div SecDen
<1> HIDE DEF r
<1>7. r \in Nat /\ r * SecDen =< s * SecDen
  BY <1>2, <1>3, <1>4, <1>5, <1>6 DEF r
<1>8. r =< s
  BY <1>2, <1>7
<1> QED
  BY <1>1, <1>5, <1>8 DEF r, s, msize

(* What a number below UINT, or a negative one above -UINT, is unsigned.   *)
LEMMA Wrapped ==
  ASSUME NEW x \in Int
  PROVE  /\ x \in 0 .. UINT - 1 => x % UINT = x
         /\ x \in -UINT .. -1 => x % UINT = x + UINT
<1> DEFINE q == x \div UINT
           r == x % UINT
<1>1. UINT \in Nat \ {0}
  OBVIOUS
<1>2. q \in Int /\ r \in 0 .. UINT - 1 /\ x = UINT * q + r
  BY <1>1
<1> HIDE DEF q, r
<1>3. q >= 1 => UINT * q >= UINT
  BY <1>1, <1>2
<1>4. q =< -1 => UINT * q =< -UINT
  BY <1>1, <1>2
<1>5. q =< -2 => UINT * q =< -(2 * UINT)
  BY <1>1, <1>2
<1>6. q = 0 => UINT * q = 0
  BY <1>1
<1>7. q = -1 => UINT * q = -UINT
  BY <1>1
<1>8. UINT * q \in Int
  BY <1>1, <1>2
<1>9. x \in 0 .. UINT - 1 => q = 0
  BY <1>1, <1>2, <1>3, <1>4, <1>8
<1>10. x \in -UINT .. -1 => q = -1
  BY <1>1, <1>2, <1>3, <1>5, <1>6, <1>8
<1> QED
  BY <1>2, <1>6, <1>7, <1>9, <1>10 DEF r

(* A difference of two ints is the int it was, if it is one.               *)
LEMMA IntOfInt ==
  ASSUME NEW x \in Int, 2 * x < UINT, 2 * x > -UINT
  PROVE  AsInt(x) = x
<1>1. CASE x >= 0
  BY <1>1, Wrapped DEF AsInt
<1>2. CASE x < 0
  BY <1>2, Wrapped DEF AsInt
<1> QED
  BY <1>1, <1>2

LEMMA StartType == track_spos \in Nat /\ track_spos =< KEYS_IN_SEC + 1
  BY QuotientBound DEF track_spos

(* A track that the recording fits into is scanned within it.              *)
LEMMA LongTrack ==
  ASSUME NEW n \in TrackSizes, n + 1 >= SampleSize
  PROVE  /\ track_epos(n) \in Nat
         /\ track_epos(n) =< n - SampleSize + 1
         /\ AsInt(track_epos(n) - track_spos) = track_epos(n) - track_spos
<1> DEFINE keys == n - SampleSize + 1
           secs == (keys * SecNum) \div SecDen
<1>1. n \in Nat /\ 2 * n < UINT /\ keys \in Nat /\ keys < UINT
  OBVIOUS
<1>2. end_of_track(n) = keys
  BY <1>1, Wrapped DEF end_of_track
<1>3. secs \in Nat /\ secs * KEYS_IN_SEC =< keys
  BY <1>1, KeysOfSeconds
<1> HIDE DEF secs, keys
<1>4. track_epos(n) \in Nat /\ track_epos(n) =< keys
  <2>1. CASE secs >= TAIL_SEC
    <3>1. (secs - TAIL_SEC) * KEYS_IN_SEC =< secs * KEYS_IN_SEC
      BY <1>3
    <3>2. (secs - TAIL_SEC) * KEYS_IN_SEC \in Nat
      BY <1>3, <2>1
    <3>3. (secs - TAIL_SEC) * KEYS_IN_SEC \in 0 .. UINT - 1
      BY <1>1, <1>3, <3>1, <3>2
    <3> QED
      BY <1>1, <1>2, <1>3, <2>1, <3>1, <3>3, Wrapped DEF track_epos, secs
  <2>2. CASE ~(secs >= TAIL_SEC)
    BY <1>1, <1>2, <2>2 DEF track_epos, secs
  <2> QED
    BY <2>1, <2>2
<1>5. 2 * (track_epos(n) - track_spos) < UINT /\ 2 * (track_epos(n) - track_spos) > -UINT
  <2>1. KEYS_IN_SEC * (TAIL_SEC + 2) >= KEYS_IN_SEC
    OBVIOUS
  <2>2. KEYS_IN_SEC * (TAIL_SEC + 2) >= 2
    OBVIOUS
  <2>3. UINT >= 8 * (KEYS_IN_SEC * (TAIL_SEC + 2))
    OBVIOUS
  <2>4. 2 * track_spos < UINT
    BY StartType, <2>1, <2>2, <2>3
  <2>5. 2 * track_epos(n) < UINT + 2
    BY <1>1, <1>4 DEF keys
  <2>6. track_spos >= 1
    BY QuotientBound DEF track_spos
  <2> QED
    BY <1>4, <2>4, <2>5, <2>6, StartType
<1> QED
  BY <1>4, <1>5, IntOfInt, StartType DEF keys

(* A track shorter than the recording is not scanned at all: its size      *)
(* wraps around to a span that is negative as an int.                      *)
LEMMA ShortTrack ==
  ASSUME NEW n \in TrackSizes, n + 1 < SampleSize
  PROVE  AsInt(track_epos(n) - track_spos) \in Int /\ AsInt(track_epos(n) - track_spos) < 0
<1> DEFINE keys == UINT + n - SampleSize + 1
           secs == (keys * SecNum) \div SecDen
<1> DEFINE T == KEYS_IN_SEC * (TAIL_SEC + 2)
<1>0. T \in Nat /\ UINT >= 8 * (SampleSize + T) /\ T >= 2
  OBVIOUS
<1> HIDE DEF T
<1>1. n \in Nat /\ keys \in Nat /\ keys < UINT /\ keys >= UINT - SampleSize
  BY <1>0
<1>2. end_of_track(n) = keys
  BY <1>0, <1>1, Wrapped DEF end_of_track
<1>3. secs \in Nat /\ secs * KEYS_IN_SEC =< keys
  BY <1>1, KeysOfSeconds
<1>4. 4 * (secs * KEYS_IN_SEC) + 4 * KEYS_IN_SEC >= 3 * keys
  <2>1. keys * SecNum < SecDen * secs + SecDen /\ SecDen * secs \in Nat
    BY <1>1
  <2> HIDE DEF secs, keys
  <2>2. keys * SecNum < (secs + 1) * SecDen
    BY <1>3, <2>1
  <2>3. (3 * SecDen) * (secs + 1) =< (4 * (KEYS_IN_SEC * SecNum)) * (secs + 1)
    BY <1>3
  <2>4. 3 * (keys * SecNum) =< (4 * (KEYS_IN_SEC * SecNum)) * (secs + 1)
    <3>1. 3 * (keys * SecNum) =< 3 * ((secs + 1) * SecDen)
      BY <1>1, <1>3, <2>2
    <3>2. 3 * ((secs + 1) * SecDen) = (3 * SecDen) * (secs + 1)
      BY <1>3
    <3> QED
      BY <2>3, <3>1, <3>2, <1>1, <1>3
  <2>5. (3 * keys) * SecNum =< (4 * KEYS_IN_SEC * (secs + 1)) * SecNum
    BY <1>1, <1>3, <2>4
  <2>6. 3 * keys =< 4 * KEYS_IN_SEC * (secs + 1)
    BY <1>1, <1>3, <2>5
  <2> QED
    BY <1>1, <1>3, <2>6
<1>5. T = KEYS_IN_SEC * TAIL_SEC + 2 * KEYS_IN_SEC
  BY DEF T
<1> HIDE DEF secs, keys
<1>6. (secs - TAIL_SEC) * KEYS_IN_SEC = secs * KEYS_IN_SEC - KEYS_IN_SEC * TAIL_SEC
  BY <1>3
<1> DEFINE epos == (secs - TAIL_SEC) * KEYS_IN_SEC
<1>7. KEYS_IN_SEC * TAIL_SEC \in Nat /\ secs * KEYS_IN_SEC \in Nat
  BY <1>3
<1> HIDE DEF epos
<1>8. epos \in Nat /\ epos < UINT /\ 2 * (epos - track_spos) >= UINT
  BY <1>0, <1>1, <1>3, <1>4, <1>5, <1>6, <1>7, StartType DEF epos
<1>9. secs >= TAIL_SEC
  BY <1>3, <1>8, StartType DEF epos
<1>10. track_epos(n) = epos
  BY <1>2, <1>8, <1>9, Wrapped DEF track_epos, secs, epos
<1>11. epos - track_spos \in 0 .. UINT - 1
  BY <1>8, StartType
<1>12. (epos - track_spos) % UINT = epos - track_spos
  BY <1>11, Wrapped
<1>13. ~(2 * ((epos - track_spos) % UINT) < UINT)
  BY <1>8, <1>11, <1>12, StartType
<1> QED
  BY <1>10, <1>11, <1>12, <1>13 DEF AsInt

(* Where the scan ends, the longest window still fits.                     *)
LEMMA ScanFits ==
  ASSUME NEW n \in TrackSizes, NEW w \in Worker, NEW p \in Nat,
         p < AsInt(track_epos(n) - track_spos)
  PROVE  track_spos + p + msize(w) =< n
<1>1. n + 1 >= SampleSize
  BY ShortTrack
<1>2. msize(w) \in Nat /\ msize(w) =< SampleSize
  BY WindowFits, SampleAssumption DEF SizeOf, shift_between_samples
<1> QED
  BY <1>1, <1>2, LongTrack, StartType

-----------------------------------------------------------------------------
(* Types.                                                                  *)

LEMMA QualityType ==
  ASSUME NEW h \in Distance
  PROVE  Quality(h) \in Nat \cup {Infinite}
<1>1. CASE h = 0
  BY <1>1 DEF Quality
<1>2. CASE h # 0
  <2>1. h \in Nat \ {0}
    BY <1>2
  <2>2. Scale \div h \in Nat
    BY <2>1, QuotientBound
  <2> QED
    BY <1>2, <2>2 DEF Quality
<1> QED
  BY <1>1, <1>2

LEMMA PlusType ==
  ASSUME NEW a \in Nat \cup {Infinite}, NEW d \in Nat \cup {Infinite}
  PROVE  Plus(a, d) \in Nat \cup {Infinite}
  BY DEF Plus, Infinite

LEMMA SpanType == TypeOK => len \in Int
<1> SUFFICES ASSUME TypeOK PROVE len \in Int
  OBVIOUS
<1>1. size \in TrackSizes
  BY DEF TypeOK
<1>2. CASE size + 1 >= SampleSize
  BY <1>1, <1>2, LongTrack, StartType DEF len
<1>3. CASE size + 1 < SampleSize
  BY <1>1, <1>3, ShortTrack DEF len
<1> QED
  BY <1>1, <1>2, <1>3

LEMMA TypeStep == TypeOK /\ [Next]_vars => TypeOK'
<1> SUFFICES ASSUME TypeOK, [Next]_vars PROVE TypeOK'
  OBVIOUS
<1> USE DEF TypeOK, CallerState, WorkerState
<1>1. CASE UNCHANGED vars
  BY <1>1 DEF vars
<1>2. ASSUME NEW w \in Worker, Spawn(w) PROVE TypeOK'
  BY <1>2 DEF Spawn
<1>3. ASSUME NEW w \in Worker, ScanPosition(w) PROVE TypeOK'
  <2>1. PICK h \in Distance, hit \in BOOLEAN :
          /\ m' = [m EXCEPT ![w] = Plus(m[w], Quality(h))]
          /\ seen' = [seen EXCEPT ![w] = Append(@, h)]
          /\ index' = [index EXCEPT ![w] = IF hit THEN i[w] ELSE @]
          /\ worker' = [worker EXCEPT ![w] = IF hit THEN "done" ELSE @]
          /\ i' = [i EXCEPT ![w] = IF hit THEN @ ELSE @ + 1]
    BY <1>3 DEF ScanPosition, Exceeds
  <2>2. Plus(m[w], Quality(h)) \in Nat \cup {Infinite}
    BY QualityType, PlusType
  <2>3. Append(seen[w], h) \in Seq(Distance)
    OBVIOUS
  <2>4. UNCHANGED <<size, caller, answer>>
    BY <1>3 DEF ScanPosition
  <2> QED
    BY <2>1, <2>2, <2>3, <2>4
<1>4. ASSUME NEW w \in Worker, EndOfTrack(w) PROVE TypeOK'
  BY <1>4 DEF EndOfTrack, NotFound
<1>5. CASE JoinFirst
  BY <1>5 DEF JoinFirst
<1>6. CASE JoinSecondAndReturn
  BY <1>6 DEF JoinSecondAndReturn, Worker
<1> QED
  BY <1>1, <1>2, <1>3, <1>4, <1>5, <1>6 DEF Next, CallerStep, WorkerStep

(* Every variable keeps its type.                                          *)
THEOREM MatchTypeCorrect == Spec => []TypeOK
<1>1. Init => TypeOK
  BY DEF Init, TypeOK, CallerState, WorkerState
<1> QED
  BY <1>1, TypeStep, PTL DEF Spec

(* Neither thread reads beyond the track or beyond its part of the         *)
(* recording, whatever their sizes: the end of the scan is far enough from *)
(* the end of the track for every window, and a track shorter than the     *)
(* recording, or empty, is not scanned.                                    *)
THEOREM ReadsAreInRange == Spec => []ReadsInRange
<1>1. TypeOK => ReadsInRange
  BY ScanFits, WindowFits DEF TypeOK, ReadsInRange, len
<1> QED
  BY <1>1, MatchTypeCorrect, PTL

-----------------------------------------------------------------------------
(* Perfect copies.                                                         *)

(* The sum of a thread is infinite once it has read a distance of zero,    *)
(* and only a thread that has ended with a finite sum has an index; a      *)
(* thread not yet spawned has not ended.                                   *)
SumOf(w) ==
    /\ caller = "spawn1" \/ (caller = "spawn2" /\ w = 2) => worker[w] = "new"
    /\ (\E k \in 1 .. Len(seen[w]) : seen[w][k] = 0) => m[w] = Infinite
    /\ index[w] # 0 => m[w] # Infinite /\ worker[w] = "done"

SumInv == \A w \in Worker : SumOf(w)

LEMMA SumStep == TypeOK /\ SumInv /\ [Next]_vars => SumInv'
<1> SUFFICES ASSUME TypeOK, SumInv, [Next]_vars PROVE SumInv'
  OBVIOUS
<1> USE DEF TypeOK, SumInv, SumOf
<1>1. CASE UNCHANGED vars
  BY <1>1 DEF vars
<1>2. ASSUME NEW w \in Worker, Spawn(w) PROVE SumInv'
  BY <1>2 DEF Spawn, Worker
<1>3. ASSUME NEW w \in Worker, ScanPosition(w) PROVE SumInv'
  <2>1. PICK h \in Distance :
          LET d == Quality(h)
              sum == Plus(m[w], d)
              hit == Exceeds(d, sum, i[w])
          IN  /\ m' = [m EXCEPT ![w] = sum]
              /\ seen' = [seen EXCEPT ![w] = Append(@, h)]
              /\ index' = [index EXCEPT ![w] = IF hit THEN i[w] ELSE @]
              /\ worker' = [worker EXCEPT ![w] = IF hit THEN "done" ELSE @]
    BY <1>3 DEF ScanPosition
  <2>2. index[w] = 0
    BY <1>3 DEF ScanPosition
  <2>3. ASSUME NEW k \in 1 .. Len(seen'[w]), seen'[w][k] = 0
        PROVE  m'[w] = Infinite
    <3>1. CASE k = Len(seen[w]) + 1
      BY <2>1, <2>3, <3>1 DEF Quality, Plus
    <3>2. CASE k # Len(seen[w]) + 1
      <4>1. k \in 1 .. Len(seen[w]) /\ seen[w][k] = 0
        BY <2>1, <2>3, <3>2
      <4> QED
        BY <2>1, <4>1 DEF Plus
    <3> QED
      BY <3>1, <3>2
  <2>4. index'[w] # 0 => m'[w] # Infinite /\ worker'[w] = "done"
    BY <2>1, <2>2 DEF Exceeds
  <2>5. \A v \in Worker \ {w} :
          seen'[v] = seen[v] /\ m'[v] = m[v] /\ index'[v] = index[v]
            /\ worker'[v] = worker[v]
    BY <2>1
  <2>6. caller' = caller /\ worker[w] # "new"
    BY <1>3 DEF ScanPosition
  <2>7. SumOf(w)'
    BY <2>3, <2>4, <2>6
  <2>8. ASSUME NEW v \in Worker \ {w} PROVE SumOf(v)'
    BY <2>5, <2>6
  <2> QED
    BY <2>7, <2>8
<1>4. ASSUME NEW w \in Worker, EndOfTrack(w) PROVE SumInv'
  BY <1>4 DEF EndOfTrack, NotFound
<1>5. CASE JoinFirst \/ JoinSecondAndReturn
  BY <1>5 DEF JoinFirst, JoinSecondAndReturn
<1> QED
  BY <1>1, <1>2, <1>3, <1>4, <1>5 DEF Next, CallerStep, WorkerStep

(* A scan that meets a perfect copy of its window never reports a          *)
(* position, at any length of the track.                                   *)
THEOREM PerfectCopiesAreLost == Spec => []PerfectCopyIsLost
<1>1. Init => SumInv
  BY DEF Init, SumInv, SumOf
<1>2. SumInv => PerfectCopyIsLost
  BY DEF SumInv, SumOf, PerfectCopyIsLost
<1> QED
  BY <1>1, <1>2, SumStep, MatchTypeCorrect, PTL DEF Spec

-----------------------------------------------------------------------------
(* The answer.                                                             *)

(* What a join waited for has ended.                                       *)
JoinInv ==
    /\ caller \in {"join2", "returned"} => worker[1] = "done"
    /\ caller = "returned" => worker[2] = "done"

AnswerInv == JoinInv /\ AnswerIsCorroborated

(* Two indexes that agree and are not both positions have index1 = 0.      *)
LEMMA AgreeMeansBoth ==
  ASSUME NEW i1 \in Nat, NEW i2 \in Nat, Agree(i1, i2), i1 # 0
  PROVE  /\ i2 # 0
         /\ 2 * i2 > 2 * i1 + 3 * KEYS_IN_SEC
         /\ 2 * i2 < 2 * i1 + 5 * KEYS_IN_SEC
  BY DEF Agree, Abs, shift_between_samples

LEMMA AnswerStep == TypeOK /\ AnswerInv /\ [Next]_vars => AnswerInv'
<1> SUFFICES ASSUME TypeOK, AnswerInv, [Next]_vars PROVE AnswerInv'
  OBVIOUS
<1> USE DEF TypeOK, AnswerInv, JoinInv, AnswerIsCorroborated, Worker
<1>1. CASE UNCHANGED vars
  BY <1>1 DEF vars
<1>2. ASSUME NEW w \in Worker, Spawn(w) PROVE AnswerInv'
  BY <1>2 DEF Spawn
<1>3. ASSUME NEW w \in Worker, WorkerStep(w) PROVE AnswerInv'
  <2>1. /\ worker[w] = "scan"
        /\ UNCHANGED <<caller, answer>>
        /\ \A v \in Worker \ {w} : worker'[v] = worker[v] /\ index'[v] = index[v]
    BY <1>3 DEF WorkerStep, ScanPosition, EndOfTrack, NotFound
  <2> QED
    BY <2>1
<1>4. CASE JoinFirst
  BY <1>4 DEF JoinFirst, Joined
<1>5. CASE JoinSecondAndReturn
  <2>1. answer' # 0 => answer' = index[1] /\ Agree(index[1], index[2])
    BY <1>5 DEF JoinSecondAndReturn
  <2>2. caller' = "returned" /\ index' = index /\ worker' = worker /\ Joined(2)
    BY <1>5 DEF JoinSecondAndReturn
  <2>3. caller = "join2"
    BY <1>5 DEF JoinSecondAndReturn
  <2> QED
    BY <2>1, <2>2, <2>3, AgreeMeansBoth DEF Joined
<1> QED
  BY <1>1, <1>2, <1>3, <1>4, <1>5 DEF Next, CallerStep

(* The in-band 0 of the two indexes never corroborates a position.         *)
THEOREM AnswersAreCorroborated == Spec => []AnswerIsCorroborated
<1>1. Init => AnswerInv
  BY DEF Init, AnswerInv, JoinInv, AnswerIsCorroborated
<1>2. AnswerInv => AnswerIsCorroborated
  BY DEF AnswerInv
<1> QED
  BY <1>1, <1>2, AnswerStep, MatchTypeCorrect, PTL DEF Spec

-----------------------------------------------------------------------------
(* What the scan of one thread finds.                                      *)

(* A quality is a number, unless the distance is zero.                     *)
LEMMA FiniteQuality ==
  ASSUME NEW h \in Distance, h # 0
  PROVE  Scale \div h \in Nat /\ Quality(h) = Scale \div h
<1>1. h \in Nat \ {0}
  OBVIOUS
<1>2. Scale \div h \in Nat
  BY <1>1, QuotientBound
<1> QED
  BY <1>2 DEF Quality

(* Reading one more distance adds one quality to the sum, and changes no   *)
(* earlier sum and no earlier peak.                                        *)
LEMMA ReadOneMore ==
  ASSUME NEW s \in Seq(Distance), NEW h \in Distance
  PROVE  /\ SumTo(Append(s, h), Len(s)) = SumTo(s, Len(s) - 1) + Scale \div h
         /\ \A p \in 1 .. Len(s) - 1 : StandsOut(Append(s, h), p) <=> StandsOut(s, p)
<1> DEFINE n == Len(s)
           r == Append(s, h)
           g == [k \in Nat |-> Scale \div s[k + 1]]
           j == [k \in Nat |-> Scale \div r[k + 1]]
<1>1. n \in Nat /\ r[n + 1] = h /\ \A k \in 1 .. n : r[k] = s[k]
  OBVIOUS
<1>2. \A k \in 0 .. n - 1 : j[k] = g[k]
  BY <1>1
<1>3. \A p \in 0 .. n : SumBelow(j, p) = SumBelow(g, p)
  <2> HIDE DEF j, g, n
  <2> QED
    BY <1>1, <1>2, SumEqual
<1>4. \A p \in -1 .. n - 1 : SumTo(r, p) = SumTo(s, p)
  <2> TAKE p \in -1 .. n - 1
  <2>1. SumTo(r, p) = SumBelow(j, p + 1) /\ SumTo(s, p) = SumBelow(g, p + 1)
    BY DEF SumTo
  <2> HIDE DEF j, g, n, r
  <2>2. p + 1 \in 0 .. n
    BY <1>1
  <2> QED
    BY <1>3, <2>1, <2>2
<1>5. SumTo(r, n) = SumTo(s, n - 1) + Scale \div h
  <2>1. j[n] = Scale \div h
    BY <1>1
  <2>2. SumBelow(j, n + 1) = SumBelow(j, n) + j[n]
    BY <1>1, SumSteps
  <2>3. SumTo(r, n) = SumBelow(j, n + 1) /\ SumTo(s, n - 1) = SumBelow(g, (n - 1) + 1)
    BY DEF SumTo
  <2> HIDE DEF j, g, n, r
  <2>4. SumBelow(j, n) = SumBelow(g, n) /\ (n - 1) + 1 = n
    BY <1>1, <1>3
  <2> QED
    BY <2>1, <2>2, <2>3, <2>4
<1>6. ASSUME NEW p \in 1 .. n - 1 PROVE StandsOut(r, p) <=> StandsOut(s, p)
  <2>1. SumTo(r, p) = SumTo(s, p) /\ r[p + 1] = s[p + 1]
    BY <1>1, <1>4
  <2>2. \A k \in 1 .. p + 1 : r[k] = s[k]
    BY <1>1
  <2> HIDE DEF r
  <2> QED
    BY <2>1, <2>2 DEF StandsOut
<1> QED
  BY <1>5, <1>6

(* The first peak, when it is the last position read, and when none is.    *)
LEMMA PeakAtEnd ==
  ASSUME NEW s \in Seq(Distance), Len(s) > 1, StandsOut(s, Len(s) - 1),
         \A p \in 1 .. Len(s) - 2 : ~StandsOut(s, p)
  PROVE  FirstPeak(s) = Len(s) - 1
<1> DEFINE peaks == {p \in 1 .. Len(s) - 1 : StandsOut(s, p)}
<1>1. peaks = {Len(s) - 1}
  OBVIOUS
<1>2. FirstPeak(s) = CHOOSE p \in peaks : \A q \in peaks : p =< q
  BY <1>1 DEF FirstPeak
<1> HIDE DEF peaks
<1> QED
  BY <1>1, <1>2

LEMMA NoPeak ==
  ASSUME NEW s \in Seq(Distance), \A p \in 1 .. Len(s) - 1 : ~StandsOut(s, p)
  PROVE  FirstPeak(s) = 0
  BY DEF FirstPeak

(* A thread that scans has read one distance for every position passed,    *)
(* and none of them stood out; its sum is that of the qualities read, or   *)
(* infinite; a thread that has ended has the first peak.                   *)
ScanOf(w) ==
    LET s == seen[w]
        n == Len(s)
    IN  /\ worker[w] = "new" => n = 0 /\ i[w] = 0
        /\ worker[w] = "scan" => n = i[w] /\ \A p \in 1 .. n - 1 : ~StandsOut(s, p)
        /\ (\E k \in 1 .. n : s[k] = 0) => m[w] = Infinite
        /\ (\A k \in 1 .. n : s[k] # 0) => m[w] # Infinite /\ m[w] = SumTo(s, n - 1)
        /\ worker[w] = "done" => index[w] = FirstPeak(s)

ScanInv == \A w \in Worker : ScanOf(w)

LEMMA ScanStarts == Init => ScanInv
<1> SUFFICES ASSUME Init, NEW w \in Worker PROVE ScanOf(w)
  BY DEF ScanInv
<1>1. /\ seen[w] = <<>> /\ i[w] = 0 /\ m[w] = 0 /\ worker[w] = "new"
  BY DEF Init
<1>2. Len(seen[w]) = 0
  BY <1>1
<1>3. SumTo(seen[w], 0 - 1) = 0
  BY SumSteps DEF SumTo
<1> QED
  BY <1>1, <1>2, <1>3 DEF ScanOf, Infinite

(* One more distance, and the answer of the thread if it stands out.       *)
LEMMA ScanOneMore ==
  ASSUME TypeOK, NEW w \in Worker, ScanOf(w), ScanPosition(w)
  PROVE  ScanOf(w)'
<1> DEFINE s == seen[w]
           n == Len(s)
<1>0. /\ s \in Seq(Distance) /\ n \in Nat /\ i[w] = n
      /\ m[w] \in Nat \cup {Infinite} /\ worker[w] = "scan"
  BY DEF TypeOK, ScanOf, ScanPosition
<1>1. PICK h \in Distance :
        LET d == Quality(h)
            sum == Plus(m[w], d)
            hit == Exceeds(d, sum, n)
        IN  /\ m'[w] = sum
            /\ seen'[w] = Append(s, h)
            /\ index'[w] = IF hit THEN n ELSE index[w]
            /\ worker'[w] = IF hit THEN "done" ELSE "scan"
            /\ i'[w] = IF hit THEN n ELSE n + 1
  <2>1. PICK h \in Distance :
          LET d == Quality(h)
              sum == Plus(m[w], d)
              hit == Exceeds(d, sum, i[w])
          IN  /\ m' = [m EXCEPT ![w] = sum]
              /\ seen' = [seen EXCEPT ![w] = Append(@, h)]
              /\ index' = [index EXCEPT ![w] = IF hit THEN i[w] ELSE @]
              /\ worker' = [worker EXCEPT ![w] = IF hit THEN "done" ELSE @]
              /\ i' = [i EXCEPT ![w] = IF hit THEN @ ELSE @ + 1]
    BY DEF ScanPosition
  <2> DEFINE d == Quality(h)
             sum == Plus(m[w], d)
             hit == Exceeds(d, sum, i[w])
  <2> HIDE DEF d, sum, hit
  <2>2. /\ m'[w] = sum /\ seen'[w] = Append(s, h)
        /\ index'[w] = (IF hit THEN n ELSE index[w])
        /\ worker'[w] = (IF hit THEN "done" ELSE "scan")
        /\ i'[w] = (IF hit THEN n ELSE n + 1)
    BY <1>0, <2>1 DEF TypeOK, d, sum, hit
  <2> QED
    BY <1>0, <2>2 DEF d, sum, hit
<1> DEFINE r == Append(s, h)
<1>2. /\ r \in Seq(Distance) /\ Len(r) = n + 1 /\ r[n + 1] = h
      /\ \A k \in 1 .. n : r[k] = s[k]
  BY <1>0
<1>3. /\ SumTo(r, n) = SumTo(s, n - 1) + Scale \div h
      /\ \A p \in 1 .. n - 1 : ~StandsOut(r, p)
  BY <1>0, ReadOneMore DEF ScanOf
<1>4. /\ (\E k \in 1 .. n : s[k] = 0) => m[w] = Infinite
      /\ (\A k \in 1 .. n : s[k] # 0) => m[w] # Infinite /\ m[w] = SumTo(s, n - 1)
  BY DEF ScanOf
<1> HIDE DEF r, s, n
<1>5. (\E k \in 1 .. n + 1 : r[k] = 0) => m'[w] = Infinite
  <2>1. CASE h = 0
    BY <1>1, <2>1 DEF Plus, Quality
  <2>2. CASE h # 0
    BY <1>0, <1>1, <1>2, <1>4, <2>2 DEF Plus
  <2> QED
    BY <2>1, <2>2
<1>6. ASSUME \A k \in 1 .. n + 1 : r[k] # 0
      PROVE  /\ m'[w] # Infinite /\ m'[w] = SumTo(r, n)
             /\ h # 0 /\ Quality(h) = Scale \div h /\ Scale \div h \in Nat
  <2>1. h # 0 /\ \A k \in 1 .. n : s[k] # 0
    BY <1>0, <1>2, <1>6
  <2>2. Quality(h) = Scale \div h /\ Scale \div h \in Nat
    BY <2>1, FiniteQuality
  <2>3. m[w] \in Nat /\ m[w] = SumTo(s, n - 1)
    BY <1>0, <1>4, <2>1
  <2>4. Plus(m[w], Quality(h)) = m[w] + Scale \div h
    BY <2>2, <2>3 DEF Plus, Infinite
  <2> QED
    BY <1>1, <1>3, <2>1, <2>2, <2>3, <2>4 DEF Infinite
<1>7. Exceeds(Quality(h), m'[w], n) <=> StandsOut(r, n)
  <2>1. CASE \E k \in 1 .. n + 1 : r[k] = 0
    BY <1>5, <2>1 DEF Exceeds, StandsOut
  <2>2. CASE \A k \in 1 .. n + 1 : r[k] # 0
    <3>1. /\ Exceeds(Quality(h), m'[w], n)
             <=> n > 0 /\ 10 * n * (Scale \div h) > 17 * SumTo(r, n)
      BY <1>6, <2>2 DEF Exceeds
    <3>2. StandsOut(r, n) <=> n > 0 /\ 10 * n * (Scale \div h) > 17 * SumTo(r, n)
      BY <1>2, <2>2 DEF StandsOut
    <3> QED
      BY <3>1, <3>2
  <2> QED
    BY <2>1, <2>2
<1>8. CASE StandsOut(r, n)
  <2>1. n > 0
    BY <1>8 DEF StandsOut
  <2>2. FirstPeak(r) = n
    BY <1>0, <1>2, <1>3, <1>8, <2>1, PeakAtEnd
  <2> QED
    BY <1>0, <1>1, <1>2, <1>5, <1>6, <1>7, <1>8, <2>2 DEF ScanOf, r
<1>9. CASE ~StandsOut(r, n)
  <2>1. \A p \in 1 .. n : ~StandsOut(r, p)
    BY <1>0, <1>3, <1>9
  <2> QED
    BY <1>0, <1>1, <1>2, <1>5, <1>6, <1>7, <1>9, <2>1 DEF ScanOf, r
<1> QED
  BY <1>8, <1>9

LEMMA ScanStep == TypeOK /\ SumInv /\ ScanInv /\ [Next]_vars => ScanInv'
<1> SUFFICES ASSUME TypeOK, SumInv, ScanInv, [Next]_vars, NEW v \in Worker
             PROVE  ScanOf(v)'
  BY DEF ScanInv
<1>0. ScanOf(v)
  BY DEF ScanInv
<1> DEFINE Same == /\ worker'[v] = worker[v] /\ i'[v] = i[v] /\ m'[v] = m[v]
                   /\ seen'[v] = seen[v] /\ index'[v] = index[v]
<1>1. ASSUME Same PROVE ScanOf(v)'
  <2>1. (\A p \in 1 .. Len(seen[v]) - 1 : ~StandsOut(seen[v], p))'
          <=> (\A p \in 1 .. Len(seen[v]) - 1 : ~StandsOut(seen[v], p))
    BY <1>1 DEF StandsOut, SumTo
  <2>2. FirstPeak(seen[v])' = FirstPeak(seen[v])
    BY <1>1
  <2>3. SumTo(seen[v], Len(seen[v]) - 1)' = SumTo(seen[v], Len(seen[v]) - 1)
    BY <1>1
  <2> HIDE DEF Same
  <2> QED
    BY <1>0, <1>1, <2>1, <2>2, <2>3 DEF ScanOf, Same
<1>2. CASE UNCHANGED vars
  BY <1>1, <1>2 DEF vars
<1>3. ASSUME NEW w \in Worker, Spawn(w) PROVE ScanOf(v)'
  <2>1. CASE v = w
    <3>1. worker[w] = "new" /\ worker'[w] = "scan"
      BY <1>3 DEF SumInv, SumOf, Spawn, TypeOK, Worker
    <3>2. /\ i'[w] = i[w] /\ m'[w] = m[w] /\ seen'[w] = seen[w] /\ index'[w] = index[w]
      BY <1>3 DEF Spawn
    <3>3. Len(seen[w]) = 0 /\ i[w] = 0
      BY <1>0, <2>1, <3>1 DEF ScanOf
    <3> QED
      BY <1>0, <2>1, <3>1, <3>2, <3>3 DEF ScanOf, SumTo
  <2>2. CASE v # w
    BY <1>1, <1>3, <2>2 DEF Spawn, TypeOK
  <2> QED
    BY <2>1, <2>2
<1>4. ASSUME NEW w \in Worker, ScanPosition(w) PROVE ScanOf(v)'
  <2>1. CASE v = w
    BY <1>0, <1>4, <2>1, ScanOneMore
  <2>2. CASE v # w
    BY <1>1, <1>4, <2>2 DEF ScanPosition, TypeOK
  <2> QED
    BY <2>1, <2>2
<1>5. ASSUME NEW w \in Worker, EndOfTrack(w) PROVE ScanOf(v)'
  <2>1. CASE v = w
    <3>1. /\ worker[w] = "scan" /\ worker'[w] = "done" /\ index'[w] = 0
          /\ i'[w] = i[w] /\ m'[w] = m[w] /\ seen'[w] = seen[w]
      BY <1>5 DEF EndOfTrack, NotFound, TypeOK
    <3>2. FirstPeak(seen[w]) = 0
      BY <1>0, <2>1, <3>1, NoPeak DEF ScanOf, TypeOK
    <3> QED
      <4>1. FirstPeak(seen[w])' = FirstPeak(seen[w])
        BY <3>1
      <4>2. SumTo(seen[w], Len(seen[w]) - 1)' = SumTo(seen[w], Len(seen[w]) - 1)
        BY <3>1
      <4> QED
        BY <1>0, <2>1, <3>1, <3>2, <4>1, <4>2 DEF ScanOf
  <2>2. CASE v # w
    BY <1>1, <1>5, <2>2 DEF EndOfTrack, NotFound, TypeOK
  <2> QED
    BY <2>1, <2>2
<1>6. CASE JoinFirst \/ JoinSecondAndReturn
  BY <1>1, <1>6 DEF JoinFirst, JoinSecondAndReturn
<1> QED
  BY <1>2, <1>3, <1>4, <1>5, <1>6 DEF Next, CallerStep, WorkerStep

LEMMA DeterminedStep ==
  TypeOK /\ ScanInv /\ JoinInv /\ AnswerIsDetermined /\ [Next]_vars
    => AnswerIsDetermined'
<1> SUFFICES ASSUME TypeOK, ScanInv, JoinInv, AnswerIsDetermined, [Next]_vars,
                    caller' = "returned"
             PROVE  answer' = IF Agree(FirstPeak(seen[1])', FirstPeak(seen[2])')
                              THEN FirstPeak(seen[1])' ELSE 0
  BY DEF AnswerIsDetermined
<1>1. CASE JoinSecondAndReturn
  <2>1. /\ answer' = IF Agree(index[1], index[2]) THEN index[1] ELSE 0
        /\ caller = "join2" /\ worker[2] = "done" /\ seen' = seen
    BY <1>1 DEF JoinSecondAndReturn, Joined
  <2>2. worker[1] = "done"
    BY <2>1 DEF JoinInv
  <2>3. index[1] = FirstPeak(seen[1]) /\ index[2] = FirstPeak(seen[2])
    BY <2>1, <2>2 DEF ScanInv, ScanOf, Worker
  <2>4. FirstPeak(seen[1])' = FirstPeak(seen[1]) /\ FirstPeak(seen[2])' = FirstPeak(seen[2])
    BY <2>1 DEF FirstPeak, StandsOut, SumTo
  <2> QED
    BY <2>1, <2>3, <2>4
<1>2. CASE ~JoinSecondAndReturn
  <2>1. caller = "returned"
    BY <1>2 DEF Next, CallerStep, WorkerStep, Spawn, JoinFirst, ScanPosition, EndOfTrack, NotFound,
                vars, Worker
  <2>2. answer' = answer /\ seen' = seen
    BY <1>2, <2>1 DEF JoinInv, Next, CallerStep, WorkerStep, Spawn, JoinFirst,
                      ScanPosition, EndOfTrack, NotFound, vars, Worker
  <2>3. FirstPeak(seen[1])' = FirstPeak(seen[1]) /\ FirstPeak(seen[2])' = FirstPeak(seen[2])
    BY <2>2 DEF FirstPeak, StandsOut, SumTo
  <2> QED
    BY <2>1, <2>2, <2>3 DEF AnswerIsDetermined
<1> QED
  BY <1>1, <1>2

(* However the two threads and the caller interleave, match_sample returns *)
(* what the keys alone determine: the first position of the whole          *)
(* recording that stands out, if the first of the shifted recording lies   *)
(* its two seconds behind it.                                              *)
THEOREM AnswersAreDetermined == Spec => []AnswerIsDetermined
<1>1. Init => SumInv
  BY DEF Init, SumInv, SumOf
<1>2. Init => AnswerInv /\ AnswerIsDetermined
  BY DEF Init, AnswerInv, JoinInv, AnswerIsCorroborated, AnswerIsDetermined
<1>3. AnswerInv => JoinInv
  BY DEF AnswerInv
<1> QED
  BY <1>1, <1>2, <1>3, ScanStarts, SumStep, AnswerStep, ScanStep, DeterminedStep,
     MatchTypeCorrect, PTL DEF Spec
-----------------------------------------------------------------------------
(* How long a match takes: the part of MatchReturns that needs no fairness. *)

(* The steps that the caller and a thread have before them.                *)
CallerSteps ==
    [spawn1 |-> 4, spawn2 |-> 3, join1 |-> 2, join2 |-> 1, returned |-> 0][caller]

WorkerSteps(w) ==
    IF worker[w] = "done" THEN 0 ELSE 1 + (IF i[w] < len THEN len - i[w] ELSE 0)

StepsLeft == CallerSteps + WorkerSteps(1) + WorkerSteps(2)

(* A thread is started once, and a join waits for one that was started.    *)
StartInv ==
    /\ worker[1] = "new" <=> caller = "spawn1"
    /\ worker[2] = "new" <=> caller \in {"spawn1", "spawn2"}

LEMMA StartStep == TypeOK /\ StartInv /\ [Next]_vars => StartInv'
<1> SUFFICES ASSUME TypeOK, StartInv, [Next]_vars PROVE StartInv'
  OBVIOUS
<1> USE DEF TypeOK, StartInv, Worker
<1>1. CASE UNCHANGED vars
  BY <1>1 DEF vars
<1>2. ASSUME NEW w \in Worker, Spawn(w) PROVE StartInv'
  BY <1>2 DEF Spawn
<1>3. ASSUME NEW w \in Worker, WorkerStep(w) PROVE StartInv'
  <2>1. /\ worker[w] = "scan" /\ caller' = caller
        /\ worker'[w] \in {"scan", "done"}
        /\ \A v \in Worker \ {w} : worker'[v] = worker[v]
    BY <1>3 DEF WorkerStep, ScanPosition, EndOfTrack, NotFound
  <2> QED
    BY <2>1
<1>4. CASE JoinFirst \/ JoinSecondAndReturn
  BY <1>4 DEF JoinFirst, JoinSecondAndReturn
<1> QED
  BY <1>1, <1>2, <1>3, <1>4 DEF Next, CallerStep

LEMMA StepsType ==
    ASSUME TypeOK
    PROVE  /\ CallerSteps \in Nat
           /\ \A w \in Worker : WorkerSteps(w) \in Nat
           /\ StepsLeft \in Nat
<1>1. len \in Int
  BY SpanType
<1>2. ASSUME NEW w \in Worker PROVE WorkerSteps(w) \in Nat
  <2>1. i[w] \in Nat
    BY DEF TypeOK
  <2> QED
    BY <1>1, <2>1 DEF WorkerSteps
<1>3. CallerSteps \in Nat
  BY DEF TypeOK, CallerState, CallerSteps
<1>4. WorkerSteps(1) \in Nat /\ WorkerSteps(2) \in Nat
  BY <1>2 DEF Worker
<1> QED
  BY <1>2, <1>3, <1>4 DEF StepsLeft

(* A step of a thread is one less for it, and none for the other.          *)
LEMMA WorkerCounts ==
    ASSUME TypeOK, NEW w \in Worker, WorkerStep(w)
    PROVE  /\ WorkerSteps(w)' \in 0 .. WorkerSteps(w) - 1
           /\ \A v \in Worker \ {w} : WorkerSteps(v)' = WorkerSteps(v)
           /\ CallerSteps' = CallerSteps
<1>1. /\ worker[w] = "scan" /\ size' = size /\ caller' = caller
      /\ \A v \in Worker \ {w} : worker'[v] = worker[v] /\ i'[v] = i[v]
  BY DEF WorkerStep, ScanPosition, EndOfTrack, NotFound, TypeOK
<1>2. \/ worker'[w] = "done"
      \/ worker'[w] = "scan" /\ i[w] < len /\ i'[w] = i[w] + 1
  BY DEF WorkerStep, ScanPosition, EndOfTrack, NotFound, TypeOK
<1>3. len \in Int /\ i[w] \in Nat
  BY SpanType DEF TypeOK
<1>4. len' = len
  BY <1>1 DEF len
<1>5. WorkerSteps(w)' \in 0 .. WorkerSteps(w) - 1
  BY <1>1, <1>2, <1>3, <1>4 DEF WorkerSteps
<1> QED
  BY <1>1, <1>4, <1>5 DEF WorkerSteps, CallerSteps

OneStepLess == StepsLeft \in Nat /\ StepsLeft' \in 0 .. StepsLeft - 1

(* Every step of the caller or of a thread brings the end of the match     *)
(* nearer, however they interleave: a match takes at most 6 steps and one  *)
(* for every position that each thread has to look at.                     *)
THEOREM EachStepCounts == Spec => [][OneStepLess]_vars
<1>1. Init => StartInv
  BY DEF Init, StartInv, Worker
<1>2. ASSUME TypeOK, StartInv, Next PROVE OneStepLess
  <2>1. /\ CallerSteps \in Nat /\ WorkerSteps(1) \in Nat /\ WorkerSteps(2) \in Nat
        /\ StepsLeft \in Nat
    BY <1>2, StepsType DEF Worker
  <2>2. CASE CallerStep
    <3>1. CallerSteps' \in 0 .. CallerSteps - 1
      BY <1>2, <2>2 DEF CallerStep, Spawn, JoinFirst, JoinSecondAndReturn, CallerSteps, Worker
    <3>2. \A w \in Worker : WorkerSteps(w)' = WorkerSteps(w)
      <4>1. i' = i /\ size' = size
        BY <2>2 DEF CallerStep, Spawn, JoinFirst, JoinSecondAndReturn
      <4>2. len' = len
        BY <4>1 DEF len
      <4>3. \A w \in Worker : worker[w] = "done" <=> worker'[w] = "done"
        BY <1>2, <2>2 DEF CallerStep, Spawn, JoinFirst, JoinSecondAndReturn, TypeOK,
                          StartInv, Worker
      <4> QED
        BY <4>1, <4>2, <4>3 DEF WorkerSteps
    <3>3. WorkerSteps(1)' = WorkerSteps(1) /\ WorkerSteps(2)' = WorkerSteps(2)
      BY <3>2 DEF Worker
    <3> QED
      BY <2>1, <3>1, <3>3 DEF StepsLeft, OneStepLess
  <2>3. ASSUME NEW w \in Worker, WorkerStep(w)
        PROVE  StepsLeft' \in 0 .. StepsLeft - 1
    <3>1. /\ WorkerSteps(w)' \in 0 .. WorkerSteps(w) - 1
          /\ \A v \in Worker \ {w} : WorkerSteps(v)' = WorkerSteps(v)
          /\ CallerSteps' = CallerSteps
      BY <1>2, <2>3, WorkerCounts
    <3>2. w = 1 \/ w = 2
      BY DEF Worker
    <3>3. CASE w = 1
      <4>1. WorkerSteps(1)' \in 0 .. WorkerSteps(1) - 1 /\ WorkerSteps(2)' = WorkerSteps(2)
        BY <3>1, <3>3 DEF Worker
      <4> QED
        BY <2>1, <3>1, <4>1 DEF StepsLeft
    <3>4. CASE w = 2
      <4>1. WorkerSteps(2)' \in 0 .. WorkerSteps(2) - 1 /\ WorkerSteps(1)' = WorkerSteps(1)
        BY <3>1, <3>4 DEF Worker
      <4> QED
        BY <2>1, <3>1, <4>1 DEF StepsLeft
    <3> QED
      BY <3>2, <3>3, <3>4
  <2> QED
    BY <1>2, <2>1, <2>2, <2>3 DEF Next, OneStepLess
<1> QED
  BY <1>1, <1>2, StartStep, MatchTypeCorrect, PTL DEF Spec

(* Until the match returns somebody has a step to make: the caller is at a *)
(* spawn, a join whose thread has ended, or it waits for a thread that was *)
(* started and is in its loop.                                             *)
NobodyIsStuck ==
    caller # "returned" =>
        \/ caller \in {"spawn1", "spawn2"}
        \/ caller = "join1" /\ Joined(1)
        \/ caller = "join2" /\ Joined(2)
        \/ \E w \in Worker : worker[w] = "scan" /\ (i[w] < len \/ PastEnd(w))

(* With EachStepCounts: a match can only end by returning.                 *)
THEOREM MatchIsNeverStuck == Spec => []NobodyIsStuck
<1>1. Init => StartInv
  BY DEF Init, StartInv, Worker
<1>2. TypeOK /\ StartInv => NobodyIsStuck
  <2> SUFFICES ASSUME TypeOK, StartInv PROVE NobodyIsStuck
    OBVIOUS
  <2>1. \A w \in Worker : worker[w] = "scan" => i[w] < len \/ PastEnd(w)
    BY SpanType DEF TypeOK, PastEnd
  <2>2. caller = "join1" => worker[1] \in {"scan", "done"}
    BY DEF TypeOK, StartInv, Worker, WorkerState
  <2>3. caller = "join2" => worker[2] \in {"scan", "done"}
    BY DEF TypeOK, StartInv, Worker, WorkerState
  <2> QED
    BY <2>1, <2>2, <2>3 DEF NobodyIsStuck, Joined, TypeOK, CallerState, Worker
<1> QED
  BY <1>1, <1>2, StartStep, MatchTypeCorrect, PTL DEF Spec
===============================================================================
