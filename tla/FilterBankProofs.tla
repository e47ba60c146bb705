--------------------------- MODULE FilterBankProofs ---------------------------
(***************************************************************************)
(* For every KEYWIDTH, NBANDS and list of filters: the constructor only    *)
(* returns filters that fit.                                               *)
(***************************************************************************)
EXTENDS FilterBank, FiniteSetTheorems, TLAPS

OneOrEven(n) == n = 1 \/ n % 2 = 0

(* Where the loops are.                                                    *)
Position ==
    /\ pc = "lengths" => /\ wt = 1 /\ wb = 1 /\ first_band = 1
                         /\ time_lengths = <<>> => t = 1
    /\ pc = "search" => /\ wt \in 1 .. Len(time_lengths)
                        /\ wb \in 1 .. NBANDS
                        /\ first_band \in 1 .. NBANDS - wb + 1

(* Lengths are even from the second on, which is what keeps the first      *)
(* frame of a filter inside the recording.                                 *)
EvenLengths ==
    /\ OneOrEven(t)
    /\ \A k \in 1 .. Len(time_lengths) : OneOrEven(time_lengths[k])

IInv == TypeOK /\ Position /\ EvenLengths /\ FilterFits

-----------------------------------------------------------------------------

(* The length after a length of one or an even one is even, and longer.    *)
LEMMA LongerIsEven ==
    ASSUME NEW n \in Nat \ {0}, OneOrEven(n)
    PROVE  Longer(n) \in Nat /\ Longer(n) > n /\ Longer(n) % 2 = 0
<1>1. CASE n = 1
  BY <1>1, SMT DEF Longer
<1>2. CASE n % 2 = 0
  <2>1. PICK h \in Nat \ {0} : n = 2 * h
    BY <1>2, SMT
  <2>2. (3 * n + 1) \div 2 = 3 * h
    BY <2>1, SMT
  <2>3. CASE h % 2 = 0
    BY <2>1, <2>2, <2>3, SMT DEF Longer
  <2>4. CASE h % 2 = 1
    BY <2>1, <2>2, <2>4, SMT DEF Longer
  <2> QED
    BY <2>1, <2>3, <2>4, SMT
<1> QED
  BY <1>1, <1>2 DEF OneOrEven

(* The kinds of a rectangle can be counted.                                *)
LEMMA KindsAreCounted ==
    ASSUME NEW time, NEW bands
    PROVE  Cardinality(Kinds(time, bands)) \in Nat
<1>1. IsFiniteSet(1 .. 6)
  <2>1. 1 \in Int /\ 6 \in Int
    OBVIOUS
  <2> QED
    BY <2>1, FS_Interval, Zenon
<1>2. Kinds(time, bands) \subseteq 1 .. 6
  BY DEF Kinds
<1> QED
  BY <1>1, <1>2, FS_Subset, FS_CardinalityType

LEMMA Starts == Init => IInv
  BY IdsAssumption, KeyWidthAssumption, BandsAssumption, SMT
  DEF Init, IInv, TypeOK, Position, EvenLengths, OneOrEven, FilterFits

LEMMA NextLengthKeeps == IInv /\ NextLength => IInv'
<1> SUFFICES ASSUME IInv, NextLength PROVE IInv'
  OBVIOUS
<1> USE KeyWidthAssumption, BandsAssumption
<1>1. Longer(t) \in Nat /\ Longer(t) > t /\ Longer(t) % 2 = 0
  BY LongerIsEven DEF IInv, TypeOK, EvenLengths
<1>2. t \in 1 .. KEYWIDTH - 1
  BY SMT DEF IInv, TypeOK, NextLength, MoreLengths
<1>3. TypeOK'
  BY <1>1, <1>2, SMT DEF IInv, TypeOK, NextLength, loopVars
<1>4. Position'
  BY SMT DEF IInv, TypeOK, Position, NextLength, loopVars
<1>5. EvenLengths'
  BY <1>1, SMT DEF IInv, TypeOK, EvenLengths, OneOrEven, NextLength
<1>6. FilterFits'
  BY DEF IInv, FilterFits, NextLength
<1> QED
  BY <1>3, <1>4, <1>5, <1>6 DEF IInv

LEMMA LengthsDoneKeeps == IInv /\ LengthsDone => IInv'
<1> SUFFICES ASSUME IInv, LengthsDone PROVE IInv'
  OBVIOUS
<1> USE KeyWidthAssumption, BandsAssumption
<1>1. Len(time_lengths) > 0
  BY SMT DEF IInv, TypeOK, Position, LengthsDone, MoreLengths
<1> QED
  BY <1>1, SMT DEF IInv, TypeOK, Position, EvenLengths, FilterFits, LengthsDone,
     loopVars

LEMMA ReturnKeeps == IInv /\ Return => IInv'
<1> SUFFICES ASSUME IInv, Return PROVE IInv'
  OBVIOUS
<1> USE KeyWidthAssumption, BandsAssumption, IdsAssumption
<1>1. PICK n \in 1 .. KEYWIDTH - 1 : n = time_lengths[wt] /\ OneOrEven(n)
  BY SMT DEF IInv, TypeOK, Position, EvenLengths, Return
<1>2. filter_type' \in Kinds(n, wb) /\ wt' = n
  BY <1>1 DEF Return, KindsHere
<1>3. wb \in 1 .. NBANDS /\ first_band \in 1 .. NBANDS - wb + 1
  BY DEF IInv, Position, Return
<1>4. Fits(This)'
  BY <1>1, <1>2, <1>3, SMT DEF Fits, This, OneOrEven, Return
<1>5. TypeOK'
  BY <1>1, <1>2, <1>3, SMT DEF IInv, TypeOK, Return, Kinds
<1> QED
  BY <1>4, <1>5 DEF IInv, Position, EvenLengths, FilterFits, Return

LEMMA SkipKeeps == IInv /\ Skip => IInv'
<1> SUFFICES ASSUME IInv, Skip PROVE IInv'
  OBVIOUS
<1> USE KeyWidthAssumption, BandsAssumption
<1>1. PICK n \in Nat : filter_count' = filter_count + n
  BY KindsAreCounted DEF Skip, KindsHere
<1>2. filter_count' \in Nat
  BY <1>1 DEF IInv, TypeOK
<1>3. Position'
  BY SMT DEF IInv, TypeOK, Position, Skip, Advance, LastBand, LastLength
<1>4. TypeOK'
  BY <1>2, SMT DEF IInv, TypeOK, Position, Skip, Advance, LastBand, LastLength
<1>5. FilterFits'
  BY DEF IInv, FilterFits, Skip, Advance
<1> QED
  BY <1>3, <1>4, <1>5 DEF IInv, EvenLengths, Skip

LEMMA Inductive == Spec => []IInv
<1>1. IInv /\ UNCHANGED vars => IInv'
  BY DEF IInv, TypeOK, Position, EvenLengths, FilterFits, Fits, This, vars
<1>2. IInv /\ [Next]_vars => IInv'
  BY <1>1, NextLengthKeeps, LengthsDoneKeeps, ReturnKeeps, SkipKeeps DEF Next
<1> QED
  BY <1>2, Starts, PTL DEF Spec

-----------------------------------------------------------------------------

(* The variables of the constructor have the types of its loops.           *)
THEOREM FilterTypeCorrect == Spec => []TypeOK
<1>1. IInv => TypeOK
  BY DEF IInv
<1> QED
  BY <1>1, Inductive, PTL

(* Whatever number it is given, the constructor of filters.cpp returns     *)
(* only filters with an even length (or one frame) below KEYWIDTH and      *)
(* bands that exist.                                                       *)
THEOREM FiltersFit == Spec => []FilterFits
<1>1. IInv => FilterFits
  BY DEF IInv
<1> QED
  BY <1>1, Inductive, PTL

-----------------------------------------------------------------------------
(* Kinds, counted one by one.                                              *)

UpTo(K, n) == {k \in K : k =< n}

LEMMA CountKinds ==
    ASSUME NEW K \in SUBSET (1 .. 6)
    PROVE  /\ IsFiniteSet(K)
           /\ \A n \in 0 .. 6 : IsFiniteSet(UpTo(K, n)) /\ Cardinality(UpTo(K, n)) \in Nat
           /\ Cardinality(UpTo(K, 0)) = 0
           /\ \A n \in 0 .. 5 :
                Cardinality(UpTo(K, n + 1))
                  = Cardinality(UpTo(K, n)) + (IF n + 1 \in K THEN 1 ELSE 0)
           /\ UpTo(K, 6) = K
<1>1. IsFiniteSet(1 .. 6)
  <2>1. 1 \in Int /\ 6 \in Int
    OBVIOUS
  <2> QED
    BY <2>1, FS_Interval, Zenon
<1>2. IsFiniteSet(K)
  BY <1>1, FS_Subset
<1>3. ASSUME NEW n \in 0 .. 6
      PROVE  IsFiniteSet(UpTo(K, n)) /\ Cardinality(UpTo(K, n)) \in Nat
  <2>1. UpTo(K, n) \subseteq K
    BY DEF UpTo
  <2> QED
    BY <1>2, <2>1, FS_Subset, FS_CardinalityType
<1>4. UpTo(K, 0) = {} /\ UpTo(K, 6) = K
  <2>1. \A k \in K : ~(k =< 0) /\ k =< 6
    OBVIOUS
  <2> QED
    BY <2>1, Zenon DEF UpTo
<1>5. Cardinality(UpTo(K, 0)) = 0
  BY <1>4, FS_EmptySet
<1>6. ASSUME NEW n \in 0 .. 5
      PROVE  Cardinality(UpTo(K, n + 1))
               = Cardinality(UpTo(K, n)) + (IF n + 1 \in K THEN 1 ELSE 0)
  <2>1. IsFiniteSet(UpTo(K, n)) /\ Cardinality(UpTo(K, n)) \in Nat
    BY <1>3
  <2>2. CASE n + 1 \in K
    <3>1. UpTo(K, n + 1) = UpTo(K, n) \cup {n + 1} /\ n + 1 \notin UpTo(K, n)
      <4>1. ~(n + 1 =< n) /\ \A k \in K : k =< n + 1 <=> k =< n \/ k = n + 1
        OBVIOUS
      <4> QED
        BY <2>2, <4>1, Zenon DEF UpTo
    <3>2. Cardinality(UpTo(K, n) \cup {n + 1}) = Cardinality(UpTo(K, n)) + 1
      BY <2>1, <3>1, FS_AddElement
    <3> QED
      BY <2>2, <3>1, <3>2
  <2>3. CASE n + 1 \notin K
    <3>1. UpTo(K, n + 1) = UpTo(K, n)
      <4>1. \A k \in K : k =< n + 1 <=> k =< n \/ k = n + 1
        OBVIOUS
      <4> QED
        BY <2>3, <4>1, Zenon DEF UpTo
    <3> QED
      BY <2>1, <2>3, <3>1
  <2> QED
    BY <2>2, <2>3
<1> QED
  BY <1>2, <1>3, <1>4, <1>5, <1>6

(* A number beyond the count that is no kind's number is beyond them all.  *)
LEMMA BeyondKinds ==
    ASSUME NEW K \in SUBSET (1 .. 6), NEW c \in Nat, NEW n \in Nat, n > c,
           \A k \in K : c + Cardinality(UpTo(K, k)) # n
    PROVE  n > c + Cardinality(K)
<1> DEFINE u(k) == Cardinality(UpTo(K, k))
<1>1. /\ \A k \in 0 .. 6 : u(k) \in Nat
      /\ u(0) = 0 /\ u(6) = Cardinality(K)
      /\ \A k \in 0 .. 5 : u(k + 1) = u(k) + (IF k + 1 \in K THEN 1 ELSE 0)
  BY CountKinds
<1>2. \A k \in K : c + u(k) # n
  OBVIOUS
<1> HIDE DEF u
<1>3. ASSUME NEW k \in 0 .. 5, n > c + u(k) PROVE n > c + u(k + 1)
  <2>1. u(k) \in Nat /\ u(k + 1) = u(k) + (IF k + 1 \in K THEN 1 ELSE 0)
    BY <1>1
  <2>2. k + 1 \in K => c + u(k + 1) # n
    BY <1>2
  <2> QED
    BY <1>3, <2>1, <2>2
<1>4. n > c + u(0)
  BY <1>1
<1>5. n > c + u(1)
  BY <1>3, <1>4
<1>6. n > c + u(2)
  BY <1>3, <1>5
<1>7. n > c + u(3)
  BY <1>3, <1>6
<1>8. n > c + u(4)
  BY <1>3, <1>7
<1>9. n > c + u(5)
  BY <1>3, <1>8
<1>10. n > c + u(6)
  BY <1>3, <1>9
<1> QED
  BY <1>1, <1>10

-----------------------------------------------------------------------------
(* The filters that the loops have counted.                                *)

(* Lengths are strictly increasing.                                        *)
Increasing ==
    /\ \A k \in 1 .. Len(time_lengths) : time_lengths[k] < t
    /\ \A j, k \in 1 .. Len(time_lengths) : j < k => time_lengths[j] < time_lengths[k]

(* The filters whose rectangle the loops have left behind, and those of    *)
(* the rectangle they are at.                                              *)
Earlier(f, length, bands, first) ==
    \/ f.wt < length
    \/ f.wt = length /\ f.wb < bands
    \/ f.wt = length /\ f.wb = bands /\ f.first_band < first

Passed(length, bands, first) ==
    {f \in Shapes(Lengths) : Earlier(f, length, bands, first)}

Shape(length, bands, first, kind) ==
    [wt |-> length, wb |-> bands, first_band |-> first, filter_type |-> kind]

Here(length, bands, first, K) == {Shape(length, bands, first, k) : k \in K}

(* The count is the number of filters passed, and the number looked for is *)
(* larger.                                                                 *)
RankInv ==
    /\ Increasing
    /\ pc = "lengths" => filter_count = 0
    /\ pc = "search" =>
         /\ filter_count = Cardinality(Passed(time_lengths[wt], wb, first_band))
         /\ id > filter_count
    /\ NumberIsRank

(* There are finitely many filters, and as many of a rectangle as kinds.   *)
LEMMA ShapesAreFinite == TypeOK => IsFiniteSet(Shapes(Lengths))
<1> SUFFICES ASSUME TypeOK PROVE IsFiniteSet(Shapes(Lengths))
  OBVIOUS
<1> USE KeyWidthAssumption, BandsAssumption
<1> DEFINE T == 0 .. KEYWIDTH + NBANDS + 6
           code(f) == <<<<f.wt, f.wb>>, <<f.first_band, f.filter_type>>>>
           C == (T \X T) \X (T \X T)
<1>1. IsFiniteSet(T)
  <2>1. 0 \in Int /\ KEYWIDTH + NBANDS + 6 \in Int
    OBVIOUS
  <2> QED
    BY <2>1, FS_Interval, Zenon
<1>2. IsFiniteSet(C)
  <2> HIDE DEF T
  <2>1. IsFiniteSet(T \X T)
    BY <1>1, FS_Product
  <2> QED
    BY <2>1, FS_Product
<1>3. ASSUME NEW f \in Shapes(Lengths) PROVE code(f) \in C
  BY SMT DEF Shapes, Fits, Kinds
<1>4. ASSUME NEW f \in Shapes(Lengths), NEW g \in Shapes(Lengths), code(f) = code(g)
      PROVE  f = g
  BY <1>4 DEF Shapes
<1> DEFINE phi == [f \in Shapes(Lengths) |-> code(f)]
<1>5. phi \in Injection(Shapes(Lengths), C)
  <2> HIDE DEF code, C
  <2>1. phi \in [Shapes(Lengths) -> C]
    BY <1>3
  <2>2. \A f, g \in Shapes(Lengths) : phi[f] = phi[g] => f = g
    BY <1>4
  <2> HIDE DEF phi
  <2> QED
    BY <2>1, <2>2 DEF Injection, IsInjective
<1> QED
  BY <1>2, <1>5, FS_Injection DEF ExistsInjection

LEMMA CountHere ==
    ASSUME NEW length, NEW bands, NEW first, NEW K \in SUBSET (1 .. 6)
    PROVE  /\ IsFiniteSet(Here(length, bands, first, K))
           /\ Cardinality(Here(length, bands, first, K)) = Cardinality(K)
<1> DEFINE H == Here(length, bands, first, K)
           phi == [k \in K |-> Shape(length, bands, first, k)]
<1>1. IsFiniteSet(K)
  BY CountKinds
<1>2. phi \in Bijection(K, H)
  <2>1. phi \in [K -> H]
    BY DEF Here
  <2>2. \A j, k \in K : phi[j] = phi[k] => j = k
    BY DEF Shape
  <2>3. \A f \in H : \E k \in K : phi[k] = f
    BY DEF Here
  <2> HIDE DEF phi, H
  <2> QED
    BY <2>1, <2>2, <2>3 DEF Bijection, Injection, Surjection, IsInjective
<1> QED
  BY <1>1, <1>2, FS_Bijection DEF ExistsBijection
(* What the loops know of the rectangle they are at.                       *)
LEMMA AtRectangle ==
    ASSUME IInv, pc = "search"
    PROVE  /\ wt \in 1 .. Len(time_lengths)
           /\ time_lengths[wt] \in Lengths
           /\ time_lengths[wt] \in 1 .. KEYWIDTH - 1
           /\ OneOrEven(time_lengths[wt])
           /\ wb \in 1 .. NBANDS
           /\ first_band \in 1 .. NBANDS - wb + 1
           /\ KindsHere \in SUBSET (1 .. 6)
           /\ filter_count \in Nat /\ id \in Nat
<1>1. wt \in 1 .. Len(time_lengths) /\ wb \in 1 .. NBANDS
      /\ first_band \in 1 .. NBANDS - wb + 1
  BY DEF IInv, Position
<1>2. time_lengths[wt] \in 1 .. KEYWIDTH - 1
  BY <1>1, KeyWidthAssumption, SMT DEF IInv, TypeOK
<1> QED
  BY <1>1, <1>2, IdsAssumption
  DEF IInv, TypeOK, EvenLengths, Lengths, KindsHere, Kinds

(* The filters of a rectangle are those that the shape says.               *)
LEMMA HereIsRectangle ==
    ASSUME NEW f \in Shapes(Lengths), NEW length, NEW bands, NEW first
    PROVE  f \in Here(length, bands, first, Kinds(length, bands))
             <=> f.wt = length /\ f.wb = bands /\ f.first_band = first
<1>1. ASSUME f.wt = length, f.wb = bands, f.first_band = first
      PROVE  f \in Here(length, bands, first, Kinds(length, bands))
  <2>1. f = Shape(length, bands, first, f.filter_type)
    BY <1>1 DEF Shapes, Shape
  <2>2. f.filter_type \in Kinds(length, bands)
    BY <1>1 DEF Shapes, Fits
  <2> QED
    BY <2>1, <2>2, Zenon DEF Here
<1>2. ASSUME f \in Here(length, bands, first, Kinds(length, bands))
      PROVE  f.wt = length /\ f.wb = bands /\ f.first_band = first
  BY <1>2 DEF Here, Shape
<1> QED
  BY <1>1, <1>2

LEMMA HereAreShapes ==
    ASSUME IInv, pc = "search", NEW k \in KindsHere
    PROVE  Shape(time_lengths[wt], wb, first_band, k) \in Shapes(Lengths)
<1> USE KeyWidthAssumption, BandsAssumption
<1> DEFINE f == Shape(time_lengths[wt], wb, first_band, k)
<1>1. PICK L \in 1 .. KEYWIDTH - 1 : L = time_lengths[wt] /\ L \in Lengths /\ OneOrEven(L)
  BY AtRectangle
<1>2. wb \in 1 .. NBANDS /\ first_band \in 1 .. NBANDS - wb + 1 /\ first_band \in 1 .. NBANDS
  BY AtRectangle
<1>3. k \in Kinds(L, wb) /\ k \in 1 .. 6
  BY <1>1, AtRectangle DEF KindsHere
<1>4. f.wt = L /\ f.wb = wb /\ f.first_band = first_band /\ f.filter_type = k
  BY <1>1 DEF Shape
<1>5. Fits(f)
  <2> HIDE DEF f
  <2> QED
    BY <1>1, <1>2, <1>3, <1>4 DEF Fits, OneOrEven
<1>6. f \in [wt : Lengths, wb : 1 .. NBANDS, first_band : 1 .. NBANDS, filter_type : 1 .. 6]
  BY <1>1, <1>2, <1>3 DEF Shape
<1> QED
  BY <1>5, <1>6 DEF Shapes

(* Those passed and those here, with the kinds of K alone, are counted     *)
(* together.                                                               *)
LEMMA CountPassed ==
    ASSUME IInv, pc = "search", NEW K \in SUBSET KindsHere,
           filter_count = Cardinality(Passed(time_lengths[wt], wb, first_band))
    PROVE  LET P == Passed(time_lengths[wt], wb, first_band)
               H == Here(time_lengths[wt], wb, first_band, K)
           IN  /\ IsFiniteSet(P \cup H)
               /\ Cardinality(P \cup H) = filter_count + Cardinality(K)
<1> DEFINE L == time_lengths[wt]
           P == Passed(L, wb, first_band)
           H == Here(L, wb, first_band, K)
<1>1. K \in SUBSET (1 .. 6) /\ L \in Nat /\ wb \in Nat /\ first_band \in Nat
  BY AtRectangle, KeyWidthAssumption, BandsAssumption
<1>2. IsFiniteSet(H) /\ Cardinality(H) = Cardinality(K)
  BY <1>1, CountHere
<1>3. IsFiniteSet(P)
  BY ShapesAreFinite, FS_Subset DEF Passed, IInv
<1>4. P \cap H = {}
  BY <1>1 DEF Passed, Earlier, Here, Shape
<1>5. Cardinality(P \cap H) = 0
  BY <1>4, FS_EmptySet
<1>6. Cardinality(P) \in Nat /\ Cardinality(H) \in Nat
  BY <1>2, <1>3, FS_CardinalityType
<1> HIDE DEF P, H
<1>7. /\ IsFiniteSet(P \cup H)
      /\ Cardinality(P \cup H) = Cardinality(P) + Cardinality(H) - Cardinality(P \cap H)
  BY <1>2, <1>3, FS_Union
<1>8. Cardinality(P \cup H) = Cardinality(P) + Cardinality(K)
  BY <1>2, <1>5, <1>6, <1>7
<1> QED
  BY <1>7, <1>8 DEF P, H

-----------------------------------------------------------------------------
(* Ranks.                                                                  *)

LEMMA RankStarts == Init => RankInv
  BY DEF Init, RankInv, Increasing, NumberIsRank

LEMMA RankNextLength == IInv /\ RankInv /\ NextLength => RankInv'
<1> SUFFICES ASSUME IInv, RankInv, NextLength PROVE RankInv'
  OBVIOUS
<1>1. Longer(t) \in Nat /\ Longer(t) > t
  BY LongerIsEven DEF IInv, TypeOK, EvenLengths
<1>2. time_lengths \in Seq(1 .. KEYWIDTH - 1) /\ t \in Nat
  BY DEF IInv, TypeOK
<1>3. time_lengths' = Append(time_lengths, t) /\ t' = Longer(t)
  BY DEF NextLength
<1>4. Increasing'
  <2>1. \A k \in 1 .. Len(time_lengths) : time_lengths[k] \in Nat
    BY <1>2, KeyWidthAssumption
  <2> QED
    BY <1>1, <1>2, <1>3, <2>1 DEF RankInv, Increasing
<1>5. pc = "lengths" /\ pc' = "lengths" /\ filter_count' = filter_count
  BY DEF NextLength
<1> QED
  BY <1>4, <1>5 DEF RankInv, NumberIsRank

LEMMA RankLengthsDone == IInv /\ RankInv /\ LengthsDone => RankInv'
<1> SUFFICES ASSUME IInv, RankInv, LengthsDone PROVE RankInv'
  OBVIOUS
<1>1. /\ pc = "lengths" /\ pc' = "search" /\ UNCHANGED <<id, t, time_lengths, wt, wb, first_band>>
      /\ filter_count' = filter_count /\ filter_count = 0
      /\ wt = 1 /\ wb = 1 /\ first_band = 1
  BY DEF LengthsDone, RankInv, IInv, Position, loopVars
<1>2. Increasing'
  BY <1>1 DEF RankInv, Increasing
<1>3. id \in Nat \ {0}
  BY IdsAssumption DEF IInv, TypeOK
<1>4. Len(time_lengths) > 0
  BY KeyWidthAssumption DEF IInv, TypeOK, Position, LengthsDone, MoreLengths
<1>5. Passed(time_lengths[1], 1, 1) = {}
  <2> SUFFICES ASSUME NEW f \in Passed(time_lengths[1], 1, 1) PROVE FALSE
    OBVIOUS
  <2>1. f.wb \in 1 .. NBANDS /\ f.first_band \in Nat \ {0} /\ f.wt \in Lengths
    BY BandsAssumption DEF Passed, Shapes
  <2>2. f.wt < time_lengths[1]
    BY <2>1, BandsAssumption DEF Passed, Earlier
  <2>3. PICK k \in 1 .. Len(time_lengths) : f.wt = time_lengths[k]
    BY <2>1 DEF Lengths
  <2>4. time_lengths[k] \in Nat /\ time_lengths[1] \in Nat
    BY <1>4, KeyWidthAssumption DEF IInv, TypeOK
  <2>5. k = 1 \/ time_lengths[1] < time_lengths[k]
    BY <1>4 DEF RankInv, Increasing
  <2> QED
    BY <2>2, <2>3, <2>4, <2>5
<1>6. Passed(time_lengths[wt], wb, first_band)' = {}
  BY <1>1, <1>5 DEF Passed, Lengths
<1>7. Cardinality(Passed(time_lengths[wt], wb, first_band)') = 0
  BY <1>6, FS_EmptySet
<1> QED
  BY <1>1, <1>2, <1>3, <1>7 DEF RankInv, NumberIsRank

(* The filter returned comes after those of the rectangles passed, and the *)
(* kinds of its own rectangle before its own.                              *)
LEMMA RankReturn == IInv /\ RankInv /\ Return => RankInv'
<1> SUFFICES ASSUME IInv, RankInv, Return PROVE RankInv'
  OBVIOUS
<1> DEFINE L == time_lengths[wt]
           P == Passed(L, wb, first_band)
<1>1. /\ pc = "search" /\ pc' = "returned"
      /\ UNCHANGED <<id, t, time_lengths, wb, first_band>> /\ wt' = L
  BY DEF Return
<1>2. PICK kind \in KindsHere : Number(kind) = id /\ filter_type' = kind
  BY DEF Return
<1>3. kind \in 1 .. 6 /\ KindsHere \in SUBSET (1 .. 6)
      /\ L \in Nat /\ wb \in Nat /\ first_band \in Nat /\ filter_count \in Nat
  BY <1>1, AtRectangle, KeyWidthAssumption, BandsAssumption
<1> DEFINE K == UpTo(KindsHere, kind - 1)
           H == Here(L, wb, first_band, K)
<1>4. K \in SUBSET KindsHere
  BY DEF UpTo
<1>5. Cardinality(UpTo(KindsHere, kind)) = Cardinality(K) + 1 /\ Cardinality(K) \in Nat
  <2>1. kind - 1 \in 0 .. 5 /\ kind - 1 \in 0 .. 6 /\ (kind - 1) + 1 = kind
    BY <1>3
  <2>2. /\ Cardinality(UpTo(KindsHere, (kind - 1) + 1))
             = Cardinality(K) + (IF (kind - 1) + 1 \in KindsHere THEN 1 ELSE 0)
        /\ Cardinality(K) \in Nat
    BY <1>3, <2>1, CountKinds
  <2> QED
    BY <1>2, <2>1, <2>2
<1>6. id = filter_count + Cardinality(K) + 1
  BY <1>2, <1>3, <1>5 DEF Number, UpTo
<1>7. filter_count = Cardinality(P)
  BY <1>1 DEF RankInv
<1>8. Cardinality(P \cup H) = filter_count + Cardinality(K)
  BY <1>1, <1>4, <1>7, CountPassed
<1>9. {f \in Shapes(Lengths) : Before(f, This')} = P \cup H
  <2>1. This' = Shape(L, wb, first_band, kind)
    BY <1>1, <1>2 DEF This, Shape
  <2>2. ASSUME NEW f \in Shapes(Lengths)
        PROVE  Before(f, This') <=> f \in P \/ f \in H
    <3>1. /\ This'.wt = L /\ This'.wb = wb /\ This'.first_band = first_band
          /\ This'.filter_type = kind
      BY <2>1 DEF Shape
    <3>2. f \in P <=> Earlier(f, L, wb, first_band)
      BY DEF Passed
    <3>3. f \in Here(L, wb, first_band, KindsHere)
            <=> f.wt = L /\ f.wb = wb /\ f.first_band = first_band
      BY HereIsRectangle DEF KindsHere
    <3>4. f \in H <=> f \in Here(L, wb, first_band, KindsHere) /\ f.filter_type =< kind - 1
      <4>1. \A k : Shape(L, wb, first_band, k).filter_type = k
        BY DEF Shape
      <4> HIDE DEF L
      <4> QED
        BY <4>1, Zenon DEF Here, UpTo
    <3>5. f.filter_type \in Int
      BY DEF Shapes
    <3>6. f.filter_type =< kind - 1 <=> f.filter_type < kind
      BY <1>3, <3>5
    <3>7. Before(f, This') <=> \/ Earlier(f, L, wb, first_band)
                               \/ /\ f.wt = L /\ f.wb = wb /\ f.first_band = first_band
                                  /\ f.filter_type < kind
      BY <3>1 DEF Before, Earlier
    <3> HIDE DEF P, H, L
    <3> QED
      BY <3>2, <3>3, <3>4, <3>6, <3>7
  <2>3. \A f : f \in P \/ f \in H => f \in Shapes(Lengths)
    <3>1. \A f \in P : f \in Shapes(Lengths)
      BY DEF Passed
    <3>2. \A k \in K : Shape(L, wb, first_band, k) \in Shapes(Lengths)
      BY <1>1, <1>4, HereAreShapes
    <3> QED
      BY <3>1, <3>2 DEF Here
  <2> HIDE DEF P, H
  <2> QED
    BY <2>2, <2>3
<1>10. {f \in Shapes(Lengths) : Before(f, This)}' = {f \in Shapes(Lengths) : Before(f, This')}
  BY <1>1 DEF Lengths
<1>11. id' = Cardinality({f \in Shapes(Lengths) : Before(f, This)}') + 1
  BY <1>1, <1>3, <1>5, <1>6, <1>8, <1>9, <1>10
<1>12. NumberIsRank'
  BY <1>1, <1>11 DEF NumberIsRank
<1>13. Increasing'
  BY <1>1 DEF RankInv, Increasing
<1> QED
  BY <1>1, <1>12, <1>13 DEF RankInv

(* The rectangle that comes next has the filters passed and those here     *)
(* before it; past the last, these are all filters.                        *)
LEMMA AdvancePasses ==
    ASSUME IInv, RankInv, Skip
    PROVE  LET here == Passed(time_lengths[wt], wb, first_band)
                         \cup Here(time_lengths[wt], wb, first_band, KindsHere)
           IN  /\ pc' = "search" => Passed(time_lengths[wt], wb, first_band)' = here
               /\ pc' = "unset" => Shapes(Lengths) = here
               /\ pc' \in {"search", "unset"}
<1> USE KeyWidthAssumption, BandsAssumption
<1> DEFINE L == time_lengths[wt]
           P == Passed(L, wb, first_band)
           H == Here(L, wb, first_band, KindsHere)
<1>1. pc = "search" /\ time_lengths' = time_lengths
  BY DEF Skip
<1>2. /\ wt \in 1 .. Len(time_lengths) /\ L \in Nat /\ L \in Lengths
      /\ wb \in 1 .. NBANDS /\ first_band \in 1 .. NBANDS - wb + 1
  BY <1>1, AtRectangle
<1>3. ASSUME NEW f \in Shapes(Lengths)
      PROVE  \E w \in Nat, b \in 1 .. NBANDS : \E g \in 1 .. NBANDS - b + 1 :
               /\ w = f.wt /\ b = f.wb /\ g = f.first_band
               /\ f \in P \cup H <=> Earlier(f, L, wb, first_band + 1)
               /\ \A length, bands, first :
                    f \in Passed(length, bands, first) <=> Earlier(f, length, bands, first)
  <2>1. f.wt \in Nat /\ f.wb \in 1 .. NBANDS /\ f.first_band \in 1 .. NBANDS - f.wb + 1
    BY DEF Shapes, Fits
  <2>2. \A length, bands, first :
          f \in Passed(length, bands, first) <=> Earlier(f, length, bands, first)
    BY DEF Passed
  <2>3. f \in H <=> f.wt = L /\ f.wb = wb /\ f.first_band = first_band
    BY HereIsRectangle DEF KindsHere
  <2>4. f \in P <=> Earlier(f, L, wb, first_band)
    BY <2>2
  <2>5. f.first_band < first_band + 1 <=> f.first_band < first_band \/ f.first_band = first_band
    BY <1>2, <2>1
  <2>6. Earlier(f, L, wb, first_band + 1)
          <=> \/ Earlier(f, L, wb, first_band)
              \/ f.wt = L /\ f.wb = wb /\ f.first_band = first_band
    BY <2>5 DEF Earlier
  <2> HIDE DEF P, H, L
  <2> QED
    BY <2>1, <2>2, <2>3, <2>4, <2>6
<1>4. P \cup H \subseteq Shapes(Lengths)
  <2>1. \A f \in P : f \in Shapes(Lengths)
    BY DEF Passed
  <2>2. \A k \in KindsHere : Shape(L, wb, first_band, k) \in Shapes(Lengths)
    BY <1>1, HereAreShapes
  <2> QED
    BY <2>1, <2>2 DEF Here
<1>5. \A f \in Shapes(Lengths) : \E k \in 1 .. Len(time_lengths) : f.wt = time_lengths[k]
  BY DEF Shapes, Lengths
<1>6. \A k \in 1 .. Len(time_lengths) : time_lengths[k] \in Nat
  BY DEF IInv, TypeOK
<1>7. \A j, k \in 1 .. Len(time_lengths) : j < k => time_lengths[j] < time_lengths[k]
  BY DEF RankInv, Increasing
<1>8. Passed(time_lengths[wt], wb, first_band)'
        = Passed(time_lengths[wt'], wb', first_band')
  BY <1>1 DEF Passed, Lengths
<1>9. \A f, length, bands, first :
        f \in Passed(length, bands, first) => f \in Shapes(Lengths)
  BY DEF Passed
<1> HIDE DEF P, H
<1>10. CASE first_band < LastBand(wb)
  <2>1. first_band' = first_band + 1 /\ UNCHANGED <<pc, wt, wb>>
    BY <1>2, <1>10 DEF Skip, Advance, LastBand
  <2>2. ASSUME NEW f \in Shapes(Lengths)
        PROVE  f \in P \cup H <=> f \in Passed(L, wb, first_band + 1)
    BY <1>3
  <2>3. Passed(L, wb, first_band + 1) = P \cup H
    BY <1>4, <1>9, <2>2
  <2> QED
    BY <1>1, <1>8, <2>1, <2>3 DEF P, H
<1>11. CASE first_band >= LastBand(wb) /\ wb < NBANDS
  <2>1. wb' = wb + 1 /\ first_band' = 1 /\ UNCHANGED <<pc, wt>>
    BY <1>2, <1>11 DEF Skip, Advance, LastBand
  <2>2. ASSUME NEW f \in Shapes(Lengths)
        PROVE  f \in P \cup H <=> f \in Passed(L, wb + 1, 1)
    <3>1. PICK w \in Nat, b \in 1 .. NBANDS : \E g \in 1 .. NBANDS - b + 1 :
            /\ w = f.wt /\ b = f.wb /\ g = f.first_band
            /\ f \in P \cup H <=> Earlier(f, L, wb, first_band + 1)
            /\ f \in Passed(L, wb + 1, 1) <=> Earlier(f, L, wb + 1, 1)
      BY <1>3
    <3>2. Earlier(f, L, wb, first_band + 1) <=> Earlier(f, L, wb + 1, 1)
      <4> HIDE DEF L
      <4> QED
        BY <1>2, <1>11, <3>1 DEF LastBand, Earlier
    <3> QED
      BY <3>1, <3>2
  <2>3. Passed(L, wb + 1, 1) = P \cup H
    BY <1>4, <1>9, <2>2
  <2> QED
    BY <1>1, <1>8, <2>1, <2>3 DEF P, H
<1>12. CASE first_band >= LastBand(wb) /\ wb = NBANDS /\ ~LastLength
  <2>1. wt' = wt + 1 /\ wb' = 1 /\ first_band' = 1 /\ pc' = pc
    BY <1>2, <1>12 DEF Skip, Advance, LastBand
  <2> DEFINE M == time_lengths[wt + 1]
  <2>2. wt + 1 \in 1 .. Len(time_lengths) /\ M \in Nat /\ L < M
    BY <1>2, <1>6, <1>7, <1>12 DEF LastLength
  <2>3. ASSUME NEW f \in Shapes(Lengths)
        PROVE  f.wt < M <=> f.wt =< L
    <3>1. PICK k \in 1 .. Len(time_lengths) : f.wt = time_lengths[k]
      BY <1>5
    <3>2. CASE k =< wt
      <4>1. k = wt \/ time_lengths[k] < L
        BY <1>2, <1>7, <3>2
      <4> HIDE DEF M, L
      <4> QED
        BY <1>2, <1>3, <2>2, <3>1, <4>1 DEF L
    <3>3. CASE k > wt
      <4>1. (k = wt + 1 \/ M < time_lengths[k]) /\ k # wt
        BY <1>2, <1>7, <2>2, <3>3
      <4> HIDE DEF M, L
      <4> QED
        BY <1>2, <1>3, <2>2, <3>1, <4>1 DEF M
    <3> QED
      BY <1>2, <3>2, <3>3
  <2>4. ASSUME NEW f \in Shapes(Lengths)
        PROVE  f \in P \cup H <=> f \in Passed(M, 1, 1)
    <3>1. f.wt < M <=> f.wt =< L
      BY <2>3
    <3>2. PICK w \in Nat, b \in 1 .. NBANDS : \E g \in 1 .. NBANDS - b + 1 :
            /\ w = f.wt /\ b = f.wb /\ g = f.first_band
            /\ f \in P \cup H <=> Earlier(f, L, wb, first_band + 1)
            /\ f \in Passed(M, 1, 1) <=> Earlier(f, M, 1, 1)
      BY <1>3
    <3>3. Earlier(f, L, wb, first_band + 1) <=> Earlier(f, M, 1, 1)
      <4>1. PICK g \in 1 .. NBANDS - b + 1 : g = f.first_band
        BY <3>2
      <4>2. L \in Nat /\ M \in Nat /\ (w < M <=> w =< L)
        BY <1>2, <2>2, <3>1, <3>2
      <4>3. wb = NBANDS /\ first_band \in Nat \ {0}
        BY <1>2, <1>12
      <4> HIDE DEF M, L
      <4>4. w < M <=> \/ w < L
                      \/ w = L /\ b < wb
                      \/ w = L /\ b = wb /\ g < first_band + 1
        BY <4>2, <4>3
      <4>5. ~(b < 1) /\ ~(g < 1)
        OBVIOUS
      <4> QED
        BY <3>2, <4>1, <4>4, <4>5, Zenon DEF Earlier
    <3> QED
      BY <3>2, <3>3
  <2>5. Passed(M, 1, 1) = P \cup H
    BY <1>4, <1>9, <2>4
  <2> QED
    BY <1>1, <1>8, <2>1, <2>5 DEF P, H
<1>13. CASE first_band >= LastBand(wb) /\ wb = NBANDS /\ LastLength
  <2>1. pc' = "unset"
    BY <1>2, <1>13 DEF Skip, Advance, LastBand
  <2>2. ASSUME NEW f \in Shapes(Lengths) PROVE f \in P \cup H
    <3>1. PICK k \in 1 .. Len(time_lengths) : f.wt = time_lengths[k]
      BY <1>5
    <3>2. k = wt \/ time_lengths[k] < L
      BY <1>2, <1>7, <1>13 DEF LastLength
    <3>3. PICK w \in Nat, b \in 1 .. NBANDS : \E g \in 1 .. NBANDS - b + 1 :
            /\ w = f.wt /\ b = f.wb /\ g = f.first_band
            /\ f \in P \cup H <=> Earlier(f, L, wb, first_band + 1)
      BY <1>3
    <3>4. Earlier(f, L, wb, first_band + 1)
      <4> HIDE DEF L
      <4> QED
        BY <1>2, <1>13, <3>1, <3>2, <3>3 DEF LastBand, Earlier, L
    <3> QED
      BY <3>3, <3>4
  <2>3. Shapes(Lengths) = P \cup H
    BY <1>4, <2>2
  <2> QED
    BY <2>1, <2>3 DEF P, H
<1>14. LastBand(wb) \in Int
  BY <1>2 DEF LastBand
<1> QED
  BY <1>2, <1>10, <1>11, <1>12, <1>13, <1>14

LEMMA RankSkip == IInv /\ RankInv /\ Skip => RankInv'
<1> SUFFICES ASSUME IInv, RankInv, Skip PROVE RankInv'
  OBVIOUS
<1> DEFINE P == Passed(time_lengths[wt], wb, first_band)
           H == Here(time_lengths[wt], wb, first_band, KindsHere)
<1>1. /\ pc = "search" /\ UNCHANGED <<id, t, time_lengths>>
      /\ filter_count' = filter_count + Cardinality(KindsHere)
      /\ \A kind \in KindsHere : Number(kind) # id
  BY DEF Skip
<1>2. filter_count = Cardinality(P) /\ id > filter_count
  BY <1>1 DEF RankInv
<1>3. Cardinality(P \cup H) = filter_count'
  BY <1>1, <1>2, CountPassed
<1>4. id > filter_count'
  <2>1. KindsHere \in SUBSET (1 .. 6) /\ filter_count \in Nat /\ id \in Nat
    BY <1>1, AtRectangle
  <2>2. \A k \in KindsHere : filter_count + Cardinality(UpTo(KindsHere, k)) # id
    BY <1>1 DEF Number, UpTo
  <2> QED
    BY <1>1, <1>2, <2>1, <2>2, BeyondKinds
<1>5. Increasing'
  BY <1>1 DEF RankInv, Increasing
<1>6. /\ pc' = "search" => Passed(time_lengths[wt], wb, first_band)' = P \cup H
      /\ pc' = "unset" => Shapes(Lengths) = P \cup H
      /\ pc' \in {"search", "unset"}
  BY AdvancePasses
<1>7. Shapes(Lengths)' = Shapes(Lengths)
  BY <1>1 DEF Lengths
<1> HIDE DEF P, H
<1>8. pc' = "search" => filter_count' = Cardinality(Passed(time_lengths[wt], wb, first_band)')
  BY <1>3, <1>6
<1>9. NumberIsRank'
  BY <1>1, <1>3, <1>4, <1>6, <1>7 DEF NumberIsRank
<1> QED
  BY <1>1, <1>4, <1>5, <1>6, <1>8, <1>9 DEF RankInv

LEMMA RanksHold == Spec => [](IInv /\ RankInv)
<1>1. IInv /\ RankInv /\ UNCHANGED vars => RankInv'
  BY DEF vars, RankInv, Increasing, NumberIsRank, This, Passed, Lengths
<1>2. IInv /\ RankInv /\ [Next]_vars => RankInv'
  BY <1>1, RankNextLength, RankLengthsDone, RankReturn, RankSkip DEF Next
<1> QED
  BY <1>2, RankStarts, Inductive, PTL DEF Spec

(* The number by which a filter is stored is its rank among all filters in *)
(* the order of the loops, for every size of key and number of bands, and  *)
(* only a number beyond the count of all filters leaves filter_type unset. *)
THEOREM NumbersAreRanks == Spec => []NumberIsRank
<1>1. RankInv => NumberIsRank
  BY DEF RankInv
<1> QED
  BY <1>1, RanksHold, PTL
-----------------------------------------------------------------------------
(* A filter's number names it and no other.                                *)

(* What is returned is one of all filters.                                 *)
ThisIsShape == pc = "returned" => This \in Shapes(Lengths)

LEMMA ThisIsShapeKept == IInv /\ ThisIsShape /\ [Next]_vars => ThisIsShape'
<1> SUFFICES ASSUME IInv, ThisIsShape, [Next]_vars PROVE ThisIsShape'
  OBVIOUS
<1>1. CASE Return
  <2>1. PICK kind \in KindsHere : filter_type' = kind
    BY <1>1 DEF Return
  <2>2. pc = "search" /\ Shape(time_lengths[wt], wb, first_band, kind) \in Shapes(Lengths)
    BY <1>1, HereAreShapes DEF Return
  <2>3. This' = Shape(time_lengths[wt], wb, first_band, kind)
    BY <1>1, <2>1 DEF This, Shape, Return
  <2>4. Shapes(Lengths)' = Shapes(Lengths)
    BY <1>1 DEF Return, Lengths
  <2> QED
    BY <2>2, <2>3, <2>4 DEF ThisIsShape
<1>2. CASE UNCHANGED vars
  BY <1>2 DEF vars, ThisIsShape, This, Lengths
<1>3. CASE NextLength \/ LengthsDone \/ Skip
  BY <1>3 DEF NextLength, LengthsDone, Skip, Advance, ThisIsShape
<1> QED
  BY <1>1, <1>2, <1>3 DEF Next

Rank(f) == Cardinality({g \in Shapes(Lengths) : Before(g, f)})

(* The order of the loops is total, so that two filters differ in rank.    *)
LEMMA RanksDiffer ==
    ASSUME TypeOK, NEW f \in Shapes(Lengths), NEW h \in Shapes(Lengths)
    PROVE  /\ Rank(f) = Rank(h) => f = h
           /\ Rank(f) < Cardinality(Shapes(Lengths))
<1> DEFINE S == Shapes(Lengths)
           B(g) == {x \in S : Before(x, g)}
<1>1. \A g \in S : /\ g = [wt |-> g.wt, wb |-> g.wb, first_band |-> g.first_band,
                           filter_type |-> g.filter_type]
                   /\ g.wt \in Int /\ g.wb \in Int /\ g.first_band \in Int
                   /\ g.filter_type \in Int
  BY KeyWidthAssumption, BandsAssumption DEF Shapes, Fits
<1>2. \A g, x, y \in S : Before(g, x) /\ Before(x, y) => Before(g, y)
  BY <1>1 DEF Before
<1>3. \A g \in S : ~Before(g, g)
  BY <1>1 DEF Before
<1>4. \A g, x \in S : Before(g, x) \/ Before(x, g) \/ g = x
  BY <1>1 DEF Before
<1>5. IsFiniteSet(S)
  BY ShapesAreFinite
<1> HIDE DEF S
<1>6. ASSUME NEW g \in S
      PROVE  /\ IsFiniteSet(B(g)) /\ Cardinality(B(g)) \in Nat
             /\ Cardinality(B(g) \cup {g}) = Cardinality(B(g)) + 1
  <2>1. IsFiniteSet(B(g)) /\ g \notin B(g)
    BY <1>3, <1>5, FS_Subset
  <2> QED
    BY <2>1, FS_AddElement, FS_CardinalityType
<1>7. ASSUME NEW g \in S, NEW x \in S, Before(g, x)
      PROVE  Cardinality(B(g)) < Cardinality(B(x))
  <2>1. B(g) \cup {g} \subseteq B(x)
    BY <1>2, <1>7
  <2>2. /\ Cardinality(B(g)) \in Nat /\ IsFiniteSet(B(x)) /\ Cardinality(B(x)) \in Nat
        /\ Cardinality(B(g) \cup {g}) = Cardinality(B(g)) + 1
    BY <1>6
  <2> HIDE DEF B
  <2>3. Cardinality(B(g) \cup {g}) =< Cardinality(B(x))
    BY <2>1, <2>2, FS_Subset
  <2> QED
    BY <2>2, <2>3
<1>8. Cardinality(B(f)) < Cardinality(S)
  <2>1. B(f) \cup {f} \subseteq S /\ f \in S
    BY DEF S
  <2>2. Cardinality(B(f) \cup {f}) =< Cardinality(S)
    BY <1>5, <2>1, FS_Subset
  <2>3. Cardinality(S) \in Nat
    BY <1>5, FS_CardinalityType
  <2> HIDE DEF B
  <2> QED
    BY <1>6, <2>1, <2>2, <2>3
<1>9. /\ f \in S /\ h \in S
      /\ \A g : Rank(g) = Cardinality(B(g))
  BY DEF S, Rank
<1>10. \A g, x \in S : Before(g, x) => Rank(g) < Rank(x)
  BY <1>7, <1>9
<1>11. Rank(f) \in Nat /\ Rank(h) \in Nat /\ Rank(f) < Cardinality(S)
  BY <1>6, <1>8, <1>9
<1> HIDE DEF B
<1>12. Rank(f) = Rank(h) => ~Before(f, h) /\ ~Before(h, f)
  BY <1>9, <1>10, <1>11
<1>13. Rank(f) = Rank(h) => f = h
  BY <1>4, <1>9, <1>12
<1> QED
  BY <1>11, <1>13 DEF S

(* Every filter of the lengths that were found has a number, the one after *)
(* its rank, and a constructor that is given this number returns it: it    *)
(* neither leaves filter_type unset nor takes another filter for it.       *)
NumberNamesFilter ==
    \A f \in Shapes(Lengths) :
        id = Rank(f) + 1 => /\ pc # "unset"
                            /\ pc = "returned" => This = f

(* The numbers of asearch.cpp therefore name filters as they would if the  *)
(* filters were listed in the order of the loops.                          *)
THEOREM NumbersNameFilters == Spec => []NumberNamesFilter
<1>1. Init => ThisIsShape
  BY DEF Init, ThisIsShape
<1>2. IInv /\ RankInv /\ ThisIsShape => NumberNamesFilter
  <2> SUFFICES ASSUME IInv, RankInv, ThisIsShape,
                      NEW f \in Shapes(Lengths), id = Rank(f) + 1
               PROVE  pc # "unset" /\ (pc = "returned" => This = f)
    BY DEF NumberNamesFilter
  <2>1. IsFiniteSet(Shapes(Lengths)) /\ \A g : IsFiniteSet({x \in Shapes(Lengths) : Before(x, g)})
    BY ShapesAreFinite, FS_Subset DEF IInv
  <2>2. Rank(f) \in Nat /\ Rank(This) \in Nat /\ Cardinality(Shapes(Lengths)) \in Nat
    BY <2>1, FS_CardinalityType DEF Rank
  <2>3. pc # "unset"
    <3>1. Rank(f) < Cardinality(Shapes(Lengths))
      BY RanksDiffer DEF IInv
    <3>2. pc = "unset" => id > Cardinality(Shapes(Lengths))
      BY DEF RankInv, NumberIsRank
    <3> QED
      BY <2>2, <3>1, <3>2
  <2>4. ASSUME pc = "returned" PROVE This = f
    <3>1. id = Rank(This) + 1 /\ This \in Shapes(Lengths)
      BY <2>4 DEF RankInv, NumberIsRank, Rank, ThisIsShape
    <3>2. Rank(This) = Rank(f)
      BY <2>2, <3>1
    <3> QED
      BY <3>1, <3>2, RanksDiffer DEF IInv
  <2> QED
    BY <2>3, <2>4
<1> QED
  BY <1>1, <1>2, ThisIsShapeKept, RanksHold, PTL DEF Spec
-----------------------------------------------------------------------------
(* The size of the code: how many filters there are.                       *)

(* The lengths below 100, and the one after them.                          *)
CodeLengths == <<1, 2, 4, 6, 10, 16, 24, 36, 54, 82, 124>>

(* The kinds of a rectangle that any bands have, those that need a second  *)
(* band, and the one that needs a fourth.                                  *)
Plain(time) == 1 + (IF time > 1 THEN 1 ELSE 0) + (IF time > 3 THEN 1 ELSE 0)
Banded(time) == 1 + (IF time > 1 THEN 1 ELSE 0)

KindCount(a, d, bands) ==
    a + (IF bands > 1 THEN d ELSE 0) + (IF bands > 3 THEN 1 ELSE 0)

(* Twice the number of first bands that rectangles with fewer bands have.  *)
Starts2(bands) == (bands - 1) * (68 - bands)

(* Twice the number of filters of a length before a rectangle.             *)
Count2(a, d, bands, first) ==
    a * Starts2(bands)
    + (IF bands > 1 THEN d * (Starts2(bands) - 66) ELSE 0)
    + (IF bands > 3 THEN Starts2(bands) - 192 ELSE 0)
    + 2 * ((first - 1) * KindCount(a, d, bands))

(* The number of filters before the n-th length.                           *)
CountBefore(n) == IF n = 1 THEN 0 ELSE IF n = 2 THEN 1554 ELSE 4197 + 3204 * (n - 3)

LEMMA KindsAreKindCount ==
    ASSUME NEW time \in Nat \ {0}, NEW bands \in Nat \ {0}
    PROVE  Cardinality(Kinds(time, bands)) = KindCount(Plain(time), Banded(time), bands)
<1> DEFINE K == Kinds(time, bands)
           u(n) == Cardinality(UpTo(K, n))
<1>1. K \in SUBSET (1 .. 6)
  BY DEF Kinds
<1>2. /\ u(0) = 0 /\ u(6) = Cardinality(K)
      /\ \A n \in 0 .. 5 : u(n + 1) = u(n) + (IF n + 1 \in K THEN 1 ELSE 0)
  <2> HIDE DEF K
  <2> QED
    BY <1>1, CountKinds
<1>3. /\ 1 \in K
      /\ 2 \in K <=> time > 1
      /\ 3 \in K <=> bands > 1
      /\ 4 \in K <=> time > 1 /\ bands > 1
      /\ 5 \in K <=> time > 3
      /\ 6 \in K <=> bands > 3
  BY DEF Kinds
<1> HIDE DEF K, u
<1>4. /\ u(1) = 1
      /\ u(2) = u(1) + (IF 2 \in K THEN 1 ELSE 0)
      /\ u(3) = u(2) + (IF 3 \in K THEN 1 ELSE 0)
      /\ u(4) = u(3) + (IF 4 \in K THEN 1 ELSE 0)
      /\ u(5) = u(4) + (IF 5 \in K THEN 1 ELSE 0)
      /\ u(6) = u(5) + (IF 6 \in K THEN 1 ELSE 0)
  <2>1. \A n \in {0, 1, 2, 3, 4, 5} :
          u(n + 1) = u(n) + (IF n + 1 \in K THEN 1 ELSE 0)
    BY <1>2
  <2> QED
    BY <1>2, <1>3, <2>1
<1>5. Cardinality(K) = KindCount(Plain(time), Banded(time), bands)
  BY <1>2, <1>3, <1>4 DEF KindCount, Plain, Banded
<1> QED
  BY <1>5 DEF K

(* What a rectangle adds to the count.                                     *)
CountStep(a, d, bands, first) ==
    LET next == Count2(a, d, bands, first) + 2 * KindCount(a, d, bands)
    IN  /\ Count2(a, d, bands, first) \in Int
        /\ Count2(a, d, bands, first + 1) = next
        /\ first = 34 - bands /\ bands < 33 => Count2(a, d, bands + 1, 1) = next
        /\ first = 34 - bands /\ bands = 33 => next = 1122 * a + 1056 * d + 930

LEMMA CountSteps ==
    ASSUME NEW a \in Int, NEW d \in Int,
           \/ a = 1 /\ d = 1
           \/ a = 2 /\ d = 2
           \/ a = 3 /\ d = 2,
           NEW bands \in 1 .. 33, NEW first \in 1 .. 34 - bands
    PROVE  CountStep(a, d, bands, first)
<1>1. PICK c \in Int : c = KindCount(a, d, bands)
  BY DEF KindCount
<1>2. PICK s \in Int : s = Starts2(bands)
  BY DEF Starts2
<1>3. Starts2(bands + 1) = s + 2 * (34 - bands)
  BY <1>2 DEF Starts2
<1>4. first * c = (first - 1) * c + c
  BY <1>1
<1>5. PICK e \in Int : e = (first - 1) * c
  BY <1>1
<1>6. bands = 1 => s = 0
  BY <1>2 DEF Starts2
<1>7. (bands = 2 => s = 66) /\ (bands = 3 => s = 130) /\ (bands = 33 => s = 1120)
  BY <1>2 DEF Starts2
<1>8. first = 34 - bands => e = (33 - bands) * c
  BY <1>5
<1> DEFINE base == a * s + (IF bands > 1 THEN d * (s - 66) ELSE 0)
                   + (IF bands > 3 THEN s - 192 ELSE 0)
<1>9. Count2(a, d, bands, first) = base + 2 * e /\ base \in Int
  BY <1>1, <1>2, <1>5 DEF Count2
<1>10. Count2(a, d, bands, first + 1) = base + 2 * (e + c)
  <2>1. ((first + 1) - 1) * c = e + c
    BY <1>4, <1>5
  <2> QED
    BY <1>1, <1>2, <2>1 DEF Count2
<1>11. ASSUME bands < 33
       PROVE  Count2(a, d, bands + 1, 1) = base + 2 * ((34 - bands) * c)
  <2>1. (1 - 1) * KindCount(a, d, bands + 1) = 0
    BY DEF KindCount
  <2>2. Count2(a, d, bands + 1, 1) =
          a * (s + 2 * (34 - bands))
          + (IF bands + 1 > 1 THEN d * (s + 2 * (34 - bands) - 66) ELSE 0)
          + (IF bands + 1 > 3 THEN s + 2 * (34 - bands) - 192 ELSE 0)
    BY <1>3, <2>1 DEF Count2
  <2>3. c = a + (IF bands > 1 THEN d ELSE 0) + (IF bands > 3 THEN 1 ELSE 0)
    BY <1>1 DEF KindCount
  <2>4. CASE a = 1 /\ d = 1
    BY <1>6, <1>7, <2>2, <2>3, <2>4
  <2>5. CASE a = 2 /\ d = 2
    BY <1>6, <1>7, <2>2, <2>3, <2>5
  <2>6. CASE a = 3 /\ d = 2
    BY <1>6, <1>7, <2>2, <2>3, <2>6
  <2> QED
    BY <2>4, <2>5, <2>6
<1>12. first = 34 - bands => base + 2 * ((34 - bands) * c) = base + 2 * e + 2 * c
  <2>1. (34 - bands) * c = (33 - bands) * c + c
    BY <1>1
  <2> QED
    BY <1>1, <1>5, <1>8, <1>9, <2>1
<1>13. bands = 33 /\ first = 1 => base + 2 * e + 2 * c = 1122 * a + 1056 * d + 930
  <2> SUFFICES ASSUME bands = 33, first = 1
               PROVE  base + 2 * e + 2 * c = 1122 * a + 1056 * d + 930
    OBVIOUS
  <2>1. e = 0 /\ s = 1120 /\ c = a + d + 1
    BY <1>1, <1>5, <1>7 DEF KindCount
  <2> QED
    BY <2>1
<1> HIDE DEF base
<1> QED
  BY <1>1, <1>9, <1>10, <1>11, <1>12, <1>13 DEF CountStep

(* The count in closed form.                                               *)
CountInv ==
    /\ Len(time_lengths) \in 0 .. 10
    /\ t = CodeLengths[Len(time_lengths) + 1]
    /\ \A k \in 1 .. Len(time_lengths) : time_lengths[k] = CodeLengths[k]
    /\ pc = "search" =>
         /\ Len(time_lengths) = 10
         /\ 2 * filter_count
              = 2 * CountBefore(wt) + Count2(Plain(time_lengths[wt]),
                                             Banded(time_lengths[wt]), wb, first_band)
    /\ ListedFiltersExist
(* The kinds of each length of the code, and what all its rectangles have. *)
LEMMA CodeKinds ==
    ASSUME NEW n \in 1 .. 10
    PROVE  /\ CodeLengths[n] \in Nat \ {0}
           /\ LET a == Plain(CodeLengths[n])
                  d == Banded(CodeLengths[n])
              IN  /\ a \in Int /\ d \in Int
                  /\ \/ a = 1 /\ d = 1
                     \/ a = 2 /\ d = 2
                     \/ a = 3 /\ d = 2
                  /\ 2 * CountBefore(n) + 1122 * a + 1056 * d + 930 = 2 * CountBefore(n + 1)
<1>1. n = 1 \/ n = 2 \/ n \in {3, 4, 5, 6, 7, 8, 9, 10}
  OBVIOUS
<1>2. CASE n = 1
  BY <1>2 DEF CodeLengths, Plain, Banded, CountBefore
<1>3. CASE n = 2
  BY <1>3 DEF CodeLengths, Plain, Banded, CountBefore
<1>4. CASE n \in {3, 4, 5, 6, 7, 8, 9, 10}
  <2>1. CodeLengths[n] \in Nat /\ CodeLengths[n] > 3
    BY <1>4 DEF CodeLengths
  <2>2. Plain(CodeLengths[n]) = 3 /\ Banded(CodeLengths[n]) = 2
    BY <2>1 DEF Plain, Banded
  <2>3. /\ CountBefore(n) = 4197 + 3204 * (n - 3)
        /\ CountBefore(n + 1) = 4197 + 3204 * (n + 1 - 3)
    BY <1>4 DEF CountBefore
  <2> QED
    BY <1>4, <2>1, <2>2, <2>3
<1> QED
  BY <1>1, <1>2, <1>3, <1>4

LEMMA NextCodeLength ==
    ASSUME NEW n \in 1 .. 11, KEYWIDTH = 100
    PROVE  /\ CodeLengths[n] < KEYWIDTH <=> n < 11
           /\ n < 11 => Longer(CodeLengths[n]) = CodeLengths[n + 1]
<1>1. n \in {1, 2, 3, 4, 5, 6, 7, 8, 9, 10, 11}
  OBVIOUS
<1>2. /\ Longer(1) = 2 /\ Longer(2) = 4 /\ Longer(4) = 6 /\ Longer(6) = 10
      /\ Longer(10) = 16 /\ Longer(16) = 24 /\ Longer(24) = 36 /\ Longer(36) = 54
      /\ Longer(54) = 82 /\ Longer(82) = 124
  BY DEF Longer
<1> QED
  BY <1>1, <1>2 DEF CodeLengths

LEMMA CountKept ==
    ASSUME KEYWIDTH = 100, NBANDS = 33, \A n \in Ids : n =< 29829
    PROVE  IInv /\ RankInv /\ CountInv /\ [Next]_vars => CountInv'
<1> SUFFICES ASSUME IInv, RankInv, CountInv, [Next]_vars PROVE CountInv'
  OBVIOUS
<1>1. CASE NextLength
  <2> DEFINE n == Len(time_lengths)
  <2>1. /\ time_lengths \in Seq(1 .. KEYWIDTH - 1)
        /\ time_lengths' = Append(time_lengths, t) /\ t' = Longer(t) /\ t < KEYWIDTH
        /\ pc' = "lengths"
    BY <1>1 DEF NextLength, MoreLengths, IInv, TypeOK
  <2>2. n \in 0 .. 10 /\ t = CodeLengths[n + 1]
        /\ \A k \in 1 .. n : time_lengths[k] = CodeLengths[k]
    BY DEF CountInv
  <2>3. n + 1 \in 1 .. 11 /\ n + 1 < 11 /\ t' = CodeLengths[n + 2]
    <3> HIDE DEF n
    <3>1. n + 1 \in 1 .. 11
      BY <2>2
    <3>2. /\ CodeLengths[n + 1] < KEYWIDTH <=> n + 1 < 11
          /\ n + 1 < 11 => Longer(CodeLengths[n + 1]) = CodeLengths[(n + 1) + 1]
      BY <3>1, NextCodeLength
    <3>3. (n + 1) + 1 = n + 2
      BY <2>2
    <3> QED
      BY <2>1, <2>2, <3>1, <3>2, <3>3
  <2>4. /\ Len(time_lengths') = n + 1 /\ time_lengths'[n + 1] = t
        /\ \A k \in 1 .. n : time_lengths'[k] = time_lengths[k]
    BY <2>1
  <2> HIDE DEF n
  <2>5. \A k \in 1 .. n + 1 : time_lengths'[k] = CodeLengths[k]
    BY <2>2, <2>4
  <2>6. n + 1 \in 0 .. 10 /\ (n + 1) + 1 = n + 2
    BY <2>2, <2>3
  <2> QED
    BY <2>1, <2>3, <2>4, <2>5, <2>6 DEF CountInv, ListedFiltersExist
<1>2. CASE LengthsDone
  <2>1. /\ pc' = "search" /\ ~(t < KEYWIDTH)
        /\ UNCHANGED <<t, time_lengths, wt, wb, first_band, filter_count>>
        /\ filter_count = 0 /\ wt = 1 /\ wb = 1 /\ first_band = 1
    BY <1>2 DEF LengthsDone, MoreLengths, loopVars, RankInv, IInv, Position
  <2>2. Len(time_lengths) = 10
    <3>1. PICK n \in 0 .. 10 : n = Len(time_lengths)
      BY DEF CountInv
    <3>2. t = CodeLengths[n + 1]
      BY <3>1 DEF CountInv
    <3>3. n + 1 \in 1 .. 11
      OBVIOUS
    <3>4. ~(n + 1 < 11)
      BY <2>1, <3>2, <3>3, NextCodeLength
    <3> QED
      BY <3>1, <3>4
  <2>3. time_lengths[1] = CodeLengths[1]
    BY <2>2 DEF CountInv
  <2>4. 2 * CountBefore(1) + Count2(Plain(CodeLengths[1]), Banded(CodeLengths[1]), 1, 1) = 0
    <3>1. Plain(CodeLengths[1]) = 1 /\ Banded(CodeLengths[1]) = 1
      BY DEF CodeLengths, Plain, Banded
    <3> QED
      BY <3>1 DEF CountBefore, Count2, Starts2, KindCount
  <2> QED
    BY <2>1, <2>2, <2>3, <2>4 DEF CountInv, ListedFiltersExist
<1>3. CASE Return
  BY <1>3 DEF Return, CountInv, ListedFiltersExist
<1>4. CASE Skip
  <2> DEFINE L == time_lengths[wt]
             a == Plain(L)
             d == Banded(L)
  <2>1. /\ pc = "search" /\ UNCHANGED <<id, t, time_lengths>>
        /\ filter_count' = filter_count + Cardinality(KindsHere)
    BY <1>4 DEF Skip
  <2>2. /\ wt \in 1 .. 10 /\ wb \in 1 .. 33 /\ first_band \in 1 .. 34 - wb
        /\ filter_count \in Nat
    <3>1. /\ wt \in 1 .. Len(time_lengths) /\ wb \in 1 .. NBANDS
          /\ first_band \in 1 .. NBANDS - wb + 1 /\ filter_count \in Nat
      BY <2>1, AtRectangle
    <3>2. Len(time_lengths) = 10
      BY <2>1 DEF CountInv
    <3>3. wb \in 1 .. 33 /\ first_band \in 1 .. 33 - wb + 1
      BY <3>1
    <3>4. 33 - wb + 1 = 34 - wb
      BY <3>3
    <3> QED
      BY <3>1, <3>2, <3>3, <3>4
  <2>3. L = CodeLengths[wt] /\ Len(time_lengths) = 10
    <3>1. Len(time_lengths) = 10
      BY <2>1 DEF CountInv
    <3>2. \A k \in 1 .. 10 : time_lengths[k] = CodeLengths[k]
      BY <3>1 DEF CountInv
    <3> QED
      BY <2>2, <3>1, <3>2
  <2>4. 2 * filter_count = 2 * CountBefore(wt) + Count2(a, d, wb, first_band)
    BY <2>1 DEF CountInv
  <2>5. /\ L \in Nat \ {0} /\ a \in Int /\ d \in Int
        /\ \/ a = 1 /\ d = 1
           \/ a = 2 /\ d = 2
           \/ a = 3 /\ d = 2
        /\ 2 * CountBefore(wt) + 1122 * a + 1056 * d + 930 = 2 * CountBefore(wt + 1)
    BY <2>2, <2>3, CodeKinds
  <2>6. Cardinality(KindsHere) = KindCount(a, d, wb)
    BY <2>2, <2>5, KindsAreKindCount DEF KindsHere
  <2>7. CountBefore(wt) \in Int /\ CountBefore(wt + 1) \in Int
    BY <2>2 DEF CountBefore
  <2> DEFINE next == Count2(a, d, wb, first_band) + 2 * KindCount(a, d, wb)
  <2>8. /\ Count2(a, d, wb, first_band) \in Int
        /\ Count2(a, d, wb, first_band + 1) = next
        /\ first_band = 34 - wb /\ wb < 33 => Count2(a, d, wb + 1, 1) = next
        /\ first_band = 34 - wb /\ wb = 33 => next = 1122 * a + 1056 * d + 930
    <3> HIDE DEF a, d, L
    <3>1. /\ a \in Int /\ d \in Int
          /\ \/ a = 1 /\ d = 1
             \/ a = 2 /\ d = 2
             \/ a = 3 /\ d = 2
          /\ wb \in 1 .. 33 /\ first_band \in 1 .. 34 - wb
      BY <2>2, <2>5
    <3>2. CountStep(a, d, wb, first_band)
      BY <3>1, CountSteps
    <3> QED
      BY <3>2 DEF CountStep
  <2>9. KindCount(a, d, wb) \in Int
    BY <2>5 DEF KindCount
  <2>10. 2 * filter_count' = 2 * CountBefore(wt) + next
    <3> HIDE DEF a, d, L
    <3> QED
      BY <2>1, <2>2, <2>4, <2>6, <2>7, <2>8, <2>9
  <2>11. CASE first_band < LastBand(wb)
    <3>1. first_band' = first_band + 1 /\ UNCHANGED <<pc, wt, wb>>
      BY <1>4, <2>2, <2>11 DEF Skip, Advance, LastBand
    <3> QED
      BY <2>1, <2>3, <2>8, <2>10, <3>1 DEF CountInv, ListedFiltersExist
  <2>12. CASE first_band >= LastBand(wb) /\ wb < NBANDS
    <3>1. wb' = wb + 1 /\ first_band' = 1 /\ UNCHANGED <<pc, wt>>
      BY <1>4, <2>2, <2>12 DEF Skip, Advance, LastBand
    <3>2. first_band = 34 - wb /\ wb < 33
      BY <2>2, <2>12 DEF LastBand
    <3> QED
      BY <2>1, <2>3, <2>8, <2>10, <3>1, <3>2 DEF CountInv, ListedFiltersExist
  <2>13. ASSUME first_band >= LastBand(wb), wb = NBANDS
         PROVE  2 * filter_count' = 2 * CountBefore(wt + 1)
    <3>1. first_band = 34 - wb /\ wb = 33
      BY <2>2, <2>13 DEF LastBand
    <3>2. next = 1122 * a + 1056 * d + 930
      BY <2>8, <3>1
    <3> HIDE DEF next, a, d, L
    <3> QED
      BY <2>5, <2>7, <2>10, <3>2
  <2>14. CASE first_band >= LastBand(wb) /\ wb = NBANDS /\ ~LastLength
    <3>1. wt' = wt + 1 /\ wb' = 1 /\ first_band' = 1 /\ pc' = pc
      BY <1>4, <2>2, <2>14 DEF Skip, Advance, LastBand
    <3>2. wt + 1 \in 1 .. 10
      BY <2>2, <2>3, <2>14 DEF LastLength
    <3>3. time_lengths[wt + 1] = CodeLengths[wt + 1]
      BY <2>3, <3>2 DEF CountInv
    <3>4. /\ Plain(CodeLengths[wt + 1]) \in Int /\ Banded(CodeLengths[wt + 1]) \in Int
      BY <3>2, CodeKinds
    <3>5. Count2(Plain(CodeLengths[wt + 1]), Banded(CodeLengths[wt + 1]), 1, 1) = 0
      <4> DEFINE p == Plain(CodeLengths[wt + 1])
                 b == Banded(CodeLengths[wt + 1])
      <4> HIDE DEF p, b
      <4>1. p \in Int /\ b \in Int
        BY <3>4 DEF p, b
      <4>2. Count2(p, b, 1, 1) = 0
        BY <4>1 DEF Count2, Starts2, KindCount
      <4> QED
        BY <4>2 DEF p, b
    <3>6. 2 * filter_count' = 2 * CountBefore(wt + 1)
      BY <2>13, <2>14
    <3> QED
      BY <2>1, <2>3, <2>7, <3>1, <3>3, <3>5, <3>6 DEF CountInv, ListedFiltersExist
  <2>15. ~(first_band >= LastBand(wb) /\ wb = NBANDS /\ LastLength)
    <3> SUFFICES ASSUME first_band >= LastBand(wb), wb = NBANDS, LastLength PROVE FALSE
      OBVIOUS
    <3>1. wt = 10
      BY <2>3 DEF LastLength
    <3>2. filter_count' = 29829
      <4>1. CountBefore(wt + 1) = 29829
        BY <3>1 DEF CountBefore
      <4>2. filter_count' \in Int
        BY <2>1, <2>2, <2>6, <2>9
      <4> QED
        BY <2>13, <4>1, <4>2
    <3>3. id > filter_count'
      <4>1. RankInv'
        BY <1>4, RankSkip
      <4>2. pc' = "unset"
        BY <1>4, <2>2 DEF Skip, Advance, LastBand
      <4>3. id > Cardinality(Shapes(Lengths))
        BY <2>1, <4>1, <4>2 DEF RankInv, NumberIsRank, Lengths
      <4>4. Cardinality(Shapes(Lengths)) = filter_count'
        <5>1. Cardinality(Passed(L, wb, first_band) \cup Here(L, wb, first_band, KindsHere))
                = filter_count + Cardinality(KindsHere)
          BY <2>1, CountPassed DEF RankInv
        <5> QED
          BY <1>4, <2>1, <4>2, <5>1, AdvancePasses
      <4> QED
        BY <4>3, <4>4
    <3>4. id \in Ids /\ id \in Nat
      BY IdsAssumption DEF IInv, TypeOK
    <3> QED
      BY <3>2, <3>3, <3>4
  <2>16. LastBand(wb) \in Int
    BY <2>2 DEF LastBand
  <2> QED
    BY <2>2, <2>11, <2>12, <2>14, <2>15, <2>16
<1>5. CASE UNCHANGED vars
  BY <1>5 DEF vars, CountInv, ListedFiltersExist
<1> QED
  BY <1>1, <1>2, <1>3, <1>4, <1>5 DEF Next

(* At the size of the code the loops count 29829 filters, so no number up  *)
(* to that one leaves filter_type unset; the largest that asearch.cpp      *)
(* lists is 28209.                                                         *)
THEOREM ListedFiltersAreFound ==
    ASSUME KEYWIDTH = 100, NBANDS = 33, \A n \in Ids : n =< 29829
    PROVE  Spec => []ListedFiltersExist
<1>1. Init => CountInv
  BY DEF Init, CountInv, ListedFiltersExist, CodeLengths
<1>2. IInv /\ RankInv /\ CountInv /\ [Next]_vars => CountInv'
  BY CountKept
<1>3. CountInv => ListedFiltersExist
  BY DEF CountInv
<1> QED
  BY <1>1, <1>2, <1>3, RanksHold, PTL DEF Spec
-----------------------------------------------------------------------------
(* How long a constructor takes.                                           *)

StepsLeft ==
    IF pc = "lengths" THEN id + 1 + (IF t < KEYWIDTH THEN KEYWIDTH - t ELSE 0)
    ELSE IF pc = "search" THEN id - filter_count
    ELSE 0

OneStepLess == StepsLeft \in Nat /\ StepsLeft' \in 0 .. StepsLeft - 1

(* Every step brings the constructor nearer to its end: it takes at most   *)
(* KEYWIDTH steps for the lengths and one for each number up to its own,   *)
(* since every rectangle has a filter that is counted.                     *)
THEOREM ConstructorEnds == Spec => [][OneStepLess]_vars
<1>1. ASSUME IInv, RankInv, Next PROVE OneStepLess
  <2> USE KeyWidthAssumption
  <2>1. id \in Nat \ {0} /\ filter_count \in Nat /\ t \in Nat
    BY <1>1, IdsAssumption DEF IInv, TypeOK
  <2>2. CASE NextLength
    <3>1. Longer(t) \in Nat /\ Longer(t) > t
      BY <1>1, LongerIsEven DEF IInv, TypeOK, EvenLengths
    <3>2. /\ pc = "lengths" /\ pc' = "lengths" /\ id' = id
          /\ t < KEYWIDTH /\ t' = Longer(t)
      BY <2>2 DEF NextLength, MoreLengths
    <3> QED
      BY <2>1, <3>1, <3>2 DEF OneStepLess, StepsLeft
  <2>3. CASE LengthsDone
    <3>1. pc = "lengths" /\ pc' = "search" /\ id' = id /\ filter_count' = 0 /\ ~(t < KEYWIDTH)
      BY <1>1, <2>3 DEF LengthsDone, MoreLengths, RankInv
    <3> QED
      BY <2>1, <3>1 DEF OneStepLess, StepsLeft
  <2>4. CASE Return
    <3>1. pc = "search" /\ pc' = "returned" /\ id > filter_count
      BY <1>1, <2>4 DEF Return, RankInv
    <3> QED
      BY <2>1, <3>1 DEF OneStepLess, StepsLeft
  <2>5. CASE Skip
    <3>1. /\ pc = "search" /\ id > filter_count /\ id' = id
          /\ filter_count' = filter_count + Cardinality(KindsHere)
          /\ pc' \in {"search", "unset"}
      BY <1>1, <2>5 DEF Skip, Advance, RankInv
    <3>2. RankInv'
      BY <1>1, <2>5, RankSkip
    <3>3. Cardinality(KindsHere) \in Nat \ {0}
      <4>1. 1 \in KindsHere /\ KindsHere \in SUBSET (1 .. 6)
        BY <1>1, <3>1, AtRectangle DEF KindsHere, Kinds
      <4>2. IsFiniteSet(KindsHere)
        BY <4>1, CountKinds
      <4> QED
        BY <4>1, <4>2, FS_CardinalityType, FS_EmptySet
    <3>4. pc' = "search" => id' > filter_count'
      BY <3>2 DEF RankInv
    <3> QED
      BY <2>1, <3>1, <3>3, <3>4 DEF OneStepLess, StepsLeft
  <2> QED
    BY <1>1, <2>2, <2>3, <2>4, <2>5 DEF Next
<1> QED
  BY <1>1, RanksHold, PTL DEF Spec
==============================================================================
