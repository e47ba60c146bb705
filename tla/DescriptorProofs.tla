--------------------------- MODULE DescriptorProofs ---------------------------
(***************************************************************************)
(* For every recording and every list of filters that fit: no corner lies  *)
(* outside the array, integralimage leaves the sums of rectangles, and     *)
(* every response is the sum of the energies of the frames and bands of    *)
(* the filter, each with the sign of the part it lies in.                  *)
(***************************************************************************)
EXTENDS Descriptor, SumsProofs

-----------------------------------------------------------------------------
(* Corners.                                                                *)

(* KEYWIDTH is even.                                                       *)
LEMMA HalfKey == \E k \in Nat : KEYWIDTH = 2 * k /\ k >= 2
<1> DEFINE half == KEYWIDTH \div 2
<1>1. half \in Nat /\ KEYWIDTH = 2 * half /\ half >= 2
  BY KeyWidthAssumption, SMT
<1> HIDE DEF half
<1> QED
  BY <1>1

(* The rectangle of a filter that fits, at a time that has a key.          *)
LEMMA CornersAreInside ==
    ASSUME NEW f, Fits(f), f.filter_type \in 1 .. 6,
           NEW t \in first_time .. last_time
    PROVE  /\ t1(f, t) \in 1 .. nframes
           /\ t3(f, t) \in 1 .. nframes
           /\ t - 1 \in 1 .. nframes
           /\ t1(f, t) < t /\ t1(f, t) < t3(f, t)
           /\ f.wt > 3 => t_1q(f, t) \in 1 .. nframes /\ t_3q(f, t) \in 1 .. nframes
           /\ b1(f) \in 0 .. NBANDS /\ b2(f) \in 0 .. NBANDS /\ b3(f) \in 0 .. NBANDS
           /\ f.wb > 3 => b_1q(f) \in 1 .. NBANDS /\ b_3q(f) \in 1 .. NBANDS
<1> USE KeyWidthAssumption, BandsAssumption, FramesAssumption
<1>1. PICK k \in Nat : KEYWIDTH = 2 * k /\ k >= 2
  BY HalfKey
<1>2. t \in k + 1 .. nframes - k
  BY <1>1, SMT DEF first_time, last_time
<1>3. f.wt = 1 \/ \E h \in 1 .. k - 1 : f.wt = 2 * h
  BY <1>1, SMT DEF Fits
<1>4. CASE f.wt = 1
  BY <1>1, <1>2, <1>4, SMT DEF Fits, t1, t3, t_1q, t_3q, b1, b2, b3, b_1q, b_3q
<1>5. CASE \E h \in 1 .. k - 1 : f.wt = 2 * h
  <2>1. PICK h \in 1 .. k - 1 : f.wt = 2 * h
    BY <1>5
  <2>2. f.wt \div 2 = h /\ f.wt # 1
    BY <2>1, SMT
  <2>3. t1(f, t) = t - h - 1 /\ t3(f, t) = t + h - 1
    BY <2>2 DEF t1, t3
  <2> QED
    BY <1>1, <1>2, <2>1, <2>3, SMT
    DEF Fits, t_1q, t_3q, b1, b2, b3, b_1q, b_3q
<1> QED
  BY <1>3, <1>4, <1>5

(* The times of the keys.                                                  *)
LEMMA Times == first_time \in Nat /\ last_time \in Nat /\ first_time =< last_time
<1>1. PICK k \in Nat : KEYWIDTH = 2 * k /\ k >= 2
  BY HalfKey
<1> QED
  BY <1>1, FramesAssumption, SMT DEF first_time, last_time

(* The times of a filter are in the order of their names.                  *)
LEMMA TimesOrdered ==
    ASSUME NEW f, Fits(f), NEW t \in first_time .. last_time
    PROVE  /\ t1(f, t) =< t - 1 /\ t - 1 =< t3(f, t)
           /\ f.wt > 3 => t_1q(f, t) =< t_3q(f, t)
<1>1. t \in Nat
  BY Times, SMT
<1>2. f.wt = 1 \/ \E h \in Nat \ {0} : f.wt = 2 * h
  <2>1. f.wt \in Nat /\ (f.wt = 1 \/ (f.wt % 2 = 0 /\ f.wt > 0))
    BY KeyWidthAssumption, SMT DEF Fits
  <2> QED
    BY <2>1, SMT
<1>3. CASE f.wt = 1
  BY <1>1, <1>3, SMT DEF t1, t3
<1>4. ASSUME NEW h \in Nat \ {0}, f.wt = 2 * h
      PROVE  /\ t1(f, t) =< t - 1 /\ t - 1 =< t3(f, t)
             /\ t_1q(f, t) =< t_3q(f, t)
  <2>1. f.wt \div 2 = h /\ f.wt # 1
    BY <1>4, SMT
  <2>2. t1(f, t) = t - h - 1 /\ t3(f, t) = t + h - 1
    BY <2>1 DEF t1, t3
  <2>3. t_1q(f, t) \in Int /\ (t3(f, t) - t1(f, t) + 1) \div 2 = h
    BY <1>1, <2>2, SMT DEF t_1q
  <2> QED
    BY <1>1, <2>2, <2>3, SMT DEF t_3q
<1> QED
  BY <1>2, <1>3, <1>4

(* A response is an integer.                                               *)
LEMMA ResponseType ==
    ASSUME NEW f, Fits(f), NEW t \in first_time .. last_time,
           frames \in [Frame -> [Band -> Int]]
    PROVE  Response(f, t) \in Int
<1> USE BandsAssumption, FramesAssumption
<1>1. f.filter_type \in 1 .. 6
  BY DEF Fits, Kinds
<1>2. \A u \in 1 .. nframes, b \in 0 .. NBANDS : At(u, b) \in Int
  BY SMT DEF At, Frame, Band
<1>3. \A u, v \in 1 .. nframes, b \in 0 .. NBANDS : Between(u, v, b) \in Int
  BY <1>2, SMT DEF Between
<1>4. /\ t1(f, t) \in 1 .. nframes /\ t3(f, t) \in 1 .. nframes
      /\ t - 1 \in 1 .. nframes
      /\ b1(f) \in 0 .. NBANDS /\ b2(f) \in 0 .. NBANDS /\ b3(f) \in 0 .. NBANDS
  BY <1>1, CornersAreInside
<1>5. CASE f.filter_type = 5
  <2>1. t_1q(f, t) \in 1 .. nframes /\ t_3q(f, t) \in 1 .. nframes
    BY <1>1, <1>5, CornersAreInside DEF Fits, Kinds
  <2> QED
    BY <1>3, <1>4, <1>5, <2>1, SMT DEF Response
<1>6. CASE f.filter_type = 6
  <2>1. b_1q(f) \in 0 .. NBANDS /\ b_3q(f) \in 0 .. NBANDS
    BY <1>1, <1>6, CornersAreInside, SMT DEF Fits, Kinds
  <2> QED
    BY <1>3, <1>4, <1>6, <2>1, SMT DEF Response
<1>7. CASE f.filter_type \in 1 .. 4
  BY <1>3, <1>4, <1>7, SMT DEF Response
<1> QED
  BY <1>1, <1>5, <1>6, <1>7, SMT

(* What a store into the array leaves.                                     *)
LEMMA StoreType ==
    ASSUME NEW g \in [Frame -> [Band -> Int]], NEW p \in Frame, NEW q \in Band,
           NEW v \in Int
    PROVE  [g EXCEPT ![p][q] = v] \in [Frame -> [Band -> Int]]
<1>1. [g[p] EXCEPT ![q] = v] \in [Band -> Int]
  OBVIOUS
<1>2. [g EXCEPT ![p] = [g[p] EXCEPT ![q] = v]] \in [Frame -> [Band -> Int]]
  BY <1>1
<1> QED
  BY <1>2

LEMMA TypeStarts == Init => TypeOK
<1>1. (CHOOSE f \in Filters : TRUE) \in Filters
  BY FiltersAssumption
<1>2. first_time \in first_time .. last_time + 1
  BY Times, SMT
<1>3. 1 \in 1 .. nframes /\ 1 \in 1 .. NBANDS
  BY BandsAssumption, FramesAssumption, KeyWidthAssumption, SMT
<1> QED
  BY <1>1, <1>2, <1>3, ImagesAssumption DEF Init, TypeOK

LEMMA TypeKept == TypeOK /\ [Next]_vars => TypeOK'
<1> SUFFICES ASSUME TypeOK, [Next]_vars PROVE TypeOK'
  OBVIOUS
<1> USE BandsAssumption, FramesAssumption DEF TypeOK
<1>1. CASE SumDown
  <2>1. CASE y < nframes
    <3>1. y \in Frame /\ y - 1 \in Frame /\ 0 \in Band /\ y + 1 \in 1 .. nframes
      BY <2>1, SMT DEF Frame, Band
    <3>2. frames[y][0] + frames[y - 1][0] \in Int
      BY <3>1
    <3>3. frames' = [frames EXCEPT ![y][0] = frames[y][0] + frames[y - 1][0]]
      BY <1>1, <2>1 DEF SumDown
    <3> QED
      BY <1>1, <2>1, <3>1, <3>2, <3>3, StoreType DEF SumDown
  <2> QED
    BY <1>1, <2>1 DEF SumDown
<1>2. CASE SumAcross
  <2>1. CASE x < NBANDS
    <3>1. 0 \in Frame /\ x \in Band /\ x - 1 \in Band /\ x + 1 \in 1 .. NBANDS
      BY <2>1, SMT DEF Frame, Band
    <3>2. frames[0][x] + frames[0][x - 1] \in Int
      BY <3>1
    <3>3. frames' = [frames EXCEPT ![0][x] = frames[0][x] + frames[0][x - 1]]
      BY <1>2, <2>1 DEF SumAcross
    <3> QED
      BY <1>2, <2>1, <3>1, <3>2, <3>3, StoreType DEF SumAcross
  <2>2. 1 \in 1 .. nframes /\ 1 \in 1 .. NBANDS
    BY SMT
  <2> QED
    BY <1>2, <2>1, <2>2 DEF SumAcross
<1>3. CASE SumRest
  <2>1. CASE y < nframes /\ x < NBANDS
    <3>1. /\ y \in Frame /\ y - 1 \in Frame /\ x \in Band /\ x - 1 \in Band
          /\ x + 1 \in 1 .. NBANDS
      BY <2>1, SMT DEF Frame, Band
    <3>2. Sum \in Int
      BY <3>1, SMT DEF Sum
    <3>3. /\ frames' = [frames EXCEPT ![y][x] = Sum]
          /\ x' = x + 1
          /\ UNCHANGED <<pc, y>>
      BY <1>3, <2>1, SMT DEF SumRest
    <3> QED
      BY <1>3, <3>1, <3>2, <3>3, StoreType DEF SumRest
  <2>2. CASE ~(y < nframes /\ x < NBANDS)
    BY <1>3, <2>2, SMT DEF SumRest
  <2> QED
    BY <2>1, <2>2
<1>4. CASE SelectFilter
  BY <1>4 DEF SelectFilter
<1>5. CASE ComputeBit
  <2>1. t2 \in first_time .. last_time
    BY <1>5, Times, SMT DEF ComputeBit, MoreKeys
  <2>2. X' \in Int
    BY <1>5, <2>1, ResponseType, FiltersAssumption DEF ComputeBit
  <2>3. t2' \in first_time .. last_time + 1
    BY <1>5, <2>1, Times, SMT DEF ComputeBit
  <2> QED
    BY <1>5, <2>2, <2>3 DEF ComputeBit
<1>6. CASE UNCHANGED vars
  BY <1>6 DEF vars
<1> QED
  BY <1>1, <1>2, <1>3, <1>4, <1>5, <1>6 DEF Next

(* Types: the loops of integralimage stay in the array, responses are      *)
(* whole sums.                                                             *)
THEOREM DescriptorTypeCorrect == Spec => []TypeOK
  BY TypeStarts, TypeKept, PTL DEF Spec

(* The remark of computebits that its indexes are in range in practice,    *)
(* for every length of recording and every filter that fits.               *)
THEOREM CornersAreInFrames == Spec => []CornersInFrames
<1>1. TypeOK => CornersInFrames
  <2> SUFFICES ASSUME TypeOK, pc = "bits", t2 =< last_time PROVE CornersInFrames
    BY DEF CornersInFrames, MoreKeys
  <2>1. Fits(filter) /\ filter.filter_type \in 1 .. 6
    BY FiltersAssumption DEF TypeOK, Fits, Kinds
  <2>2. t2 \in first_time .. last_time
    BY Times, SMT DEF TypeOK
  <2>3. filter.filter_type = 5 => filter.wt > 3
    BY <2>1 DEF Fits, Kinds
  <2>4. filter.filter_type = 6 => filter.wb > 3
    BY <2>1 DEF Fits, Kinds
  <2>5. t2 - first_time < last_time - first_time + 1
    BY <2>2, Times, SMT
  <2> QED
    BY <2>1, <2>2, <2>3, <2>4, <2>5, CornersAreInside DEF CornersInFrames
<1> QED
  BY <1>1, DescriptorTypeCorrect, PTL

-----------------------------------------------------------------------------
(* Sums of rectangles.                                                     *)

(* The energy of the first u frames, in their first c bands.               *)
Area(u, c) == SumBelow([r \in Nat |-> SumBelow(image[r], c)], u)

LEMMA RectangleIsArea ==
    ASSUME NEW p \in Frame, NEW q \in Band
    PROVE  RectangleSum(p, q) = Area(p + 1, q + 1)
  BY DEF RectangleSum, Area

(* The energy of the first c bands of a frame.                             *)
LEMMA RowType ==
    ASSUME image \in [Frame -> [Band -> Int]], NEW r \in Frame
    PROVE  /\ SumBelow(image[r], 0) = 0
           /\ \A c \in 0 .. NBANDS : SumBelow(image[r], c) \in Int
           /\ \A c \in Band :
                SumBelow(image[r], c + 1) = SumBelow(image[r], c) + image[r][c]
<1> USE BandsAssumption
<1>1. NBANDS \in Nat
  OBVIOUS
<1>2. \A k \in 0 .. NBANDS - 1 : image[r][k] \in Int
  BY DEF Band
<1>3. \A c \in 0 .. NBANDS : SumBelow(image[r], c) \in Int
  BY <1>1, <1>2, SumType
<1>4. \A c \in Nat : SumBelow(image[r], c + 1) = SumBelow(image[r], c) + image[r][c]
  BY SumSteps
<1>5. Band \subseteq Nat
  BY DEF Band
<1> QED
  BY <1>3, <1>4, <1>5, SumSteps

(* The area grows by one frame at a time, and by the four corners.         *)
LEMMA AreaSteps ==
    ASSUME image \in [Frame -> [Band -> Int]], NEW u \in Frame, NEW c \in Band
    PROVE  /\ Area(0, c) = 0
           /\ Area(0, c + 1) = 0
           /\ Area(u, 0) = 0
           /\ Area(u + 1, 0) = 0
           /\ Area(u + 1, c + 1)
                = Area(u, c + 1) + Area(u + 1, c) - Area(u, c) + image[u][c]
           /\ Area(u, c) \in Int /\ Area(u, c + 1) \in Int /\ Area(u + 1, c) \in Int
<1> USE BandsAssumption, FramesAssumption
<1> DEFINE g(b) == [r \in Nat |-> SumBelow(image[r], b)]
<1>1. \A b : \A n \in Nat : Area(0, b) = 0 /\ Area(n + 1, b) = Area(n, b) + g(b)[n]
  BY SumSteps DEF Area
<1>2. u \in Nat /\ u + 1 \in Nat /\ u + 1 =< nframes /\ nframes \in Nat
      /\ c \in 0 .. NBANDS /\ c + 1 \in 0 .. NBANDS /\ 0 \in 0 .. NBANDS
  BY DEF Frame, Band
<1>3. \A b \in 0 .. NBANDS, k \in Frame : g(b)[k] \in Int /\ g(b)[k] = SumBelow(image[k], b)
  BY RowType DEF Frame
<1>4. ASSUME NEW b \in 0 .. NBANDS, NEW n \in 0 .. nframes PROVE Area(n, b) \in Int
  <2>1. \A k \in 0 .. nframes - 1 : g(b)[k] \in Int
    BY <1>3 DEF Frame
  <2>2. Area(n, b) = SumBelow(g(b), n)
    BY DEF Area
  <2> HIDE DEF g
  <2>3. SumBelow(g(b), n) \in Int
    BY <1>2, <2>1, SumType
  <2> QED
    BY <2>2, <2>3
<1>5. ASSUME NEW n \in 0 .. nframes PROVE Area(n, 0) = 0
  <2>1. \A k \in 0 .. n - 1 : g(0)[k] \in Int /\ g(0)[k] = 0
    BY <1>2, <1>3, RowType DEF Frame
  <2>2. Area(n, 0) = SumBelow(g(0), n)
    BY DEF Area
  <2> HIDE DEF g
  <2>3. SumBelow(g(0), n) = 0
    BY <2>1, SumOfNone
  <2> QED
    BY <2>2, <2>3
<1>6. /\ Area(u + 1, c + 1) = Area(u, c + 1) + SumBelow(image[u], c + 1)
      /\ Area(u + 1, c) = Area(u, c) + SumBelow(image[u], c)
  BY <1>1, <1>2, <1>3
<1>7. SumBelow(image[u], c + 1) = SumBelow(image[u], c) + image[u][c]
  BY RowType
<1>8. /\ SumBelow(image[u], c) \in Int /\ image[u][c] \in Int
      /\ SumBelow(image[u], c + 1) \in Int
  BY <1>2, RowType
<1>9. /\ Area(u, c) \in Int /\ Area(u, c + 1) \in Int /\ Area(u + 1, c) \in Int
  BY <1>2, <1>4
<1>10. Area(u, 0) = 0 /\ Area(u + 1, 0) = 0 /\ Area(0, c) = 0 /\ Area(0, c + 1) = 0
  BY <1>1, <1>2, <1>5
<1> QED
  BY <1>6, <1>7, <1>8, <1>9, <1>10

(* What a loop adds to an energy is the sum of its rectangle: the first    *)
(* frame and the first band have no corners before them.                   *)
LEMMA RectangleSteps ==
    ASSUME image \in [Frame -> [Band -> Int]], NEW p \in Frame, NEW q \in Band
    PROVE  /\ RectangleSum(p, q) \in Int
           /\ p = 0 /\ q = 0 => RectangleSum(p, q) = image[p][q]
           /\ p > 0 /\ q = 0 => RectangleSum(p, q) = RectangleSum(p - 1, q) + image[p][q]
           /\ p = 0 /\ q > 0 => RectangleSum(p, q) = RectangleSum(p, q - 1) + image[p][q]
           /\ p > 0 /\ q > 0 =>
                RectangleSum(p, q) = image[p][q] + RectangleSum(p - 1, q)
                                     + RectangleSum(p, q - 1) - RectangleSum(p - 1, q - 1)
<1> USE BandsAssumption, FramesAssumption
<1>1. /\ Area(0, q) = 0 /\ Area(0, q + 1) = 0 /\ Area(p, 0) = 0 /\ Area(p + 1, 0) = 0
      /\ Area(p + 1, q + 1) = Area(p, q + 1) + Area(p + 1, q) - Area(p, q) + image[p][q]
      /\ Area(p, q) \in Int /\ Area(p, q + 1) \in Int /\ Area(p + 1, q) \in Int
  BY AreaSteps
<1>2. image[p][q] \in Int /\ p \in Nat /\ q \in Nat
  BY DEF Frame, Band
<1>3. RectangleSum(p, q) = Area(p + 1, q + 1)
  BY RectangleIsArea
<1>4. ASSUME p > 0 PROVE RectangleSum(p - 1, q) = Area(p, q + 1)
  <2>1. p - 1 \in Frame /\ (p - 1) + 1 = p
    BY <1>4 DEF Frame
  <2> QED
    BY <2>1, RectangleIsArea
<1>5. ASSUME q > 0 PROVE RectangleSum(p, q - 1) = Area(p + 1, q)
  <2>1. q - 1 \in Band /\ (q - 1) + 1 = q
    BY <1>5 DEF Band
  <2> QED
    BY <2>1, RectangleIsArea
<1>6. ASSUME p > 0, q > 0 PROVE RectangleSum(p - 1, q - 1) = Area(p, q)
  <2>1. p - 1 \in Frame /\ q - 1 \in Band /\ (p - 1) + 1 = p /\ (q - 1) + 1 = q
    BY <1>6 DEF Frame, Band
  <2> QED
    BY <2>1, RectangleIsArea
<1> QED
  BY <1>1, <1>2, <1>3, <1>4, <1>5, <1>6

-----------------------------------------------------------------------------
(* integralimage.                                                          *)

(* Which frames and bands each loop has already summed.                    *)
Summed(p, q) ==
    \/ pc = "down" /\ q = 0 /\ p < y
    \/ pc = "across" /\ (q = 0 \/ (p = 0 /\ q < x))
    \/ pc = "rest" /\ (q = 0 \/ p = 0 \/ p < y \/ (p = y /\ q < x))
    \/ pc \in {"integral", "bits"}

PartlySummed ==
    \A p \in Frame, q \in Band :
      frames[p][q] = IF Summed(p, q) THEN RectangleSum(p, q) ELSE image[p][q]

SumsInv ==
    /\ pc = "down" => x = 1
    /\ PartlySummed

LEMMA SumsStart == Init => SumsInv
<1> SUFFICES ASSUME Init, NEW p \in Frame, NEW q \in Band
             PROVE  frames[p][q] = IF Summed(p, q) THEN RectangleSum(p, q) ELSE image[p][q]
  BY DEF SumsInv, PartlySummed, Init
<1>1. frames[p][q] = image[p][q] /\ image \in [Frame -> [Band -> Int]]
  BY ImagesAssumption DEF Init
<1>2. Summed(p, q) => q = 0 /\ p < 1
  BY DEF Init, Summed
<1>3. Summed(p, q) => q = 0 /\ p = 0
  BY <1>2 DEF Frame, Band
<1>4. Summed(p, q) => RectangleSum(p, q) = image[p][q]
  BY <1>1, <1>3, RectangleSteps
<1> QED
  BY <1>1, <1>4

LEMMA ImageKept == [Next]_vars => image' = image
  BY DEF Next, SumDown, SumAcross, SumRest, SelectFilter, ComputeBit, vars

(* What a store changes.                                                   *)
LEMMA StoreValue ==
    ASSUME NEW g \in [Frame -> [Band -> Int]], NEW p \in Frame, NEW q \in Band, NEW v,
           NEW r \in Frame, NEW s \in Band
    PROVE  [g EXCEPT ![p][q] = v][r][s] = IF r = p /\ s = q THEN v ELSE g[r][s]
  OBVIOUS

LEMMA SumsKept == TypeOK /\ SumsInv /\ [Next]_vars => SumsInv'
<1> SUFFICES ASSUME TypeOK, pc = "down" => x = 1, PartlySummed, [Next]_vars
             PROVE  PartlySummed'
  <2>1. (pc = "down" => x = 1) /\ [Next]_vars => (pc = "down" => x = 1)'
    BY DEF Next, SumDown, SumAcross, SumRest, SelectFilter, ComputeBit, vars
  <2> QED
    BY <2>1 DEF SumsInv
<1>0. /\ image \in [Frame -> [Band -> Int]]
      /\ image' = image
      /\ \A r \in Frame, s \in Band : RectangleSum(r, s)' = RectangleSum(r, s)
  BY ImageKept, ImagesAssumption DEF TypeOK, RectangleSum
<1> SUFFICES ASSUME NEW p \in Frame, NEW q \in Band
             PROVE  frames'[p][q] = IF Summed(p, q)' THEN RectangleSum(p, q)
                                                     ELSE image[p][q]
  BY <1>0 DEF PartlySummed
<1> DEFINE Value(r, s) == IF Summed(r, s) THEN RectangleSum(r, s) ELSE image[r][s]
<1> USE BandsAssumption, FramesAssumption, KeyWidthAssumption
<1>10. \A r \in Frame, s \in Band : frames[r][s] = Value(r, s)
  BY DEF PartlySummed
<1>1. CASE SumDown /\ y < nframes
  <2>1. y \in Frame /\ y - 1 \in Frame /\ 0 \in Band
    BY <1>1, SMT DEF TypeOK, Frame, Band
  <2>2. frames' = [frames EXCEPT ![y][0] = frames[y][0] + frames[y - 1][0]]
    BY <1>1 DEF SumDown
  <2>3. frames'[p][q] = IF p = y /\ q = 0 THEN frames[y][0] + frames[y - 1][0]
                                          ELSE frames[p][q]
    BY <2>1, <2>2, StoreValue DEF TypeOK
  <2>4. pc = "down" /\ pc' = "down" /\ y' = y + 1 /\ y \in Nat /\ y > 0
    BY <1>1, SMT DEF SumDown, TypeOK
  <2>5. frames[y][0] = image[y][0] /\ frames[y - 1][0] = RectangleSum(y - 1, 0)
    <3>1. ~Summed(y, 0) /\ Summed(y - 1, 0)
      BY <2>4, SMT DEF Summed
    <3> QED
      BY <1>10, <2>1, <3>1
  <2>6. frames[y][0] + frames[y - 1][0] = RectangleSum(y, 0)
    BY <1>0, <2>1, <2>4, <2>5, RectangleSteps
  <2>7. Summed(p, q)' <=> Summed(p, q) \/ (p = y /\ q = 0)
    BY <2>4, SMT DEF Summed, Frame
  <2> QED
    BY <1>10, <2>3, <2>6, <2>7
<1>2. CASE SumDown /\ ~(y < nframes)
  <2>1. pc = "down" /\ pc' = "across" /\ frames' = frames /\ y = nframes /\ x' = 1
    BY <1>2, SMT DEF SumDown, TypeOK
  <2>2. Summed(p, q) <=> Summed(p, q)'
    BY <2>1, SMT DEF Summed, Frame, Band
  <2> QED
    BY <1>10, <2>1, <2>2
<1>3. CASE SumAcross /\ x < NBANDS
  <2>1. 0 \in Frame /\ x \in Band /\ x - 1 \in Band
    BY <1>3, SMT DEF TypeOK, Frame, Band
  <2>2. frames' = [frames EXCEPT ![0][x] = frames[0][x] + frames[0][x - 1]]
    BY <1>3 DEF SumAcross
  <2>3. frames'[p][q] = IF p = 0 /\ q = x THEN frames[0][x] + frames[0][x - 1]
                                          ELSE frames[p][q]
    BY <2>1, <2>2, StoreValue DEF TypeOK
  <2>4. pc = "across" /\ pc' = "across" /\ x' = x + 1 /\ x \in Nat /\ x > 0
    BY <1>3, SMT DEF SumAcross, TypeOK
  <2>5. frames[0][x] = image[0][x] /\ frames[0][x - 1] = RectangleSum(0, x - 1)
    <3>1. ~Summed(0, x) /\ Summed(0, x - 1)
      BY <2>4, SMT DEF Summed
    <3> QED
      BY <1>10, <2>1, <3>1
  <2>6. frames[0][x] + frames[0][x - 1] = RectangleSum(0, x)
    BY <1>0, <2>1, <2>4, <2>5, RectangleSteps
  <2>7. Summed(p, q)' <=> Summed(p, q) \/ (p = 0 /\ q = x)
    BY <2>4, SMT DEF Summed, Band
  <2> QED
    BY <1>10, <2>3, <2>6, <2>7
<1>4. CASE SumAcross /\ ~(x < NBANDS)
  <2>1. pc = "across" /\ pc' = "rest" /\ frames' = frames /\ x = NBANDS /\ x' = 1
        /\ y' = 1
    BY <1>4, SMT DEF SumAcross, TypeOK
  <2>2. Summed(p, q) <=> Summed(p, q)'
    BY <2>1, SMT DEF Summed, Frame, Band
  <2> QED
    BY <1>10, <2>1, <2>2
<1>5. CASE SumRest /\ y < nframes /\ x < NBANDS
  <2>1. y \in Frame /\ y - 1 \in Frame /\ x \in Band /\ x - 1 \in Band
    BY <1>5, SMT DEF TypeOK, Frame, Band
  <2>2. /\ frames' = [frames EXCEPT ![y][x] = Sum]
        /\ pc = "rest" /\ pc' = "rest" /\ x' = x + 1 /\ y' = y
        /\ x \in Nat \ {0} /\ y \in Nat \ {0}
    BY <1>5, SMT DEF SumRest, TypeOK
  <2>3. frames'[p][q] = IF p = y /\ q = x THEN Sum ELSE frames[p][q]
    BY <2>1, <2>2, StoreValue DEF TypeOK
  <2>4. /\ frames[y][x] = image[y][x]
        /\ frames[y - 1][x] = RectangleSum(y - 1, x)
        /\ frames[y][x - 1] = RectangleSum(y, x - 1)
        /\ frames[y - 1][x - 1] = RectangleSum(y - 1, x - 1)
    <3>1. ~Summed(y, x) /\ Summed(y - 1, x) /\ Summed(y, x - 1) /\ Summed(y - 1, x - 1)
      BY <2>2, SMT DEF Summed
    <3> QED
      BY <1>10, <2>1, <3>1
  <2>5. Sum = RectangleSum(y, x)
    <3>1. RectangleSum(y, x) = image[y][x] + RectangleSum(y - 1, x)
                               + RectangleSum(y, x - 1) - RectangleSum(y - 1, x - 1)
      BY <1>0, <2>1, <2>2, RectangleSteps
    <3> QED
      BY <2>4, <3>1 DEF Sum
  <2>6. Summed(p, q)' <=> Summed(p, q) \/ (p = y /\ q = x)
    BY <2>2, SMT DEF Summed, Frame, Band
  <2> QED
    BY <1>10, <2>3, <2>5, <2>6
<1>6. CASE SumRest /\ ~(y < nframes /\ x < NBANDS)
  <2>1. CASE y < nframes
    <3>1. /\ pc = "rest" /\ pc' = "rest" /\ frames' = frames /\ x = NBANDS
          /\ x' = 1 /\ y' = y + 1 /\ y \in Nat
      BY <1>6, <2>1, SMT DEF SumRest, TypeOK
    <3>2. Summed(p, q) <=> Summed(p, q)'
      BY <3>1, SMT DEF Summed, Frame, Band
    <3> QED
      BY <1>10, <3>1, <3>2
  <2>2. CASE ~(y < nframes)
    <3>1. /\ pc = "rest" /\ pc' = "integral" /\ frames' = frames /\ y = nframes
      BY <1>6, <2>2, SMT DEF SumRest, TypeOK
    <3>2. Summed(p, q) <=> Summed(p, q)'
      BY <3>1, SMT DEF Summed, Frame, Band
    <3> QED
      BY <1>10, <3>1, <3>2
  <2> QED
    BY <2>1, <2>2
<1>7. CASE SelectFilter \/ ComputeBit
  <2>1. frames' = frames /\ pc' = "bits" /\ pc \in {"integral", "bits"}
    BY <1>7 DEF SelectFilter, ComputeBit
  <2> QED
    BY <1>10, <2>1 DEF Summed
<1>8. CASE UNCHANGED vars
  BY <1>10, <1>8 DEF vars, Summed
<1> QED
  BY <1>1, <1>2, <1>3, <1>4, <1>5, <1>6, <1>7, <1>8 DEF Next

LEMMA SumsHold == Spec => [](TypeOK /\ SumsInv)
  BY SumsStart, SumsKept, DescriptorTypeCorrect, PTL DEF Spec

(* integralimage, which sums in place in three loops, leaves the energy of *)
(* the rectangle before each frame and band, for every recording.          *)
THEOREM IntegralsAreSums == Spec => []IntegralIsSum
<1>1. SumsInv => IntegralIsSum
  BY DEF SumsInv, PartlySummed, Summed, IntegralIsSum
<1> QED
  BY <1>1, SumsHold, PTL

-----------------------------------------------------------------------------
(* Weights.  A response is a sum and difference of blocks of energies; the *)
(* same sum and difference of the blocks themselves is the weight that     *)
(* each frame and band has in it.                                          *)

(* The frames from u to v - 1, in their first c bands.                     *)
Block(u, v, c) ==
    [p \in Frame |-> [q \in Band |-> IF u =< p /\ p < v /\ q < c THEN 1 ELSE 0]]

Minus(U, V) == [p \in Frame |-> [q \in Band |-> U[p][q] - V[p][q]]]

(* The energy of a recording, weighted.                                    *)
WeightedRow(W, p) == SumBelow([q \in Nat |-> W[p][q] * image[p][q]], NBANDS)
Weighted(W) == SumBelow([p \in Nat |-> WeightedRow(W, p)], nframes)

Weights == [Frame -> [Band -> Int]]

LEMMA WeightTypes ==
    /\ \A u, v, c : Block(u, v, c) \in Weights
    /\ \A U, V \in Weights : Minus(U, V) \in Weights
<1>1. ASSUME NEW u, NEW v, NEW c PROVE Block(u, v, c) \in Weights
  BY DEF Block, Weights
<1>2. ASSUME NEW U \in Weights, NEW V \in Weights PROVE Minus(U, V) \in Weights
  BY <1>2 DEF Minus, Weights
<1> QED
  BY <1>1, <1>2

LEMMA RowOfWeights ==
    ASSUME image \in [Frame -> [Band -> Int]], NEW W \in Weights, NEW p \in Frame
    PROVE  WeightedRow(W, p) \in Int
<1> DEFINE g == [q \in Nat |-> W[p][q] * image[p][q]]
<1>1. ASSUME NEW k \in 0 .. NBANDS - 1 PROVE g[k] \in Int
  <2>1. k \in Band /\ k \in Nat
    BY BandsAssumption DEF Band
  <2>2. W[p][k] \in Int /\ image[p][k] \in Int
    BY <2>1 DEF Weights
  <2> QED
    BY <2>1, <2>2
<1>2. NBANDS \in Nat /\ NBANDS \in 0 .. NBANDS
  BY BandsAssumption
<1> HIDE DEF g
<1>3. SumBelow(g, NBANDS) \in Int
  BY <1>1, <1>2, SumType
<1> QED
  BY <1>3 DEF WeightedRow, g

(* The weighted energy is linear in the weights.                           *)
LEMMA WeightedMinus ==
    ASSUME image \in [Frame -> [Band -> Int]], NEW U \in Weights, NEW V \in Weights
    PROVE  Weighted(Minus(U, V)) = Weighted(U) - Weighted(V)
<1> DEFINE W == Minus(U, V)
<1>1. ASSUME NEW p \in Frame
      PROVE  WeightedRow(W, p) = WeightedRow(U, p) - WeightedRow(V, p)
  <2> DEFINE g(A) == [q \in Nat |-> A[p][q] * image[p][q]]
  <2>1. ASSUME NEW k \in 0 .. NBANDS - 1
        PROVE  /\ g(U)[k] \in Int /\ g(V)[k] \in Int
               /\ g(W)[k] = g(U)[k] - g(V)[k]
    <3>1. k \in Band /\ k \in Nat
      BY BandsAssumption DEF Band
    <3>2. PICK a \in Int, b \in Int, e \in Int :
            a = U[p][k] /\ b = V[p][k] /\ e = image[p][k]
      BY <3>1 DEF Weights
    <3>3. W[p][k] = a - b
      BY <3>1, <3>2 DEF Minus
    <3>4. g(U)[k] = a * e /\ g(V)[k] = b * e /\ g(W)[k] = (a - b) * e
      BY <3>1, <3>2, <3>3
    <3>5. a * e \in Int /\ b * e \in Int /\ (a - b) * e = a * e - b * e
      OBVIOUS
    <3> QED
      BY <3>4, <3>5
  <2>2. NBANDS \in Nat
    BY BandsAssumption
  <2>3. /\ WeightedRow(W, p) = SumBelow(g(W), NBANDS)
        /\ WeightedRow(U, p) = SumBelow(g(U), NBANDS)
        /\ WeightedRow(V, p) = SumBelow(g(V), NBANDS)
    BY DEF WeightedRow
  <2> HIDE DEF g, W
  <2>4. SumBelow(g(W), NBANDS) = SumBelow(g(U), NBANDS) - SumBelow(g(V), NBANDS)
    BY <2>1, <2>2, SumMinus
  <2> QED
    BY <2>3, <2>4
<1>2. nframes \in Nat
  BY FramesAssumption
<1> DEFINE r(A) == [p \in Nat |-> WeightedRow(A, p)]
<1>3. ASSUME NEW k \in 0 .. nframes - 1
      PROVE  r(U)[k] \in Int /\ r(V)[k] \in Int /\ r(W)[k] = r(U)[k] - r(V)[k]
  <2>1. k \in Frame /\ k \in Nat
    BY <1>2 DEF Frame
  <2> HIDE DEF W
  <2>2. WeightedRow(U, k) \in Int /\ WeightedRow(V, k) \in Int
    BY <2>1, RowOfWeights
  <2> QED
    BY <1>1, <2>1, <2>2
<1>4. /\ Weighted(W) = SumBelow(r(W), nframes)
      /\ Weighted(U) = SumBelow(r(U), nframes)
      /\ Weighted(V) = SumBelow(r(V), nframes)
  BY DEF Weighted
<1> HIDE DEF r, W
<1>5. SumBelow(r(W), nframes) = SumBelow(r(U), nframes) - SumBelow(r(V), nframes)
  BY <1>2, <1>3, SumMinus
<1> QED
  BY <1>4, <1>5 DEF W

(* The energy of a block is the difference of two areas.                   *)
LEMMA WeightedBlock ==
    ASSUME image \in [Frame -> [Band -> Int]],
           NEW u \in 0 .. nframes, NEW v \in u .. nframes, NEW c \in 0 .. NBANDS
    PROVE  Weighted(Block(u, v, c)) = Area(v, c) - Area(u, c)
<1> DEFINE W == Block(u, v, c)
           row == [r \in Nat |-> SumBelow(image[r], c)]
           g == [p \in Nat |-> WeightedRow(W, p)]
<1>1. NBANDS \in Nat /\ nframes \in Nat /\ v \in 0 .. nframes
  BY BandsAssumption, FramesAssumption
<1>2. ASSUME NEW p \in Frame
      PROVE  WeightedRow(W, p) = IF u =< p /\ p < v THEN SumBelow(image[p], c) ELSE 0
  <2> DEFINE j == [q \in Nat |-> W[p][q] * image[p][q]]
             b == IF u =< p /\ p < v THEN c ELSE 0
  <2>1. ASSUME NEW k \in 0 .. NBANDS - 1
        PROVE  /\ image[p][k] \in Int
               /\ j[k] = IF 0 =< k /\ k < b THEN image[p][k] ELSE 0
    <3>1. k \in Band /\ k \in Nat
      BY <1>1 DEF Band
    <3>2. W[p][k] = IF u =< p /\ p < v /\ k < c THEN 1 ELSE 0
      BY <3>1 DEF Block
    <3>3. PICK e \in Int : e = image[p][k]
      BY <3>1
    <3>4. j[k] = (IF u =< p /\ p < v /\ k < c THEN 1 ELSE 0) * e
      BY <3>1, <3>2, <3>3
    <3>5. 1 * e = e /\ 0 * e = 0
      OBVIOUS
    <3> HIDE DEF j
    <3> QED
      BY <3>1, <3>3, <3>4, <3>5
  <2>2. b \in 0 .. NBANDS /\ 0 \in 0 .. NBANDS
    BY <1>1
  <2>3. WeightedRow(W, p) = SumBelow(j, NBANDS)
    BY DEF WeightedRow
  <2>4. SumBelow(j, NBANDS) = SumBelow(image[p], b) - SumBelow(image[p], 0)
    <3> HIDE DEF j, b
    <3>1. b \in 0 .. NBANDS /\ \A k \in 0 .. NBANDS - 1 :
            image[p][k] \in Int /\ j[k] = IF 0 =< k /\ k < b THEN image[p][k] ELSE 0
      BY <2>1, <2>2
    <3> QED
      BY <1>1, <2>2, <3>1, SumBetween
  <2>5. SumBelow(image[p], 0) = 0 /\ SumBelow(image[p], b) \in Int
    <3> HIDE DEF b
    <3> QED
      BY <2>2, RowType
  <2> HIDE DEF j
  <2> QED
    BY <2>3, <2>4, <2>5
<1>3. ASSUME NEW k \in 0 .. nframes - 1
      PROVE  row[k] \in Int /\ g[k] = IF u =< k /\ k < v THEN row[k] ELSE 0
  <2>1. k \in Frame /\ k \in Nat
    BY <1>1 DEF Frame
  <2>2. SumBelow(image[k], c) \in Int
    BY <2>1, RowType
  <2> HIDE DEF W
  <2> QED
    BY <1>2, <2>1, <2>2
<1>4. /\ Weighted(W) = SumBelow(g, nframes)
      /\ Area(v, c) = SumBelow(row, v) /\ Area(u, c) = SumBelow(row, u)
  BY DEF Weighted, Area
<1> HIDE DEF row, g, W
<1>5. SumBelow(g, nframes) = SumBelow(row, v) - SumBelow(row, u)
  BY <1>1, <1>3, SumBetween
<1> QED
  BY <1>4, <1>5 DEF W
(* Between the times t and u, up to band b, lies a block.                  *)
LEMMA BetweenIsBlock ==
    ASSUME image \in [Frame -> [Band -> Int]],
           \A p \in Frame, q \in Band : frames[p][q] = RectangleSum(p, q),
           NEW u \in 1 .. nframes, NEW v \in u .. nframes, NEW c \in 0 .. NBANDS
    PROVE  Between(u, v, c) = Weighted(Block(u, v, c))
<1> USE BandsAssumption, FramesAssumption
<1>1. u \in 0 .. nframes /\ v \in 1 .. nframes
  OBVIOUS
<1>2. Weighted(Block(u, v, c)) = Area(v, c) - Area(u, c)
  BY <1>1, WeightedBlock
<1>3. ASSUME NEW t \in 1 .. nframes PROVE At(t, c) = Area(t, c)
  <2>1. t - 1 \in Frame /\ (t - 1) + 1 = t
    BY DEF Frame
  <2>2. CASE c = 0
    <3>1. 0 \in Band
      BY DEF Band
    <3>2. Area((t - 1) + 1, 0) = 0
      BY <2>1, <3>1, AreaSteps
    <3> QED
      BY <2>1, <2>2, <3>2 DEF At
  <2>3. CASE c # 0
    <3>1. c - 1 \in Band /\ (c - 1) + 1 = c
      BY <2>3 DEF Band
    <3>2. frames[t - 1][c - 1] = RectangleSum(t - 1, c - 1)
      BY <2>1, <3>1
    <3>3. RectangleSum(t - 1, c - 1) = Area(t, c)
      BY <2>1, <3>1, RectangleIsArea
    <3> QED
      BY <2>3, <3>2, <3>3 DEF At
  <2> QED
    BY <2>2, <2>3
<1> QED
  BY <1>1, <1>2, <1>3 DEF Between

(* The weights of a filter, put together from blocks as computebits puts   *)
(* its responses together from corners.                                    *)
AllOf(f, t, b) == Block(t1(f, t), t3(f, t), b)
HalfOf(f, t, b) == Minus(Block(t1(f, t), t - 1, b), Block(t - 1, t3(f, t), b))
PeakOf(f, t, b) ==
    LET central == Block(t_1q(f, t), t_3q(f, t), b)
    IN  Minus(central, Minus(AllOf(f, t, b), central))

Parts(f, t) ==
    LET middle == Minus(AllOf(f, t, b_3q(f)), AllOf(f, t, b_1q(f)))
    IN  CASE f.filter_type = 1 -> Minus(AllOf(f, t, b3(f)), AllOf(f, t, b1(f)))
          [] f.filter_type = 2 -> Minus(HalfOf(f, t, b3(f)), HalfOf(f, t, b1(f)))
          [] f.filter_type = 3 -> Minus(Minus(AllOf(f, t, b2(f)), AllOf(f, t, b1(f))),
                                        Minus(AllOf(f, t, b3(f)), AllOf(f, t, b2(f))))
          [] f.filter_type = 4 -> Minus(Minus(HalfOf(f, t, b2(f)), HalfOf(f, t, b1(f))),
                                        Minus(HalfOf(f, t, b3(f)), HalfOf(f, t, b2(f))))
          [] f.filter_type = 5 -> Minus(PeakOf(f, t, b3(f)), PeakOf(f, t, b1(f)))
          [] f.filter_type = 6 -> Minus(middle,
                                        Minus(Minus(AllOf(f, t, b3(f)), AllOf(f, t, b1(f))),
                                              middle))

(* A response is the energy weighted with the parts of its filter.         *)
LEMMA ResponseIsWeighted ==
    ASSUME image \in [Frame -> [Band -> Int]],
           frames \in [Frame -> [Band -> Int]],
           \A p \in Frame, q \in Band : frames[p][q] = RectangleSum(p, q),
           NEW f, Fits(f), NEW t \in first_time .. last_time
    PROVE  Parts(f, t) \in Weights /\ Response(f, t) = Weighted(Parts(f, t))
<1> USE BandsAssumption, FramesAssumption
<1>1. f.filter_type \in 1 .. 6
  BY DEF Fits, Kinds
<1>2. /\ t1(f, t) \in 1 .. nframes /\ t3(f, t) \in t1(f, t) .. nframes
      /\ t - 1 \in t1(f, t) .. nframes /\ t3(f, t) \in t - 1 .. nframes
      /\ t - 1 \in 1 .. nframes
      /\ b1(f) \in 0 .. NBANDS /\ b2(f) \in 0 .. NBANDS /\ b3(f) \in 0 .. NBANDS
  BY <1>1, CornersAreInside, TimesOrdered
<1>3. \A U, V \in Weights : /\ Minus(U, V) \in Weights
                             /\ Weighted(Minus(U, V)) = Weighted(U) - Weighted(V)
  BY WeightTypes, WeightedMinus
<1>4. \A b \in 0 .. NBANDS :
        /\ AllOf(f, t, b) \in Weights
        /\ Weighted(AllOf(f, t, b)) = Between(t1(f, t), t3(f, t), b)
  BY <1>2, BetweenIsBlock, WeightTypes DEF AllOf
<1>5. \A b \in 0 .. NBANDS :
        /\ HalfOf(f, t, b) \in Weights
        /\ Weighted(HalfOf(f, t, b))
             = Between(t1(f, t), t - 1, b) - Between(t - 1, t3(f, t), b)
  <2> TAKE b \in 0 .. NBANDS
  <2>1. /\ Weighted(Block(t1(f, t), t - 1, b)) = Between(t1(f, t), t - 1, b)
        /\ Weighted(Block(t - 1, t3(f, t), b)) = Between(t - 1, t3(f, t), b)
    BY <1>2, BetweenIsBlock
  <2> QED
    BY <1>3, <2>1, WeightTypes DEF HalfOf
<1>6. /\ \A u \in 1 .. nframes, b \in 0 .. NBANDS : At(u, b) \in Int
      /\ \A u, v \in 1 .. nframes, b \in 0 .. NBANDS : Between(u, v, b) \in Int
  <2>1. \A u \in 1 .. nframes, b \in 0 .. NBANDS : At(u, b) \in Int
    BY SMT DEF At, Frame, Band
  <2> QED
    BY <2>1, SMT DEF Between
<1>7. CASE f.filter_type = 1
  BY <1>2, <1>3, <1>4, <1>7 DEF Parts, Response
<1>8. CASE f.filter_type = 2
  BY <1>2, <1>3, <1>5, <1>8 DEF Parts, Response
<1>9. CASE f.filter_type = 3
  <2>1. Parts(f, t) = Minus(Minus(AllOf(f, t, b2(f)), AllOf(f, t, b1(f))),
                            Minus(AllOf(f, t, b3(f)), AllOf(f, t, b2(f))))
    BY <1>9 DEF Parts
  <2>2. /\ Minus(AllOf(f, t, b2(f)), AllOf(f, t, b1(f))) \in Weights
        /\ Minus(AllOf(f, t, b3(f)), AllOf(f, t, b2(f))) \in Weights
    BY <1>2, <1>3, <1>4
  <2> QED
    BY <1>2, <1>3, <1>4, <1>6, <1>9, <2>1, <2>2 DEF Response
<1>10. CASE f.filter_type = 4
  <2>1. Parts(f, t) = Minus(Minus(HalfOf(f, t, b2(f)), HalfOf(f, t, b1(f))),
                            Minus(HalfOf(f, t, b3(f)), HalfOf(f, t, b2(f))))
    BY <1>10 DEF Parts
  <2>2. /\ Minus(HalfOf(f, t, b2(f)), HalfOf(f, t, b1(f))) \in Weights
        /\ Minus(HalfOf(f, t, b3(f)), HalfOf(f, t, b2(f))) \in Weights
    BY <1>2, <1>3, <1>5
  <2> QED
    BY <1>2, <1>3, <1>5, <1>6, <1>10, <2>1, <2>2 DEF Response
<1>11. CASE f.filter_type = 5
  <2>1. t_1q(f, t) \in 1 .. nframes /\ t_3q(f, t) \in t_1q(f, t) .. nframes
    BY <1>1, <1>11, CornersAreInside, TimesOrdered DEF Fits, Kinds
  <2>2. \A b \in 0 .. NBANDS :
          /\ PeakOf(f, t, b) \in Weights
          /\ Weighted(PeakOf(f, t, b))
               = Between(t_1q(f, t), t_3q(f, t), b)
                 - (Between(t1(f, t), t3(f, t), b) - Between(t_1q(f, t), t_3q(f, t), b))
    <3> TAKE b \in 0 .. NBANDS
    <3>1. Weighted(Block(t_1q(f, t), t_3q(f, t), b)) = Between(t_1q(f, t), t_3q(f, t), b)
      BY <2>1, BetweenIsBlock
    <3>2. Block(t_1q(f, t), t_3q(f, t), b) \in Weights
      BY WeightTypes
    <3> QED
      BY <1>3, <1>4, <3>1, <3>2 DEF PeakOf
  <2>3. t_3q(f, t) \in 1 .. nframes
    BY <2>1
  <2>4. Parts(f, t) = Minus(PeakOf(f, t, b3(f)), PeakOf(f, t, b1(f)))
    BY <1>11 DEF Parts
  <2> QED
    BY <1>2, <1>3, <1>6, <1>11, <2>1, <2>2, <2>3, <2>4 DEF Response
<1>12. CASE f.filter_type = 6
  <2>1. b_1q(f) \in 0 .. NBANDS /\ b_3q(f) \in 0 .. NBANDS
    BY <1>1, <1>12, CornersAreInside, SMT DEF Fits, Kinds
  <2> DEFINE middle == Minus(AllOf(f, t, b_3q(f)), AllOf(f, t, b_1q(f)))
             all == Minus(AllOf(f, t, b3(f)), AllOf(f, t, b1(f)))
  <2>2. Parts(f, t) = Minus(middle, Minus(all, middle))
    BY <1>12 DEF Parts
  <2>3. /\ middle \in Weights /\ all \in Weights
        /\ Weighted(middle) = Between(t1(f, t), t3(f, t), b_3q(f))
                               - Between(t1(f, t), t3(f, t), b_1q(f))
        /\ Weighted(all) = Between(t1(f, t), t3(f, t), b3(f))
                            - Between(t1(f, t), t3(f, t), b1(f))
    BY <1>2, <1>3, <1>4, <2>1
  <2> HIDE DEF middle, all
  <2> QED
    BY <1>2, <1>3, <1>6, <1>12, <2>1, <2>2, <2>3 DEF Response
<1> QED
  BY <1>1, <1>7, <1>8, <1>9, <1>10, <1>11, <1>12, SMT
(* The parts of a filter are its weights: the formulas of computebits,     *)
(* with their halves and quarters, cut the rectangle where they should.    *)
LEMMA PartsAreWeights ==
    ASSUME NEW a \in Frame, NEW b \in Band,
           NEW f, Fits(f), NEW t \in first_time .. last_time
    PROVE  Parts(f, t)[a][b] = Weight(f, t, a, b)
<1> USE BandsAssumption, FramesAssumption
<1>1. f.filter_type \in 1 .. 6
  BY DEF Fits, Kinds
<1>2. /\ t1(f, t) \in 1 .. nframes /\ t3(f, t) \in 1 .. nframes
      /\ t - 1 \in 1 .. nframes
      /\ b1(f) \in 0 .. NBANDS /\ b2(f) \in 0 .. NBANDS /\ b3(f) \in 0 .. NBANDS
  BY <1>1, CornersAreInside
<1>3. t \in Nat /\ a \in Nat /\ b \in Nat
  BY Times, SMT DEF Frame, Band
<1>4. f.wt = 1 \/ \E h \in Nat \ {0} : f.wt = 2 * h
  <2>1. f.wt \in Nat /\ (f.wt = 1 \/ (f.wt % 2 = 0 /\ f.wt > 0))
    BY KeyWidthAssumption, SMT DEF Fits
  <2> QED
    BY <2>1, SMT
<1>5. PICK w \in Nat \ {0}, n \in Nat \ {0}, first \in Nat \ {0} :
        w = f.wt /\ n = f.wb /\ first = f.first_band
  BY SMT, KeyWidthAssumption DEF Fits
<1> DEFINE In(u, v, c) == IF u =< a /\ a < v /\ b < c THEN 1 ELSE 0
<1>6. \A U, V : Minus(U, V)[a][b] = U[a][b] - V[a][b]
  BY DEF Minus
<1>7. \A u, v, c : Block(u, v, c)[a][b] = In(u, v, c)
  BY DEF Block
<1> DEFINE All(c) == In(t1(f, t), t3(f, t), c)
           Half(c) == In(t1(f, t), t - 1, c) - In(t - 1, t3(f, t), c)
           Central(c) == In(t_1q(f, t), t_3q(f, t), c)
<1>8. /\ \A c : AllOf(f, t, c)[a][b] = All(c)
      /\ \A c : HalfOf(f, t, c)[a][b] = Half(c)
      /\ \A c : PeakOf(f, t, c)[a][b] = Central(c) - (All(c) - Central(c))
  BY <1>6, <1>7 DEF AllOf, HalfOf, PeakOf
<1>9. /\ t1(f, t) = FirstFrame(f, t)
      /\ t3(f, t) = FirstFrame(f, t) + w
  BY <1>3, <1>4, <1>5, SMT DEF t1, t3, FirstFrame
<1>10. b1(f) = FirstBand(f) /\ b3(f) = FirstBand(f) + n
       /\ b2(f) = FirstBand(f) + (n + 1) \div 2
  BY <1>5, SMT DEF b1, b2, b3, FirstBand
<1>11. FirstFrame(f, t) \in Nat /\ FirstBand(f) \in Nat
  BY <1>2, <1>9, <1>10, SMT
<1>12. PICK F \in Nat, B \in Nat : F = FirstFrame(f, t) /\ B = FirstBand(f)
  BY <1>11
<1>13. CASE f.filter_type = 1
  <2>1. Parts(f, t)[a][b] = All(b3(f)) - All(b1(f))
    BY <1>6, <1>8, <1>13 DEF Parts
  <2> QED
    BY <1>2, <1>3, <1>5, <1>9, <1>10, <1>11, <1>13, <2>1, SMT DEF Weight, Sign
<1>14. CASE f.filter_type = 3
  <2>1. Parts(f, t)[a][b] = (All(b2(f)) - All(b1(f))) - (All(b3(f)) - All(b2(f)))
    BY <1>6, <1>8, <1>14 DEF Parts
  <2> QED
    BY <1>2, <1>3, <1>5, <1>9, <1>10, <1>11, <1>14, <2>1, SMT DEF Weight, Sign
<1>15. CASE f.filter_type \in {2, 4, 5}
  <2>1. PICK h \in Nat \ {0} : w = 2 * h
    BY <1>4, <1>5, <1>15, SMT DEF Fits, Kinds
  <2>2. t - 1 = FirstFrame(f, t) + h
    BY <1>3, <1>5, <2>1, SMT DEF FirstFrame
  <2> DEFINE Within == /\ a - F \in 0 .. w - 1
                       /\ b - B \in 0 .. n - 1
             halves(c) == (IF F =< a /\ a < F + h /\ b < c THEN 1 ELSE 0)
                          - (IF F + h =< a /\ a < F + w /\ b < c THEN 1 ELSE 0)
  <2>0. \A c : Half(c) = halves(c)
    BY <1>9, <1>12, <2>2
  <2>3. CASE f.filter_type = 2
    <3>1. Parts(f, t)[a][b] = halves(B + n) - halves(B)
      BY <1>6, <1>8, <1>10, <1>12, <2>0, <2>3 DEF Parts
    <3>2. Weight(f, t, a, b) = IF Within THEN IF 2 * (a - F) < w THEN 1 ELSE -1 ELSE 0
      BY <1>5, <1>12, <2>3 DEF Weight, Sign
    <3> QED
      BY <1>3, <1>12, <2>1, <3>1, <3>2, SMT
  <2>4. CASE f.filter_type = 4
    <3> DEFINE M == B + ((n + 1) \div 2)
    <3>1. Parts(f, t)[a][b] = (halves(M) - halves(B)) - (halves(B + n) - halves(M))
      BY <1>6, <1>8, <1>10, <1>12, <2>0, <2>4 DEF Parts
    <3>2. Weight(f, t, a, b) =
            IF Within THEN IF 2 * (a - F) < w <=> 2 * (b - B) < n THEN 1 ELSE -1 ELSE 0
      BY <1>5, <1>12, <2>4 DEF Weight, Sign
    <3>3. /\ M \in Nat /\ B =< M /\ M =< B + n
          /\ b >= B => (b < M <=> 2 * (b - B) < n)
      BY <1>3, <1>12, SMT
    <3> HIDE DEF M
    <3> QED
      BY <1>3, <1>12, <2>1, <3>1, <3>2, <3>3, SMT
  <2>5. CASE f.filter_type = 5
    <3>1. /\ t_1q(f, t) = FirstFrame(f, t) + (h + 1) \div 2
          /\ t_3q(f, t) = t_1q(f, t) + h
      BY <1>3, <1>9, <1>11, <2>1, <2>2, SMT DEF t_1q, t_3q
    <3>2. Parts(f, t)[a][b] = (Central(b3(f)) - (All(b3(f)) - Central(b3(f))))
                              - (Central(b1(f)) - (All(b1(f)) - Central(b1(f))))
      BY <1>6, <1>8, <2>5 DEF Parts
    <3>3. (w + 2) \div 4 = (h + 1) \div 2 /\ w \div 2 = h
      BY <2>1, SMT
    <3> DEFINE e == (h + 1) \div 2
               part(c) == IF F + e =< a /\ a < F + e + h /\ b < c THEN 1 ELSE 0
               all(c) == IF F =< a /\ a < F + w /\ b < c THEN 1 ELSE 0
    <3>4. \A c : Central(c) = part(c) /\ All(c) = all(c)
      BY <1>9, <1>12, <3>1
    <3>5. Parts(f, t)[a][b] = (part(B + n) - (all(B + n) - part(B + n)))
                              - (part(B) - (all(B) - part(B)))
      BY <1>10, <1>12, <3>2, <3>4
    <3>6. Weight(f, t, a, b) =
            IF Within THEN IF a - F \in e .. e + h - 1 THEN 1 ELSE -1 ELSE 0
      BY <1>5, <1>12, <2>5, <3>3 DEF Weight, Sign
    <3>7. e \in Nat /\ e =< h
      BY SMT
    <3> HIDE DEF e
    <3> QED
      BY <1>3, <1>12, <2>1, <3>5, <3>6, <3>7, SMT
  <2> QED
    BY <1>15, <2>3, <2>4, <2>5
<1>16. CASE f.filter_type = 6
  <2>1. /\ b_1q(f) = FirstBand(f) + (n + 1) \div 4
        /\ b_3q(f) = b_1q(f) + n \div 2
    <3>1. PICK g \in Nat : g = (n + 1) \div 2 /\ g \div 2 = (n + 1) \div 4
      BY SMT
    <3>2. PICK first_b \in Nat : first_b = FirstBand(f)
      BY <1>11
    <3>3. (first_b + (first_b + g)) \div 2 = first_b + (g \div 2)
      BY SMT
    <3>4. b_1q(f) = first_b + (g \div 2)
      BY <1>10, <3>1, <3>2, <3>3 DEF b_1q
    <3>5. b3(f) - b1(f) = n
      BY <1>10, <3>2, SMT
    <3> QED
      BY <3>1, <3>2, <3>4, <3>5 DEF b_3q
  <2> DEFINE middle == All(b_3q(f)) - All(b_1q(f))
  <2>2. Parts(f, t)[a][b] = middle - ((All(b3(f)) - All(b1(f))) - middle)
    BY <1>6, <1>8, <1>16 DEF Parts
  <2> QED
    BY <1>2, <1>3, <1>5, <1>9, <1>10, <1>11, <1>16, <2>1, <2>2, SMT DEF Weight, Sign
<1> QED
  BY <1>1, <1>13, <1>14, <1>15, <1>16, SMT

-----------------------------------------------------------------------------
(* Responses.                                                              *)

(* What a filter measures is the energy weighted with its parts.           *)
LEMMA MeasureIsWeighted ==
    ASSUME NEW f, Fits(f), NEW t \in first_time .. last_time
    PROVE  Measure(f, t) = Weighted(Parts(f, t))
<1> DEFINE W == Parts(f, t)
           m(p) == [q \in Nat |-> Weight(f, t, p, q) * image[p][q]]
           w(p) == [q \in Nat |-> W[p][q] * image[p][q]]
           M == [p \in Nat |-> SumBelow(m(p), NBANDS)]
           N == [p \in Nat |-> WeightedRow(W, p)]
<1>1. nframes \in Nat /\ nframes \in 0 .. nframes /\ NBANDS \in Nat
      /\ NBANDS \in 0 .. NBANDS
  BY BandsAssumption, FramesAssumption
<1>2. ASSUME NEW p \in 0 .. nframes - 1 PROVE M[p] = N[p]
  <2>1. p \in Frame /\ p \in Nat
    BY <1>1 DEF Frame
  <2>2. ASSUME NEW q \in 0 .. NBANDS - 1 PROVE m(p)[q] = w(p)[q]
    <3>1. q \in Band /\ q \in Nat
      BY <1>1 DEF Band
    <3>2. W[p][q] = Weight(f, t, p, q)
      BY <2>1, <3>1, PartsAreWeights
    <3> HIDE DEF W
    <3> QED
      BY <3>1, <3>2
  <2>3. WeightedRow(W, p) = SumBelow(w(p), NBANDS)
    BY DEF WeightedRow
  <2>4. M[p] = SumBelow(m(p), NBANDS) /\ N[p] = WeightedRow(W, p)
    BY <2>1
  <2> HIDE DEF m, w, M, N, W
  <2>5. SumBelow(m(p), NBANDS) = SumBelow(w(p), NBANDS)
    BY <1>1, <2>2, SumEqual
  <2> QED
    BY <2>3, <2>4, <2>5
<1>3. Measure(f, t) = SumBelow(M, nframes) /\ Weighted(W) = SumBelow(N, nframes)
  BY DEF Measure, Weighted
<1> HIDE DEF M, N, W
<1>4. SumBelow(M, nframes) = SumBelow(N, nframes)
  BY <1>1, <1>2, SumEqual
<1> QED
  BY <1>3, <1>4 DEF W

(* The response is kept until the next key.                                *)
MeasureInv ==
    /\ pc # "bits" => t2 = first_time
    /\ ResponseIsMeasure

LEMMA MeasureKept == TypeOK /\ SumsInv /\ MeasureInv /\ [Next]_vars => MeasureInv'
<1> SUFFICES ASSUME TypeOK, SumsInv, MeasureInv, [Next]_vars PROVE MeasureInv'
  OBVIOUS
<1>0. image' = image /\ image \in [Frame -> [Band -> Int]]
  BY ImageKept, ImagesAssumption DEF TypeOK
<1>1. CASE ComputeBit
  <2>1. t2 \in first_time .. last_time /\ t2' - 1 = t2 /\ filter' = filter
    BY <1>1, Times, SMT DEF TypeOK, ComputeBit, MoreKeys
  <2>2. Fits(filter)
    BY FiltersAssumption DEF TypeOK
  <2>3. \A p \in Frame, q \in Band : frames[p][q] = RectangleSum(p, q)
    BY <1>1 DEF SumsInv, PartlySummed, Summed, ComputeBit
  <2>4. X' = Measure(filter, t2)
    BY <1>0, <1>1, <2>1, <2>2, <2>3, ResponseIsWeighted, MeasureIsWeighted
    DEF ComputeBit, TypeOK
  <2>5. Measure(filter, t2) = Measure(filter, t2 - 1)'
    BY <1>0, <2>1, Zenon DEF Measure
  <2>6. pc' = "bits"
    BY <1>1 DEF ComputeBit
  <2> QED
    BY <2>4, <2>5, <2>6 DEF MeasureInv, ResponseIsMeasure
<1>2. CASE SelectFilter
  <2>1. t2' = first_time /\ pc' = "bits"
    BY <1>2 DEF SelectFilter, MeasureInv
  <2> QED
    BY <2>1, Times DEF MeasureInv, ResponseIsMeasure
<1>3. CASE SumDown \/ SumAcross \/ SumRest
  BY <1>3 DEF MeasureInv, ResponseIsMeasure, SumDown, SumAcross, SumRest
<1>4. CASE UNCHANGED vars
  <2>1. Measure(filter, t2 - 1) = Measure(filter, t2 - 1)'
    BY <1>4 DEF vars, Measure, Weight, FirstFrame, FirstBand, Sign
  <2> QED
    BY <1>4, <2>1 DEF vars, MeasureInv, ResponseIsMeasure
<1> QED
  BY <1>1, <1>2, <1>3, <1>4 DEF Next

(* Every response, of every filter that fits, at every time of every       *)
(* recording that has a key, is what the filter measures: the corners that *)
(* computebits takes from the summed array, with their times counted from  *)
(* 1 and their halves rounded, are those of the parts of the filter.       *)
THEOREM ResponsesAreMeasures == Spec => []ResponseIsMeasure
<1>1. Init => MeasureInv
  BY DEF Init, MeasureInv, ResponseIsMeasure
<1>2. MeasureInv => ResponseIsMeasure
  BY DEF MeasureInv
<1>3. TypeOK /\ SumsInv /\ MeasureInv /\ [Next]_vars => MeasureInv'
  BY MeasureKept
<1> QED
  BY <1>1, <1>2, <1>3, SumsHold, PTL DEF Spec
(* Energy in one frame and band.                                           *)
UnitImage(a, b) ==
    [p \in Frame |-> [q \in Band |-> IF p = a /\ q = b THEN 1 ELSE 0]]

LEMMA WeightType ==
    ASSUME NEW f, f.filter_type \in 1 .. 6, NEW t, NEW p, NEW q
    PROVE  Weight(f, t, p, q) \in Int
<1>1. \A r, s : Sign(f, r, s) \in Int
  BY DEF Sign
<1> QED
  BY <1>1 DEF Weight

LEMMA MeasureOfUnit ==
    ASSUME NEW a \in Frame, NEW b \in Band, image = UnitImage(a, b),
           NEW f, f.filter_type \in 1 .. 6, NEW t
    PROVE  Measure(f, t) = Weight(f, t, a, b)
<1> DEFINE m(p) == [q \in Nat |-> Weight(f, t, p, q) * image[p][q]]
           M == [p \in Nat |-> SumBelow(m(p), NBANDS)]
<1>1. nframes \in Nat /\ NBANDS \in Nat /\ a \in 0 .. nframes - 1 /\ b \in 0 .. NBANDS - 1
      /\ a \in Nat /\ b \in Nat
  BY BandsAssumption, FramesAssumption DEF Frame, Band
<1>2. ASSUME NEW p \in Frame, NEW q \in Band
      PROVE  m(p)[q] = IF p = a /\ q = b THEN Weight(f, t, a, b) ELSE 0
  <2>1. image[p][q] = IF p = a /\ q = b THEN 1 ELSE 0
    BY DEF UnitImage
  <2>2. PICK w \in Int : w = Weight(f, t, p, q)
    BY WeightType
  <2>3. q \in Nat
    BY DEF Band
  <2>4. m(p)[q] = w * (IF p = a /\ q = b THEN 1 ELSE 0)
    BY <2>1, <2>2, <2>3
  <2>5. w * 1 = w /\ w * 0 = 0
    OBVIOUS
  <2> HIDE DEF m
  <2> QED
    BY <2>2, <2>4, <2>5
<1>3. ASSUME NEW p \in Frame
      PROVE  SumBelow(m(p), NBANDS) = IF p = a THEN Weight(f, t, a, b) ELSE 0
  <2>1. Band = 0 .. NBANDS - 1 /\ Weight(f, t, a, b) \in Int
    BY WeightType DEF Band
  <2> HIDE DEF m
  <2>2. CASE p = a
    <3>1. /\ m(p)[b] = Weight(f, t, a, b)
          /\ \A k \in 0 .. NBANDS - 1 : k # b => m(p)[k] = 0
      BY <1>2, <2>1, <2>2
    <3>2. SumBelow(m(p), NBANDS) = m(p)[b]
      BY <1>1, <2>1, <3>1, SumOfOne
    <3> QED
      BY <2>2, <3>1, <3>2
  <2>3. CASE p # a
    <3>1. \A k \in 0 .. NBANDS - 1 : m(p)[k] = 0
      BY <1>2, <2>1, <2>3
    <3> QED
      BY <1>1, <2>3, <3>1, SumOfNone
  <2> QED
    BY <2>2, <2>3
<1>4. /\ Measure(f, t) = SumBelow(M, nframes)
      /\ \A p \in Nat : M[p] = SumBelow(m(p), NBANDS)
  BY DEF Measure
<1>5. Frame = 0 .. nframes - 1 /\ Weight(f, t, a, b) \in Int
  BY WeightType DEF Frame
<1> HIDE DEF M, m
<1>6. /\ M[a] = Weight(f, t, a, b)
      /\ \A k \in 0 .. nframes - 1 : k # a => M[k] = 0
  BY <1>1, <1>3, <1>4, <1>5
<1>7. SumBelow(M, nframes) = M[a]
  BY <1>1, <1>5, <1>6, SumOfOne
<1> QED
  BY <1>4, <1>6, <1>7

(* The energy in frame a and band b enters every bit with the weight that  *)
(* the kind of its filter gives to its place.                              *)
THEOREM UnitResponse ==
    ASSUME NEW a \in Frame, NEW b \in Band
    PROVE  Spec => [](pc = "bits" /\ t2 > first_time /\ image = UnitImage(a, b)
                        => X = Weight(filter, t2 - 1, a, b))
<1>1. TypeOK /\ ResponseIsMeasure =>
        (pc = "bits" /\ t2 > first_time /\ image = UnitImage(a, b)
           => X = Weight(filter, t2 - 1, a, b))
  <2> SUFFICES ASSUME TypeOK, ResponseIsMeasure, pc = "bits", t2 > first_time,
                      image = UnitImage(a, b)
               PROVE  X = Weight(filter, t2 - 1, a, b)
    OBVIOUS
  <2>1. filter.filter_type \in 1 .. 6
    BY FiltersAssumption DEF TypeOK, Fits, Kinds
  <2>2. X = Measure(filter, t2 - 1)
    BY DEF ResponseIsMeasure
  <2> QED
    BY <2>1, <2>2, MeasureOfUnit
<1> QED
  BY <1>1, ResponsesAreMeasures, DescriptorTypeCorrect, PTL
==============================================================================
