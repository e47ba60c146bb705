----------------------------- MODULE Descriptor -----------------------------
(***************************************************************************)
(* integralimage and computebits of src/src/sigproc.cpp: the energy of the *)
(* frames and bands of a recording is summed in place, and every bit of a  *)
(* key is the response of a filter, a signed sum of corners.               *)
(*                                                                         *)
(* Energies are integers: the rounding of float is left out.  The bits of  *)
(* a key do not depend on each other, so a behaviour follows one filter;   *)
(* its response is kept instead of its comparison with the threshold.      *)
(***************************************************************************)
EXTENDS FilterShape, Sums

CONSTANTS
    nframes,        \* frames of the recording
    Images,         \* energies of frames and bands
    Filters         \* filters that are applied

Frame == 0 .. nframes - 1
Band == 0 .. NBANDS - 1

(* Shorter recordings make nframes - KEYWIDTH / 2 wrap around.             *)
ASSUME FramesAssumption == nframes \in Nat /\ nframes > KEYWIDTH
ASSUME ImagesAssumption == Images \subseteq [Frame -> [Band -> Int]]
ASSUME FiltersAssumption == Filters # {} /\ \A f \in Filters : Fits(f)

VARIABLES
    image,          \* the frames as integralimage gets them
    frames,         \* the array it works in
    pc,             \* "down", "across", "rest": the loops of integralimage
    y, x,           \* their counters
    filter,
    t2,
    X               \* the responses, from first_time to t2

vars == <<image, frames, pc, y, x, filter, t2, X>>

first_time == KEYWIDTH \div 2 + 1
last_time == nframes - KEYWIDTH \div 2

TypeOK ==
    /\ image \in Images
    /\ frames \in [Frame -> [Band -> Int]]
    /\ pc \in {"down", "across", "rest", "integral", "bits"}
    /\ y \in 1 .. nframes
    /\ x \in 1 .. NBANDS
    /\ filter \in Filters
    /\ t2 \in first_time .. last_time + 1
    /\ X \in Int

Init ==
    /\ image \in Images
    /\ frames = image
    /\ pc = "down"
    /\ y = 1
    /\ x = 1
    /\ filter = CHOOSE f \in Filters : TRUE
    /\ t2 = first_time
    /\ X = 0

-----------------------------------------------------------------------------
(* integralimage                                                           *)

SumDown ==
    /\ pc = "down"
    /\ IF y < nframes
       THEN /\ frames' = [frames EXCEPT ![y][0] = @ + frames[y - 1][0]]
            /\ y' = y + 1
            /\ UNCHANGED pc
       ELSE /\ pc' = "across"
            /\ UNCHANGED <<frames, y>>
    /\ UNCHANGED <<image, x, filter, t2, X>>

SumAcross ==
    /\ pc = "across"
    /\ IF x < NBANDS
       THEN /\ frames' = [frames EXCEPT ![0][x] = @ + frames[0][x - 1]]
            /\ x' = x + 1
            /\ UNCHANGED <<pc, y>>
       ELSE /\ pc' = "rest"
            /\ y' = 1
            /\ x' = 1
            /\ UNCHANGED frames
    /\ UNCHANGED <<image, filter, t2, X>>

(* Mutant: the corner that is counted twice is not taken off.              *)
Sum_Twice == frames[y][x] + frames[y - 1][x] + frames[y][x - 1]

Sum == frames[y][x] + frames[y - 1][x] + frames[y][x - 1] - frames[y - 1][x - 1]

SumRest ==
    /\ pc = "rest"
    /\ \/ /\ y < nframes /\ x < NBANDS
          /\ frames' = [frames EXCEPT ![y][x] = Sum]
          /\ x' = x + 1
          /\ UNCHANGED <<pc, y>>
       \/ /\ y < nframes /\ x = NBANDS
          /\ y' = y + 1
          /\ x' = 1
          /\ UNCHANGED <<frames, pc>>
       \/ /\ y = nframes
          /\ pc' = "integral"
          /\ UNCHANGED <<frames, y, x>>
    /\ UNCHANGED <<image, filter, t2, X>>

-----------------------------------------------------------------------------
(* computebits                                                             *)

(* Times and bands of the corners of a filter at t, counted from 1.        *)

t1(f, t) == IF f.wt = 1 THEN t - 2 ELSE t - f.wt \div 2 - 1
t3(f, t) == IF f.wt = 1 THEN t - 1 ELSE t + f.wt \div 2 - 1
t_1q(f, t) == (t1(f, t) + t) \div 2
t_3q(f, t) == t_1q(f, t) + (t3(f, t) - t1(f, t) + 1) \div 2

b1(f) == f.first_band - 1

(* Mutant: the middle band is not rounded up.                              *)
b2_Truncated(f) == f.first_band + f.wb \div 2 - 1

b2(f) == f.first_band + (f.wb + 1) \div 2 - 1
b3(f) == f.first_band + f.wb - 1
b_1q(f) == (b1(f) + b2(f)) \div 2
b_3q(f) == b_1q(f) + (b3(f) - b1(f)) \div 2

(* frames[t - 1][b - 1]; the terms of b1 are left out when b1 is 0.        *)
At(t, b) == IF b = 0 THEN 0 ELSE frames[t - 1][b - 1]

(* What lies between the times t and u, up to band b.                      *)
Between(t, u, b) == At(u, b) - At(t, b)

(* The switch over filter_type.                                            *)
Response(f, t) ==
    LET early == t1(f, t)
        late  == t3(f, t)
        All(b)  == Between(early, late, b)
        Half(b) == Between(early, t - 1, b) - Between(t - 1, late, b)
        Peak(b) == 2 * Between(t_1q(f, t), t_3q(f, t), b) - All(b)
    IN  CASE f.filter_type = 1 -> All(b3(f)) - All(b1(f))
          [] f.filter_type = 2 -> Half(b3(f)) - Half(b1(f))
          [] f.filter_type = 3 -> 2 * All(b2(f)) - All(b1(f)) - All(b3(f))
          [] f.filter_type = 4 -> 2 * Half(b2(f)) - Half(b1(f)) - Half(b3(f))
          [] f.filter_type = 5 -> Peak(b3(f)) - Peak(b1(f))
          [] f.filter_type = 6 -> 2 * (All(b_3q(f)) - All(b_1q(f)))
                                  + All(b1(f)) - All(b3(f))

(* One of the filters.                                                     *)
SelectFilter ==
    /\ pc = "integral"
    /\ filter' \in Filters
    /\ pc' = "bits"
    /\ UNCHANGED <<image, frames, y, x, t2, X>>

(* Mutant: a key for every frame to the last.                              *)
MoreKeys_ToLast == t2 =< nframes

MoreKeys == t2 =< last_time

(* bt[i] = X > threshold                                                   *)
ComputeBit ==
    /\ pc = "bits"
    /\ MoreKeys
    /\ X' = Response(filter, t2)
    /\ t2' = t2 + 1
    /\ UNCHANGED <<image, frames, pc, y, x, filter>>

Next == SumDown \/ SumAcross \/ SumRest \/ SelectFilter \/ ComputeBit

Spec == Init /\ [][Next]_vars

-----------------------------------------------------------------------------
(* The reference.                                                          *)

(* The energy of the frames and bands up to (p, q).                        *)
RectangleSum(p, q) == SumBelow([r \in Nat |-> SumBelow(image[r], q + 1)], p + 1)

(* integralimage, which works in place, leaves the sum of the rectangle    *)
(* before each frame and band.                                             *)
IntegralIsSum ==
    pc \in {"integral", "bits"} =>
        \A p \in Frame, q \in Band : frames[p][q] = RectangleSum(p, q)

(* The first frame of a filter at t and its first band.                    *)
FirstFrame(f, t) == t - f.wt \div 2 - (IF f.wt = 1 THEN 2 ELSE 1)
FirstBand(f) == f.first_band - 1

(* The sign with which filter f counts its frame p and band q.             *)
Sign(f, p, q) ==
    LET early == 2 * p < f.wt
        low   == 2 * q < f.wb
        central == p \in (f.wt + 2) \div 4 .. (f.wt + 2) \div 4 + f.wt \div 2 - 1
        middle == q \in (f.wb + 1) \div 4 .. (f.wb + 1) \div 4 + f.wb \div 2 - 1
    IN  CASE f.filter_type = 1 -> 1
          [] f.filter_type = 2 -> IF early THEN 1 ELSE -1
          [] f.filter_type = 3 -> IF low THEN 1 ELSE -1
          [] f.filter_type = 4 -> IF early <=> low THEN 1 ELSE -1
          [] f.filter_type = 5 -> IF central THEN 1 ELSE -1
          [] f.filter_type = 6 -> IF middle THEN 1 ELSE -1

(* The weight of frame p and band q of the recording in filter f at t.     *)
Weight(f, t, p, q) ==
    IF /\ p - FirstFrame(f, t) \in 0 .. f.wt - 1
       /\ q - FirstBand(f) \in 0 .. f.wb - 1
    THEN Sign(f, p - FirstFrame(f, t), q - FirstBand(f))
    ELSE 0

(* What the filter measures.                                               *)
Measure(f, t) ==
    SumBelow([p \in Nat |->
                SumBelow([q \in Nat |-> Weight(f, t, p, q) * image[p][q]], NBANDS)],
             nframes)

(* Each response is what the filter should measure: the corners are those  *)
(* of its parts, and the frames are counted from 0 although the times of   *)
(* the formulas are counted from 1.                                        *)
ResponseIsMeasure ==
    pc = "bits" /\ t2 > first_time => X = Measure(filter, t2 - 1)

(* All corners are in the array ("we should check from t1 > 0, but in      *)
(* practice, this doesn't happen"), and every key has its place in bits.   *)
CornersInFrames ==
    pc = "bits" /\ MoreKeys =>
        /\ \A t \in {t1(filter, t2), t2 - 1, t3(filter, t2)} : t \in 1 .. nframes
        /\ filter.filter_type = 5 =>
             \A t \in {t_1q(filter, t2), t_3q(filter, t2)} : t \in 1 .. nframes
        /\ \A b \in {b1(filter), b2(filter), b3(filter)} : b \in 0 .. NBANDS
        /\ filter.filter_type = 6 =>
             \A b \in {b_1q(filter), b_3q(filter)} : b \in 1 .. NBANDS
        /\ t2 - first_time < last_time - first_time + 1

==============================================================================
