---------------------------- MODULE FilterShape ----------------------------
(***************************************************************************)
(* The filters of src/src/filters.cpp: rectangles of frames and bands that *)
(* are compared with each other, the constants of sigproc.h that bound     *)
(* them, and the kinds of filter that a rectangle is large enough for.     *)
(***************************************************************************)
EXTENDS Integers

CONSTANTS
    KEYWIDTH,       \* frames that a key looks at (100)
    NBANDS          \* bands of a frame (33)

(* With KEYWIDTH = 2 the filters of one frame begin before the first frame. *)
ASSUME KeyWidthAssumption == KEYWIDTH \in Nat /\ KEYWIDTH >= 4 /\ KEYWIDTH % 2 = 0
ASSUME BandsAssumption == NBANDS \in Nat \ {0}

(* filter_type: 1 energy, 2 difference over time, 3 over bands, 4 over     *)
(* both, 5 peak in time, 6 peak in bands.                                  *)
Kinds(time, bands) ==
    {k \in 1 .. 6 :
        /\ k \in {2, 4} => time > 1
        /\ k \in {3, 4} => bands > 1
        /\ k = 5 => time > 3
        /\ k = 6 => bands > 3}

(* A filter that fits: its length is one frame or even and below KEYWIDTH, *)
(* its bands are bands of the frame.                                       *)
Fits(f) ==
    /\ f.wt \in 1 .. KEYWIDTH - 1
    /\ f.wt = 1 \/ f.wt % 2 = 0
    /\ f.wb \in 1 .. NBANDS
    /\ f.first_band \in 1 .. NBANDS - f.wb + 1
    /\ f.filter_type \in Kinds(f.wt, f.wb)

(* All filters whose lengths are in "lengths".                             *)
Shapes(lengths) ==
    {f \in [wt : lengths, wb : 1 .. NBANDS, first_band : 1 .. NBANDS,
            filter_type : 1 .. 6] : Fits(f)}
==============================================================================
