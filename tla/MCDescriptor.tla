---------------------------- MODULE MCDescriptor ----------------------------
(***************************************************************************)
(* TLC instances of Descriptor.                                            *)
(***************************************************************************)
EXTENDS Descriptor

(* Energy in one frame and band, one image for each.  The response is a    *)
(* sum of terms for frames and bands: it is right for all images when it   *)
(* is right for these.                                                     *)
UnitImages ==
    {[p \in Frame |-> [q \in Band |-> IF p = a /\ q = b THEN 1 ELSE 0]] :
        a \in Frame, b \in Band}

(* ... and one with energy everywhere.                                     *)
DenseImage == [p \in Frame |-> [q \in Band |-> 1 + ((p * p + 3 * q) % 5)]]

MCImages == UnitImages \cup {DenseImage}

(* All filters that fit.                                                   *)
AllFilters == Shapes({1} \cup {n \in 1 .. KEYWIDTH - 1 : n % 2 = 0})
==============================================================================
