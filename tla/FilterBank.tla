----------------------------- MODULE FilterBank -----------------------------
(***************************************************************************)
(* The constructor Filter::Filter of src/src/filters.cpp.  A filter is     *)
(* stored as a number only; the constructor counts through all filters, by *)
(* length, number of bands, first band and kind, until it is there.  When  *)
(* the number is too large the loops end and filter_type is never set.     *)
(***************************************************************************)
EXTENDS FilterShape, Sequences, FiniteSets

CONSTANT Ids        \* numbers of filters

ASSUME IdsAssumption == Ids \subseteq Nat \ {0}

VARIABLES
    id,
    pc,             \* "lengths", "search"; then "returned" or, past the
                    \* loops, "unset"
    t,
    time_lengths,
    wt,             \* an index of time_lengths, a length once returned
    wb,
    first_band,
    filter_count,
    filter_type     \* 0 until it is set

vars == <<id, pc, t, time_lengths, wt, wb, first_band, filter_count, filter_type>>
loopVars == <<wt, wb, first_band>>

TypeOK ==
    /\ id \in Ids
    /\ pc \in {"lengths", "search", "returned", "unset"}
    /\ t \in Nat \ {0}
    /\ time_lengths \in Seq(1 .. KEYWIDTH - 1)
    /\ wt \in Nat \ {0}
    /\ wb \in 1 .. NBANDS + 1
    /\ first_band \in Nat \ {0}
    /\ filter_count \in Nat
    /\ filter_type \in 0 .. 6

Init ==
    /\ id \in Ids
    /\ pc = "lengths"
    /\ t = 1
    /\ time_lengths = <<>>
    /\ wt = 1
    /\ wb = 1
    /\ first_band = 1
    /\ filter_count = 0
    /\ filter_type = 0

(* Mutant: the length is not made even.                                    *)
Longer_Odd(n) == (3 * n + 1) \div 2

(* MAX(r + r % 2, n + 1) where r is 1.5 * n, rounded.                      *)
Longer(n) ==
    LET r == (3 * n + 1) \div 2
        even == r + (r % 2)
    IN  IF even > n + 1 THEN even ELSE n + 1

(* Mutant: a length may be as long as the key.                             *)
MoreLengths_Equal == t =< KEYWIDTH

MoreLengths == t < KEYWIDTH

NextLength ==
    /\ pc = "lengths"
    /\ MoreLengths
    /\ time_lengths' = Append(time_lengths, t)
    /\ t' = Longer(t)
    /\ UNCHANGED <<id, pc, loopVars, filter_count, filter_type>>

LengthsDone ==
    /\ pc = "lengths"
    /\ ~MoreLengths
    /\ pc' = "search"
    /\ UNCHANGED <<id, t, time_lengths, loopVars, filter_count, filter_type>>

(* The body of the loops counts the kinds of one rectangle in turn.        *)
KindsHere == Kinds(time_lengths[wt], wb)
Number(kind) == filter_count + Cardinality({k \in KindsHere : k =< kind})

Return ==
    /\ pc = "search"
    /\ \E kind \in KindsHere : Number(kind) = id /\ filter_type' = kind
    /\ wt' = time_lengths[wt]
    /\ filter_count' = id
    /\ pc' = "returned"
    /\ UNCHANGED <<id, t, time_lengths, wb, first_band>>

(* Mutant: any band may be the first one.                                  *)
LastBand_Any(bands) == NBANDS

LastBand(bands) == NBANDS - bands + 1

(* Mutant: the longest length is left out.                                 *)
LastLength_Left == wt + 1 >= Len(time_lengths)

LastLength == wt = Len(time_lengths)

(* Which rectangle comes next.                                             *)
Advance ==
    \/ /\ first_band < LastBand(wb)
       /\ first_band' = first_band + 1
       /\ UNCHANGED <<pc, wt, wb>>
    \/ /\ first_band >= LastBand(wb)
       /\ wb < NBANDS
       /\ wb' = wb + 1
       /\ first_band' = 1
       /\ UNCHANGED <<pc, wt>>
    \/ /\ first_band >= LastBand(wb)
       /\ wb = NBANDS
       /\ ~LastLength
       /\ wt' = wt + 1
       /\ wb' = 1
       /\ first_band' = 1
       /\ UNCHANGED pc
    \/ /\ first_band >= LastBand(wb)
       /\ wb = NBANDS
       /\ LastLength
       /\ wt' = wt + 1
       /\ wb' = NBANDS + 1
       /\ first_band' = first_band + 1
       /\ pc' = "unset"

Skip ==
    /\ pc = "search"
    /\ \A kind \in KindsHere : Number(kind) # id
    /\ filter_count' = filter_count + Cardinality(KindsHere)
    /\ Advance
    /\ UNCHANGED <<id, t, time_lengths, filter_type>>

Next == NextLength \/ LengthsDone \/ Return \/ Skip

Spec == Init /\ [][Next]_vars

-----------------------------------------------------------------------------

This == [wt |-> wt, wb |-> wb, first_band |-> first_band,
         filter_type |-> filter_type]

(* Every filter that is constructed fits in a key: one frame or an even    *)
(* number of them, fewer than KEYWIDTH, and no band beyond the last.       *)
FilterFits == pc = "returned" => Fits(This)

(* Every listed number is the number of a filter: no constructor runs off  *)
(* the end of its loops and leaves filter_type uninitialised.              *)
ListedFiltersExist == pc # "unset"

Lengths == {time_lengths[k] : k \in 1 .. Len(time_lengths)}

(* The order of the loops.                                                 *)
Before(f, g) ==
    \/ f.wt < g.wt
    \/ f.wt = g.wt /\ f.wb < g.wb
    \/ f.wt = g.wt /\ f.wb = g.wb /\ f.first_band < g.first_band
    \/ /\ f.wt = g.wt /\ f.wb = g.wb /\ f.first_band = g.first_band
       /\ f.filter_type < g.filter_type

(* The number of a filter is its rank among all filters, so that two       *)
(* numbers never name the same filter; only a number larger than all ranks *)
(* has none.                                                               *)
NumberIsRank ==
    /\ pc = "returned" =>
         id = Cardinality({f \in Shapes(Lengths) : Before(f, This)}) + 1
    /\ pc = "unset" => id > Cardinality(Shapes(Lengths))
==============================================================================
