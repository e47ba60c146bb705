---------------------------- MODULE MCFilterBank ----------------------------
(***************************************************************************)
(* TLC instances of FilterBank: the filters that asearch.cpp lists, and    *)
(* all filters of a small key.                                             *)
(***************************************************************************)
EXTENDS FilterBank

(* The numbers in filters1.                                                *)
filters1 ==
    {26752, 23871, 26777, 4635, 2937, 27405, 10782, 21033, 27117, 27072, 24228,
     23838, 17165, 25263, 20721, 8502, 17175, 17811, 27495, 23538, 8205, 12177,
     27051, 27111, 21779, 14817, 27087, 27081, 20394, 28209, 23533, 23865}

(* The small key has 217 filters.                                          *)
MCAllIds == 1 .. 300
==============================================================================
