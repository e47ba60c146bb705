--------------------------- MODULE MCGenerateFpkeys ---------------------------
(***************************************************************************)
(* TLC instance of GenerateFpkeys: frames of four samples, two apart, keys *)
(* of two frames, so that eight samples at the low rate make the first     *)
(* complete set of frames.  The lengths are those around each wrap-around. *)
(***************************************************************************)
EXTENDS GenerateFpkeys

File(frames, data, channels, freq, named) ==
    [frames |-> frames, data |-> data, channels |-> channels, freq |-> freq,
     named |-> named, readable |-> TRUE]

(* Empty, no frame, one frame (less keys than none), no key, one, two.     *)
Lengths(freq) ==
    CASE freq = "OFREQ1" -> {2, 17, 21, 27, 35, 41}
      [] freq = "OFREQ2" -> {3, 13, 16, 20, 25, 29}
      [] OTHER -> {0, 3, 5, 6, 9, 10, 13}

MCWavs ==
    UNION {{File(n, n, c, f, TRUE) : n \in Lengths(f), c \in {1, 2, 3, 4}} : f \in Freq}
        \cup {File(n, n - cut, c, "DFREQ", TRUE) : n \in {6, 10}, cut \in {1, 5}, c \in {1, 2}}
        \cup {File(10, 10, 1, "DFREQ", FALSE)}
        \cup {[File(10, 10, 1, "DFREQ", TRUE) EXCEPT !.readable = FALSE]}
===============================================================================
