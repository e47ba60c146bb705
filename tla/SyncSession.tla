----------------------------- MODULE SyncSession -----------------------------
(***************************************************************************)
(* What the application promises its user, without threads, buffers or     *)
(* player states: an activity that is open searches for the position in    *)
(* the film, one search at a time; only the answer to a search of the open *)
(* activity makes it seek; only a seek makes the translation audible; and  *)
(* an activity that is closed is silent for good.                          *)
(***************************************************************************)
CONSTANTS
    Activity,
    Nobody      \* not an Activity

VARIABLES
    open,       \* the activity on screen, or Nobody
    searching,  \* a search of the activity has not been answered
    sought,     \* a seek to an answered position is under way
    audible     \* the translation is heard

sessionVars == <<open, searching, sought, audible>>

Set(f, a, b) == [f EXCEPT ![a] = b]

Start ==
    /\ open = Nobody
    /\ searching = [a \in Activity |-> FALSE]
    /\ sought = [a \in Activity |-> FALSE]
    /\ audible = [a \in Activity |-> FALSE]

(* Only an activity with nothing left over is opened.                      *)
Open(a) ==
    /\ open = Nobody
    /\ ~searching[a] /\ ~sought[a] /\ ~audible[a]
    /\ open' = a
    /\ UNCHANGED <<searching, sought, audible>>

(* A closed activity may still be waiting for an answer or a seek.         *)
Close(a) ==
    /\ open = a
    /\ open' = Nobody
    /\ audible' = Set(audible, a, FALSE)
    /\ UNCHANGED <<searching, sought>>

Search(a) ==
    /\ open = a
    /\ ~searching[a]
    /\ searching' = Set(searching, a, TRUE)
    /\ UNCHANGED <<open, sought, audible>>

NotFound(a) ==
    /\ searching[a]
    /\ searching' = Set(searching, a, FALSE)
    /\ UNCHANGED <<open, sought, audible>>

Found(a) ==
    /\ searching[a]
    /\ open = a
    /\ searching' = Set(searching, a, FALSE)
    /\ sought' = Set(sought, a, TRUE)
    /\ UNCHANGED <<open, audible>>

(* The seek is done: an open activity is heard from there.                 *)
Hear(a) ==
    /\ open = a
    /\ sought[a]
    /\ sought' = Set(sought, a, FALSE)
    /\ audible' = Set(audible, a, TRUE)
    /\ UNCHANGED <<open, searching>>

(* Sound and seek may end at any time: stop, end of track, another track,  *)
(* a failure of the player.                                                *)
Hush(a) ==
    /\ audible' = Set(audible, a, FALSE)
    /\ \/ sought' = sought
       \/ sought' = Set(sought, a, FALSE)
    /\ UNCHANGED <<open, searching>>

SessionNext ==
    \E a \in Activity :
        Open(a) \/ Close(a) \/ Search(a) \/ NotFound(a) \/ Found(a) \/ Hear(a) \/ Hush(a)

SessionSpec == Start /\ [][SessionNext]_sessionVars
==============================================================================
