-------------------------- MODULE TranslationPlayer --------------------------
(***************************************************************************)
(* The translation track of an activity: the android MediaPlayer it owns   *)
(* and the fields and callbacks of AmatchTestActivity that follow it.      *)
(*                                                                         *)
(* The MediaPlayer itself is external: it is modelled by what the activity *)
(* relies on, a state that decides which calls it accepts.  A call in a    *)
(* state that does not accept it puts the player in error ("Error -38" in  *)
(* onError) and has no other effect.                                       *)
(***************************************************************************)
EXTENDS Integers

CONSTANTS
    Instance,       \* activity objects of the process
    Duration,       \* lengths in ms of the translation tracks
    Elapsed,        \* ms between the start of a recording and its result
    MinIndex        \* found indexes up to this one count as "Not found" (10)

ASSUME DurationAssumption == Duration \subseteq Nat
ASSUME ElapsedAssumption == Elapsed \subseteq Nat
ASSUME MinIndexAssumption == MinIndex \in Nat

VARIABLES
    player,         \* state of mp, "null" before it is made
    isMediaPlayerReady,
    isMediaPlayerPlaying,
    translationMaxDuration_ms,
    seek            \* position of the seek under way, NoSeek when none is

playerVars == <<player, isMediaPlayerReady, isMediaPlayerPlaying,
                translationMaxDuration_ms, seek>>

NoSeek == -1
Seekable == {"prepared", "started", "paused", "completed"}
PlayerState == Seekable \cup {"null", "preparing", "stopped", "error"}

PlayerTypeOK ==
    /\ player \in [Instance -> PlayerState]
    /\ isMediaPlayerReady \in [Instance -> BOOLEAN]
    /\ isMediaPlayerPlaying \in [Instance -> BOOLEAN]
    /\ translationMaxDuration_ms \in [Instance -> Nat]
    /\ seek \in [Instance -> Nat \cup {NoSeek}]

PlayerInit ==
    /\ player = [i \in Instance |-> "null"]
    /\ isMediaPlayerReady = [i \in Instance |-> FALSE]
    /\ isMediaPlayerPlaying = [i \in Instance |-> FALSE]
    /\ translationMaxDuration_ms = [i \in Instance |-> 0]
    /\ seek = [i \in Instance |-> NoSeek]

(* The fields of a new activity object.                                    *)
NewPlayer(i) ==
    /\ player' = [player EXCEPT ![i] = "null"]
    /\ isMediaPlayerReady' = [isMediaPlayerReady EXCEPT ![i] = FALSE]
    /\ isMediaPlayerPlaying' = [isMediaPlayerPlaying EXCEPT ![i] = FALSE]
    /\ translationMaxDuration_ms' = [translationMaxDuration_ms EXCEPT ![i] = 0]
    /\ seek' = [seek EXCEPT ![i] = NoSeek]

(* The state after a call that is legal in the states "accepts" only.      *)
AfterCall(i, accepts, new) == IF player[i] \in accepts THEN new ELSE "error"

(* createMediaPlayerForTranslation, once the name is accepted.  reset()    *)
(* drops the callbacks that are on their way.  The first call leaves       *)
(* isMediaPlayerReady alone.                                               *)
createMediaPlayerForTranslation(i) ==
    /\ isMediaPlayerPlaying' = [isMediaPlayerPlaying EXCEPT ![i] = FALSE]
    /\ isMediaPlayerReady' =
         [isMediaPlayerReady EXCEPT ![i] = @ /\ player[i] = "null"]
    /\ player' = [player EXCEPT ![i] = "preparing"]
    /\ seek' = [seek EXCEPT ![i] = NoSeek]
    /\ UNCHANGED translationMaxDuration_ms

(* prepareAsync completes.                                                 *)
onPrepared(i) ==
    /\ player[i] = "preparing"
    /\ player' = [player EXCEPT ![i] = "prepared"]
    /\ isMediaPlayerReady' = [isMediaPlayerReady EXCEPT ![i] = TRUE]
    /\ \E d \in Duration :
         translationMaxDuration_ms' = [translationMaxDuration_ms EXCEPT ![i] = d]
    /\ UNCHANGED <<isMediaPlayerPlaying, seek>>

(* The track cannot be prepared or played: onError returns FALSE and no    *)
(* field changes.                                                          *)
onError(i) ==
    /\ player[i] \in Seekable \cup {"preparing"}
    /\ player' = [player EXCEPT ![i] = "error"]
    /\ UNCHANGED <<isMediaPlayerReady, isMediaPlayerPlaying,
                   translationMaxDuration_ms, seek>>

(* The end of the track; no completion listener is registered.             *)
PlaybackCompletes(i) ==
    /\ player[i] = "started"
    /\ player' = [player EXCEPT ![i] = "completed"]
    /\ UNCHANGED <<isMediaPlayerReady, isMediaPlayerPlaying,
                   translationMaxDuration_ms, seek>>

(* start() and, after it, getDuration(), which gives no length in error.   *)
StartPlayback(i) ==
    /\ player' = [player EXCEPT ![i] = AfterCall(i, Seekable, "started")]
    /\ translationMaxDuration_ms' = [translationMaxDuration_ms EXCEPT
         ![i] = IF player[i] \in Seekable THEN @ ELSE 0]

(* Mutant: the flag is left to the stop button.                            *)
onSeekComplete_Unflagged(i) ==
    /\ seek[i] # NoSeek
    /\ seek' = [seek EXCEPT ![i] = NoSeek]
    /\ StartPlayback(i)
    /\ UNCHANGED <<isMediaPlayerReady, isMediaPlayerPlaying>>

onSeekComplete(i) ==
    /\ seek[i] # NoSeek
    /\ seek' = [seek EXCEPT ![i] = NoSeek]
    /\ isMediaPlayerPlaying' = [isMediaPlayerPlaying EXCEPT ![i] = TRUE]
    /\ StartPlayback(i)
    /\ UNCHANGED isMediaPlayerReady

(* A player in error may never report the seek.                            *)
SeekIsLost(i) ==
    /\ seek[i] # NoSeek
    /\ player[i] = "error"
    /\ seek' = [seek EXCEPT ![i] = NoSeek]
    /\ UNCHANGED <<player, isMediaPlayerReady, isMediaPlayerPlaying,
                   translationMaxDuration_ms>>

(* btn_stopClick.                                                          *)
StopPlaying(i) ==
    /\ isMediaPlayerPlaying[i]
    /\ isMediaPlayerPlaying' = [isMediaPlayerPlaying EXCEPT ![i] = FALSE]
    /\ player' = [player EXCEPT
         ![i] = AfterCall(i, {"started", "paused", "completed"}, "paused")]
    /\ UNCHANGED <<isMediaPlayerReady, translationMaxDuration_ms, seek>>

(* Mutant: the player is paused, which a seek under way undoes.            *)
StopPlayer_Paused(i) ==
    /\ player' = [player EXCEPT ![i] =
         IF @ = "null" THEN @ ELSE AfterCall(i, Seekable, "paused")]
    /\ isMediaPlayerReady' = [isMediaPlayerReady EXCEPT ![i] = FALSE]
    /\ UNCHANGED <<isMediaPlayerPlaying, translationMaxDuration_ms, seek>>

(* What onDestroy does to the player.                                      *)
StopPlayer(i) ==
    /\ player' = [player EXCEPT ![i] =
         IF @ = "null" THEN @
         ELSE AfterCall(i, Seekable \cup {"stopped"}, "stopped")]
    /\ isMediaPlayerReady' = [isMediaPlayerReady EXCEPT ![i] = FALSE]
    /\ UNCHANGED <<isMediaPlayerPlaying, translationMaxDuration_ms, seek>>

(* Mutant: start and end of the recording swapped.                         *)
calculated_ms_Reversed(index, elapsed) ==
    ((index * 128) \div 11025) * 1000 - elapsed + 500

(* A key covers 128 samples of 11025 a second (SEC_PER_KEY); the cast in   *)
(* "(long)found_sec*1000" drops the fraction of a second first.            *)
calculated_ms(index, elapsed) == ((index * 128) \div 11025) * 1000 + elapsed + 500

(* Mutant: no upper limit.                                                 *)
IsFound_Unbounded(i, index, ms) == index > MinIndex

(* An index counts as a match when it is not too small and its position is *)
(* inside the track.                                                       *)
IsFound(i, index, ms) ==
    /\ index > MinIndex
    /\ ms < translationMaxDuration_ms[i]

(* player_thread_handler: play_translation seeks to what was found.        *)
PlayFound(i, index) ==
    \E e \in Elapsed :
      LET ms == calculated_ms(index, e) IN
      IF IsFound(i, index, ms)
      THEN /\ player' = [player EXCEPT ![i] = AfterCall(i, Seekable, @)]
           /\ seek' = [seek EXCEPT
                ![i] = IF player[i] \in Seekable THEN ms ELSE @]
           /\ UNCHANGED <<isMediaPlayerReady, isMediaPlayerPlaying,
                          translationMaxDuration_ms>>
      ELSE UNCHANGED playerVars
==============================================================================
