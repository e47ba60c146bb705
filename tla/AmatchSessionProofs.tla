-------------------------- MODULE AmatchSessionProofs --------------------------
(***************************************************************************)
(* AmatchApp implements SyncSession, for every value of the constants.     *)
(***************************************************************************)
EXTENDS AmatchSession, AmatchAppProofs

USE NoneAssumption, FoundIndexAssumption, ElapsedAssumption

LEMMA SessionStarts == Init => Session!Start
<1>1. ASSUME Init
      PROVE  /\ [i \in Instance |-> seek[i] # NoSeek] = [i \in Instance |-> FALSE]
             /\ [i \in Instance |-> player[i] = "started"]
                  = [i \in Instance |-> FALSE]
  BY <1>1 DEF Init, PlayerInit
<1> QED
  BY <1>1 DEF Init, Session!Start

(* A step that leaves these alone is not seen.                             *)
LEMMA SessionStutters ==
  ASSUME UNCHANGED <<live, isMatching, player, seek>>
  PROVE  UNCHANGED Session!sessionVars
  BY DEF Session!sessionVars

(* A player that stops and a seek that is dropped are a Hush.              *)
LEMMA SessionHushes ==
  ASSUME NEW i \in Instance, NEW p, NEW s,
         player' = [player EXCEPT ![i] = p], p # "started",
         seek' = seek \/ seek' = [seek EXCEPT ![i] = NoSeek],
         UNCHANGED <<live, isMatching>>, PlayerTypeOK
  PROVE  Session!Hush(i)
  BY DEF Session!Hush, Session!Set, PlayerTypeOK

(* The answer to a search: only a player that plays for a live activity    *)
(* takes the seek.                                                         *)
LEMMA SessionAnswers ==
  ASSUME NEW i \in Instance, NEW n \in Nat, PlayFound(i, n), isMatching[i],
         isMatching' = [isMatching EXCEPT ![i] = FALSE], UNCHANGED live,
         TypeOK, PlayerInv
  PROVE  Session!Found(i) \/ Session!NotFound(i)
<1> USE DEF TypeOK, PlayerTypeOK, ActivityTypeOK, Session!Set
<1>1. CASE UNCHANGED playerVars
  BY <1>1 DEF Session!NotFound, playerVars
<1>2. CASE ~UNCHANGED playerVars
  <2>1. PICK e \in Elapsed :
          /\ player' = [player EXCEPT ![i] = AfterCall(i, Seekable, @)]
          /\ seek' = [seek EXCEPT ![i] =
               IF player[i] \in Seekable THEN calculated_ms(n, e) ELSE @]
    BY <1>2 DEF PlayFound, IsFound
  <2>2. calculated_ms(n, e) # NoSeek
    BY CalculatedType DEF NoSeek
  <2>3. CASE player[i] \in Seekable
    <3>1. live = i
      BY <2>3 DEF PlayerInv, DeadIsStopped, Seekable
    <3>2. player' = player
      BY <2>1, <2>3 DEF AfterCall
    <3>3. [a \in Instance |-> seek'[a] # NoSeek]
            = [[a \in Instance |-> seek[a] # NoSeek] EXCEPT ![i] = TRUE]
      BY <2>1, <2>2, <2>3
    <3> QED
      BY <3>1, <3>2, <3>3 DEF Session!Found
  <2>4. CASE player[i] \notin Seekable
    <3>1. player' = [player EXCEPT ![i] = "error"] /\ seek' = seek
      BY <2>1, <2>4 DEF AfterCall
    <3>2. player[i] # "started"
      BY <2>4 DEF Seekable
    <3> QED
      BY <3>1, <3>2 DEF Session!NotFound
  <2> QED
    BY <2>3, <2>4
<1> QED
  BY <1>1, <1>2

LEMMA SessionSteps ==
  ASSUME TypeOK, PlayerInv, WorkerInv, [Next]_vars
  PROVE  [Session!SessionNext]_(Session!sessionVars)
<1> DEFINE Seen == [Session!SessionNext]_(Session!sessionVars)
<1> USE DEF TypeOK, PlayerTypeOK, ActivityTypeOK, Session!Set
<1>1. CASE UNCHANGED vars
  BY <1>1, SessionStutters DEF vars, playerVars, activityVars
<1>2. ASSUME NEW i \in Instance, onCreate(i) PROVE Session!Open(i)
  <2>1. ~isMatching[i]
    BY <1>2 DEF onCreate, Quiescent, WorkerInv, MatchingFlagExact
  <2>2. player[i] # "started" /\ seek[i] = NoSeek
    BY <1>2 DEF onCreate, Quiescent, PlayerInv, DeadIsStopped
  <2>3. /\ live = None /\ live' = i
        /\ isMatching' = [isMatching EXCEPT ![i] = FALSE]
        /\ player' = [player EXCEPT ![i] = "null"]
        /\ seek' = [seek EXCEPT ![i] = NoSeek]
    BY <1>2 DEF onCreate, NewPlayer
  <2>4. isMatching' = isMatching /\ seek' = seek
    BY <2>1, <2>2, <2>3
  <2>5. [a \in Instance |-> player'[a] = "started"]
          = [a \in Instance |-> player[a] = "started"]
    BY <2>2, <2>3
  <2> QED
    BY <2>1, <2>2, <2>3, <2>4, <2>5 DEF Session!Open
<1>3. ASSUME NEW i \in Instance, onDestroy(i) PROVE Session!Close(i)
  <2>1. /\ live = i /\ live' = None
        /\ isMatching' = isMatching
        /\ seek' = seek
        /\ \E p \in {"null", "stopped", "error"} :
             player' = [player EXCEPT ![i] = p]
    BY <1>3 DEF onDestroy, finish, StopPlayer, AfterCall
  <2> QED
    BY <2>1 DEF Session!Close
<1>4. ASSUME NEW i \in Instance, NEW r \in Recorder, btn_start_searchClick(i, r)
      PROVE  Session!Search(i)
  BY <1>4 DEF btn_start_searchClick, CanClick, MayStart, playerVars,
     Session!Search
<1>5. ASSUME NEW i \in Instance, TranslationChosen(i) PROVE Seen
  <2>1. CASE UNCHANGED playerVars
    BY <1>5, <2>1, SessionStutters DEF TranslationChosen, playerVars
  <2>2. CASE createMediaPlayerForTranslation(i)
    <3>1. Session!Hush(i)
      BY <1>5, <2>2, SessionHushes DEF TranslationChosen,
         createMediaPlayerForTranslation
    <3> QED
      BY <3>1 DEF Session!SessionNext
  <2> QED
    BY <1>5, <2>1, <2>2 DEF TranslationChosen
<1>6. ASSUME NEW i \in Instance, btn_stopClick(i) PROVE Session!Hush(i)
  <2>1. \E p \in {"paused", "error"} : player' = [player EXCEPT ![i] = p]
    BY <1>6 DEF btn_stopClick, StopPlaying, AfterCall
  <2> QED
    BY <1>6, <2>1, SessionHushes DEF btn_stopClick, StopPlaying, activityVars
<1>7. ASSUME NEW i \in Instance, PlayerStep(i) PROVE Seen
  <2>1. live' = live /\ isMatching' = isMatching
    BY <1>7 DEF PlayerStep, activityVars
  <2>2. CASE onPrepared(i) \/ onError(i) \/ PlaybackCompletes(i) \/ SeekIsLost(i)
    <3>1. \E p \in {"prepared", "error", "completed"} :
            player' = [player EXCEPT ![i] = p]
      BY <2>2 DEF onPrepared, onError, PlaybackCompletes, SeekIsLost
    <3>2. seek' = seek \/ seek' = [seek EXCEPT ![i] = NoSeek]
      BY <2>2 DEF onPrepared, onError, PlaybackCompletes, SeekIsLost
    <3>3. Session!Hush(i)
      BY <2>1, <3>1, <3>2, SessionHushes
    <3> QED
      BY <3>3 DEF Session!SessionNext
  <2>3. CASE onSeekComplete(i)
    <3>1. /\ seek[i] # NoSeek
          /\ seek' = [seek EXCEPT ![i] = NoSeek]
          /\ player' = [player EXCEPT ![i] = AfterCall(i, Seekable, "started")]
      BY <2>3 DEF onSeekComplete, StartPlayback
    <3>2. CASE player[i] \in Seekable
      <4>1. live = i
        BY <3>2 DEF PlayerInv, DeadIsStopped, Seekable
      <4>2. Session!Hear(i)
        BY <2>1, <3>1, <3>2, <4>1 DEF Session!Hear, AfterCall
      <4> QED
        BY <4>2 DEF Session!SessionNext
    <3>3. CASE player[i] \notin Seekable
      <4>1. Session!Hush(i)
        BY <2>1, <3>1, <3>3, SessionHushes DEF AfterCall
      <4> QED
        BY <4>1 DEF Session!SessionNext
    <3> QED
      BY <3>2, <3>3
  <2> QED
    BY <1>7, <2>2, <2>3 DEF PlayerStep
<1>8. ASSUME NEW r \in Recorder, HandleFoundIndex(r) PROVE Seen
  <2>1. PICK i \in Instance, n \in MatchResult : rowner[r] = i /\ found[r] = n
    BY <1>8 DEF HandleFoundIndex, RecorderTypeOK
  <2>2. /\ r \in Recording
        /\ UNCHANGED live
        /\ isMatching' = [isMatching EXCEPT ![i] = FALSE]
        /\ PlayFound(i, n)
    BY <1>8, <2>1 DEF HandleFoundIndex, SearchEnds, Recording
  <2>3. isMatching[i]
    BY <2>1, <2>2 DEF WorkerInv, MatchingFlagExact
  <2>4. n \in Nat
    BY DEF MatchResult
  <2>5. Session!Found(i) \/ Session!NotFound(i)
    BY <2>2, <2>3, <2>4, SessionAnswers
  <2> QED
    BY <2>5 DEF Session!SessionNext
<1>9. ASSUME NEW r \in Recorder, RecorderStep(r) PROVE Seen
  BY <1>9, RecorderFrame, SessionStutters DEF playerVars, activityVars
<1>10. ASSUME NEW l \in Loader, LoaderStep(l) \/ HandleLoaded(l) PROVE Seen
  BY <1>10, LoaderFrame, SessionStutters DEF playerVars, activityVars
<1>11. ASSUME NEW i \in Instance, ActivityStep(i) PROVE Seen
  <2>1. CASE \/ \E kind \in FileKind : OpenDialog(i, kind)
             \/ DialogCanceled(i)
             \/ \E l \in Loader : FpkeysChosen(i, l)
    BY <2>1, SessionStutters DEF OpenDialog, SelectFor, DialogCanceled,
       FpkeysChosen, playerVars
  <2> QED
    BY <1>2, <1>3, <1>4, <1>5, <1>6, <1>11, <2>1 DEF ActivityStep,
       Session!SessionNext
<1> QED
  BY <1>1, <1>7, <1>8, <1>9, <1>10, <1>11 DEF Next

(* What the user sees of the application, with any number of activities,   *)
(* threads and stacked dialogs, is a behaviour of SyncSession.             *)
THEOREM SessionImplemented == Spec => ImplementsSession
<1>1. TypeOK /\ PlayerInv /\ WorkerInv /\ [Next]_vars
        => [Session!SessionNext]_(Session!sessionVars)
  BY SessionSteps
<1> QED
  BY SessionStarts, <1>1, TypeCorrect, PlayerInvAlways, WorkersAlways, PTL
     DEF Spec, ImplementsSession, Session!SessionSpec
===============================================================================
