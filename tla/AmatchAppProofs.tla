--------------------------- MODULE AmatchAppProofs ---------------------------
(***************************************************************************)
(* Theorems about AmatchApp for every number of activities, threads,       *)
(* dialogs, keys and samples.                                              *)
(***************************************************************************)
EXTENDS AmatchApp, TLAPS

USE CapacityAssumption, IndexFilesAssumption, FoundIndexAssumption, ZeroAssumption,
    DurationAssumption, ElapsedAssumption, MinIndexAssumption,
    MinBytesAssumption, MaxDialogsAssumption, NoneAssumption

-----------------------------------------------------------------------------
(* Type correctness.                                                       *)

LEMMA InitTypeOK == Init => TypeOK
  BY DEF Init, ContextInit, PlayerInit, TypeOK, ContextTypeOK, PlayerTypeOK,
     ActivityTypeOK, RecorderTypeOK, LoaderTypeOK, Slot, Sample, PlayerState,
     NoSeek, FileKind, RecorderState, LoaderState, MatchResult

(* What the steps of the threads leave alone.                              *)
LEMMA RecorderFrame ==
  ASSUME NEW r \in Recorder, RecorderStep(r)
  PROVE  UNCHANGED <<playerVars, activityVars, loaderVars, recorder_thread, rowner,
                     interrupted>>
  BY DEF RecorderStep, ClearSamples, ReadMicrophone, LeaveLoop, PutSample,
     EndOfBlock, CheckSamples, ClearKeys, InsertKeys, MatchNothing, StartMatch,
     EndMatch

(* A thread that takes a step is at work, and still is after it: only the  *)
(* looper ends its work.                                                   *)
LEMMA RecorderWorks ==
  ASSUME TypeOK, NEW r \in Recorder, RecorderStep(r)
  PROVE  r \in Recording /\ Recording' = Recording
<1>1. /\ rpc[r] # "idle"
      /\ \E to \in RecorderState \ {"idle"} : rpc' = [rpc EXCEPT ![r] = to]
  <2>1. CASE PutSample(r)
    <3>1. rpc' = [rpc EXCEPT ![r] = "put"]
      BY <2>1 DEF PutSample, TypeOK, RecorderTypeOK
    <3> QED
      BY <2>1, <3>1 DEF PutSample, RecorderState
  <2>2. CASE ~PutSample(r)
    BY <2>2 DEF RecorderStep, ClearSamples, ReadMicrophone, LeaveLoop,
       EndOfBlock, CheckSamples, ClearKeys, InsertKeys, MatchNothing,
       StartMatch, EndMatch, Goto, RecorderState
  <2> QED
    BY <2>1, <2>2
<1> QED
  BY <1>1 DEF Recording, TypeOK, RecorderTypeOK

LEMMA LoaderFrame ==
  ASSUME NEW l \in Loader, LoaderStep(l) \/ HandleLoaded(l)
  PROVE  /\ UNCHANGED <<playerVars, recorderVars, live, isMatching, btnLoadFpkeys,
                        btnLoadTranslation, selecting, dialogs, rec_keys, bufferVars>>
         /\ LoaderStep(l) => UNCHANGED btnStartSearch
  BY DEF LoaderStep, ReadKey, push_track_key, EndOfKeys, PostLoaded,
     HandleLoaded, ctxVars, activityVars, bufferVars

(* The context: four of its functions change it.                           *)
LEMMA ContextTypeStep ==
  ASSUME TypeOK, [Next]_vars
  PROVE  ContextTypeOK'
<1> USE DEF ContextTypeOK, ctxVars, bufferVars
<1>1. CASE UNCHANGED ctxVars
  BY <1>1 DEF TypeOK
<1>2. ASSUME NEW r \in Recorder, ClearSamples(r) PROVE ContextTypeOK'
  BY <1>2 DEF TypeOK, ClearSamples, clear_recorded_samples, Sample
<1>3. ASSUME NEW r \in Recorder, PutSample(r) PROVE ContextTypeOK'
  <2>1. PICK a \in {index[r], recorded_samples} : put_recorded_sample(r, a)
    BY <1>3 DEF PutSample
  <2>2. a \in Nat
    BY DEF TypeOK, RecorderTypeOK
  <2> QED
    BY <2>1, <2>2 DEF TypeOK, put_recorded_sample, Sample
<1>4. ASSUME NEW r \in Recorder, clear_rec_keys PROVE ContextTypeOK'
  BY <1>4 DEF TypeOK, clear_rec_keys
<1>5. ASSUME NEW r \in Recorder, InsertKeys(r) PROVE ContextTypeOK'
  <2>1. KeysOfBuffer \in SUBSET Sample
    BY DEF TypeOK, KeysOfBuffer
  <2> QED
    BY <1>5, <2>1 DEF TypeOK, InsertKeys, insert_rec_keys
<1>6. ASSUME NEW l \in Loader, ReadKey(l) PROVE ContextTypeOK'
  BY <1>6 DEF TypeOK, ReadKey, push_track_key
<1>7. ASSUME NEW i \in Instance, ActivityStep(i) \/ PlayerStep(i)
      PROVE  UNCHANGED ctxVars
  BY <1>7 DEF ActivityStep, PlayerStep, onCreate, onDestroy, finish, OpenDialog,
     SelectFor, DialogCanceled, FpkeysChosen, TranslationChosen,
     StartTranslation, btn_stopClick, btn_start_searchClick, MayStart
<1>8. ASSUME NEW r \in Recorder, RecorderStep(r) \/ HandleFoundIndex(r)
      PROVE  ContextTypeOK'
  BY <1>1, <1>2, <1>3, <1>4, <1>5, <1>8 DEF RecorderStep, HandleFoundIndex,
     SearchEnds, ReadMicrophone, LeaveLoop, EndOfBlock, CheckSamples,
     RecordedEnough, ClearKeys, MatchNothing, StartMatch, EndMatch
<1>9. ASSUME NEW l \in Loader, LoaderStep(l) \/ HandleLoaded(l)
      PROVE  ContextTypeOK'
  BY <1>1, <1>6, <1>9 DEF LoaderStep, EndOfKeys, PostLoaded, HandleLoaded,
     EnableSearch
<1> QED
  BY <1>1, <1>7, <1>8, <1>9 DEF Next, vars

(* The player of one activity at a time.                                   *)
LEMMA CalculatedType ==
  ASSUME NEW n \in Nat, NEW e \in Nat
  PROVE  calculated_ms(n, e) \in Nat
<1>1. (n * 128) \div 11025 \in Nat
  <2>1. n * 128 \in Nat
    OBVIOUS
  <2> QED
    BY <2>1
<1> QED
  BY <1>1 DEF calculated_ms

LEMMA PlayFoundType ==
  ASSUME PlayerTypeOK, NEW i \in Instance, NEW n \in Nat, PlayFound(i, n)
  PROVE  PlayerTypeOK'
<1>1. PICK e \in Elapsed :
        \/ /\ player' = [player EXCEPT ![i] = AfterCall(i, Seekable, @)]
           /\ seek' = [seek EXCEPT ![i] =
                IF player[i] \in Seekable THEN calculated_ms(n, e) ELSE @]
           /\ UNCHANGED <<isMediaPlayerReady, isMediaPlayerPlaying,
                          translationMaxDuration_ms>>
        \/ UNCHANGED playerVars
  BY DEF PlayFound, IsFound
<1>2. calculated_ms(n, e) \in Nat
  BY CalculatedType
<1> QED
  BY <1>1, <1>2 DEF PlayerTypeOK, playerVars, AfterCall, PlayerState, Seekable

LEMMA PlayerTypeStep ==
  ASSUME TypeOK, [Next]_vars
  PROVE  PlayerTypeOK'
<1> USE DEF PlayerTypeOK, PlayerState, Seekable, AfterCall
<1>1. CASE UNCHANGED playerVars
  BY <1>1 DEF TypeOK, playerVars
<1>2. ASSUME NEW i \in Instance, onCreate(i) PROVE PlayerTypeOK'
  BY <1>2 DEF TypeOK, onCreate, NewPlayer
<1>3. ASSUME NEW i \in Instance, onDestroy(i) PROVE PlayerTypeOK'
  BY <1>3 DEF TypeOK, onDestroy, finish, StopPlayer
<1>4. ASSUME NEW i \in Instance, TranslationChosen(i) PROVE PlayerTypeOK'
  BY <1>1, <1>4 DEF TypeOK, TranslationChosen, StartTranslation,
     createMediaPlayerForTranslation
<1>5. ASSUME NEW i \in Instance, btn_stopClick(i) PROVE PlayerTypeOK'
  BY <1>5 DEF TypeOK, btn_stopClick, StopPlaying
<1>6. ASSUME NEW i \in Instance, PlayerStep(i) PROVE PlayerTypeOK'
  <2>1. CASE onPrepared(i)
    BY <2>1 DEF TypeOK, onPrepared
  <2>2. CASE onError(i) \/ PlaybackCompletes(i) \/ SeekIsLost(i)
    BY <2>2 DEF TypeOK, onError, PlaybackCompletes, SeekIsLost
  <2>3. CASE onSeekComplete(i)
    BY <2>3 DEF TypeOK, onSeekComplete, StartPlayback
  <2> QED
    BY <1>6, <2>1, <2>2, <2>3 DEF PlayerStep
<1>7. ASSUME NEW r \in Recorder, HandleFoundIndex(r) PROVE PlayerTypeOK'
  BY <1>7, PlayFoundType DEF TypeOK, HandleFoundIndex, SearchEnds,
     RecorderTypeOK, MatchResult
<1>8. ASSUME NEW i \in Instance, ActivityStep(i) PROVE PlayerTypeOK'
  BY <1>1, <1>2, <1>3, <1>4, <1>5, <1>8 DEF ActivityStep, OpenDialog, SelectFor,
     DialogCanceled, FpkeysChosen, btn_start_searchClick, MayStart
<1>9. ASSUME NEW r \in Recorder, RecorderStep(r) PROVE UNCHANGED playerVars
  BY <1>9, RecorderFrame
<1>10. ASSUME NEW l \in Loader, LoaderStep(l) \/ HandleLoaded(l)
       PROVE  UNCHANGED playerVars
  BY <1>10, LoaderFrame
<1> QED
  BY <1>1, <1>6, <1>7, <1>8, <1>9, <1>10 DEF Next, vars

(* The activity: its fields and the dialogs above it.                      *)
LEMMA CloseDialogType ==
  ASSUME dialogs \in Seq(FileKind), CloseDialog
  PROVE  dialogs' \in Seq(FileKind)
  BY DEF CloseDialog

LEMMA ActivityTypeStep ==
  ASSUME TypeOK, [Next]_vars
  PROVE  ActivityTypeOK'
<1> USE DEF ActivityTypeOK, FileKind
<1>1. CASE UNCHANGED activityVars
  BY <1>1 DEF TypeOK, activityVars
<1>2. ASSUME NEW i \in Instance, ActivityStep(i) PROVE ActivityTypeOK'
  <2>1. CASE onCreate(i)
    BY <2>1 DEF TypeOK, onCreate
  <2>2. CASE onDestroy(i)
    BY <2>2 DEF TypeOK, onDestroy, finish
  <2>3. CASE \E kind \in FileKind : OpenDialog(i, kind)
    BY <2>3 DEF TypeOK, OpenDialog, SelectFor
  <2>4. CASE DialogCanceled(i)
    BY <2>4, CloseDialogType DEF TypeOK, DialogCanceled
  <2>5. CASE \E l \in Loader : FpkeysChosen(i, l)
    BY <2>5, CloseDialogType DEF TypeOK, FpkeysChosen, btn_load_fpkeysClick,
       StartLoading
  <2>6. CASE TranslationChosen(i)
    BY <2>6, CloseDialogType DEF TypeOK, TranslationChosen, StartTranslation
  <2>7. CASE btn_stopClick(i)
    BY <1>1, <2>7 DEF btn_stopClick
  <2>8. CASE \E r \in Recorder : btn_start_searchClick(i, r)
    BY <2>8 DEF TypeOK, btn_start_searchClick, MayStart
  <2> QED
    BY <1>2, <2>1, <2>2, <2>3, <2>4, <2>5, <2>6, <2>7, <2>8 DEF ActivityStep
<1>3. ASSUME NEW i \in Instance, PlayerStep(i) PROVE UNCHANGED activityVars
  BY <1>3 DEF PlayerStep
<1>4. ASSUME NEW r \in Recorder, RecorderStep(r) PROVE UNCHANGED activityVars
  BY <1>4, RecorderFrame
<1>5. ASSUME NEW r \in Recorder, HandleFoundIndex(r) PROVE ActivityTypeOK'
  BY <1>5 DEF TypeOK, HandleFoundIndex, SearchEnds
<1>6. ASSUME NEW l \in Loader, LoaderStep(l) \/ HandleLoaded(l)
      PROVE  ActivityTypeOK'
  BY <1>6, LoaderFrame DEF TypeOK, HandleLoaded, EnableSearch
<1> QED
  BY <1>1, <1>2, <1>3, <1>4, <1>5, <1>6 DEF Next, vars

LEMMA RecorderTypeStep ==
  ASSUME TypeOK, [Next]_vars
  PROVE  RecorderTypeOK'
<1> USE DEF RecorderTypeOK, RecorderState, Goto, MatchResult
<1>1. CASE UNCHANGED recorderVars
  BY <1>1 DEF TypeOK, recorderVars
<1>2. ASSUME NEW i \in Instance, ActivityStep(i) PROVE RecorderTypeOK'
  <2>1. CASE onDestroy(i)
    BY <2>1 DEF TypeOK, onDestroy, finish
  <2>2. CASE \E r \in Recorder : btn_start_searchClick(i, r)
    BY <2>2 DEF TypeOK, btn_start_searchClick, MayStart, Recording
  <2> QED
    BY <1>1, <1>2, <2>1, <2>2 DEF ActivityStep, onCreate, OpenDialog,
       SelectFor, DialogCanceled, FpkeysChosen, TranslationChosen,
       StartTranslation, btn_stopClick
<1>3. ASSUME NEW i \in Instance, PlayerStep(i) PROVE UNCHANGED recorderVars
  BY <1>3 DEF PlayerStep
<1>4. ASSUME NEW r \in Recorder, RecorderStep(r) PROVE RecorderTypeOK'
  <2>1. CASE \E b \in 0 .. MinBytes : ReadMicrophone(r, b)
    BY <2>1 DEF TypeOK, ContextTypeOK, ReadMicrophone
  <2>2. CASE PutSample(r)
    BY <2>2 DEF TypeOK, ContextTypeOK, PutSample
  <2>3. CASE CheckSamples(r)
    BY <2>3 DEF TypeOK, CheckSamples, RecordedEnough
  <2>4. CASE EndMatch(r)
    BY <2>4 DEF TypeOK, EndMatch
  <2>5. CASE ClearSamples(r) \/ LeaveLoop(r) \/ EndOfBlock(r) \/ ClearKeys(r)
             \/ InsertKeys(r) \/ MatchNothing(r) \/ StartMatch(r)
    BY <2>5 DEF TypeOK, ClearSamples, LeaveLoop, EndOfBlock, ClearKeys,
       InsertKeys, MatchNothing, StartMatch
  <2> QED
    BY <1>4, <2>1, <2>2, <2>3, <2>4, <2>5 DEF RecorderStep
<1>5. ASSUME NEW r \in Recorder, HandleFoundIndex(r) PROVE RecorderTypeOK'
  BY <1>5 DEF TypeOK, HandleFoundIndex, SearchEnds
<1>6. ASSUME NEW l \in Loader, LoaderStep(l) \/ HandleLoaded(l)
      PROVE  UNCHANGED recorderVars
  BY <1>6, LoaderFrame
<1> QED
  BY <1>1, <1>2, <1>3, <1>4, <1>5, <1>6 DEF Next, vars

LEMMA LoaderTypeStep ==
  ASSUME TypeOK, [Next]_vars
  PROVE  LoaderTypeOK'
<1> USE DEF LoaderTypeOK, LoaderState
<1>1. CASE UNCHANGED loaderVars
  BY <1>1 DEF TypeOK, loaderVars
<1>2. ASSUME NEW i \in Instance, ActivityStep(i) PROVE LoaderTypeOK'
  <2>1. CASE \E l \in Loader : FpkeysChosen(i, l)
    BY <2>1 DEF TypeOK, FpkeysChosen, btn_load_fpkeysClick, StartLoading,
       Loading
  <2> QED
    BY <1>1, <1>2, <2>1 DEF ActivityStep, onCreate, onDestroy, finish,
       OpenDialog, SelectFor, DialogCanceled, TranslationChosen,
       StartTranslation, btn_stopClick, btn_start_searchClick, MayStart
<1>3. ASSUME NEW i \in Instance, PlayerStep(i) PROVE UNCHANGED loaderVars
  BY <1>3 DEF PlayerStep
<1>4. ASSUME NEW r \in Recorder, RecorderStep(r) \/ HandleFoundIndex(r)
      PROVE  UNCHANGED loaderVars
  BY <1>4, RecorderFrame DEF HandleFoundIndex, SearchEnds
<1>5. ASSUME NEW l \in Loader, LoaderStep(l) \/ HandleLoaded(l)
      PROVE  LoaderTypeOK'
  BY <1>5 DEF TypeOK, LoaderStep, ReadKey, EndOfKeys, PostLoaded, HandleLoaded,
     EnableSearch
<1> QED
  BY <1>1, <1>2, <1>3, <1>4, <1>5 DEF Next, vars

(* Every variable keeps its type, and a thread has an owner exactly while  *)
(* it is at work.                                                          *)
THEOREM TypeCorrect == Spec => []TypeOK
<1>1. TypeOK /\ [Next]_vars => TypeOK'
  BY ContextTypeStep, PlayerTypeStep, ActivityTypeStep, RecorderTypeStep,
     LoaderTypeStep DEF TypeOK
<1> QED
  BY InitTypeOK, <1>1, PTL DEF Spec

-----------------------------------------------------------------------------
(* Recorder threads and the flag of their activity.                        *)

(* onDestroy reaches the thread at work only through recorder_thread: the  *)
(* field must name it, or the interrupt must have been delivered already.  *)
FieldNamesWorker ==
    \A r \in Recording : rowner[r] = live => recorder_thread[live] = r

WorkerInv ==
    /\ OneWorkerPerInstance
    /\ MatchingFlagExact
    /\ FieldNamesWorker
    /\ OrphansAreInterrupted

LEMMA WorkerInit == Init => WorkerInv
  BY DEF Init, WorkerInv, OneWorkerPerInstance, MatchingFlagExact,
     FieldNamesWorker, OrphansAreInterrupted, Recording

(* WorkerInv reads no more of the state than this.                         *)
LEMMA WorkerFrame ==
  ASSUME WorkerInv, TypeOK,
         UNCHANGED <<live, isMatching, recorder_thread, rowner, interrupted>>,
         Recording' = Recording
  PROVE  WorkerInv'
  BY DEF WorkerInv, OneWorkerPerInstance, MatchingFlagExact, FieldNamesWorker,
     OrphansAreInterrupted

LEMMA WorkerStep ==
  ASSUME TypeOK, WorkerInv, [Next]_vars
  PROVE  WorkerInv'
<1> DEFINE Frame == /\ UNCHANGED <<live, isMatching, recorder_thread, rowner,
                                    interrupted>>
                    /\ Recording' = Recording
<1> USE DEF TypeOK, RecorderTypeOK, ActivityTypeOK
<1>1. CASE UNCHANGED vars
  BY <1>1, WorkerFrame DEF vars, recorderVars, activityVars, Recording
<1>2. ASSUME NEW i \in Instance, onCreate(i) PROVE WorkerInv'
  BY <1>2 DEF onCreate, recorderVars, Quiescent, WorkerInv,
     OneWorkerPerInstance, MatchingFlagExact, FieldNamesWorker,
     OrphansAreInterrupted, Recording
<1>3. ASSUME NEW i \in Instance, onDestroy(i) PROVE WorkerInv'
  <2>1. /\ live = i /\ live' = None
        /\ Recording' = Recording
        /\ UNCHANGED <<isMatching, rowner>>
    BY <1>3 DEF onDestroy, finish, Recording
  <2>2. interrupted' = [r \in Recorder |-> interrupted[r] \/ r = recorder_thread[i]]
    BY <1>3 DEF onDestroy, finish
  <2>3. OneWorkerPerInstance' /\ MatchingFlagExact'
    BY <2>1 DEF WorkerInv, OneWorkerPerInstance, MatchingFlagExact
  <2>4. FieldNamesWorker'
    BY <2>1 DEF FieldNamesWorker, Recording
  <2>5. ASSUME NEW r \in Recording PROVE interrupted'[r]
    <3>1. interrupted[r] \/ r = recorder_thread[i]
      BY <2>1 DEF WorkerInv, FieldNamesWorker, OrphansAreInterrupted
    <3>2. r \in Recorder
      BY DEF Recording
    <3> QED
      BY <2>2, <3>1, <3>2, Zenon
  <2>6. OrphansAreInterrupted'
    BY <2>1, <2>5 DEF OrphansAreInterrupted
  <2> QED
    BY <2>3, <2>4, <2>6 DEF WorkerInv
<1>4. ASSUME NEW i \in Instance, NEW r \in Recorder, btn_start_searchClick(i, r)
      PROVE  WorkerInv'
  <2>1. /\ live = i /\ live' = i
        /\ r \notin Recording
        /\ Recording' = Recording \cup {r}
        /\ rowner' = [rowner EXCEPT ![r] = i]
        /\ isMatching' = [isMatching EXCEPT ![i] = TRUE]
        /\ recorder_thread' = [recorder_thread EXCEPT ![i] = r]
        /\ interrupted' = interrupted
    BY <1>4 DEF btn_start_searchClick, MayStart, CanClick, Recording
  <2>2. \A s \in Recording : rowner[s] # i
    BY <1>4 DEF btn_start_searchClick, MayStart, WorkerInv, MatchingFlagExact
  <2>3. OneWorkerPerInstance'
    BY <2>1, <2>2 DEF WorkerInv, OneWorkerPerInstance, Recording
  <2>4. MatchingFlagExact'
    BY <2>1, <2>2 DEF WorkerInv, MatchingFlagExact, Recording
  <2>5. FieldNamesWorker'
    BY <2>1, <2>2 DEF WorkerInv, FieldNamesWorker, Recording
  <2>6. OrphansAreInterrupted'
    BY <2>1, <2>2 DEF WorkerInv, OrphansAreInterrupted, Recording
  <2> QED
    BY <2>3, <2>4, <2>5, <2>6 DEF WorkerInv
<1>5. ASSUME NEW r \in Recorder, HandleFoundIndex(r) PROVE WorkerInv'
  <2>1. /\ r \in Recording
        /\ Recording' = Recording \ {r}
        /\ live' = live
        /\ rowner' = [rowner EXCEPT ![r] = None]
        /\ isMatching' = [isMatching EXCEPT ![rowner[r]] = FALSE]
        /\ recorder_thread' = [recorder_thread EXCEPT
                                 ![rowner[r]] = IF @ = r THEN None ELSE @]
        /\ interrupted' = [interrupted EXCEPT ![r] = FALSE]
    BY <1>5 DEF HandleFoundIndex, SearchEnds, Recording
  <2>2. rowner[r] \in Instance
    BY <2>1 DEF Recording
  <2>3. \A s \in Recording \ {r} : rowner[s] # rowner[r]
    BY <2>1 DEF WorkerInv, OneWorkerPerInstance
  <2>4. OneWorkerPerInstance'
    BY <2>1, <2>3 DEF WorkerInv, OneWorkerPerInstance, Recording
  <2>5. MatchingFlagExact'
    BY <2>1, <2>2, <2>3 DEF WorkerInv, MatchingFlagExact, Recording
  <2>6. FieldNamesWorker'
    BY <2>1, <2>2, <2>3 DEF WorkerInv, FieldNamesWorker, Recording
  <2>7. OrphansAreInterrupted'
    BY <2>1, <2>3 DEF WorkerInv, OrphansAreInterrupted, Recording
  <2> QED
    BY <2>4, <2>5, <2>6, <2>7 DEF WorkerInv
<1>6. ASSUME NEW r \in Recorder, RecorderStep(r) PROVE Frame
  BY <1>6, RecorderFrame, RecorderWorks DEF activityVars
<1>7. ASSUME NEW i \in Instance, PlayerStep(i) PROVE Frame
  BY <1>7 DEF PlayerStep, activityVars, recorderVars, Recording
<1>8. ASSUME NEW l \in Loader, LoaderStep(l) \/ HandleLoaded(l) PROVE Frame
  BY <1>8, LoaderFrame DEF activityVars, recorderVars, Recording
<1>9. ASSUME NEW i \in Instance, ActivityStep(i) PROVE WorkerInv'
  <2>1. CASE \/ \E kind \in FileKind : OpenDialog(i, kind)
             \/ DialogCanceled(i)
             \/ \E l \in Loader : FpkeysChosen(i, l)
             \/ TranslationChosen(i)
             \/ btn_stopClick(i)
    <3>1. Frame
      BY <2>1 DEF OpenDialog, SelectFor, DialogCanceled, FpkeysChosen,
         TranslationChosen, StartTranslation, btn_stopClick, activityVars,
         recorderVars, Recording
    <3> QED
      BY <3>1, WorkerFrame
  <2> QED
    BY <1>2, <1>3, <1>4, <1>9, <2>1 DEF ActivityStep
<1> QED
  BY <1>1, <1>5, <1>6, <1>7, <1>8, <1>9, WorkerFrame DEF Next

LEMMA WorkersAlways == Spec => []WorkerInv
<1>1. TypeOK /\ WorkerInv /\ [Next]_vars => WorkerInv'
  BY WorkerStep
<1> QED
  BY WorkerInit, <1>1, TypeCorrect, PTL DEF Spec

(* At most one recorder thread works for an activity, for any number of    *)
(* activities, threads and stacked dialogs.                                *)
THEOREM OneWorker == Spec => []OneWorkerPerInstance
  BY WorkersAlways, PTL DEF WorkerInv

(* The flag that serialises searches is exact: it is set while a search of *)
(* the activity runs and at no other time.                                 *)
THEOREM FlagIsExact == Spec => []MatchingFlagExact
  BY WorkersAlways, PTL DEF WorkerInv

(* Every recorder thread whose activity is gone has been interrupted.      *)
THEOREM OrphansInterrupted == Spec => []OrphansAreInterrupted
  BY WorkersAlways, PTL DEF WorkerInv

-----------------------------------------------------------------------------
(* The player.                                                             *)

(* The strengthening of DeadNeverPlays: the player of an activity that is  *)
(* not live accepts no call but a reset, which only a live activity makes. *)
DeadIsStopped ==
    \A i \in Instance : live # i => player[i] \in {"null", "stopped", "error"}

PlayerInv == DeadIsStopped /\ AudibleIsStoppable /\ SeekInBounds

LEMMA PlayerInvInit == Init => PlayerInv
  BY DEF Init, PlayerInit, PlayerInv, DeadIsStopped, AudibleIsStoppable,
     SeekInBounds

LEMMA PlayerInvFrame ==
  ASSUME PlayerInv, UNCHANGED <<playerVars, live>>
  PROVE  PlayerInv'
  BY DEF PlayerInv, DeadIsStopped, AudibleIsStoppable, SeekInBounds, playerVars

LEMMA PlayerInvStep ==
  ASSUME TypeOK, PlayerInv, [Next]_vars
  PROVE  PlayerInv'
<1> USE DEF TypeOK, PlayerTypeOK, PlayerInv, DeadIsStopped, AudibleIsStoppable,
            SeekInBounds, AfterCall, Seekable
<1>1. CASE UNCHANGED vars
  BY <1>1, PlayerInvFrame DEF vars, activityVars
<1>2. ASSUME NEW i \in Instance, onCreate(i) PROVE PlayerInv'
  BY <1>2 DEF onCreate, NewPlayer
<1>3. ASSUME NEW i \in Instance, onDestroy(i) PROVE PlayerInv'
  BY <1>3 DEF onDestroy, finish, StopPlayer
<1>4. ASSUME NEW i \in Instance, TranslationChosen(i) PROVE PlayerInv'
  BY <1>4, PlayerInvFrame DEF TranslationChosen, StartTranslation,
     createMediaPlayerForTranslation, NoSeek
<1>5. ASSUME NEW i \in Instance, btn_stopClick(i) PROVE PlayerInv'
  BY <1>5 DEF btn_stopClick, StopPlaying, activityVars
<1>6. ASSUME NEW i \in Instance, PlayerStep(i) PROVE PlayerInv'
  <2> live' = live
    BY <1>6 DEF PlayerStep, activityVars
  <2>1. CASE onPrepared(i)
    BY <2>1 DEF onPrepared
  <2>2. CASE onError(i)
    BY <2>2 DEF onError
  <2>3. CASE PlaybackCompletes(i)
    BY <2>3 DEF PlaybackCompletes
  <2>4. CASE onSeekComplete(i)
    BY <2>4 DEF onSeekComplete, StartPlayback, NoSeek
  <2>5. CASE SeekIsLost(i)
    BY <2>5 DEF SeekIsLost, NoSeek
  <2> QED
    BY <1>6, <2>1, <2>2, <2>3, <2>4, <2>5 DEF PlayerStep
<1>7. ASSUME NEW r \in Recorder, HandleFoundIndex(r) PROVE PlayerInv'
  <2>1. live' = live /\ PlayFound(rowner[r], found[r])
    BY <1>7 DEF HandleFoundIndex, SearchEnds
  <2>2. rowner[r] \in Instance
    BY <1>7 DEF HandleFoundIndex, SearchEnds, RecorderTypeOK
  <2> QED
    BY <2>1, <2>2, PlayerInvFrame DEF PlayFound, IsFound
<1>8. ASSUME NEW i \in Instance, ActivityStep(i) PROVE PlayerInv'
  BY <1>2, <1>3, <1>4, <1>5, <1>8, PlayerInvFrame DEF ActivityStep, OpenDialog,
     SelectFor, DialogCanceled, FpkeysChosen, btn_start_searchClick, MayStart
<1>9. ASSUME NEW r \in Recorder, RecorderStep(r) PROVE PlayerInv'
  BY <1>9, PlayerInvFrame, RecorderFrame DEF activityVars
<1>10. ASSUME NEW l \in Loader, LoaderStep(l) \/ HandleLoaded(l) PROVE PlayerInv'
  BY <1>10, PlayerInvFrame, LoaderFrame DEF activityVars
<1> QED
  BY <1>1, <1>6, <1>7, <1>8, <1>9, <1>10 DEF Next

LEMMA PlayerInvAlways == Spec => []PlayerInv
<1>1. TypeOK /\ PlayerInv /\ [Next]_vars => PlayerInv'
  BY PlayerInvStep
<1> QED
  BY PlayerInvInit, <1>1, TypeCorrect, PTL DEF Spec

(* A destroyed activity is silent, whatever results, seeks and player      *)
(* callbacks reach it later.                                               *)
THEOREM DeadIsSilent == Spec => []DeadNeverPlays
<1>1. PlayerInv => DeadNeverPlays
  BY DEF PlayerInv, DeadIsStopped, DeadNeverPlays
<1> QED
  BY <1>1, PlayerInvAlways, PTL

(* The stop button works whenever something is heard.                      *)
THEOREM PlayingFlagCovers == Spec => []AudibleIsStoppable
  BY PlayerInvAlways, PTL DEF PlayerInv

(* No seek is under way outside the track that is loaded.                  *)
THEOREM SeeksAreInBounds == Spec => []SeekInBounds
  BY PlayerInvAlways, PTL DEF PlayerInv

(* What keeps the player of a search when dialogs do not stack: the        *)
(* buttons that open a dialog are disabled by then, and no dialog is open. *)
(* The first two conjuncts say that mp exists when it is used.             *)
SearchLocksDialogs ==
    \A i \in Instance :
        /\ player[i] = "null" =>
             ~isMediaPlayerPlaying[i] /\ seek[i] = NoSeek /\ ~isMatching[i]
        /\ player[i] # "null" => ~btnLoadTranslation[i]
        /\ isMediaPlayerReady[i] => player[i] \in Seekable \cup {"error"}
        /\ isMatching[i] /\ live = i =>
             isMediaPlayerReady[i] /\ ~btnLoadFpkeys[i] /\ dialogs = <<>>

LEMMA SearchLocksInit == Init => SearchLocksDialogs
  BY DEF Init, PlayerInit, SearchLocksDialogs

LEMMA SearchLocksFrame ==
  ASSUME SearchLocksDialogs,
         UNCHANGED <<playerVars, live, isMatching, btnLoadFpkeys,
                     btnLoadTranslation, dialogs>>
  PROVE  SearchLocksDialogs'
  BY DEF SearchLocksDialogs, playerVars

(* A call of, or an event in, a player that exists.                        *)
LEMMA SearchLocksCall ==
  ASSUME TypeOK, SearchLocksDialogs, NEW i \in Instance,
         NEW s \in {"started", "paused", "error", player[i]},
         player[i] # "null",
         player' = [player EXCEPT ![i] = s],
         \A j \in Instance \ {i} :
             /\ isMediaPlayerPlaying'[j] = isMediaPlayerPlaying[j]
             /\ seek'[j] = seek[j],
         \A j \in Instance : isMatching'[j] => isMatching[j],
         UNCHANGED <<isMediaPlayerReady, live, btnLoadFpkeys, btnLoadTranslation,
                     dialogs>>
  PROVE  SearchLocksDialogs'
<1> USE DEF TypeOK, PlayerTypeOK, SearchLocksDialogs, Seekable
<1>1. player'[i] = s /\ s # "null"
  OBVIOUS
<1>2. ASSUME NEW j \in Instance \ {i} PROVE player'[j] = player[j]
  OBVIOUS
<1>3. isMediaPlayerReady[i] => s \in Seekable \cup {"error"}
  OBVIOUS
<1> QED
  BY <1>1, <1>2, <1>3

LEMMA SearchLocksStep ==
  ASSUME MaxDialogs = 1, TypeOK, WorkerInv, SearchLocksDialogs, [Next]_vars
  PROVE  SearchLocksDialogs'
<1> USE DEF TypeOK, PlayerTypeOK, ActivityTypeOK, SearchLocksDialogs, Seekable
<1>1. CASE UNCHANGED vars
  BY <1>1, SearchLocksFrame DEF vars, activityVars
<1>2. ASSUME NEW i \in Instance, onCreate(i) PROVE SearchLocksDialogs'
  BY <1>2 DEF onCreate, NewPlayer
<1>3. ASSUME NEW i \in Instance, onDestroy(i) PROVE SearchLocksDialogs'
  BY <1>3 DEF onDestroy, finish, StopPlayer, AfterCall
<1>4. ASSUME NEW i \in Instance, NEW kind \in FileKind, OpenDialog(i, kind)
      PROVE  SearchLocksDialogs'
  <2>1. ~isMatching[i]
    BY <1>4 DEF OpenDialog, SelectFor, CanClick, FileKind
  <2> QED
    BY <1>4, <2>1 DEF OpenDialog, SelectFor, CanClick, playerVars
<1>5. ASSUME NEW i \in Instance, DialogCanceled(i) PROVE SearchLocksDialogs'
  BY <1>5 DEF DialogCanceled, CloseDialog, playerVars
<1>6. ASSUME NEW i \in Instance, NEW l \in Loader, FpkeysChosen(i, l)
      PROVE  SearchLocksDialogs'
  BY <1>6 DEF FpkeysChosen, CloseDialog, btn_load_fpkeysClick, StartLoading,
     playerVars
<1>7. ASSUME NEW i \in Instance, TranslationChosen(i) PROVE SearchLocksDialogs'
  BY <1>7 DEF TranslationChosen, StartTranslation, CloseDialog,
     createMediaPlayerForTranslation, playerVars
<1>8. ASSUME NEW i \in Instance, btn_stopClick(i) PROVE SearchLocksDialogs'
  BY <1>8, SearchLocksCall DEF btn_stopClick, StopPlaying, AfterCall,
     activityVars
<1>9. ASSUME NEW i \in Instance, NEW r \in Recorder, btn_start_searchClick(i, r)
      PROVE  SearchLocksDialogs'
  <2>1. dialogs = <<>>
    BY <1>9 DEF btn_start_searchClick, MayStart, CanClick
  <2> QED
    BY <1>9, <2>1 DEF btn_start_searchClick, MayStart, CanClick, playerVars
<1>10. ASSUME NEW i \in Instance, PlayerStep(i) PROVE SearchLocksDialogs'
  <2> UNCHANGED activityVars
    BY <1>10 DEF PlayerStep
  <2> USE DEF activityVars
  <2>1. CASE onPrepared(i)
    BY <2>1 DEF onPrepared
  <2>2. CASE onError(i)
    BY <2>2 DEF onError
  <2>3. CASE PlaybackCompletes(i)
    BY <2>3 DEF PlaybackCompletes
  <2>4. CASE onSeekComplete(i)
    BY <2>4, SearchLocksCall DEF onSeekComplete, StartPlayback, AfterCall
  <2>5. CASE SeekIsLost(i)
    BY <2>5 DEF SeekIsLost
  <2> QED
    BY <1>10, <2>1, <2>2, <2>3, <2>4, <2>5 DEF PlayerStep
<1>11. ASSUME NEW r \in Recorder, HandleFoundIndex(r) PROVE SearchLocksDialogs'
  <2> DEFINE i == rowner[r]
  <2>1. i \in Instance /\ isMatching[i]
    BY <1>11 DEF HandleFoundIndex, SearchEnds, RecorderTypeOK, WorkerInv,
       MatchingFlagExact, Recording
  <2>2. /\ \A j \in Instance : isMatching'[j] => isMatching[j]
        /\ UNCHANGED <<live, btnLoadFpkeys, btnLoadTranslation, dialogs>>
        /\ PlayFound(i, found[r])
    BY <1>11 DEF HandleFoundIndex, SearchEnds
  <2>3. CASE UNCHANGED playerVars
    BY <2>2, <2>3 DEF playerVars
  <2>4. CASE /\ player' = [player EXCEPT ![i] = AfterCall(i, Seekable, @)]
             /\ \A j \in Instance \ {i} : seek'[j] = seek[j]
             /\ UNCHANGED <<isMediaPlayerReady, isMediaPlayerPlaying>>
    BY <2>1, <2>2, <2>4, SearchLocksCall DEF AfterCall
  <2> HIDE DEF i
  <2> QED
    BY <2>1, <2>2, <2>3, <2>4 DEF PlayFound, IsFound
<1>12. ASSUME NEW r \in Recorder, RecorderStep(r) PROVE SearchLocksDialogs'
  BY <1>12, SearchLocksFrame, RecorderFrame DEF activityVars
<1>13. ASSUME NEW l \in Loader, LoaderStep(l) \/ HandleLoaded(l)
       PROVE  SearchLocksDialogs'
  BY <1>13, SearchLocksFrame, LoaderFrame DEF activityVars
<1> QED
  BY <1>1, <1>2, <1>3, <1>4, <1>5, <1>6, <1>7, <1>8, <1>9, <1>10, <1>11, <1>12,
     <1>13 DEF Next, ActivityStep

(* When a dialog hides the buttons under it, nothing the user does during  *)
(* a search takes away the translation the result will be sought in.       *)
THEOREM PlayerOutlivesSearch ==
  ASSUME MaxDialogs = 1
  PROVE  Spec => []SearchKeepsPlayer
<1>1. SearchLocksDialogs => SearchKeepsPlayer
  BY DEF SearchLocksDialogs, SearchKeepsPlayer
<1>2. TypeOK /\ WorkerInv /\ SearchLocksDialogs /\ [Next]_vars => SearchLocksDialogs'
  BY SearchLocksStep
<1> QED
  BY <1>1, <1>2, SearchLocksInit, TypeCorrect, WorkersAlways, PTL DEF Spec

-----------------------------------------------------------------------------
(* The record buffer, when no activity is created before the threads of    *)
(* the last one ended (Instance has one element): one thread at a time     *)
(* uses it, and BufferInv says what it has made of it at each point.       *)

Owned(r) ==
    \A k \in Slot : record_buffer[k] = IF k < recorded_samples THEN r ELSE Zero

BufferInv ==
    /\ OverrunIsBounded
    /\ \A r \in Recording :
         /\ rpc[r] \notin {"clear", "posted"} => Owned(r)
         /\ rpc[r] = "loop" => recorded_samples < NRECSAMPLES
         /\ rpc[r] = "put" =>
              /\ index[r] = recorded_samples
              /\ recorded_samples + left[r] < NRECSAMPLES + MinBytes
         /\ rpc[r] \in {"generate", "insert", "match", "matching"} =>
              (recorded_samples < NRECSAMPLES => interrupted[r])
         /\ rpc[r] = "insert" => rec_keys = <<>>
         /\ rpc[r] \in {"match", "matching"} => rec_keys = <<KeysOfBuffer>>

LEMMA BufferInit == Init => BufferInv
  BY DEF Init, ContextInit, BufferInv, OverrunIsBounded, Recording

LEMMA OnlyRecorder ==
  ASSUME \A i, j \in Instance : i = j, TypeOK, WorkerInv
  PROVE  \A r, s \in Recording : r = s
<1>1. \A r \in Recording : rowner[r] \in Instance
  BY DEF TypeOK, RecorderTypeOK, Recording
<1> QED
  BY <1>1 DEF WorkerInv, OneWorkerPerInstance

(* A step of another part may interrupt the thread at work, no more.       *)
LEMMA BufferFrame ==
  ASSUME BufferInv, Recording' \subseteq Recording,
         \A r \in Recording' : /\ UNCHANGED <<rpc[r], index[r], left[r]>>
                               /\ interrupted[r] => interrupted'[r],
         UNCHANGED <<bufferVars, rec_keys>>
  PROVE  BufferInv'
<1> UNCHANGED <<recorded_samples, record_buffer>>
  BY DEF bufferVars
<1>1. \A r \in Recording : Owned(r)' = Owned(r)
  BY DEF Owned
<1>2. KeysOfBuffer' = KeysOfBuffer
  BY DEF KeysOfBuffer
<1> QED
  BY <1>1, <1>2 DEF BufferInv, OverrunIsBounded

LEMMA BufferRecorderStep ==
  ASSUME TypeOK, BufferInv, \A r, s \in Recording : r = s,
         NEW r \in Recorder, RecorderStep(r)
  PROVE  BufferInv'
<1> USE DEF TypeOK, RecorderTypeOK, ContextTypeOK, Goto
<1>1. r \in Recording /\ Recording' = Recording
  BY RecorderWorks
<1>2. Recording = {r}
  BY <1>1
<1>3. Recording' = {r}
  BY <1>1, <1>2
<1> USE <1>2, <1>3 DEF BufferInv, OverrunIsBounded, Owned
<1>4. CASE ClearSamples(r)
  BY <1>4 DEF ClearSamples, clear_recorded_samples, Slot
<1>5. CASE \E b \in 0 .. MinBytes : ReadMicrophone(r, b)
  BY <1>5 DEF ReadMicrophone, ctxVars, bufferVars
<1>6. CASE LeaveLoop(r)
  BY <1>6 DEF LeaveLoop, ctxVars, bufferVars
<1>7. CASE PutSample(r)
  <2>1. /\ rpc[r] = "put" /\ rpc'[r] = "put"
        /\ put_recorded_sample(r, recorded_samples)
        /\ index'[r] = recorded_samples + 1
        /\ left[r] > 0 /\ left'[r] = left[r] - 1
    BY <1>7 DEF PutSample
  <2>2. Owned(r)'
    BY <2>1 DEF put_recorded_sample, Slot
  <2> QED
    BY <2>1, <2>2 DEF put_recorded_sample
<1>8. CASE EndOfBlock(r)
  BY <1>8 DEF EndOfBlock, ctxVars, bufferVars
<1>9. CASE CheckSamples(r)
  BY <1>9 DEF CheckSamples, RecordedEnough, ctxVars, bufferVars
<1>10. CASE ClearKeys(r)
  BY <1>10 DEF ClearKeys, clear_rec_keys, bufferVars
<1>11. CASE InsertKeys(r)
  <2>1. KeysOfBuffer' = KeysOfBuffer
    BY <1>11 DEF InsertKeys, insert_rec_keys, bufferVars, KeysOfBuffer
  <2>2. rec_keys' = <<KeysOfBuffer>>
    BY <1>11 DEF InsertKeys, insert_rec_keys
  <2> QED
    BY <1>11, <2>1, <2>2 DEF InsertKeys, insert_rec_keys, bufferVars
<1>12. CASE MatchNothing(r)
  BY <1>12 DEF MatchNothing, ctxVars, bufferVars
<1>13. CASE StartMatch(r)
  <2>1. KeysOfBuffer' = KeysOfBuffer
    BY <1>13 DEF StartMatch, ctxVars, KeysOfBuffer
  <2> QED
    BY <1>13, <2>1 DEF StartMatch, ctxVars, bufferVars
<1>14. CASE EndMatch(r)
  BY <1>14 DEF EndMatch, clear_rec_keys, bufferVars
<1> QED
  BY <1>4, <1>5, <1>6, <1>7, <1>8, <1>9, <1>10, <1>11, <1>12, <1>13, <1>14 DEF
     RecorderStep

LEMMA BufferStep ==
  ASSUME \A i, j \in Instance : i = j, TypeOK, WorkerInv, BufferInv, [Next]_vars
  PROVE  BufferInv'
<1> USE DEF TypeOK, RecorderTypeOK
<1>0. \A r, s \in Recording : r = s
  BY OnlyRecorder
<1>1. CASE UNCHANGED vars
  BY <1>1, BufferFrame DEF vars, ctxVars, bufferVars, recorderVars, Recording
<1>2. ASSUME NEW r \in Recorder, RecorderStep(r) PROVE BufferInv'
  BY <1>0, <1>2, BufferRecorderStep
<1>3. ASSUME NEW r \in Recorder, HandleFoundIndex(r) PROVE BufferInv'
  <2>1. Recording' = Recording \ {r}
    BY <1>3 DEF HandleFoundIndex, SearchEnds, Recording
  <2> QED
    BY <1>3, <2>1, BufferFrame DEF HandleFoundIndex, SearchEnds, ctxVars,
       bufferVars, Recording
<1>4. ASSUME NEW i \in Instance, onDestroy(i) PROVE BufferInv'
  <2>1. \A r \in Recording : interrupted[r] => interrupted'[r]
    BY <1>4, Zenon DEF onDestroy, finish, Recording
  <2>2. Recording' = Recording
    BY <1>4 DEF onDestroy, finish, Recording
  <2> QED
    BY <1>4, <2>1, <2>2, BufferFrame DEF onDestroy, finish, ctxVars,
       bufferVars
<1>5. ASSUME NEW i \in Instance, NEW r \in Recorder, btn_start_searchClick(i, r)
      PROVE  BufferInv'
  <2>1. Recording = {}
    <3>1. \A s \in Recording : rowner[s] = i
      BY DEF Recording
    <3> QED
      BY <1>5, <3>1 DEF btn_start_searchClick, MayStart, WorkerInv,
         MatchingFlagExact
  <2>2. Recording' = {r} /\ rpc'[r] = "clear"
    BY <1>5, <2>1 DEF btn_start_searchClick, MayStart, Recording
  <2> QED
    BY <1>5, <2>2 DEF btn_start_searchClick, MayStart, ctxVars, BufferInv,
       OverrunIsBounded
<1>6. ASSUME NEW i \in Instance, ActivityStep(i) PROVE BufferInv'
  <2>1. CASE \/ onCreate(i)
             \/ \E kind \in FileKind : OpenDialog(i, kind)
             \/ DialogCanceled(i)
             \/ \E l \in Loader : FpkeysChosen(i, l)
             \/ TranslationChosen(i)
             \/ btn_stopClick(i)
    <3>1. UNCHANGED <<ctxVars, recorderVars>>
      BY <2>1 DEF onCreate, OpenDialog, SelectFor, DialogCanceled,
         FpkeysChosen, TranslationChosen, StartTranslation, btn_stopClick
    <3> QED
      BY <3>1, BufferFrame DEF ctxVars, bufferVars, recorderVars, Recording
  <2> QED
    BY <1>4, <1>5, <1>6, <2>1 DEF ActivityStep
<1>7. ASSUME NEW i \in Instance, PlayerStep(i) PROVE BufferInv'
  BY <1>7, BufferFrame DEF PlayerStep, ctxVars, bufferVars, recorderVars,
     Recording
<1>8. ASSUME NEW l \in Loader, LoaderStep(l) \/ HandleLoaded(l) PROVE BufferInv'
  <2>1. UNCHANGED <<bufferVars, rec_keys, recorderVars>>
    BY <1>8, LoaderFrame DEF push_track_key, ctxVars, bufferVars
  <2> QED
    BY <2>1, BufferFrame DEF recorderVars, Recording
<1> QED
  BY <1>1, <1>2, <1>3, <1>6, <1>7, <1>8 DEF Next

LEMMA BufferAlways ==
  ASSUME \A i, j \in Instance : i = j
  PROVE  Spec => []BufferInv
<1>1. TypeOK /\ WorkerInv /\ BufferInv /\ [Next]_vars => BufferInv'
  BY BufferStep
<1> QED
  BY BufferInit, <1>1, TypeCorrect, WorkersAlways, PTL DEF Spec

(* Without overlapping activities a search matches the keys of exactly the *)
(* samples its own thread recorded, for every buffer and block size.       *)
THEOREM MatchIsFresh ==
  ASSUME \A i, j \in Instance : i = j
  PROVE  Spec => []FreshMatch
<1>1. BufferInv => FreshMatch
  BY DEF BufferInv, FreshMatch, Owned, Recording
<1> QED
  BY <1>1, BufferAlways, PTL

(* ... and the last block overruns the buffer by less than a block.        *)
THEOREM OverrunBound ==
  ASSUME \A i, j \in Instance : i = j
  PROVE  Spec => []OverrunIsBounded
  BY BufferAlways, PTL DEF BufferInv

-----------------------------------------------------------------------------
(* Files: what a dialog picks, and the index, when dialogs do not stack.   *)

DialogInv ==
    /\ Len(dialogs) =< 1
    /\ FpkeysNeverPlayed

LEMMA DialogInvStep ==
  ASSUME MaxDialogs = 1, TypeOK, DialogInv, [Next]_vars
  PROVE  DialogInv'
<1> USE DEF TypeOK, ActivityTypeOK, DialogInv, FpkeysNeverPlayed
<1>1. ASSUME UNCHANGED <<live, selecting, dialogs>> PROVE DialogInv'
  BY <1>1
<1>2. ASSUME CloseDialog PROVE dialogs' = <<>>
  BY <1>2 DEF CloseDialog
<1>3. ASSUME NEW i \in Instance, ActivityStep(i) PROVE DialogInv'
  <2>1. CASE onCreate(i)
    BY <2>1 DEF onCreate
  <2>2. CASE onDestroy(i)
    BY <2>2 DEF onDestroy, finish
  <2>3. ASSUME NEW kind \in FileKind, OpenDialog(i, kind) PROVE DialogInv'
    <3>1. live = i /\ live' = i /\ dialogs = <<>> /\ dialogs' = Append(dialogs, kind)
      BY <2>3 DEF OpenDialog, SelectFor, CanClick
    <3>2. selecting'[i] = kind
      BY <2>3 DEF OpenDialog, SelectFor
    <3> QED
      BY <3>1, <3>2
  <2>4. CASE DialogCanceled(i) \/ TranslationChosen(i) \/ \E l \in Loader : FpkeysChosen(i, l)
    BY <1>2, <2>4 DEF DialogCanceled, TranslationChosen, FpkeysChosen
  <2>5. CASE btn_stopClick(i) \/ \E r \in Recorder : btn_start_searchClick(i, r)
    BY <1>1, <2>5 DEF btn_stopClick, btn_start_searchClick, MayStart, activityVars
  <2> QED
    BY <1>3, <2>1, <2>2, <2>3, <2>4, <2>5 DEF ActivityStep
<1>4. ASSUME NEW i \in Instance, PlayerStep(i) PROVE DialogInv'
  BY <1>1, <1>4 DEF PlayerStep, activityVars
<1>5. ASSUME NEW r \in Recorder, RecorderStep(r) \/ HandleFoundIndex(r) PROVE DialogInv'
  BY <1>1, <1>5, RecorderFrame DEF HandleFoundIndex, SearchEnds, activityVars
<1>6. ASSUME NEW l \in Loader, LoaderStep(l) \/ HandleLoaded(l) PROVE DialogInv'
  BY <1>1, <1>6, LoaderFrame
<1>7. CASE UNCHANGED vars
  BY <1>1, <1>7 DEF vars, activityVars
<1> QED
  BY <1>3, <1>4, <1>5, <1>6, <1>7 DEF Next

(* When a dialog hides the buttons under it, an index file never reaches   *)
(* the player, also when the activity was re-created under the dialog.     *)
THEOREM IndexIsNotPlayed ==
  ASSUME MaxDialogs = 1
  PROVE  Spec => []FpkeysNeverPlayed
<1>1. Init => DialogInv
  BY DEF Init, DialogInv, FpkeysNeverPlayed
<1>2. TypeOK /\ DialogInv /\ [Next]_vars => DialogInv'
  BY DialogInvStep
<1>3. DialogInv => FpkeysNeverPlayed
  BY DEF DialogInv
<1> QED
  BY <1>1, <1>2, <1>3, TypeCorrect, PTL DEF Spec

(* The buttons keep the threads apart: while an index can be loaded none   *)
(* is, and none is searched; and what was pushed and what a loader still   *)
(* has to read are the keys of the files.                                  *)
IndexInv ==
    /\ \A i \in Instance : live = i =>
         /\ dialogs # <<>> /\ selecting[i] = "fpkeys" => btnLoadFpkeys[i]
         /\ btnLoadFpkeys[i] => Loading = {} /\ Recording = {} /\ ~btnStartSearch[i]
         /\ btnStartSearch[i] => Loading = {}
    /\ \A l, k \in Loading : l = k
    /\ Recording # {} => Loading = {}
    /\ Loading = {} => track_keys = keys_in_files
    /\ \A l \in Loading :
         /\ track_keys + unread[l] = keys_in_files
         /\ lpc[l] # "reading" => unread[l] = 0

LEMMA IndexInit == Init => IndexInv
  BY DEF Init, ContextInit, IndexInv, Loading, Recording

(* Searches may end; IndexInv reads no more of the state than this.        *)
LEMMA IndexFrame ==
  ASSUME IndexInv, TypeOK, Recording' \subseteq Recording,
         UNCHANGED <<live, btnLoadFpkeys, btnStartSearch, selecting, dialogs,
                     track_keys, loaderVars>>
  PROVE  IndexInv'
<1>1. /\ Loading' = Loading /\ lpc' = lpc /\ unread' = unread
      /\ keys_in_files' = keys_in_files
  BY DEF loaderVars, Loading
<1> QED
  BY <1>1 DEF IndexInv

(* With one activity, its threads are all the threads.                     *)
LEMMA QuietAll ==
  ASSUME \A i, j \in Instance : i = j, TypeOK, NEW i \in Instance, Quiescent(i)
  PROVE  Recording = {} /\ Loading = {}
BY DEF TypeOK, RecorderTypeOK, LoaderTypeOK, Quiescent, Recording, Loading

LEMMA IndexActivityStep ==
  ASSUME MaxDialogs = 1, \A i, j \in Instance : i = j, TypeOK, DialogInv, IndexInv,
         NEW i \in Instance, ActivityStep(i)
  PROVE  IndexInv'
<1> USE DEF TypeOK, ActivityTypeOK
<1>1. ASSUME CloseDialog PROVE dialogs # <<>> /\ dialogs' = <<>>
  BY <1>1 DEF CloseDialog, DialogInv
<1>2. CASE onCreate(i)
  <2>1. Recording = {} /\ Loading = {}
    BY <1>2, QuietAll DEF onCreate
  <2>2. /\ Recording' = {} /\ Loading' = {}
        /\ UNCHANGED <<track_keys, keys_in_files>>
    BY <1>2, <2>1 DEF onCreate, recorderVars, loaderVars, ctxVars, Recording, Loading
  <2>3. live' = i /\ btnLoadFpkeys'[i] /\ ~btnStartSearch'[i]
    BY <1>2 DEF onCreate
  <2> QED
    BY <2>1, <2>2, <2>3 DEF IndexInv
<1>3. CASE onDestroy(i)
  <2>1. Recording' = Recording /\ Loading' = Loading /\ live' = None
        /\ UNCHANGED <<track_keys, lpc, unread, keys_in_files>>
    BY <1>3 DEF onDestroy, finish, Recording, Loading, loaderVars, ctxVars
  <2> QED
    BY <2>1 DEF IndexInv
<1>4. ASSUME NEW kind \in FileKind, OpenDialog(i, kind) PROVE IndexInv'
  <2>1. /\ Recording' = Recording /\ Loading' = Loading
        /\ UNCHANGED <<live, btnLoadFpkeys, btnStartSearch, track_keys, lpc, unread,
                       keys_in_files>>
    BY <1>4 DEF OpenDialog, SelectFor, Recording, Loading, recorderVars, loaderVars, ctxVars
  <2>2. live = i /\ selecting'[i] = kind /\ (kind = "fpkeys" => btnLoadFpkeys[i])
    BY <1>4 DEF OpenDialog, SelectFor, CanClick
  <2> QED
    BY <2>1, <2>2 DEF IndexInv
<1>5. ASSUME DialogCanceled(i) \/ TranslationChosen(i) PROVE IndexInv'
  <2>1. /\ Recording' = Recording /\ Loading' = Loading
        /\ UNCHANGED <<live, btnLoadFpkeys, btnStartSearch, track_keys, lpc, unread,
                       keys_in_files>>
    BY <1>5 DEF DialogCanceled, TranslationChosen, Recording, Loading, recorderVars,
                loaderVars, ctxVars
  <2>2. dialogs' = <<>>
    BY <1>1, <1>5 DEF DialogCanceled, TranslationChosen
  <2> QED
    BY <2>1, <2>2 DEF IndexInv
<1>6. ASSUME NEW l \in Loader, FpkeysChosen(i, l) PROVE IndexInv'
  <2>1. live = i /\ dialogs # <<>> /\ dialogs' = <<>> /\ selecting[i] = "fpkeys"
    BY <1>1, <1>6 DEF FpkeysChosen
  <2>2. Loading = {} /\ Recording = {} /\ ~btnStartSearch[i]
    BY <2>1 DEF IndexInv
  <2>3. /\ UNCHANGED <<live, btnStartSearch, track_keys>> /\ Recording' = Recording
        /\ btnLoadFpkeys' = [btnLoadFpkeys EXCEPT ![i] = FALSE]
    BY <1>6 DEF FpkeysChosen, btn_load_fpkeysClick, StartLoading, ctxVars, recorderVars,
                Recording
  <2>4. PICK file \in IndexFiles :
             keys_in_files' = keys_in_files + file.keys
             /\ unread' = [unread EXCEPT ![l] = file.keys]
    BY <1>6 DEF FpkeysChosen, btn_load_fpkeysClick
  <2>5. Loading' = {l} /\ unread'[l] = file.keys /\ lpc'[l] = "reading"
    BY <1>6, <2>2, <2>4 DEF FpkeysChosen, btn_load_fpkeysClick, Loading, LoaderTypeOK
  <2>6. track_keys' + unread'[l] = keys_in_files'
    BY <2>2, <2>3, <2>4, <2>5 DEF IndexInv
  <2> QED
    BY <2>1, <2>2, <2>3, <2>5, <2>6 DEF IndexInv
<1>7. CASE btn_stopClick(i)
  BY <1>7, IndexFrame DEF btn_stopClick, activityVars, recorderVars, ctxVars, Recording
<1>8. ASSUME NEW r \in Recorder, btn_start_searchClick(i, r) PROVE IndexInv'
  <2>1. live = i /\ btnStartSearch[i] /\ dialogs = <<>>
    BY <1>8 DEF btn_start_searchClick, MayStart, CanClick
  <2>2. Loading = {}
    BY <2>1 DEF IndexInv
  <2>3. /\ UNCHANGED <<live, btnStartSearch, dialogs, track_keys, keys_in_files>>
        /\ Loading' = {}
        /\ btnLoadFpkeys' = [btnLoadFpkeys EXCEPT ![i] = FALSE]
    BY <1>8, <2>2 DEF btn_start_searchClick, MayStart, ctxVars, loaderVars, Loading
  <2> QED
    BY <2>1, <2>2, <2>3 DEF IndexInv
<1> QED
  BY <1>2, <1>3, <1>4, <1>5, <1>6, <1>7, <1>8 DEF ActivityStep

LEMMA IndexLoaderStep ==
  ASSUME TypeOK, IndexInv, NEW l \in Loader, LoaderStep(l) \/ HandleLoaded(l)
  PROVE  IndexInv'
<1> USE DEF TypeOK, ContextTypeOK, ActivityTypeOK, LoaderTypeOK
<1>1. l \in Loading /\ Loading = {l} /\ Recording = {}
  <2>1. l \in Loading
    BY DEF LoaderStep, ReadKey, EndOfKeys, PostLoaded, HandleLoaded, Loading
  <2> QED
    BY <2>1 DEF IndexInv
<1>2. UNCHANGED <<live, btnLoadFpkeys, selecting, dialogs>> /\ Recording' = {}
  BY <1>1, LoaderFrame DEF recorderVars, Recording
<1>3. track_keys + unread[l] = keys_in_files /\ (lpc[l] # "reading" => unread[l] = 0)
  BY <1>1 DEF IndexInv
<1>4. \A i \in Instance : live = i => ~btnLoadFpkeys[i] /\ ~btnStartSearch[i]
  BY <1>1 DEF IndexInv
<1>5. CASE ReadKey(l)
  <2>1. Loading' = {l} /\ unread'[l] = unread[l] - 1 /\ lpc' = lpc /\ lpc[l] = "reading"
    BY <1>1, <1>5 DEF ReadKey, Loading
  <2>2. Reading = {l}
    BY <1>1, <2>1 DEF Reading, Loading
  <2>3. /\ track_keys' = track_keys + 1
        /\ UNCHANGED <<btnStartSearch, keys_in_files>>
    BY <1>5, <2>2 DEF ReadKey, push_track_key, activityVars
  <2>4. track_keys' + unread'[l] = keys_in_files'
    <3>1. PICK keys \in Nat : keys = track_keys
      OBVIOUS
    <3>2. PICK more \in Nat : more = unread[l]
      OBVIOUS
    <3>3. keys + 1 + (more - 1) = keys + more
      OBVIOUS
    <3> QED
      BY <1>3, <2>1, <2>3, <3>1, <3>2, <3>3
  <2>5. lpc'[l] # "reading" => unread'[l] = 0
    BY <2>1
  <2> QED
    BY <1>2, <1>4, <2>1, <2>3, <2>4, <2>5 DEF IndexInv
<1>6. CASE EndOfKeys(l) \/ PostLoaded(l)
  <2>1. Loading' = {l} /\ unread' = unread /\ unread[l] = 0
    BY <1>1, <1>3, <1>6 DEF EndOfKeys, PostLoaded, Loading
  <2>2. UNCHANGED <<track_keys, keys_in_files, btnStartSearch>>
    BY <1>6 DEF EndOfKeys, PostLoaded, activityVars, ctxVars
  <2> QED
    BY <1>2, <1>3, <1>4, <2>1, <2>2 DEF IndexInv
<1>7. CASE HandleLoaded(l)
  <2>1. Loading' = {} /\ unread[l] = 0
    BY <1>1, <1>3, <1>7 DEF HandleLoaded, Loading
  <2>2. UNCHANGED <<track_keys, keys_in_files>>
    BY <1>7 DEF HandleLoaded, ctxVars
  <2>3. track_keys = keys_in_files
    BY <1>3, <2>1
  <2> QED
    BY <1>2, <1>4, <2>1, <2>2, <2>3 DEF IndexInv
<1> QED
  BY <1>5, <1>6, <1>7 DEF LoaderStep

LEMMA IndexStep ==
  ASSUME MaxDialogs = 1, \A i, j \in Instance : i = j, TypeOK, DialogInv, IndexInv,
         [Next]_vars
  PROVE  IndexInv'
<1>1. ASSUME NEW i \in Instance, ActivityStep(i) PROVE IndexInv'
  BY <1>1, IndexActivityStep
<1>2. ASSUME NEW l \in Loader, LoaderStep(l) \/ HandleLoaded(l) PROVE IndexInv'
  BY <1>2, IndexLoaderStep
<1>3. ASSUME NEW i \in Instance, PlayerStep(i) PROVE IndexInv'
  BY <1>3, IndexFrame DEF PlayerStep, activityVars, recorderVars, ctxVars, Recording
<1>4. ASSUME NEW r \in Recorder, RecorderStep(r) PROVE IndexInv'
  <2>1. track_keys' = track_keys
    BY <1>4 DEF RecorderStep, ClearSamples, clear_recorded_samples, ReadMicrophone,
       LeaveLoop, PutSample, put_recorded_sample, EndOfBlock, CheckSamples, ClearKeys,
       clear_rec_keys, InsertKeys, insert_rec_keys, MatchNothing, StartMatch, EndMatch,
       ctxVars
  <2>2. Recording' = Recording
    BY <1>4, RecorderWorks
  <2> QED
    BY <1>4, <2>1, <2>2, RecorderFrame, IndexFrame DEF activityVars
<1>5. ASSUME NEW r \in Recorder, HandleFoundIndex(r) PROVE IndexInv'
  <2>1. Recording' \subseteq Recording
    BY <1>5 DEF HandleFoundIndex, SearchEnds, Recording, TypeOK, RecorderTypeOK
  <2> QED
    BY <1>5, <2>1, IndexFrame DEF HandleFoundIndex, SearchEnds, ctxVars
<1>6. CASE UNCHANGED vars
  BY <1>6, IndexFrame DEF vars, activityVars, recorderVars, ctxVars, Recording
<1> QED
  BY <1>1, <1>2, <1>3, <1>4, <1>5, <1>6 DEF Next

(* When dialogs hide the buttons, and an activity is created only when the *)
(* threads of the one before have ended, the buttons alone keep the loader *)
(* and the matcher apart: what is searched is all that was in the files    *)
(* loaded so far.                                                          *)
THEOREM IndexIsLoaded ==
  ASSUME MaxDialogs = 1, \A i, j \in Instance : i = j
  PROVE  Spec => []MatchSeesLoadedIndex
<1>1. Init => DialogInv
  BY DEF Init, DialogInv, FpkeysNeverPlayed
<1>2. TypeOK /\ DialogInv /\ [Next]_vars => DialogInv'
  BY DialogInvStep
<1>3. TypeOK /\ DialogInv /\ IndexInv /\ [Next]_vars => IndexInv'
  BY IndexStep
<1>4. IndexInv => MatchSeesLoadedIndex
  BY DEF IndexInv, MatchSeesLoadedIndex, Reading, Loading, Recording
<1> QED
  BY <1>1, <1>2, <1>3, <1>4, IndexInit, TypeCorrect, PTL DEF Spec
==============================================================================
