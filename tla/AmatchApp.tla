------------------------------ MODULE AmatchApp ------------------------------
(***************************************************************************)
(* The Android application: AmatchTestActivity on the main looper, its     *)
(* recorder threads and index loader threads, the file dialog it starts,   *)
(* the translation player (TranslationPlayer) and the native context that  *)
(* all of them share (NativeContext).                                      *)
(*                                                                         *)
(* Every action of the main looper is one message: a click, a callback, a  *)
(* dialog result or a Handler message.  Actions of a thread interleave     *)
(* with them and with each other at every access to the shared context.    *)
(*                                                                         *)
(* An activity can be destroyed at any time, with its threads running; a   *)
(* new one may be created at once.  An identity of Instance is reused when *)
(* no thread and no callback of the old object is left.  The end of the    *)
(* process is not an action: nothing is kept, so it leads back to Init.    *)
(***************************************************************************)
EXTENDS NativeContext, TranslationPlayer, FiniteSets

CONSTANTS
    Loader,         \* identities of load_fpkeys threads
    None,           \* no activity, no thread
    MinBytes,       \* samples asked of AudioRecord.read at a time
    MaxDialogs,     \* dialogs that taps can stack; 1: a dialog hides the buttons
    MaxTrackKeys    \* bound: no load starts with more keys in the files

ASSUME MinBytesAssumption == MinBytes \in Nat \ {0}
ASSUME MaxDialogsAssumption == MaxDialogs \in Nat \ {0}
ASSUME NoneAssumption == None \notin Instance /\ None \notin Recorder

VARIABLES
    live,               \* the activity on screen
    isMatching,
    btnLoadFpkeys,      \* enabled state of the three buttons
    btnLoadTranslation,
    btnStartSearch,
    selecting,          \* file_selecting_button_id
    dialogs,            \* what each FileDialog on top of the activity picks
    recorder_thread,    \* the field of the activity
    rpc,                \* where a RecorderThread is; "posted": its FoundIndex
                        \* message waits in the queue of the main looper
    rowner,             \* the activity that created it
    interrupted,        \* its interrupt flag
    index,              \* local: recorded_samples as it knows it
    left,               \* local: samples of the block still to put
    found,              \* local: found_index
    lpc,                \* where a loader thread is
    lowner,             \* the activity that created it
    unread,             \* keys of the file it has not read yet
    announced,          \* local: len, which read_keys_from_file returns
    keys_in_files       \* history: keys in all files that a load was started for

activityVars == <<live, isMatching, btnLoadFpkeys, btnLoadTranslation,
                  btnStartSearch, selecting, dialogs>>
recorderVars == <<recorder_thread, rpc, rowner, interrupted, index, left, found>>
loaderVars == <<lpc, lowner, unread, announced, keys_in_files>>
vars == <<ctxVars, playerVars, activityVars, recorderVars, loaderVars>>

FileKind == {"fpkeys", "translation"}
RecorderState == {"idle", "clear", "loop", "put", "check", "generate", "insert",
                  "match", "matching", "posted"}
LoaderState == {"idle", "reading", "read", "posted"}

Recording == {r \in Recorder : rpc[r] # "idle"}
Loading == {l \in Loader : lpc[l] # "idle"}
Reading == {l \in Loader : lpc[l] = "reading"}

(* No thread and no callback of i is left.                                 *)
Quiescent(i) ==
    /\ \A r \in Recording : rowner[r] # i
    /\ \A l \in Loading : lowner[l] # i
    /\ seek[i] = NoSeek
    /\ player[i] # "preparing"

(* The buttons of i receive clicks.                                        *)
CanClick(i) == live = i /\ Len(dialogs) < MaxDialogs

ActivityTypeOK ==
    /\ live \in Instance \cup {None}
    /\ isMatching \in [Instance -> BOOLEAN]
    /\ btnLoadFpkeys \in [Instance -> BOOLEAN]
    /\ btnLoadTranslation \in [Instance -> BOOLEAN]
    /\ btnStartSearch \in [Instance -> BOOLEAN]
    /\ selecting \in [Instance -> FileKind]
    /\ dialogs \in Seq(FileKind)

RecorderTypeOK ==
    /\ recorder_thread \in [Instance -> Recorder \cup {None}]
    /\ rpc \in [Recorder -> RecorderState]
    /\ rowner \in [Recorder -> Instance \cup {None}]
    /\ interrupted \in [Recorder -> BOOLEAN]
    /\ index \in [Recorder -> Nat]
    /\ left \in [Recorder -> Nat]
    /\ found \in [Recorder -> MatchResult]
    /\ \A r \in Recorder : rpc[r] = "idle" <=> rowner[r] = None

LoaderTypeOK ==
    /\ lpc \in [Loader -> LoaderState]
    /\ lowner \in [Loader -> Instance \cup {None}]
    /\ unread \in [Loader -> Nat]
    /\ announced \in [Loader -> Nat]
    /\ keys_in_files \in Nat
    /\ \A l \in Loader : lpc[l] = "idle" <=> lowner[l] = None

(* Types; a thread has an owner exactly while it is at work.               *)
TypeOK ==
    /\ ContextTypeOK
    /\ PlayerTypeOK
    /\ ActivityTypeOK
    /\ RecorderTypeOK
    /\ LoaderTypeOK

Init ==
    /\ ContextInit
    /\ PlayerInit
    /\ live = None
    /\ isMatching = [i \in Instance |-> FALSE]
    /\ btnLoadFpkeys = [i \in Instance |-> TRUE]
    /\ btnLoadTranslation = [i \in Instance |-> TRUE]
    /\ btnStartSearch = [i \in Instance |-> FALSE]
    /\ selecting = [i \in Instance |-> "fpkeys"]
    /\ dialogs = <<>>
    /\ recorder_thread = [i \in Instance |-> None]
    /\ rpc = [r \in Recorder |-> "idle"]
    /\ rowner = [r \in Recorder |-> None]
    /\ interrupted = [r \in Recorder |-> FALSE]
    /\ index = [r \in Recorder |-> 0]
    /\ left = [r \in Recorder |-> 0]
    /\ found = [r \in Recorder |-> 0]
    /\ lpc = [l \in Loader |-> "idle"]
    /\ lowner = [l \in Loader |-> None]
    /\ unread = [l \in Loader |-> 0]
    /\ announced = [l \in Loader |-> 0]
    /\ keys_in_files = 0

-----------------------------------------------------------------------------
(* The life of an activity.                                                *)

onCreate(i) ==
    /\ live = None
    /\ Quiescent(i)
    /\ live' = i
    /\ isMatching' = [isMatching EXCEPT ![i] = FALSE]
    /\ btnLoadFpkeys' = [btnLoadFpkeys EXCEPT ![i] = TRUE]
    /\ btnLoadTranslation' = [btnLoadTranslation EXCEPT ![i] = TRUE]
    /\ btnStartSearch' = [btnStartSearch EXCEPT ![i] = FALSE]
    /\ selecting' = [selecting EXCEPT ![i] = "fpkeys"]
    /\ NewPlayer(i)
    /\ UNCHANGED <<ctxVars, dialogs, recorderVars, loaderVars>>

(* Mutant: isRunning = false only, which no loop reads.                    *)
finish_FlagOnly(i) == UNCHANGED interrupted

finish(i) ==
    interrupted' = [r \in Recorder |-> interrupted[r] \/ r = recorder_thread[i]]

onDestroy(i) ==
    /\ live = i
    /\ live' = None
    /\ finish(i)
    /\ recorder_thread' = [recorder_thread EXCEPT ![i] = None]
    /\ StopPlayer(i)
    /\ UNCHANGED <<ctxVars, isMatching, btnLoadFpkeys, btnLoadTranslation,
                   btnStartSearch, selecting, dialogs, rpc, rowner, index, left,
                   found, loaderVars>>

-----------------------------------------------------------------------------
(* Choosing files.  A dialog survives the activity that started it: its    *)
(* result goes to the activity that is live when it arrives.               *)

(* Mutant: only the translation button records itself.                     *)
SelectFor_Translation(i, kind) ==
    selecting' = [selecting EXCEPT ![i] = IF kind = "fpkeys" THEN @ ELSE kind]

SelectFor(i, kind) == selecting' = [selecting EXCEPT ![i] = kind]

OpenDialog(i, kind) ==
    /\ CanClick(i)
    /\ IF kind = "fpkeys" THEN btnLoadFpkeys[i] ELSE btnLoadTranslation[i]
    /\ SelectFor(i, kind)
    /\ dialogs' = Append(dialogs, kind)
    /\ UNCHANGED <<ctxVars, playerVars, live, isMatching, btnLoadFpkeys,
                   btnLoadTranslation, btnStartSearch, recorderVars, loaderVars>>

CloseDialog ==
    /\ dialogs # <<>>
    /\ dialogs' = SubSeq(dialogs, 1, Len(dialogs) - 1)

DialogCanceled(i) ==
    /\ live = i
    /\ CloseDialog
    /\ UNCHANGED <<ctxVars, playerVars, live, isMatching, btnLoadFpkeys,
                   btnLoadTranslation, btnStartSearch, selecting, recorderVars,
                   loaderVars>>

(* Mutant: the load button stays enabled.                                  *)
StartLoading_Enabled(i) == UNCHANGED btnLoadFpkeys

StartLoading(i) == btnLoadFpkeys' = [btnLoadFpkeys EXCEPT ![i] = FALSE]

(* What the file holds shows when the thread reads it; nothing but the     *)
(* thread looks, so it is chosen here.                                     *)
btn_load_fpkeysClick(i, l) ==
    /\ l \notin Loading
    /\ StartLoading(i)
    /\ lpc' = [lpc EXCEPT ![l] = "reading"]
    /\ lowner' = [lowner EXCEPT ![l] = i]
    /\ \E file \in IndexFiles :
         /\ keys_in_files + file.keys =< MaxTrackKeys
         /\ keys_in_files' = keys_in_files + file.keys
         /\ unread' = [unread EXCEPT ![l] = file.keys]
         /\ announced' = [announced EXCEPT ![l] = file.len]

(* onActivityResult with RESULT_OK: file_selecting_button_id decides what  *)
(* the file is taken for, whichever dialog picked it.                      *)
FpkeysChosen(i, l) ==
    /\ live = i
    /\ CloseDialog
    /\ selecting[i] = "fpkeys"
    /\ btn_load_fpkeysClick(i, l)
    /\ UNCHANGED <<ctxVars, playerVars, live, isMatching, btnLoadTranslation,
                   btnStartSearch, selecting, recorderVars>>

(* Mutant: another translation may be picked.                              *)
StartTranslation_Enabled(i) == UNCHANGED btnLoadTranslation

StartTranslation(i) ==
    btnLoadTranslation' = [btnLoadTranslation EXCEPT ![i] = FALSE]

(* A name of fewer than three characters is refused.                       *)
TranslationChosen(i) ==
    /\ live = i
    /\ CloseDialog
    /\ selecting[i] = "translation"
    /\ StartTranslation(i)
    /\ \/ createMediaPlayerForTranslation(i)
       \/ UNCHANGED playerVars
    /\ UNCHANGED <<ctxVars, live, isMatching, btnLoadFpkeys, btnStartSearch,
                   selecting, recorderVars, loaderVars>>

-----------------------------------------------------------------------------
(* Searching and stopping.                                                 *)

btn_stopClick(i) ==
    /\ CanClick(i)
    /\ StopPlaying(i)
    /\ UNCHANGED <<ctxVars, activityVars, recorderVars, loaderVars>>

(* Mutant: a search starts while another one runs.                         *)
MayStart_Unlocked(i) == isMediaPlayerReady[i]

(* The two early returns of btn_start_searchClick.                         *)
MayStart(i) == isMediaPlayerReady[i] /\ ~isMatching[i]

btn_start_searchClick(i, r) ==
    /\ CanClick(i)
    /\ btnStartSearch[i]
    /\ MayStart(i)
    /\ isMatching' = [isMatching EXCEPT ![i] = TRUE]
    /\ btnLoadFpkeys' = [btnLoadFpkeys EXCEPT ![i] = FALSE]
    /\ r \notin Recording
    /\ recorder_thread' = [recorder_thread EXCEPT ![i] = r]
    /\ rpc' = [rpc EXCEPT ![r] = "clear"]
    /\ rowner' = [rowner EXCEPT ![r] = i]
    /\ UNCHANGED <<ctxVars, playerVars, live, btnLoadTranslation, btnStartSearch,
                   selecting, dialogs, interrupted, index, left, found, loaderVars>>

(* Mutant: only a found position ends the search.                          *)
SearchEnds_IfFound(i, index_found) ==
    isMatching' = [isMatching EXCEPT ![i] = index_found = 0]

SearchEnds(i, index_found) == isMatching' = [isMatching EXCEPT ![i] = FALSE]

(* player_thread_handler: the FoundIndex message of r reaches the activity *)
(* that started r, live or not.  The thread is gone: its locals are reset. *)
HandleFoundIndex(r) ==
    LET i == rowner[r] IN
    /\ rpc[r] = "posted"
    /\ SearchEnds(i, found[r])
    /\ PlayFound(i, found[r])
    /\ recorder_thread' =
         [recorder_thread EXCEPT ![i] = IF @ = r THEN None ELSE @]
    /\ rpc' = [rpc EXCEPT ![r] = "idle"]
    /\ rowner' = [rowner EXCEPT ![r] = None]
    /\ interrupted' = [interrupted EXCEPT ![r] = FALSE]
    /\ index' = [index EXCEPT ![r] = 0]
    /\ found' = [found EXCEPT ![r] = 0]
    /\ UNCHANGED <<ctxVars, live, btnLoadFpkeys, btnLoadTranslation,
                   btnStartSearch, selecting, dialogs, left, loaderVars>>


EnableSearch(i) == btnStartSearch' = [btnStartSearch EXCEPT ![i] = TRUE]

(* load_fpkeys_thread_handler: the search is enabled whatever was loaded,  *)
(* also no key at all.                                                     *)
HandleLoaded(l) ==
    /\ lpc[l] = "posted"
    /\ EnableSearch(lowner[l])
    /\ lpc' = [lpc EXCEPT ![l] = "idle"]
    /\ lowner' = [lowner EXCEPT ![l] = None]
    /\ UNCHANGED <<ctxVars, playerVars, live, isMatching, btnLoadFpkeys,
                   btnLoadTranslation, selecting, dialogs, recorderVars, unread,
                   announced, keys_in_files>>

-----------------------------------------------------------------------------
(* The thread that loads the index.                                        *)

ReadKey(l) ==
    /\ lpc[l] = "reading"
    /\ unread[l] > 0
    /\ unread' = [unread EXCEPT ![l] = @ - 1]
    /\ push_track_key(Reading # {l})
    /\ UNCHANGED <<playerVars, activityVars, recorderVars, lpc, lowner, announced,
                   keys_in_files>>

(* The next read fails: the file ends here, or was never opened.  Fewer or *)
(* more keys than announced are only logged.  read_track_fpkeys asserts    *)
(* that the announced count is the size of track_keys (AssertReadCount).   *)
EndOfKeys(l) ==
    /\ lpc[l] = "reading"
    /\ unread[l] = 0
    /\ lpc' = [lpc EXCEPT ![l] = "read"]
    /\ UNCHANGED <<ctxVars, playerVars, activityVars, recorderVars, lowner, unread,
                   announced, keys_in_files>>

(* The announced count goes into the message; its handler ignores it.      *)
PostLoaded(l) ==
    /\ lpc[l] = "read"
    /\ lpc' = [lpc EXCEPT ![l] = "posted"]
    /\ announced' = [announced EXCEPT ![l] = 0]
    /\ UNCHANGED <<ctxVars, playerVars, activityVars, recorderVars, lowner, unread,
                   keys_in_files>>

-----------------------------------------------------------------------------
(* The thread that records, fingerprints and matches.                      *)

Goto(r, from, to) ==
    /\ rpc[r] = from
    /\ rpc' = [rpc EXCEPT ![r] = to]

ClearSamples(r) ==
    /\ Goto(r, "clear", "loop")
    /\ clear_recorded_samples
    /\ UNCHANGED <<playerVars, activityVars, recorder_thread, rowner, interrupted,
                   index, left, found, loaderVars>>

(* while(!isInterrupted()) b = record.read(..): a read may be short, and   *)
(* returns no samples (0 or an error code) when the microphone fails.      *)
ReadMicrophone(r, b) ==
    /\ Goto(r, "loop", "put")
    /\ ~interrupted[r]
    /\ left' = [left EXCEPT ![r] = b]
    /\ index' = [index EXCEPT ![r] = recorded_samples]
    /\ UNCHANGED <<ctxVars, playerVars, activityVars, recorder_thread, rowner,
                   interrupted, found, loaderVars>>

LeaveLoop(r) ==
    /\ Goto(r, "loop", "generate")
    /\ interrupted[r]
    /\ UNCHANGED <<ctxVars, playerVars, activityVars, recorder_thread, rowner,
                   interrupted, index, left, found, loaderVars>>

(* One sample of put_recorded_samples.  When threads race, the index may   *)
(* be re-read from the context or kept in a register.                      *)
PutSample(r) ==
    /\ rpc[r] = "put"
    /\ left[r] > 0
    /\ \E a \in {index[r], recorded_samples} :
         /\ put_recorded_sample(r, a)
         /\ index' = [index EXCEPT ![r] = a + 1]
    /\ left' = [left EXCEPT ![r] = @ - 1]
    /\ UNCHANGED <<playerVars, activityVars, recorder_thread, rpc, rowner,
                   interrupted, found, loaderVars>>

EndOfBlock(r) ==
    /\ Goto(r, "put", "check")
    /\ left[r] = 0
    /\ UNCHANGED <<ctxVars, playerVars, activityVars, recorder_thread, rowner,
                   interrupted, index, left, found, loaderVars>>

(* if(get_recorded_samples_size() >= nsamples) break;                      *)
CheckSamples(r) ==
    /\ Goto(r, "check", IF RecordedEnough THEN "generate" ELSE "loop")
    /\ UNCHANGED <<ctxVars, playerVars, activityVars, recorder_thread, rowner,
                   interrupted, index, left, found, loaderVars>>

(* generate_fp_keys_from_in: clear, then fill from the buffer.             *)
ClearKeys(r) ==
    /\ Goto(r, "generate", "insert")
    /\ clear_rec_keys
    /\ UNCHANGED <<playerVars, activityVars, recorder_thread, rowner, interrupted,
                   index, left, found, loaderVars>>

InsertKeys(r) ==
    /\ Goto(r, "insert", "match")
    /\ insert_rec_keys
    /\ UNCHANGED <<playerVars, activityVars, recorder_thread, rowner, interrupted,
                   index, left, found, loaderVars>>

(* match_sample and do_matching: without keys, 0 is posted at once ...     *)
MatchNothing(r) ==
    /\ TooFewKeys
    /\ Goto(r, "match", "posted")
    /\ UNCHANGED <<ctxVars, playerVars, activityVars, recorder_thread, rowner,
                   interrupted, index, left, found, loaderVars>>

(* ... otherwise the keys are searched in the index for some seconds ...   *)
StartMatch(r) ==
    /\ ~TooFewKeys
    /\ Goto(r, "match", "matching")
    /\ UNCHANGED <<ctxVars, playerVars, activityVars, recorder_thread, rowner,
                   interrupted, index, left, found, loaderVars>>

(* ... and cleared, and the result is posted.                              *)
EndMatch(r) ==
    /\ Goto(r, "matching", "posted")
    /\ clear_rec_keys
    /\ \E f \in MatchResult : found' = [found EXCEPT ![r] = f]
    /\ UNCHANGED <<playerVars, activityVars, recorder_thread, rowner, interrupted,
                   index, left, loaderVars>>

-----------------------------------------------------------------------------
(* A callback of the player, or an event inside it.                        *)
PlayerStep(i) ==
    /\ \/ onPrepared(i)
       \/ onError(i)
       \/ PlaybackCompletes(i)
       \/ onSeekComplete(i)
       \/ SeekIsLost(i)
    /\ UNCHANGED <<ctxVars, activityVars, recorderVars, loaderVars>>

ActivityStep(i) ==
    \/ onCreate(i)
    \/ onDestroy(i)
    \/ \E kind \in FileKind : OpenDialog(i, kind)
    \/ DialogCanceled(i)
    \/ \E l \in Loader : FpkeysChosen(i, l)
    \/ TranslationChosen(i)
    \/ btn_stopClick(i)
    \/ \E r \in Recorder : btn_start_searchClick(i, r)

(* What a recorder thread does by itself, whatever the microphone gives.   *)
RecorderStep(r) ==
    \/ ClearSamples(r)
    \/ \E b \in 0 .. MinBytes : ReadMicrophone(r, b)
    \/ LeaveLoop(r)
    \/ PutSample(r)
    \/ EndOfBlock(r)
    \/ CheckSamples(r)
    \/ ClearKeys(r)
    \/ InsertKeys(r)
    \/ MatchNothing(r)
    \/ StartMatch(r)
    \/ EndMatch(r)

LoaderStep(l) == ReadKey(l) \/ EndOfKeys(l) \/ PostLoaded(l)

Next ==
    \/ \E i \in Instance : ActivityStep(i) \/ PlayerStep(i)
    \/ \E r \in Recorder : RecorderStep(r) \/ HandleFoundIndex(r)
    \/ \E l \in Loader : LoaderStep(l) \/ HandleLoaded(l)

Spec == Init /\ [][Next]_vars

(* Threads are scheduled and the main looper delivers every message; the   *)
(* user, the player and the life of the activity owe nothing.              *)
Fairness ==
    /\ \A r \in Recorder : WF_vars(RecorderStep(r)) /\ WF_vars(HandleFoundIndex(r))
    /\ \A l \in Loader : WF_vars(LoaderStep(l)) /\ WF_vars(HandleLoaded(l))

FairSpec == Spec /\ Fairness

(* A microphone that is asked again and again delivers samples.            *)
MicrophoneWorks ==
    \A r \in Recorder : SF_vars(\E b \in 1 .. MinBytes : ReadMicrophone(r, b))

-----------------------------------------------------------------------------
(* Workers.                                                                *)

(* An activity has at most one recorder thread at work (from the click on  *)
(* "search" to the handling of its result), whatever is tapped meanwhile:  *)
(* isMatching, set and tested by the looper only, is the only lock.        *)
OneWorkerPerInstance ==
    \A r, s \in Recording : rowner[r] = rowner[s] => r = s

(* isMatching says exactly whether a search of the activity is under way:  *)
(* never stuck after a search, never cleared by the result of another one, *)
(* in destroyed activities as well.                                        *)
MatchingFlagExact ==
    \A i \in Instance : isMatching[i] <=> \E r \in Recording : rowner[r] = i

(* finish() in onDestroy interrupts the thread that is at work: every      *)
(* recorder of an activity that is gone has its interrupt flag set.        *)
OrphansAreInterrupted ==
    \A r \in Recording : rowner[r] # live => interrupted[r]

(* No index is loaded while keys are matched against it, and every key     *)
(* that the files loaded so far hold is in it, none lost and none still to *)
(* come: the load button is disabled before the search button is enabled,  *)
(* and threads never share track_keys.  (The files may be cut short or     *)
(* empty, and so may the index be.)  For one activity at a time, created   *)
(* when the threads of the one before have ended.                          *)
MatchSeesLoadedIndex ==
    \A r \in Recorder : rpc[r] = "matching" =>
        /\ Reading = {}
        /\ track_keys = keys_in_files

(* A search matches what it recorded: the buffer holds the samples of this *)
(* thread only, silence beyond what was recorded (all of it recorded       *)
(* unless the thread was interrupted), and rec_keys are the keys of that.  *)
FreshMatch ==
    \A r \in Recorder : rpc[r] = "matching" =>
        /\ \A k \in Slot :
             record_buffer[k] = IF k < recorded_samples THEN r ELSE Zero
        /\ recorded_samples < NRECSAMPLES => interrupted[r]
        /\ rec_keys = <<KeysOfBuffer>>

(* The last block may run past the end of the buffer, by less than a block. *)
OverrunIsBounded == recorded_samples < NRECSAMPLES + MinBytes

-----------------------------------------------------------------------------
(* The player.                                                             *)

(* The player of a destroyed activity is silent: neither a result nor a    *)
(* seek that arrives after onDestroy starts it again.                      *)
DeadNeverPlays ==
    \A i \in Instance : player[i] = "started" => live = i

(* What is heard can be stopped: while the track plays,                    *)
(* isMediaPlayerPlaying is set and the stop button works.                  *)
AudibleIsStoppable ==
    \A i \in Instance : player[i] = "started" => isMediaPlayerPlaying[i]

(* During the whole of a search the translation of a live activity stays   *)
(* ready to be sought in (or has failed by itself): nothing taps can do    *)
(* takes it away between the click and the result.                         *)
SearchKeepsPlayer ==
    \A i \in Instance : isMatching[i] /\ live = i =>
        /\ isMediaPlayerReady[i]
        /\ player[i] \in Seekable \cup {"error"}

(* A seek under way is inside the track that is loaded.                    *)
SeekInBounds ==
    \A i \in Instance : seek[i] # NoSeek =>
        /\ seek[i] < translationMaxDuration_ms[i]
        /\ player[i] # "preparing"

(* An index file is never handed to the player: the dialog on top was      *)
(* opened for an index only if the activity that will get its result,      *)
(* re-created or not, takes the result for an index.                       *)
FpkeysNeverPlayed ==
    dialogs # <<>> /\ live # None /\ dialogs[Len(dialogs)] = "fpkeys"
        => selecting[live] = "fpkeys"

-----------------------------------------------------------------------------
(* What happens in the end.                                                *)

(* If the microphone works every search ends: its result is handled.       *)
SearchTerminates ==
    MicrophoneWorks => \A i \in Instance : isMatching[i] ~> ~isMatching[i]

(* Even with a microphone that never delivers, the recorder of a destroyed *)
(* activity stops: its interrupt is seen.                                  *)
OrphansDrain ==
    \A r \in Recorder :
      (rpc[r] # "idle" /\ rowner[r] # live) ~> (rpc[r] = "idle")


-----------------------------------------------------------------------------
(* Claims of the source that the code does not keep.                       *)

(* assert(n == _ctx.track_keys.size()) in read_track_fpkeys.               *)
AssertReadCount ==
    \A l \in Loader : lpc[l] = "read" => track_keys = announced[l]

(* BOOST_ASSERT_MSG(i < N, "out of range") of boost::array::operator[].    *)
IndexInRange ==
    \A r \in Recorder : rpc[r] = "put" /\ left[r] > 0 =>
        recorded_samples < NRECSAMPLES
==============================================================================
