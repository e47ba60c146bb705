---------------------------- MODULE NativeContext ----------------------------
(***************************************************************************)
(* The process-wide native context of src/src/amatch_interface_imp.cpp:    *)
(* the static _ctx and the functions the Java side calls on it.  The       *)
(* context has no lock and outlives every activity of the process.         *)
(*                                                                         *)
(* A sample is abstracted to the thread that wrote it, a fingerprint key   *)
(* batch to the set of writers of the buffer it was computed from, and the *)
(* track index to its number of keys.                                      *)
(***************************************************************************)
EXTENDS Integers, Sequences

CONSTANTS
    Recorder,       \* identities of RecorderThread objects
    Zero,           \* the silence that record_buffer.assign(0.0) writes
    NRECSAMPLES,    \* capacity of record_buffer
    IndexFiles,     \* the .fpkeys files there are to load
    FoundIndex      \* positive indexes that match_single_sample_mt may return

ASSUME CapacityAssumption == NRECSAMPLES \in Nat \ {0}
(* A file as read_keys_from_file meets it: the count that it announces and *)
(* the keys that can be read.  They differ in a file that is cut short; a  *)
(* missing file, an empty one and one without a whole header have neither. *)
ASSUME IndexFilesAssumption == IndexFiles \subseteq [len : Nat, keys : Nat]
ASSUME FoundIndexAssumption == FoundIndex \subseteq Nat \ {0}
ASSUME ZeroAssumption == Zero \notin Recorder

VARIABLES
    track_keys,        \* number of keys in _ctx.track_keys
    rec_keys,          \* the batches of keys in _ctx.rec_keys
    recorded_samples,  \* _ctx.recorded_samples
    record_buffer      \* _ctx.record_buffer

ctxVars == <<track_keys, rec_keys, recorded_samples, record_buffer>>
bufferVars == <<recorded_samples, record_buffer>>

Slot == 0 .. NRECSAMPLES - 1
Sample == Recorder \cup {Zero}

ContextTypeOK ==
    /\ track_keys \in Nat
    /\ rec_keys \in Seq(SUBSET Sample)
    /\ recorded_samples \in Nat
    /\ record_buffer \in [Slot -> Sample]

ContextInit ==
    /\ track_keys = 0
    /\ rec_keys = <<>>
    /\ recorded_samples = 0
    /\ record_buffer = [k \in Slot |-> Zero]

(* Mutant: the last recording stays in the buffer.                         *)
clear_recorded_samples_CountOnly ==
    /\ recorded_samples' = 0
    /\ UNCHANGED <<record_buffer, track_keys, rec_keys>>

clear_recorded_samples ==
    /\ recorded_samples' = 0
    /\ record_buffer' = [k \in Slot |-> Zero]
    /\ UNCHANGED <<track_keys, rec_keys>>

(* One iteration of put_recorded_samples by r at index a.  Nothing bounds  *)
(* a: a store beyond the last slot leaves the array, and the count goes on *)
(* growing.                                                                *)
put_recorded_sample(r, a) ==
    /\ record_buffer' = [k \in Slot |-> IF k = a THEN r ELSE record_buffer[k]]
    /\ recorded_samples' = a + 1
    /\ UNCHANGED <<track_keys, rec_keys>>

(* Mutant: the loop goes on when the buffer is exactly full.               *)
RecordedEnough_Strict == recorded_samples > NRECSAMPLES

(* get_recorded_samples_size() >= num_samples_to_record().                 *)
RecordedEnough == recorded_samples >= NRECSAMPLES

(* The keys come from the whole buffer, whatever was recorded.             *)
KeysOfBuffer == {record_buffer[k] : k \in Slot}

clear_rec_keys ==
    /\ rec_keys' = <<>>
    /\ UNCHANGED <<track_keys, bufferVars>>

insert_rec_keys ==
    /\ rec_keys' = Append(rec_keys, KeysOfBuffer)
    /\ UNCHANGED <<track_keys, bufferVars>>

(* match_sample gives up when there are fewer than 10 keys; a batch always *)
(* has more, so that is when there is no batch.                            *)
TooFewKeys == rec_keys = <<>>

(* 0 stands for "not found".                                               *)
MatchResult == {0} \cup FoundIndex

(* One key read by read_keys_from_file.  A push_back that races with that  *)
(* of another thread may be lost.                                          *)
push_track_key(raced) ==
    /\ \/ track_keys' = track_keys + 1
       \/ raced /\ track_keys' = track_keys
    /\ UNCHANGED <<rec_keys, bufferVars>>
==============================================================================
