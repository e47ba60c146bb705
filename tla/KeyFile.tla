-------------------------------- MODULE KeyFile --------------------------------
(***************************************************************************)
(* A file of fingerprint keys: write_bits of src/src/utils.cpp, which      *)
(* write_fpkeys repeats, and read_keys_from_file of src/src/amatch.cpp,    *)
(* which may read while the file is written.  The words of the file are a  *)
(* magic number, the count of keys and the keys.                           *)
(*                                                                         *)
(* Words go through the buffer of stdio, which writes out its beginning at *)
(* any time.  A disk that is full stays full: what is on it is always a    *)
(* beginning of what was put, and is abstracted to its number of bytes.    *)
(***************************************************************************)
EXTENDS Integers

CONSTANTS
    WORDBYTES,      \* bytes of a word (4)
    MaxKeys         \* bound: longer files are not written to their end

ASSUME WordAssumption == WORDBYTES \in Nat \ {0}
ASSUME MaxKeysAssumption == MaxKeys \in Nat

VARIABLES
    nbits,          \* the count of keys that write_bits is given
    put,            \* bytes given to fwrite
    ondisk,         \* bytes in the file
    full,           \* the disk is full
    reader,         \* where the reader is
    tellg,          \* bytes it has read
    len,            \* the count it has read
    nkeys,          \* the keys it has read
    early           \* it began before the file was closed, for a property

writerVars == <<nbits, put, ondisk, full>>
readerVars == <<reader, tellg, len, nkeys, early>>
keyFileVars == <<nbits, put, ondisk, full, reader, tellg, len, nkeys, early>>

ReaderState == {"idle", "magic", "len", "keys", "returned"}

KeyFileTypeOK ==
    /\ nbits \in Nat /\ put \in Nat /\ full \in BOOLEAN
    /\ ondisk \in 0 .. put
    /\ reader \in ReaderState
    /\ tellg \in Nat /\ len \in Nat /\ nkeys \in Nat
    /\ early \in BOOLEAN

(* A missing file and an empty file read the same.                         *)
KeyFileInit ==
    /\ nbits = 0 /\ put = 0 /\ ondisk = 0 /\ full = FALSE
    /\ reader = "idle"
    /\ tellg = 0 /\ len = 0 /\ nkeys = 0
    /\ early = FALSE

Bytes == WORDBYTES * (2 + nbits)

-----------------------------------------------------------------------------
(* The writer.                                                             *)

fwrite ==
    /\ put < Bytes /\ put < WORDBYTES * (2 + MaxKeys)
    /\ put' = put + WORDBYTES
    /\ UNCHANGED <<nbits, ondisk, full>> /\ UNCHANGED readerVars

(* stdio or fflush writes out a part of what is buffered.                  *)
WriteOut ==
    /\ ~full
    /\ \E n \in ondisk + 1 .. put : ondisk' = n
    /\ UNCHANGED <<nbits, put, full>> /\ UNCHANGED readerVars

(* Nothing that write_bits calls is asked whether it succeeded.            *)
DiskFills ==
    /\ ~full
    /\ full' = TRUE
    /\ UNCHANGED <<nbits, put, ondisk>> /\ UNCHANGED readerVars

(* Mutant: the file is left open.                                          *)
Flushed_Open == put = Bytes

(* fclose returns: the buffer is written out, or lost on a full disk.      *)
Flushed == put = Bytes /\ (ondisk = put \/ full)

-----------------------------------------------------------------------------
(* The reader.                                                             *)

WordOnDisk == tellg + WORDBYTES =< ondisk

OpenToRead(closed) ==
    /\ reader = "idle"
    /\ reader' = "magic"
    /\ early' = ~closed
    /\ UNCHANGED <<tellg, len, nkeys>> /\ UNCHANGED writerVars

(* A failed read leaves the stream failed, and every later one fails.  The *)
(* magic number is not looked at.                                          *)
ReadMagic ==
    /\ reader = "magic"
    /\ IF WordOnDisk
       THEN reader' = "len" /\ tellg' = tellg + WORDBYTES
       ELSE reader' = "returned" /\ UNCHANGED tellg
    /\ UNCHANGED <<len, nkeys, early>> /\ UNCHANGED writerVars

(* Of a count that is cut short the low bytes are read: some count up to   *)
(* nbits.                                                                  *)
ReadLen ==
    /\ reader = "len"
    /\ IF WordOnDisk
       THEN /\ reader' = "keys" /\ tellg' = tellg + WORDBYTES
            /\ len' = nbits
       ELSE /\ reader' = "returned" /\ UNCHANGED tellg
            /\ len' \in IF ondisk = tellg THEN {0} ELSE 0 .. nbits
    /\ UNCHANGED <<nkeys, early>> /\ UNCHANGED writerVars

(* Mutant: keys are pushed until the end of the file was met.              *)
push_back_UntilEof ==
    /\ nkeys' = nkeys + 1
    /\ IF WordOnDisk
       THEN reader' = reader /\ tellg' = tellg + WORDBYTES
       ELSE reader' = "returned" /\ UNCHANGED tellg

push_back ==
    IF WordOnDisk
    THEN /\ nkeys' = nkeys + 1
         /\ reader' = reader /\ tellg' = tellg + WORDBYTES
    ELSE reader' = "returned" /\ UNCHANGED <<tellg, nkeys>>

ReadKey ==
    /\ reader = "keys"
    /\ push_back
    /\ UNCHANGED <<len, early>> /\ UNCHANGED writerVars

ReaderStep == ReadMagic \/ ReadLen \/ ReadKey
================================================================================
