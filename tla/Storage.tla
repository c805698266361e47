------------------------------ MODULE Storage -------------------------------
(***************************************************************************)
(* FileStore (storage/file/FileStore.cpp): a map in memory that every      *)
(* change saves whole, to a temporary file renamed over the store's file.  *)
(* A save is cut between its calls of the file system; each may fail, and  *)
(* the process may stop between any two.                                   *)
(*                                                                         *)
(* faults counts the failures that the code notices, silent those that it  *)
(* does not: buffers flushed in vain by the stream's destructor, a file    *)
(* that cannot be opened taken for none, a machine that stops before it    *)
(* has written what nobody told it to synchronise.                         *)
(***************************************************************************)
EXTENDS Naturals

CONSTANTS
    Key, Value, Absent, None,
    Missing, Torn,          \* no file; a file cut short
    MaxFaults, MaxSilent    \* bounds

VARIABLES entries, file, temp, saving, answer, up, faults, silent

storage == <<entries, file, temp, saving, answer, up, faults, silent>>

ASSUME StorageAssumption ==
    /\ Absent \notin Value
    /\ MaxFaults \in Nat /\ MaxSilent \in Nat
    /\ {Missing, Torn, None} \cap [Key -> Value \cup {Absent}] = {}
    /\ Missing # Torn

AS == INSTANCE AtomicStore WITH
          durable  <- IF file = Missing THEN [k \in Key |-> Absent] ELSE file,
          pending  <- IF saving = "none" THEN None ELSE entries,
          answered <- answer # "none"

StorageInit ==
    /\ entries = AS!Empty
    /\ file = Missing /\ temp = Missing
    /\ saving = "none" /\ answer = "ok"
    /\ up = FALSE
    /\ faults = 0 /\ silent = 0

-----------------------------------------------------------------------------
\* load: a file that is not whole refuses the start.
Load ==
    /\ ~up
    /\ file # Torn
    /\ entries' = IF file = Missing THEN AS!Empty ELSE file
    /\ up' = TRUE
    /\ UNCHANGED <<file, temp, saving, answer, faults, silent>>

\* A file that exists but cannot be opened is an empty store.
LoadUnreadable ==
    /\ ~up
    /\ file # Missing
    /\ silent < MaxSilent
    /\ silent' = silent + 1
    /\ entries' = AS!Empty
    /\ up' = TRUE
    /\ UNCHANGED <<file, temp, saving, answer, faults>>

\* put, erase or apply, up to save().
Begin(batch) ==
    /\ up /\ saving = "none"
    /\ entries' = AS!Applied(entries, batch)
    /\ saving' = "open" /\ answer' = "none"
    /\ UNCHANGED <<file, temp, up, faults, silent>>

OpenTemp ==
    /\ saving = "open"
    /\ temp' = Torn
    /\ saving' = "write"
    /\ UNCHANGED <<entries, file, answer, up, faults, silent>>

\* The whole map, down to the destructor that closes the stream.
WriteTemp ==
    /\ saving = "write"
    /\ temp' = entries
    /\ saving' = "rename"
    /\ UNCHANGED <<entries, file, answer, up, faults, silent>>

\* The buffered end of the map is not written, after !out was tested.
FlushFails ==
    /\ saving = "write"
    /\ silent < MaxSilent
    /\ silent' = silent + 1
    /\ saving' = "rename"
    /\ UNCHANGED <<entries, file, temp, answer, up, faults>>

RenameTemp_Early ==   \* faulty: renamed before it is written
    /\ saving \in {"write", "rename"}
    /\ file' = temp /\ temp' = Missing
    /\ saving' = "none" /\ answer' = "ok"
    /\ UNCHANGED <<entries, up, faults, silent>>

RenameTemp ==
    /\ saving = "rename"
    /\ file' = temp /\ temp' = Missing
    /\ saving' = "none" /\ answer' = "ok"
    /\ UNCHANGED <<entries, up, faults, silent>>

\* save() returns an error, of the opening, the writing or the renaming; the
\* change stays in memory.
SaveFails ==
    /\ saving # "none"
    /\ faults < MaxFaults
    /\ faults' = faults + 1
    /\ saving' = "none" /\ answer' = "failed"
    /\ UNCHANGED <<entries, file, temp, up, silent>>

\* The process ends or is killed.
Down ==
    /\ up
    /\ up' = FALSE
    /\ entries' = AS!Empty
    /\ saving' = "none"
    /\ UNCHANGED <<temp, answer, faults>>

Crash == Down /\ UNCHANGED <<file, silent>>

\* The machine stops: what was renamed may not have been written.
PowerFails ==
    /\ Down
    /\ file # Missing
    /\ silent < MaxSilent
    /\ silent' = silent + 1
    /\ file' = Torn

StorageStep ==
    OpenTemp \/ WriteTemp \/ FlushFails \/ RenameTemp \/ SaveFails
=============================================================================
