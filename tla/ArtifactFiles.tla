---------------------------- MODULE ArtifactFiles ----------------------------
(***************************************************************************)
(* What one btclient run leaves on disk: the session directory             *)
(* (logging.hpp, OutputPaths), its manifest state.json                     *)
(* (artifact_lifecycle.cpp) and the two artifact files the manifest names. *)
(* Contents are abstracted to what decides the artifact lifecycle: how far *)
(* a file has been written, and whose capture it holds.                    *)
(***************************************************************************)
EXTENDS Naturals

CONSTANTS
    Sessions,   \* session ids; as directory names they are totally ordered
    NoSession,  \* the owner of a file nobody has written
    MaxCount    \* where counters saturate (a bound of the model)

ASSUME FilesAssumption ==
    /\ Sessions \subseteq Nat /\ Sessions # {}
    /\ NoSession \notin Sessions
    /\ MaxCount \in Nat \ {0}

-----------------------------------------------------------------------------
(* Paths. The event log and the summary are in the session directory unless *)
(* --event-log or --summary-json moves them elsewhere; "ext" is that path.  *)

Kinds == {"event_log", "summary_json"}
Locations == {"dir", "ext"}
OutputPaths == [Kinds -> Locations]

artifact_paths_for_session_dir == [k \in Kinds |-> "dir"]

-----------------------------------------------------------------------------
(* Files. Opening a file for output truncates it ("partial") until its      *)
(* writer has written and closed it ("complete").                           *)

FileStates == {"absent", "partial", "complete"}

ExtFile == [st : FileStates, of : Sessions \cup {NoSession}]
NoExtFile == [st |-> "absent", of |-> NoSession]

-----------------------------------------------------------------------------
(* The manifest state.json. "damaged" is a file that exists and that        *)
(* read_json_file cannot parse; like a missing file it has no history.      *)

ArtifactState == {"capturing", "ready_to_upload", "archived"}

Manifest == [state    : ArtifactState \cup {"absent", "damaged"},
             failures : 0..MaxCount,     \* length of upload_failures
             attempts : 0..MaxCount,     \* upload_attempt_count
             at       : OutputPaths]     \* the paths under "files"

Unreadable(st) == [state |-> st, failures |-> 0, attempts |-> 0,
                   at |-> artifact_paths_for_session_dir]
NoManifest == Unreadable("absent")
DamagedManifest == Unreadable("damaged")

\* Mutants: the upload history is not carried over; the state is left unknown.
base_state_json_NoHistory(previous, state, at) ==
    [state |-> state, failures |-> 0, attempts |-> 0, at |-> at]
base_state_json_Unknown(previous, state, at) ==
    [state |-> "unknown", failures |-> previous.failures,
     attempts |-> previous.attempts, at |-> at]

\* base_state_json: a new manifest keeps the upload history of the previous one.
base_state_json(previous, state, at) ==
    [state |-> state, failures |-> previous.failures,
     attempts |-> previous.attempts, at |-> at]

Bump(n) == IF n < MaxCount THEN n + 1 ELSE n

\* Mutants: a failure sends the session back to capturing; it is counted twice.
upload_failure_json_Capturing(previous, at) ==
    [base_state_json(previous, "capturing", at)
        EXCEPT !.failures = Bump(@), !.attempts = Bump(@)]
upload_failure_json_Twice(previous, at) ==
    [base_state_json(previous, "ready_to_upload", at)
        EXCEPT !.failures = Bump(Bump(@)), !.attempts = Bump(Bump(@))]

\* record_artifact_upload_failure: back to ready_to_upload, one failure more.
upload_failure_json(previous, at) ==
    [base_state_json(previous, "ready_to_upload", at)
        EXCEPT !.failures = Bump(@), !.attempts = Bump(@)]

-----------------------------------------------------------------------------
(* The session directory.                                                   *)

Dir == [present : BOOLEAN, manifest : Manifest, files : [Kinds -> FileStates]]

NoFiles == [k \in Kinds |-> "absent"]
NoDir == [present |-> FALSE, manifest |-> NoManifest, files |-> NoFiles]

\* std::filesystem::create_directories: does nothing to an existing directory.
create_directories(dir) == [dir EXCEPT !.present = TRUE]

is_empty(dir) == dir.manifest.state = "absent" /\ dir.files = NoFiles

\* Both files of a capture were written to the end inside the directory.
Sealed(dir) == dir.present /\ \A k \in Kinds : dir.files[k] = "complete"
=============================================================================
