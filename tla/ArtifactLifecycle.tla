------------------------- MODULE ArtifactLifecycle --------------------------
(***************************************************************************)
(* The life of a capture's artifacts, from prepare_output_paths to the     *)
(* archive, as main.cpp drives it: first retry the uploads earlier runs    *)
(* left pending, then capture, seal, upload and archive a session of its   *)
(* own. A client is one btclient process; it may be killed between any two *)
(* of its steps and launched again, and several clients may share one      *)
(* --artifacts-dir, which the code does not lock.                          *)
(***************************************************************************)
EXTENDS ArtifactFiles

CONSTANTS
    Clients,      \* processes that use the artifacts directory
    PathChoices,  \* what --event-log / --summary-json may ask for
    WritesMayFail,\* whether the disk may refuse a write (full, read-only ...)
    MaxCrashes    \* how many kills a behaviour may have (a bound of the model)

ASSUME LifecycleAssumption ==
    /\ PathChoices \subseteq OutputPaths
    /\ WritesMayFail \in BOOLEAN
    /\ MaxCrashes \in Nat

VARIABLES
    pending,   \* artifacts/pending/<session>
    archive,   \* artifacts/archive/<session>
    ext,       \* the files at the override paths, shared by all sessions
    received,  \* what the destination has accepted
    pc,        \* where each client is in main()
    client,    \* the locals of each client
    crashes,   \* kills so far
    copies,    \* history: accepted uploads per session (saturating)
    failed,    \* history: failed uploads per session (saturating)
    blamed,    \* history: sessions with a fault that explains a second copy
    reused     \* history: archived sessions whose id a later capture was given

disk == <<pending, archive, ext>>
history == <<copies, failed, blamed, reused>>
vars == <<disk, received, pc, client, crashes, history>>

-----------------------------------------------------------------------------
(* Types.                                                                   *)

Stopped == {"idle", "exit_0", "exit_2", "exit_3", "crashed"}
Retrying == {"scan", "pick"}
Uploading == {"send", "archive_check", "archive_rename"}
WritingJson == {"json_read", "json_open", "json_write"}
Capturing == {"prepare_archive", "prepare_pending", "open_log", "capture",
              "summary_open", "summary_write"}
Labels == Stopped \cup Retrying \cup Uploading \cup WritingJson \cup Capturing

Jobs == {"capturing", "ready_to_upload", "failed", "archived"}

Locals ==
    [dest     : BOOLEAN,                     \* a destination URL is configured
     src      : BOOLEAN,                     \* a torrent source is given
     sid      : Sessions,                    \* config.session_id
     opt      : OutputPaths,                 \* --event-log, --summary-json
     todo     : SUBSET Sessions,             \* ready sessions not yet retried
     uploaded : BOOLEAN,                     \* uploaded_any
     own      : BOOLEAN,                     \* past the retries, on its own session
     cur      : Sessions,                    \* the session it works on
     paths    : [Sessions -> OutputPaths],   \* output_paths, by session
     logOk    : BOOLEAN,                     \* the event log stream is good()
     job      : Jobs,                        \* the state.json it is writing
     draft    : Manifest,                    \* its new contents
     fd       : {"pending", "archive"}]      \* where the file it has open is

Upload == [session : Sessions,
           state   : ArtifactState \cup {"damaged"},
           files   : [Kinds -> ExtFile]]

\* Every variable stays within its type.
TypeOK ==
    /\ pending \in [Sessions -> Dir]
    /\ archive \in [Sessions -> Dir]
    /\ ext \in [Kinds -> ExtFile]
    /\ received \in SUBSET Upload
    /\ pc \in [Clients -> Labels]
    /\ client \in [Clients -> Locals]
    /\ crashes \in 0..MaxCrashes
    /\ copies \in [Sessions -> 0..MaxCount]
    /\ failed \in [Sessions -> 0..MaxCount]
    /\ blamed \in SUBSET Sessions
    /\ reused \in SUBSET Sessions

-----------------------------------------------------------------------------
(* Processes.                                                               *)

\* The locals of a process before its arguments are parsed.
NoLocals ==
    [dest |-> FALSE, src |-> FALSE, sid |-> CHOOSE s \in Sessions : TRUE,
     opt |-> artifact_paths_for_session_dir, todo |-> {}, uploaded |-> FALSE,
     own |-> FALSE, cur |-> CHOOSE s \in Sessions : TRUE,
     paths |-> [s \in Sessions |-> artifact_paths_for_session_dir],
     logOk |-> TRUE, job |-> "capturing", draft |-> NoManifest,
     fd |-> "pending"]

\* What is still known of a process once it has ended: how it was invoked.
Ended(c) ==
    [NoLocals EXCEPT !.dest = client[c].dest, !.src = client[c].src,
                     !.sid = client[c].sid, !.cur = client[c].sid]

Goto(c, label) == pc' = [pc EXCEPT ![c] = label]

\* Mutant: main() returns 0 after an upload or archive error it has reported.
Exit_ErrorIgnored(c, code) ==
    /\ Goto(c, IF code = "exit_3" THEN "exit_0" ELSE code)
    /\ client' = [client EXCEPT ![c] = Ended(c)]

\* main() returns (or the process is killed): only the disk survives.
Exit(c, code) ==
    /\ Goto(c, code)
    /\ client' = [client EXCEPT ![c] = Ended(c)]

\* The last catch block of main().
Throw(c) == Exit(c, "exit_2")

Init ==
    /\ pending = [s \in Sessions |-> NoDir]
    /\ archive = [s \in Sessions |-> NoDir]
    /\ ext = [k \in Kinds |-> NoExtFile]
    /\ received = {}
    /\ pc = [c \in Clients |-> "idle"]
    /\ client = [c \in Clients |-> NoLocals]
    /\ crashes = 0
    /\ copies = [s \in Sessions |-> 0]
    /\ failed = [s \in Sessions |-> 0]
    /\ blamed = {}
    /\ reused = {}

\* A process starts. Its session id is generated or given by --session-id, so
\* it may repeat that of an earlier run, but no two live processes capture
\* under the same one. Without a torrent source the id is never used.
Launch(c, dest, src) ==
    \E s \in Sessions, at \in PathChoices :
        /\ pc[c] \in Stopped
        /\ IF src
           THEN \A d \in Clients \ {c} :
                    pc[d] \notin Stopped /\ client[d].src => client[d].sid # s
           ELSE s = NoLocals.sid
        /\ client' = [client EXCEPT ![c] =
              [NoLocals EXCEPT !.dest = dest, !.src = src, !.sid = s, !.cur = s,
                               !.opt = at]]
        /\ Goto(c, "scan")
        /\ UNCHANGED <<disk, received, crashes, history>>

\* --help, or arguments main() rejects before it touches the disk.
Usage(c) ==
    /\ pc[c] \in Stopped
    /\ \E code \in {"exit_0", "exit_2"} : Goto(c, code)
    /\ client' = [client EXCEPT ![c] = NoLocals]
    /\ UNCHANGED <<disk, received, crashes, history>>

-----------------------------------------------------------------------------
(* Retrying the uploads of earlier runs.                                    *)

\* Mutant: any pending directory counts, whatever its manifest says.
ReadySessions_AnyState == {s \in Sessions : pending[s].present}

\* The sessions find_pending_artifact_sessions reports as ready_to_upload.
ReadySessions ==
    {s \in Sessions : pending[s].present
                      /\ pending[s].manifest.state = "ready_to_upload"}

\* find_pending_artifact_sessions reads every manifest once, before any retry.
Scan(c) ==
    /\ pc[c] = "scan"
    /\ client' = [client EXCEPT
          ![c].todo = ReadySessions,
          ![c].paths = [s \in Sessions |-> IF s \in ReadySessions
                                           THEN pending[s].manifest.at
                                           ELSE client[c].paths[s]]]
    /\ Goto(c, "pick")
    /\ UNCHANGED <<disk, received, crashes, history>>

\* The next ready session, in the order of the directory names ...
PickNext(c) ==
    /\ pc[c] = "pick"
    /\ client[c].dest
    /\ \E s \in client[c].todo :
        /\ \A t \in client[c].todo : s <= t
        /\ client' = [client EXCEPT ![c].cur = s, ![c].todo = @ \ {s}]
    /\ Goto(c, "send")
    /\ UNCHANGED <<disk, received, crashes, history>>

\* ... and what main() does when none is left, or none may be uploaded.
PickDone(c) ==
    /\ pc[c] = "pick"
    /\ client[c].dest => client[c].todo = {}
    /\ \/ /\ client[c].src
          /\ Goto(c, "prepare_archive")
          /\ client' = [client EXCEPT ![c].cur = client[c].sid, ![c].todo = {}]
       \/ /\ ~client[c].src
          /\ Exit(c, IF client[c].uploaded THEN "exit_0" ELSE "exit_2")
    /\ UNCHANGED <<disk, received, crashes, history>>

-----------------------------------------------------------------------------
(* Uploading. The destination is external: it may accept or refuse, and the *)
(* answer to an accepted upload may be lost or come after the 60 s timeout. *)

\* The contents of artifact k of session s when its path is at[k].
FileAt(s, k, at) ==
    IF at[k] = "dir" THEN [st |-> pending[s].files[k], of |-> s] ELSE ext[k]

\* What a request for client c's current session carries.
Request(c) ==
    LET s == client[c].cur IN
    [session |-> s,
     state   |-> pending[s].manifest.state,
     files   |-> [k \in Kinds |-> FileAt(s, k, client[c].paths[s])]]

\* ensure_upload_file_exists, for the three files of a request.
CanSend(c) ==
    /\ Request(c).state # "absent"
    /\ \A k \in Kinds : Request(c).files[k].st # "absent"

\* The destination takes the request.
Accept(c) ==
    /\ CanSend(c)
    /\ received' = received \cup {Request(c)}
    /\ copies' = [copies EXCEPT ![client[c].cur] = Bump(@)]

\* send_artifacts_to_destination throws: main() goes on to record the failure.
SendThrows(c) ==
    /\ pc[c] = "send"
    /\ failed' = [failed EXCEPT ![client[c].cur] = Bump(@)]
    /\ client' = [client EXCEPT ![c].job = "failed"]
    /\ Goto(c, "json_read")
    /\ UNCHANGED <<disk, crashes>>

\* Mutant: the upload error is only logged, and the session archived.
SendFails_Swallowed(c) ==
    /\ pc[c] = "send"
    /\ Goto(c, "archive_check")
    /\ UNCHANGED <<disk, client, crashes, received, history>>

\* A file is missing, the URL is invalid, or the destination does not accept.
SendFails(c) ==
    /\ SendThrows(c)
    /\ UNCHANGED <<received, copies, blamed, reused>>

\* The destination accepts, but the client never learns it.
SendLost(c) ==
    /\ SendThrows(c)
    /\ Accept(c)
    /\ blamed' = blamed \cup {client[c].cur}
    /\ UNCHANGED reused

\* The destination accepts and the 2xx answer arrives.
SendOk(c) ==
    /\ pc[c] = "send"
    /\ Accept(c)
    /\ Goto(c, "archive_check")
    /\ UNCHANGED <<disk, client, crashes, failed, blamed, reused>>

\* archive_artifact_session refuses an archive directory that exists.
ArchiveCheck(c) ==
    /\ pc[c] = "archive_check"
    /\ \/ /\ archive[client[c].cur].present
          /\ Exit(c, "exit_3")
       \/ /\ ~archive[client[c].cur].present
          /\ Goto(c, "archive_rename")
          /\ UNCHANGED client
    /\ UNCHANGED <<disk, received, crashes, history>>

\* Files that are open in a directory stay open when it is renamed.
OpenAcrossRename(s) ==
    [d \in Clients |->
        IF client[d].cur = s /\ pc[d] \in {"json_write", "capture", "summary_write"}
        THEN [client[d] EXCEPT !.fd = "archive"]
        ELSE client[d]]

\* Mutant: the directory is copied and the original left behind.
ArchiveRename_Copy(c) ==
    LET s == client[c].cur IN
    /\ pc[c] = "archive_rename"
    /\ pending[s].present /\ ~archive[s].present
    /\ archive' = [archive EXCEPT ![s] = pending[s]]
    /\ client' = [client EXCEPT ![c].job = "archived"]
    /\ Goto(c, "json_read")
    /\ UNCHANGED <<pending, ext, received, crashes, history>>

\* The rename of the pending directory into the archive ...
ArchiveRename(c) ==
    LET s == client[c].cur IN
    /\ pc[c] = "archive_rename"
    /\ pending[s].present /\ ~archive[s].present
    /\ archive' = [archive EXCEPT ![s] = pending[s]]
    /\ pending' = [pending EXCEPT ![s] = NoDir]
    /\ client' = [OpenAcrossRename(s) EXCEPT ![c].job = "archived"]
    /\ Goto(c, "json_read")
    /\ UNCHANGED <<ext, received, crashes, history>>

\* ... which another client may have done first, or the disk may refuse.
ArchiveThrows(c) ==
    LET s == client[c].cur IN
    /\ pc[c] = "archive_rename"
    /\ WritesMayFail \/ ~pending[s].present \/ archive[s].present
    /\ Exit(c, "exit_3")
    /\ blamed' = blamed \cup {s}
    /\ UNCHANGED <<disk, received, crashes, copies, failed, reused>>

-----------------------------------------------------------------------------
(* Writing state.json: write_artifact_state and                             *)
(* record_artifact_upload_failure read the old manifest, truncate the file  *)
(* and write the new one. The stream is destroyed unchecked, so what it     *)
(* still buffers may be lost without an error.                              *)

Place(c) == IF client[c].job = "archived" THEN "archive" ELSE "pending"

\* Replace directory dir[s] at the given place, leaving the other place alone.
PutDir(place, s, dir) ==
    /\ pending' = IF place = "pending" THEN [pending EXCEPT ![s] = dir] ELSE pending
    /\ archive' = IF place = "archive" THEN [archive EXCEPT ![s] = dir] ELSE archive
    /\ UNCHANGED ext

DirAt(place, s) == IF place = "pending" THEN pending[s] ELSE archive[s]

\* The manifest a client builds from the previous one for its current job.
NewManifest(c, previous) ==
    LET at == client[c].paths[client[c].cur] IN
    CASE client[c].job = "failed"   -> upload_failure_json(previous, at)
      [] client[c].job = "archived" ->
            base_state_json(previous, "archived", artifact_paths_for_session_dir)
      [] OTHER                      -> base_state_json(previous, client[c].job, at)

JsonRead(c) ==
    LET s == client[c].cur
        dir == DirAt(Place(c), s)
    IN
    /\ pc[c] = "json_read"
    /\ PutDir(Place(c), s, create_directories(dir))
    /\ client' = [client EXCEPT ![c].draft = NewManifest(c, dir.manifest)]
    /\ Goto(c, "json_open")
    /\ UNCHANGED <<received, crashes, history>>

\* write_json_file opens the file for output: until the write it is empty.
JsonOpen(c) ==
    LET s == client[c].cur IN
    /\ pc[c] = "json_open"
    /\ PutDir(Place(c), s, [create_directories(DirAt(Place(c), s)) EXCEPT
                               !.manifest = DamagedManifest])
    /\ client' = [client EXCEPT ![c].fd = Place(c)]
    /\ Goto(c, "json_write")
    /\ UNCHANGED <<received, crashes, history>>

\* Where each caller goes on once the manifest is (believed to be) written.
JsonReturn(c) ==
    LET me == [client[c] EXCEPT !.draft = NoManifest, !.fd = "pending"] IN
    \/ /\ me.job = "capturing"
       /\ Goto(c, "open_log")
       /\ client' = [client EXCEPT ![c] = me]
    \/ /\ me.job = "ready_to_upload" /\ me.dest
       /\ Goto(c, "send")
       /\ client' = [client EXCEPT ![c] = me]
    \/ /\ me.job = "archived" /\ ~me.own
       /\ Goto(c, "pick")
       /\ client' = [client EXCEPT ![c] = [me EXCEPT !.uploaded = TRUE]]
    \/ /\ \/ me.job = "ready_to_upload" /\ ~me.dest
          \/ me.job = "archived" /\ me.own
       /\ Exit(c, "exit_0")
    \/ /\ me.job = "failed"
       /\ Exit(c, "exit_3")

JsonWrite(c) ==
    LET s == client[c].cur
        fd == client[c].fd
    IN
    /\ pc[c] = "json_write"
    /\ PutDir(fd, s, [DirAt(fd, s) EXCEPT !.manifest = client[c].draft])
    /\ JsonReturn(c)
    /\ UNCHANGED <<received, crashes, history>>

\* The destructor of the ofstream cannot write what is buffered.
JsonLost(c) ==
    /\ pc[c] = "json_write"
    /\ WritesMayFail
    /\ JsonReturn(c)
    /\ UNCHANGED <<disk, received, crashes, history>>

\* A call that does report its failure: what main() returns depends on the job.
JsonThrows(c) ==
    /\ pc[c] \in WritingJson
    /\ WritesMayFail
    /\ Exit(c, IF client[c].job \in {"failed", "archived"} THEN "exit_3" ELSE "exit_2")
    /\ UNCHANGED <<disk, received, crashes, history>>

-----------------------------------------------------------------------------
(* Capturing a session of its own. The capture loop is abstracted to its    *)
(* effect on the event log; exceptions leave the directory as it is.        *)

\* prepare_output_paths refuses an archived session id ...
PrepareArchive(c) ==
    /\ pc[c] = "prepare_archive"
    /\ \/ /\ archive[client[c].sid].present
          /\ Throw(c)
       \/ /\ ~archive[client[c].sid].present
          /\ Goto(c, "prepare_pending")
          /\ UNCHANGED client
    /\ UNCHANGED <<disk, received, crashes, history>>

\* Mutant: a directory that is not empty is used all the same.
PreparePending_NonEmpty(c) ==
    LET s == client[c].sid IN
    /\ pc[c] = "prepare_pending"
    /\ pending' = [pending EXCEPT ![s] = create_directories(@)]
    /\ client' = [client EXCEPT ![c].own = TRUE, ![c].job = "capturing",
                                ![c].paths[s] = client[c].opt]
    /\ Goto(c, "json_read")
    /\ UNCHANGED <<archive, ext, received, crashes, history>>

\* ... and one whose pending directory holds anything; else it creates it.
PreparePending(c) ==
    LET s == client[c].sid IN
    /\ pc[c] = "prepare_pending"
    /\ \/ /\ WritesMayFail \/ (pending[s].present /\ ~is_empty(pending[s]))
          /\ Throw(c)
          /\ UNCHANGED <<pending, reused>>
       \/ /\ pending[s].present => is_empty(pending[s])
          /\ pending' = [pending EXCEPT ![s] = create_directories(@)]
          /\ client' = [client EXCEPT ![c].own = TRUE, ![c].job = "capturing",
                                      ![c].paths[s] = client[c].opt]
          /\ reused' = IF archive[s].present THEN reused \cup {s} ELSE reused
          /\ Goto(c, "json_read")
    /\ UNCHANGED <<archive, ext, received, crashes, copies, failed, blamed>>

\* Put st into artifact k of the session client c captures.
PutFile(c, k, st) ==
    LET s == client[c].cur
        fd == client[c].fd
    IN
    IF client[c].paths[s][k] = "ext"
    THEN /\ ext' = [ext EXCEPT ![k] = [st |-> st, of |-> s]]
         /\ UNCHANGED <<pending, archive>>
    ELSE PutDir(fd, s, [DirAt(fd, s) EXCEPT !.files[k] = st])

\* Opening an output truncates it; it fails where the directory is gone.
OpenOutput(c, k, next) ==
    \/ /\ client[c].paths[client[c].cur][k] = "ext" \/ pending[client[c].cur].present
       /\ PutFile(c, k, "partial")
       /\ Goto(c, next)
       /\ UNCHANGED client
    \/ /\ \/ WritesMayFail
          \/ /\ client[c].paths[client[c].cur][k] = "dir"
             /\ ~pending[client[c].cur].present
       /\ Throw(c)
       /\ UNCHANGED disk

\* The EventWriter constructor.
OpenLog(c) ==
    /\ pc[c] = "open_log"
    /\ OpenOutput(c, "event_log", "capture")
    /\ UNCHANGED <<received, crashes, history>>

\* write_event does not look at the stream: a failed write only marks it bad.
LogFault(c) ==
    /\ pc[c] = "capture"
    /\ WritesMayFail
    /\ client' = [client EXCEPT ![c].logOk = FALSE]
    /\ UNCHANGED <<disk, received, pc, crashes, history>>

\* The torrent cannot be loaded or added.
CaptureThrows(c) ==
    /\ pc[c] = "capture"
    /\ Throw(c)
    /\ UNCHANGED <<disk, received, crashes, history>>

\* Mutant: close() does not look at the state of the stream.
Finish_Unchecked(c) ==
    /\ pc[c] = "capture"
    /\ PutFile(c, "event_log", IF client[c].logOk THEN "complete" ELSE "partial")
    /\ client' = [client EXCEPT ![c].fd = "pending"]
    /\ Goto(c, "summary_open")
    /\ UNCHANGED <<received, crashes, history>>

\* The loop ends (signal or deadline); EventWriter::close() checks the stream.
Finish(c) ==
    /\ pc[c] = "capture"
    /\ \/ /\ client[c].logOk
          /\ PutFile(c, "event_log", "complete")
          /\ client' = [client EXCEPT ![c].fd = "pending"]
          /\ Goto(c, "summary_open")
       \/ /\ ~client[c].logOk
          /\ Throw(c)
          /\ UNCHANGED disk
    /\ UNCHANGED <<received, crashes, history>>

\* write_session_summary opens the file, which truncates it, ...
SummaryOpen(c) ==
    /\ pc[c] = "summary_open"
    /\ OpenOutput(c, "summary_json", "summary_write")
    /\ UNCHANGED <<received, crashes, history>>

\* ... and writes it: a summary is larger than the buffer, so errors show.
SummaryWrite(c) ==
    /\ pc[c] = "summary_write"
    /\ \/ /\ PutFile(c, "summary_json", "complete")
          /\ client' = [client EXCEPT ![c].job = "ready_to_upload",
                                      ![c].fd = "pending"]
          /\ Goto(c, "json_read")
       \/ /\ WritesMayFail
          /\ Throw(c)
          /\ UNCHANGED disk
    /\ UNCHANGED <<received, crashes, history>>

\* The process is killed. What it has written stays in the page cache.
Crash(c) ==
    /\ pc[c] \notin Stopped
    /\ crashes < MaxCrashes
    /\ crashes' = crashes + 1
    /\ Exit(c, "crashed")
    /\ blamed' = IF pc[c] \in {"archive_check", "archive_rename"}
                 THEN blamed \cup {client[c].cur} ELSE blamed
    /\ UNCHANGED <<disk, received, copies, failed, reused>>

-----------------------------------------------------------------------------
(* The specification.                                                       *)

Retry(c) == Scan(c) \/ PickNext(c) \/ PickDone(c)
Send(c) == SendFails(c) \/ SendLost(c) \/ SendOk(c)
Archive(c) == ArchiveCheck(c) \/ ArchiveRename(c) \/ ArchiveThrows(c)
Json(c) == JsonRead(c) \/ JsonOpen(c) \/ JsonWrite(c) \/ JsonLost(c) \/ JsonThrows(c)
Capture(c) ==
    \/ PrepareArchive(c) \/ PreparePending(c) \/ OpenLog(c)
    \/ CaptureThrows(c) \/ Finish(c) \/ SummaryOpen(c) \/ SummaryWrite(c)

\* What a live process does by itself.
Run(c) == Retry(c) \/ Send(c) \/ Archive(c) \/ Json(c) \/ Capture(c)

Next ==
    \E c \in Clients :
        \/ \E dest, src \in BOOLEAN : Launch(c, dest, src)
        \/ Usage(c)
        \/ Run(c)
        \/ LogFault(c)
        \/ Crash(c)

Spec == Init /\ [][Next]_vars

\* A live process keeps running, and a capture ends (a deadline or a signal);
\* somebody keeps launching the client with a destination configured; and the
\* destination, tried again and again, accepts again and again.
Fairness ==
    \A c \in Clients :
        /\ WF_vars(Run(c))
        /\ SF_vars(\E src \in BOOLEAN : Launch(c, TRUE, src))
        /\ SF_vars(SendOk(c))

FairSpec == Spec /\ Fairness

-----------------------------------------------------------------------------
(* Properties.                                                              *)

\* artifact_lifecycle.cpp, main.cpp:890-905: a pending session whose manifest
\* says ready_to_upload has its own, completely written event log and summary
\* at the paths the manifest names.
ReadyIsComplete ==
    \A s \in ReadySessions : \A k \in Kinds :
        FileAt(s, k, pending[s].manifest.at) = [st |-> "complete", of |-> s]

\* main.cpp:172-188, 917-937: only a session the destination has accepted is
\* ever in the archive, whatever fails, crashes or races before.
ArchivedWasDelivered ==
    \A s \in Sessions :
        archive[s].present => \E u \in received : u.session = s

\* artifact_sender.cpp:145-166: what the destination accepts is a finished
\* capture: both files complete, and of the session the request is for, unless
\* a process was given the id of a session that was archived after it looked.
UploadsAreWhole ==
    \A u \in received :
        \/ u.session \in reused
        \/ \A k \in Kinds : u.files[k] = [st |-> "complete", of |-> u.session]

\* logging.cpp:33-53, artifact_lifecycle.cpp:346-353: once a capture is sealed
\* no later run truncates, overwrites or removes it: it stays whole where it is
\* or moves to the archive, and an archived one stays.
SealedNeverLost ==
    [][\A s \in Sessions :
        /\ Sealed(pending[s]) => Sealed(pending'[s]) \/ Sealed(archive'[s])
        /\ archive[s].present => /\ archive'[s].present
                                 /\ Sealed(archive[s]) => Sealed(archive'[s])]_vars

\* main.cpp:902-959: a run that captured and exits with 0 has handed a complete
\* session on: delivered whole and archived if it had a destination, ready to
\* upload with its files complete otherwise.
ExitZeroIsHonest ==
    \A c \in Clients :
        LET s == client[c].sid
            Whole(files) == \A k \in Kinds : files[k] = [st |-> "complete", of |-> s]
        IN
        pc[c] = "exit_0" /\ client[c].src =>
            \/ /\ client[c].dest
               /\ archive[s].manifest.state = "archived"
               /\ \E u \in received : u.session = s /\ Whole(u.files)
            \/ /\ ~client[c].dest
               /\ s \in ReadySessions
               /\ Whole([k \in Kinds |-> FileAt(s, k, pending[s].manifest.at)])

\* main.cpp:143-199: the destination gets a second copy of a session only after
\* a lost answer, a kill or a disk error between its acceptance and the rename.
NoDuplicateWithoutFault ==
    \A s \in Sessions : copies[s] > 1 => s \in blamed

\* artifact_lifecycle.cpp:231-266: between writes, a readable manifest counts no
\* failure that did not happen, and every one that did unless a write was cut.
FailureHistory ==
    \A s \in Sessions :
        LET m == IF archive[s].present THEN archive[s].manifest ELSE pending[s].manifest IN
        /\ m.state \in ArtifactState
        /\ \A c \in Clients : pc[c] \in WritingJson => client[c].cur # s
        => /\ m.attempts = m.failures
           /\ m.failures <= failed[s]
           /\ crashes = 0 /\ ~WritesMayFail => m.failures = failed[s]

\* The readme's promise to sessions left pending: a ready session is archived
\* in the end, unless a kill between truncating and rewriting its manifest
\* leaves that manifest unreadable.
ReadyIsArchived ==
    \A s \in Sessions :
        s \in ReadySessions ~>
            archive[s].present \/ (crashes > 0 /\ pending[s].manifest = DamagedManifest)

-----------------------------------------------------------------------------
(* Refinement. Whatever the processes do, a session seen from outside goes  *)
(* through the stages of ArtifactDelivery (for runs that override no path). *)

Stage(s) ==
    IF archive[s].present THEN "archived"
    ELSE IF Sealed(pending[s]) THEN "sealed"
    ELSE IF pending[s].present THEN "open"
    ELSE "none"

Delivery ==
    INSTANCE ArtifactDelivery
    WITH stage <- [s \in Sessions |-> Stage(s)],
         accepted <- {u.session : u \in received}

\* main.cpp, artifact_lifecycle.cpp, logging.cpp: every step of every client,
\* kills and failed writes included, is a step of ArtifactDelivery or changes
\* nothing that it can see.
ImplementsDelivery == Delivery!Spec
=============================================================================
