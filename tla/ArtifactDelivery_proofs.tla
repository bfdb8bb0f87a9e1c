----------------------- MODULE ArtifactDelivery_proofs -----------------------
(***************************************************************************)
(* Proofs that no race, kill or failed write of any number of clients      *)
(* damages a sealed capture or delivers a partial one, and that            *)
(* ArtifactLifecycle implements ArtifactDelivery. They are about runs that *)
(* override no path: --event-log and --summary-json take a file out of the *)
(* session directory, and with it out of what the rename moves.            *)
(***************************************************************************)
EXTENDS ArtifactLifecycle_proofs

Default == artifact_paths_for_session_dir

-----------------------------------------------------------------------------
(* The inductive invariant. A session is settled once its capture is whole  *)
(* in pending or it is archived. Clients act on sessions they have listed   *)
(* long ago, so what they rely on is that a session stays settled; and that *)
(* the one process which writes into a session directory works on one that  *)
(* is not settled, unless it was given the id of an archived session.       *)

Settled(s) == archive[s].present \/ Sealed(pending[s])

\* Client c has made the directory of its session and not yet sealed it.
Recording(c) ==
    \/ pc[c] \in {"open_log", "capture", "summary_open", "summary_write"}
    \/ pc[c] \in WritingJson /\ client[c].job = "capturing"

\* Client c has found its current session sealed, or has sealed it.
Holds(c) ==
    \/ pc[c] \in Uploading
    \/ pc[c] \in WritingJson /\ client[c].job # "capturing"

\* No client has a path outside the session directory.
PathsOf(c) ==
    /\ client[c].opt = Default /\ client[c].draft.at = Default
    /\ \A s \in Sessions : client[c].paths[s] = Default

OwnerOf(c) ==
    pc[c] \in Capturing \/ Recording(c) =>
        client[c].src /\ client[c].cur = client[c].sid

RecorderOf(c) ==
    Recording(c) =>
        LET s == client[c].cur IN
        /\ pending[s].present
        /\ pending[s].files["summary_json"] # "complete"
        /\ pc[c] \in {"summary_open", "summary_write"} =>
               pending[s].files["event_log"] = "complete"
        /\ pc[c] \in {"json_open", "json_write"} =>
               client[c].draft.state # "ready_to_upload"
        /\ archive[s].present => s \in reused

HolderOf(c) ==
    /\ \A s \in client[c].todo : Settled(s)
    /\ Holds(c) => Settled(client[c].cur)

ArchiverOf(c) ==
    /\ pc[c] \in WritingJson /\ client[c].job = "archived" =>
           archive[client[c].cur].present
    /\ client[c].fd = "archive" =>
           pc[c] = "json_write" /\ archive[client[c].cur].present

ClientInv(c) ==
    PathsOf(c) /\ OwnerOf(c) /\ RecorderOf(c) /\ HolderOf(c) /\ ArchiverOf(c)

\* Launch lets no two live processes capture under one session id.
OneCapture ==
    \A c, d \in Clients :
        /\ c # d /\ pc[c] \notin Stopped /\ pc[d] \notin Stopped
        /\ client[c].src /\ client[d].src
        => client[c].sid # client[d].sid

DirInv(s) ==
    /\ archive[s].present => Sealed(archive[s])
    /\ ~pending[s].present => pending[s].files = NoFiles
    /\ pending[s].manifest.at = Default
    /\ pending[s].manifest.state = "ready_to_upload" => Settled(s)
    /\ archive[s].present /\ s \notin reused => pending[s].files = NoFiles

SafeInv ==
    /\ TypeOK
    /\ OneCapture
    /\ \A c \in Clients : ClientInv(c)
    /\ \A s \in Sessions : DirInv(s)

-----------------------------------------------------------------------------
(* What a step of client c does to the session directories.                 *)

SameShape(t) ==
    /\ pending'[t].present = pending[t].present /\ pending'[t].files = pending[t].files
    /\ archive'[t].present = archive[t].present /\ archive'[t].files = archive[t].files

\* The pending directory is created, with what files it has (none if it is new).
Creates(c, s) ==
    /\ pending'[s].present /\ pending'[s].files = pending[s].files
    /\ archive'[s].present = archive[s].present /\ archive'[s].files = archive[s].files
    /\ archive[s].present \/ pending[s].files = NoFiles

\* A file is written into the pending directory of the session c captures.
Writes(c, s) ==
    /\ Recording(c) /\ s = client[c].cur
    /\ pending'[s].present
    /\ archive'[s].present = archive[s].present /\ archive'[s].files = archive[s].files

\* A sealed directory moves to the archive.
Moves(c, s) ==
    /\ pc[c] = "archive_rename" /\ s = client[c].cur
    /\ Sealed(pending[s]) /\ ~archive[s].present
    /\ archive'[s] = pending[s] /\ pending'[s] = NoDir

ShapeStep(c) ==
    \E s \in Sessions :
        /\ \A t \in Sessions \ {s} : SameShape(t)
        /\ SameShape(s) \/ Creates(c, s) \/ Writes(c, s) \/ Moves(c, s)

ManifestStep ==
    \A t \in Sessions :
        \/ pending'[t].manifest = pending[t].manifest
        \/ /\ pending'[t].manifest.at = Default
           /\ pending'[t].manifest.state = "ready_to_upload" => Settled(t)

\* Files that others have open move with their directory.
FilesMove(c) ==
    \A d \in Clients \ {c} :
        \/ client'[d].fd = client[d].fd
        \/ /\ pc[d] \in {"json_write", "capture", "summary_write"}
           /\ ~archive[client[d].cur].present /\ archive'[client[d].cur].present

Effect(c) ==
    ShapeStep(c) /\ ManifestStep /\ FilesMove(c) /\ reused \subseteq reused'

\* What happens to a session, seen from those that do not work on it.
LEMMA StaysSettled ==
    ASSUME SafeInv, NEW c \in Clients, ShapeStep(c), NEW t \in Sessions
    PROVE  /\ archive[t].present => archive'[t].present
           /\ Sealed(archive[t]) => Sealed(archive'[t])
           /\ Sealed(pending[t]) => Sealed(pending'[t]) \/ Sealed(archive'[t])
           /\ Settled(t) => Settled(t)'
<1>1. PICK s \in Sessions :
          /\ \A x \in Sessions \ {s} : SameShape(x)
          /\ SameShape(s) \/ Creates(c, s) \/ Writes(c, s) \/ Moves(c, s)
  BY DEF ShapeStep
<1>2. CASE SameShape(t)
  BY <1>2 DEF SameShape, Sealed, Settled
<1>3. CASE t = s /\ Creates(c, s)
  BY <1>3 DEF Creates, Sealed, Settled
<1>4. CASE t = s /\ Writes(c, s)
  <2>1. ~Sealed(pending[s])
    BY <1>4 DEF Writes, SafeInv, ClientInv, RecorderOf, Sealed, Kinds
  <2> QED
    BY <1>4, <2>1 DEF Writes, Sealed, Settled
<1>5. CASE t = s /\ Moves(c, s)
  BY <1>5 DEF Moves, Sealed, Settled
<1> QED
  BY <1>1, <1>2, <1>3, <1>4, <1>5

LEMMA DirStep ==
    ASSUME SafeInv, NEW c \in Clients, Effect(c), TypeOK', NEW t \in Sessions
    PROVE  DirInv(t)'
<1>1. PICK s \in Sessions :
          /\ \A x \in Sessions \ {s} : SameShape(x)
          /\ SameShape(s) \/ Creates(c, s) \/ Writes(c, s) \/ Moves(c, s)
  BY DEF Effect, ShapeStep
<1>2. DirInv(t)
  BY DEF SafeInv
<1>3. /\ pending'[t].manifest.at = Default
      /\ pending'[t].manifest.state = "ready_to_upload" => Settled(t)'
  BY <1>2, StaysSettled DEF Effect, ManifestStep, DirInv
<1>4. reused \subseteq reused'
  BY DEF Effect
<1>5. CASE SameShape(t)
  BY <1>2, <1>3, <1>4, <1>5 DEF SameShape, DirInv, Sealed
<1>6. CASE t = s /\ Creates(c, s)
  BY <1>2, <1>3, <1>4, <1>6 DEF Creates, DirInv, Sealed
<1>7. CASE t = s /\ Writes(c, s)
  <2>1. archive[s].present => s \in reused
    BY <1>7 DEF Writes, SafeInv, ClientInv, RecorderOf
  <2> QED
    BY <1>2, <1>3, <1>4, <1>7, <2>1 DEF Writes, DirInv, Sealed
<1>8. CASE t = s /\ Moves(c, s)
  BY <1>2, <1>3, <1>8 DEF Moves, DirInv, Sealed, NoDir
<1> QED
  BY <1>1, <1>5, <1>6, <1>7, <1>8

\* A capture in progress is nobody else's business.
LEMMA RecorderUndisturbed ==
    ASSUME SafeInv, NEW c \in Clients, Effect(c), NEW d \in Clients \ {c}, Recording(d)
    PROVE  LET t == client[d].cur IN
           /\ pending'[t].present /\ pending'[t].files = pending[t].files
           /\ archive'[t].present = archive[t].present
<1> DEFINE t == client[d].cur
<1>1. PICK s \in Sessions :
          /\ \A x \in Sessions \ {s} : SameShape(x)
          /\ SameShape(s) \/ Creates(c, s) \/ Writes(c, s) \/ Moves(c, s)
  BY DEF Effect, ShapeStep
<1>2. t \in Sessions
  BY TypeParts, LocalsType DEF SafeInv
<1>3. /\ pending[t].present /\ pending[t].files["summary_json"] # "complete"
      /\ client[d].src /\ t = client[d].sid
  BY DEF SafeInv, ClientInv, RecorderOf, OwnerOf
<1>4. CASE SameShape(t)
  BY <1>3, <1>4 DEF SameShape
<1>5. CASE t = s /\ Creates(c, s)
  BY <1>5 DEF Creates
<1>6. CASE t = s /\ Writes(c, s)
  <2>1. client[c].src /\ client[c].sid = t
    BY <1>6 DEF Writes, SafeInv, ClientInv, OwnerOf
  <2>2. pc[c] \notin Stopped /\ pc[d] \notin Stopped
    BY <1>6 DEF Writes, Recording, Stopped, WritingJson
  <2> QED
    BY <1>3, <2>1, <2>2 DEF SafeInv, OneCapture
<1>7. CASE t = s /\ Moves(c, s)
  BY <1>3, <1>7 DEF Moves, Sealed, Kinds
<1> QED
  BY <1>1, <1>2, <1>4, <1>5, <1>6, <1>7

LEMMA OthersStep ==
    ASSUME SafeInv, NEW c \in Clients, Effect(c), OthersKeep(c), NEW d \in Clients \ {c}
    PROVE  ClientInv(d)'
<1>1. ClientInv(d)
  BY DEF SafeInv
<1>2. client[d] \in Locals
  BY TypeParts DEF SafeInv, ProcType
<1>3. /\ client'[d].opt = client[d].opt /\ client'[d].draft = client[d].draft
      /\ client'[d].paths = client[d].paths /\ client'[d].src = client[d].src
      /\ client'[d].cur = client[d].cur /\ client'[d].sid = client[d].sid
      /\ client'[d].todo = client[d].todo /\ client'[d].job = client[d].job
  BY <1>2 DEF OthersKeep, Locals
<1>4. pc'[d] = pc[d]
  BY DEF OthersKeep
<1>5. client[d].cur \in Sessions /\ client[d].todo \subseteq Sessions
  BY <1>2 DEF Locals
<1>6. PathsOf(d)' /\ OwnerOf(d)'
  BY <1>1, <1>3, <1>4 DEF ClientInv, PathsOf, OwnerOf, Recording
<1>7. RecorderOf(d)'
  <2> SUFFICES ASSUME Recording(d) PROVE RecorderOf(d)'
    BY <1>3, <1>4 DEF RecorderOf, Recording
  <2>1. LET t == client[d].cur IN
        /\ pending'[t].present /\ pending'[t].files = pending[t].files
        /\ archive'[t].present = archive[t].present
    BY RecorderUndisturbed
  <2> QED
    BY <1>1, <1>3, <1>4, <2>1 DEF ClientInv, RecorderOf, Effect
<1>8. HolderOf(d)'
  <2>1. \A t \in Sessions : Settled(t) => Settled(t)'
    BY StaysSettled DEF Effect
  <2> QED
    BY <1>1, <1>3, <1>4, <1>5, <2>1 DEF ClientInv, HolderOf, Holds
<1>9. ArchiverOf(d)'
  <2>1. archive[client[d].cur].present => archive'[client[d].cur].present
    BY <1>5, StaysSettled DEF Effect
  <2>2. CASE client'[d].fd = client[d].fd
    BY <1>1, <1>3, <1>4, <2>1, <2>2 DEF ClientInv, ArchiverOf
  <2>3. CASE /\ pc[d] \in {"json_write", "capture", "summary_write"}
             /\ ~archive[client[d].cur].present /\ archive'[client[d].cur].present
    <3>1. ~Recording(d)
      BY <2>3, RecorderUndisturbed
    <3>2. pc[d] = "json_write"
      BY <2>3, <3>1 DEF Recording
    <3> QED
      BY <1>1, <1>3, <1>4, <2>3, <3>2 DEF ClientInv, ArchiverOf
  <2> QED
    BY <2>2, <2>3 DEF Effect, FilesMove
<1> QED
  BY <1>6, <1>7, <1>8, <1>9 DEF ClientInv

-----------------------------------------------------------------------------
(* What a step of client c does to c itself.                                *)

\* No step gives c the session of another live capture.
Unique(c) ==
    \/ pc'[c] \in Stopped
    \/ /\ pc[c] \notin Stopped
       /\ client'[c].src = client[c].src /\ client'[c].sid = client[c].sid
    \/ \A d \in Clients \ {c} :
           pc[d] \notin Stopped /\ client[d].src /\ client'[c].src =>
               client[d].sid # client'[c].sid

Good(c) == Effect(c) /\ Unique(c) /\ ClientInv(c)'

LEMMA GoodIsSafe ==
    ASSUME SafeInv, TypeOK', NEW c \in Clients, OthersKeep(c), Good(c)
    PROVE  SafeInv'
<1>1. \A d \in Clients : ClientInv(d)'
  BY OthersStep DEF Good
<1>2. \A s \in Sessions : DirInv(s)'
  BY DirStep DEF Good
<1>3. OneCapture'
  <2>1. ASSUME NEW d \in Clients \ {c}
        PROVE  /\ pc'[d] = pc[d] /\ client'[d].src = client[d].src
               /\ client'[d].sid = client[d].sid
    <3>1. client[d] \in Locals
      BY TypeParts DEF SafeInv, ProcType
    <3> QED
      BY <2>1, <3>1 DEF OthersKeep, Locals
  <2>2. ASSUME NEW d \in Clients \ {c}, pc'[c] \notin Stopped, pc[d] \notin Stopped,
               client'[c].src, client[d].src
        PROVE  client'[c].sid # client[d].sid
    BY <2>2 DEF Good, Unique, SafeInv, OneCapture
  <2> QED
    BY <2>1, <2>2 DEF SafeInv, OneCapture
<1> QED
  BY <1>1, <1>2, <1>3 DEF SafeInv

LEMMA QuietEffect ==
    ASSUME SafeInv, NEW c \in Clients, NEW r, client' = [client EXCEPT ![c] = r],
           UNCHANGED <<pending, archive>>, reused \subseteq reused'
    PROVE  Effect(c)
<1>1. \A d \in Clients \ {c} : client'[d] = client[d]
  BY TypeParts DEF SafeInv, ProcType
<1>2. ShapeStep(c)
  BY FilesAssumption DEF ShapeStep, SameShape
<1> QED
  BY <1>1, <1>2 DEF Effect, ManifestStep, FilesMove

LEMMA GoodEnd ==
    ASSUME SafeInv, NEW c \in Clients, NEW code \in Stopped, Exit(c, code), Effect(c)
    PROVE  Good(c)
<1>1. pc'[c] = code /\ client'[c] = Ended(c)
  BY TypeParts DEF SafeInv, ProcType, Exit, Goto
<1>2. /\ client'[c].opt = Default /\ client'[c].draft = NoManifest
      /\ client'[c].paths = [s \in Sessions |-> Default]
      /\ client'[c].todo = {} /\ client'[c].fd = "pending"
  BY <1>1 DEF Ended, NoLocals, Default
<1>3. code \notin Capturing \cup WritingJson \cup Uploading
  BY DEF Stopped, Capturing, WritingJson, Uploading
<1>4. PathsOf(c)'
  BY <1>2 DEF PathsOf, NoManifest, Unreadable, Default
<1>5. OwnerOf(c)' /\ RecorderOf(c)' /\ ~Recording(c)'
  BY <1>1, <1>3 DEF OwnerOf, RecorderOf, Recording, Capturing
<1>6. HolderOf(c)' /\ ArchiverOf(c)'
  BY <1>1, <1>2, <1>3 DEF HolderOf, ArchiverOf, Holds
<1> QED
  BY <1>1, <1>4, <1>5, <1>6 DEF Good, Unique, ClientInv

LEMMA GoodExit ==
    ASSUME SafeInv, NEW c \in Clients, NEW code \in Stopped, Exit(c, code),
           UNCHANGED <<pending, archive>>, reused \subseteq reused'
    PROVE  Good(c)
BY QuietEffect, GoodEnd DEF Exit

\* The facts of the invariant that a step of c starts from.
LEMMA Facts ==
    ASSUME SafeInv, NEW c \in Clients
    PROVE  /\ DiskType /\ ProcType /\ client[c] \in Locals
           /\ client[c].cur \in Sessions /\ client[c].sid \in Sessions
           /\ client[c].paths \in [Sessions -> OutputPaths]
           /\ PathsOf(c) /\ OwnerOf(c) /\ RecorderOf(c) /\ HolderOf(c) /\ ArchiverOf(c)
BY TypeParts, LocalsType DEF SafeInv, ClientInv, ProcType

LEMMA GoodLaunch ==
    ASSUME SafeInv, PathChoices \subseteq {Default}, NEW c \in Clients,
           NEW dest \in BOOLEAN, NEW src \in BOOLEAN, Launch(c, dest, src)
    PROVE  Good(c)
<1>1. PICK s \in Sessions, at \in PathChoices :
         /\ src => \A d \in Clients \ {c} :
                      pc[d] \notin Stopped /\ client[d].src => client[d].sid # s
         /\ client' = [client EXCEPT ![c] =
              [NoLocals EXCEPT !.dest = dest, !.src = src, !.sid = s, !.cur = s,
                               !.opt = at]]
  BY DEF Launch
<1>2. /\ pc'[c] = "scan"
      /\ client'[c] = [NoLocals EXCEPT !.dest = dest, !.src = src, !.sid = s, !.cur = s,
                                       !.opt = at]
  BY <1>1, Facts DEF Launch, Goto, ProcType
<1>3. /\ client'[c].opt = Default /\ client'[c].draft = NoManifest
      /\ client'[c].paths = [x \in Sessions |-> Default]
      /\ client'[c].todo = {} /\ client'[c].fd = "pending"
      /\ client'[c].src = src /\ client'[c].sid = s
  BY <1>2 DEF NoLocals, Default
<1>4. Effect(c)
  BY <1>1, QuietEffect DEF Launch, disk, history
<1>5. Unique(c)
  BY <1>1, <1>3 DEF Unique
<1>6. PathsOf(c)'
  BY <1>3 DEF PathsOf, NoManifest, Unreadable, Default
<1>7. OwnerOf(c)' /\ RecorderOf(c)' /\ HolderOf(c)' /\ ArchiverOf(c)'
  BY <1>2, <1>3
  DEF OwnerOf, RecorderOf, Recording, HolderOf, Holds, ArchiverOf, Capturing,
      WritingJson, Uploading
<1> QED
  BY <1>4, <1>5, <1>6, <1>7 DEF Good, ClientInv

LEMMA GoodUsage ==
    ASSUME SafeInv, NEW c \in Clients, Usage(c)
    PROVE  Good(c)
<1>1. pc'[c] \in {"exit_0", "exit_2"} /\ client'[c] = NoLocals
  BY Facts DEF Usage, Goto, ProcType
<1>2. Effect(c)
  BY QuietEffect DEF Usage, disk, history
<1>3. PathsOf(c)'
  BY <1>1 DEF PathsOf, NoLocals, NoManifest, Unreadable, Default
<1>4. OwnerOf(c)' /\ RecorderOf(c)' /\ HolderOf(c)' /\ ArchiverOf(c)'
  BY <1>1
  DEF OwnerOf, RecorderOf, Recording, HolderOf, Holds, ArchiverOf, Capturing,
      WritingJson, Uploading, NoLocals
<1> QED
  BY <1>1, <1>2, <1>3, <1>4 DEF Good, ClientInv, Unique, Stopped

\* A step that leaves the disk alone and keeps c's invocation.
LEMMA GoodQuiet ==
    ASSUME SafeInv, NEW c \in Clients, pc[c] \notin Stopped,
           NEW r, client' = [client EXCEPT ![c] = r],
           r.src = client[c].src, r.sid = client[c].sid,
           UNCHANGED <<pending, archive, reused>>, ClientInv(c)'
    PROVE  Good(c)
<1>1. client'[c] = r
  BY Facts DEF ProcType
<1> QED
  BY <1>1, QuietEffect DEF Good, Unique

-----------------------------------------------------------------------------
(* The steps that leave the directories as they are.                        *)

LEMMA GoodScan ==
    ASSUME SafeInv, NEW c \in Clients, Scan(c)
    PROVE  Good(c)
<1> DEFINE paths == [s \in Sessions |-> IF s \in ReadySessions
                                         THEN pending[s].manifest.at
                                         ELSE client[c].paths[s]]
           r == [[client[c] EXCEPT !.todo = ReadySessions] EXCEPT !.paths = paths]
<1>1. client' = [client EXCEPT ![c].todo = ReadySessions, ![c].paths = paths]
  BY DEF Scan
<1>2. \A s \in Sessions : paths[s] = Default
  BY Facts DEF SafeInv, DirInv, PathsOf
<1> HIDE DEF paths
<1>3. client' = [client EXCEPT ![c] = r]
  BY <1>1, Facts DEF ProcType
<1>4. /\ r.src = client[c].src /\ r.sid = client[c].sid /\ r.cur = client[c].cur
      /\ r.opt = client[c].opt /\ r.draft = client[c].draft /\ r.fd = client[c].fd
      /\ r.job = client[c].job /\ r.todo = ReadySessions /\ r.paths = paths
  BY Facts DEF Locals
<1> HIDE DEF r
<1>5. client'[c] = r /\ pc'[c] = "pick"
  BY <1>3, Facts DEF ProcType, Scan, Goto
<1>6. PathsOf(c)'
  BY <1>2, <1>4, <1>5, Facts DEF PathsOf
<1>7. OwnerOf(c)' /\ RecorderOf(c)' /\ ~Holds(c)'
  BY <1>5 DEF OwnerOf, RecorderOf, Recording, Holds, Capturing, WritingJson, Uploading
<1>8. \A s \in ReadySessions : Settled(s)'
  BY DEF ReadySessions, SafeInv, DirInv, Scan, disk, Settled
<1>9. HolderOf(c)' /\ ArchiverOf(c)'
  <2>1. client[c].fd # "archive"
    BY Facts DEF ArchiverOf, Scan
  <2> QED
    BY <1>4, <1>5, <1>7, <1>8, <2>1 DEF HolderOf, ArchiverOf, WritingJson
<1> QED
  BY <1>3, <1>4, <1>6, <1>7, <1>9, GoodQuiet DEF Scan, Stopped, disk, history, ClientInv

LEMMA GoodPickNext ==
    ASSUME SafeInv, NEW c \in Clients, PickNext(c)
    PROVE  Good(c)
<1>1. PICK s \in client[c].todo :
         client' = [client EXCEPT ![c].cur = s, ![c].todo = @ \ {s}]
  BY DEF PickNext
<1> DEFINE r == [client[c] EXCEPT !.cur = s, !.todo = @ \ {s}]
<1>2. client' = [client EXCEPT ![c] = r]
  BY <1>1, Facts DEF ProcType
<1>3. /\ r.src = client[c].src /\ r.sid = client[c].sid /\ r.cur = s
      /\ r.opt = client[c].opt /\ r.draft = client[c].draft /\ r.fd = client[c].fd
      /\ r.todo = client[c].todo \ {s} /\ r.paths = client[c].paths
  BY Facts DEF Locals
<1> HIDE DEF r
<1>4. client'[c] = r /\ pc'[c] = "send"
  BY <1>2, Facts DEF ProcType, PickNext, Goto
<1>5. PathsOf(c)'
  BY <1>3, <1>4, Facts DEF PathsOf
<1>6. OwnerOf(c)' /\ RecorderOf(c)'
  BY <1>4 DEF OwnerOf, RecorderOf, Recording, Capturing, WritingJson
<1>7. HolderOf(c)'
  BY <1>3, <1>4, Facts DEF HolderOf, Settled, PickNext, disk
<1>8. ArchiverOf(c)'
  BY <1>3, <1>4, Facts DEF ArchiverOf, PickNext, WritingJson
<1> QED
  BY <1>2, <1>3, <1>5, <1>6, <1>7, <1>8, GoodQuiet
  DEF PickNext, Stopped, disk, history, ClientInv

LEMMA GoodPickDone ==
    ASSUME SafeInv, NEW c \in Clients, PickDone(c)
    PROVE  Good(c)
<1>1. CASE Exit(c, IF client[c].uploaded THEN "exit_0" ELSE "exit_2")
  BY <1>1, GoodExit DEF PickDone, Stopped, disk, history
<1>2. CASE /\ client[c].src
           /\ Goto(c, "prepare_archive")
           /\ client' = [client EXCEPT ![c].cur = client[c].sid, ![c].todo = {}]
  <2> DEFINE r == [client[c] EXCEPT !.cur = client[c].sid, !.todo = {}]
  <2>1. client' = [client EXCEPT ![c] = r]
    BY <1>2, Facts DEF ProcType
  <2>2. /\ r.src = client[c].src /\ r.sid = client[c].sid /\ r.cur = client[c].sid
        /\ r.opt = client[c].opt /\ r.draft = client[c].draft /\ r.fd = client[c].fd
        /\ r.todo = {} /\ r.paths = client[c].paths
    BY Facts DEF Locals
  <2> HIDE DEF r
  <2>3. client'[c] = r /\ pc'[c] = "prepare_archive"
    BY <1>2, <2>1, Facts DEF ProcType, Goto
  <2>4. PathsOf(c)'
    BY <2>2, <2>3, Facts DEF PathsOf
  <2>5. OwnerOf(c)' /\ RecorderOf(c)' /\ HolderOf(c)'
    BY <1>2, <2>2, <2>3
    DEF OwnerOf, RecorderOf, Recording, HolderOf, Holds, WritingJson, Uploading
  <2>6. ArchiverOf(c)'
    BY <2>2, <2>3, Facts DEF ArchiverOf, PickDone, WritingJson
  <2> QED
    BY <2>1, <2>2, <2>4, <2>5, <2>6, GoodQuiet
    DEF PickDone, Stopped, disk, history, ClientInv
<1> QED
  BY <1>1, <1>2 DEF PickDone

LEMMA GoodSendThrows ==
    ASSUME SafeInv, NEW c \in Clients, SendThrows(c), UNCHANGED reused
    PROVE  Good(c)
<1> DEFINE r == [client[c] EXCEPT !.job = "failed"]
<1>1. /\ r.src = client[c].src /\ r.sid = client[c].sid /\ r.cur = client[c].cur
      /\ r.opt = client[c].opt /\ r.draft = client[c].draft /\ r.fd = client[c].fd
      /\ r.todo = client[c].todo /\ r.paths = client[c].paths /\ r.job = "failed"
  BY Facts DEF Locals
<1>2. client' = [client EXCEPT ![c] = r]
  BY DEF SendThrows
<1> HIDE DEF r
<1>3. client'[c] = r /\ pc'[c] = "json_read" /\ pc[c] = "send"
  BY <1>2, Facts DEF ProcType, SendThrows, Goto
<1>4. PathsOf(c)' /\ OwnerOf(c)' /\ RecorderOf(c)'
  BY <1>1, <1>3, Facts
  DEF PathsOf, OwnerOf, RecorderOf, Recording, Capturing
<1>5. HolderOf(c)' /\ ArchiverOf(c)'
  BY <1>1, <1>3, Facts
  DEF HolderOf, Holds, ArchiverOf, Settled, Uploading, SendThrows, disk
<1> QED
  BY <1>1, <1>2, <1>3, <1>4, <1>5, GoodQuiet DEF SendThrows, Stopped, disk, ClientInv

\* A step of an upload: c goes on with the session it holds.
LEMMA GoodHold ==
    ASSUME SafeInv, NEW c \in Clients, pc[c] \in Uploading,
           NEW label \in Uploading, Goto(c, label),
           UNCHANGED <<pending, archive, client, reused>>
    PROVE  Good(c)
<1>1. client' = [client EXCEPT ![c] = client[c]] /\ pc'[c] = label
  BY Facts DEF ProcType, Goto
<1>2. PathsOf(c)' /\ OwnerOf(c)' /\ RecorderOf(c)'
  BY <1>1, Facts
  DEF PathsOf, OwnerOf, RecorderOf, Recording, Capturing, Uploading, WritingJson
<1>3. HolderOf(c)' /\ ArchiverOf(c)'
  BY <1>1, Facts DEF HolderOf, Holds, ArchiverOf, Settled, Uploading, WritingJson
<1> QED
  BY <1>1, <1>2, <1>3, GoodQuiet DEF Stopped, Uploading, ClientInv

LEMMA GoodSend ==
    ASSUME SafeInv, NEW c \in Clients, Send(c)
    PROVE  Good(c)
<1>1. CASE SendFails(c) \/ SendLost(c)
  BY <1>1, GoodSendThrows DEF SendFails, SendLost
<1>2. CASE SendOk(c)
  BY <1>2, GoodHold DEF SendOk, disk, Uploading
<1> QED
  BY <1>1, <1>2 DEF Send

LEMMA GoodArchiveCheck ==
    ASSUME SafeInv, NEW c \in Clients, ArchiveCheck(c)
    PROVE  Good(c)
<1>1. CASE Exit(c, "exit_3")
  BY <1>1, GoodExit DEF ArchiveCheck, disk, history, Stopped
<1>2. CASE Goto(c, "archive_rename") /\ UNCHANGED client
  BY <1>2, GoodHold DEF ArchiveCheck, disk, history, Uploading
<1> QED
  BY <1>1, <1>2 DEF ArchiveCheck

LEMMA GoodThrows ==
    ASSUME SafeInv, NEW c \in Clients,
           ArchiveThrows(c) \/ JsonThrows(c) \/ CaptureThrows(c) \/ Crash(c)
    PROVE  Good(c)
<1>1. CASE ArchiveThrows(c)
  BY <1>1, GoodExit DEF ArchiveThrows, disk, Stopped
<1>2. CASE JsonThrows(c)
  BY <1>2, GoodExit DEF JsonThrows, disk, history, Stopped
<1>3. CASE CaptureThrows(c)
  BY <1>3, GoodExit DEF CaptureThrows, Throw, disk, history, Stopped
<1>4. CASE Crash(c)
  BY <1>4, GoodExit DEF Crash, disk, Stopped
<1> QED
  BY <1>1, <1>2, <1>3, <1>4

LEMMA GoodPrepareArchive ==
    ASSUME SafeInv, NEW c \in Clients, PrepareArchive(c)
    PROVE  Good(c)
<1>1. CASE Throw(c)
  BY <1>1, GoodExit DEF PrepareArchive, Throw, disk, history, Stopped
<1>2. CASE Goto(c, "prepare_pending") /\ UNCHANGED client
  <2>1. client' = [client EXCEPT ![c] = client[c]] /\ pc'[c] = "prepare_pending"
    BY <1>2, Facts DEF ProcType, Goto
  <2>2. PathsOf(c)' /\ OwnerOf(c)' /\ RecorderOf(c)'
    BY <2>1, Facts
    DEF PathsOf, OwnerOf, RecorderOf, Recording, Capturing, WritingJson, PrepareArchive
  <2>3. HolderOf(c)' /\ ArchiverOf(c)'
    BY <2>1, Facts
    DEF HolderOf, Holds, ArchiverOf, Settled, Uploading, WritingJson, PrepareArchive, disk
  <2> QED
    BY <2>1, <2>2, <2>3, GoodQuiet DEF PrepareArchive, Stopped, disk, history, ClientInv
<1> QED
  BY <1>1, <1>2 DEF PrepareArchive

LEMMA GoodLogFault ==
    ASSUME SafeInv, NEW c \in Clients, LogFault(c)
    PROVE  Good(c)
<1> DEFINE r == [client[c] EXCEPT !.logOk = FALSE]
<1>1. /\ r.src = client[c].src /\ r.sid = client[c].sid /\ r.cur = client[c].cur
      /\ r.opt = client[c].opt /\ r.draft = client[c].draft /\ r.fd = client[c].fd
      /\ r.todo = client[c].todo /\ r.paths = client[c].paths /\ r.job = client[c].job
  BY Facts DEF Locals
<1>2. client' = [client EXCEPT ![c] = r]
  BY DEF LogFault
<1> HIDE DEF r
<1>3. client'[c] = r /\ pc'[c] = pc[c] /\ pc[c] = "capture"
  BY <1>2, Facts DEF ProcType, LogFault
<1>4. PathsOf(c)' /\ OwnerOf(c)'
  BY <1>1, <1>3, Facts DEF PathsOf, OwnerOf, Recording, Capturing
<1>5. RecorderOf(c)' /\ HolderOf(c)' /\ ArchiverOf(c)'
  BY <1>1, <1>3, Facts
  DEF RecorderOf, Recording, HolderOf, Holds, ArchiverOf, Settled, Uploading, WritingJson,
      LogFault, disk, history
<1> QED
  BY <1>1, <1>2, <1>3, <1>4, <1>5, GoodQuiet
  DEF LogFault, Stopped, disk, history, ClientInv

-----------------------------------------------------------------------------
(* The rename.                                                              *)

LEMMA GoodArchiveRename ==
    ASSUME SafeInv, NEW c \in Clients, ArchiveRename(c)
    PROVE  Good(c)
<1> DEFINE s == client[c].cur
           r == [client[c] EXCEPT !.job = "archived"]
<1>1. /\ pc[c] = "archive_rename" /\ pc'[c] = "json_read"
      /\ s \in Sessions /\ ~archive[s].present
      /\ archive' = [archive EXCEPT ![s] = pending[s]]
      /\ pending' = [pending EXCEPT ![s] = NoDir]
      /\ client' = [OpenAcrossRename(s) EXCEPT ![c].job = "archived"]
      /\ UNCHANGED reused
  BY Facts DEF ArchiveRename, ProcType, Goto, history
<1>2. Sealed(pending[s])
  BY <1>1, Facts DEF HolderOf, Holds, Uploading, Settled
<1>3. archive'[s] = pending[s] /\ pending'[s] = NoDir
  BY <1>1, Facts DEF DiskType
<1>4. OpenAcrossRename(s)[c] = client[c]
  BY <1>1 DEF OpenAcrossRename
<1>5. client'[c] = r
  BY <1>1, <1>4 DEF OpenAcrossRename
<1>6. \A d \in Clients \ {c} : client'[d] = OpenAcrossRename(s)[d]
  BY <1>1 DEF OpenAcrossRename
<1>7. Effect(c)
  <2>1. ShapeStep(c)
    <3>1. \A t \in Sessions \ {s} : SameShape(t)
      BY <1>1, Facts DEF SameShape, DiskType
    <3>2. Moves(c, s)
      BY <1>1, <1>2, <1>3 DEF Moves
    <3> QED
      BY <1>1, <3>1, <3>2 DEF ShapeStep
  <2>2. ManifestStep
    BY <1>1, <1>3, Facts
    DEF ManifestStep, DiskType, NoDir, NoManifest, Unreadable, Default
  <2>3. FilesMove(c)
    <3>1. archive'[s].present
      BY <1>2, <1>3 DEF Sealed
    <3> QED
      BY <1>1, <1>6, <3>1 DEF FilesMove, OpenAcrossRename
  <2> QED
    BY <1>1, <2>1, <2>2, <2>3 DEF Effect
<1>8. /\ r.src = client[c].src /\ r.sid = client[c].sid /\ r.cur = s
      /\ r.opt = client[c].opt /\ r.draft = client[c].draft /\ r.fd = client[c].fd
      /\ r.todo = client[c].todo /\ r.paths = client[c].paths /\ r.job = "archived"
  BY Facts DEF Locals
<1> HIDE DEF r
<1>9. Unique(c)
  BY <1>1, <1>5, <1>8 DEF Unique, Stopped
<1>10. PathsOf(c)' /\ OwnerOf(c)' /\ RecorderOf(c)'
  BY <1>1, <1>5, <1>8, Facts
  DEF PathsOf, OwnerOf, RecorderOf, Recording, Capturing
<1>11. HolderOf(c)' /\ ArchiverOf(c)'
  <2>1. archive'[s].present
    BY <1>2, <1>3 DEF Sealed
  <2>2. client[c].todo \subseteq Sessions
    BY Facts DEF Locals
  <2>3. \A t \in Sessions : Settled(t) => Settled(t)'
    BY <1>7, StaysSettled DEF Effect
  <2>4. client[c].fd # "archive"
    BY <1>1, Facts DEF ArchiverOf
  <2> QED
    BY <1>1, <1>5, <1>8, <2>1, <2>2, <2>3, <2>4, Facts
    DEF HolderOf, ArchiverOf, Settled
<1> QED
  BY <1>7, <1>9, <1>10, <1>11 DEF Good, ClientInv

-----------------------------------------------------------------------------
(* Writing a manifest.                                                      *)

\* Where c writes its manifest there is, or will be, a directory that keeps its files.
LEMMA PutManifest ==
    ASSUME SafeInv, NEW c \in Clients, pc[c] \in WritingJson,
           NEW place \in {"pending", "archive"}, NEW dir \in Dir,
           PutDir(place, client[c].cur, dir),
           dir.files = DirAt(place, client[c].cur).files,
           dir.present = DirAt(place, client[c].cur).present \/ dir.present = TRUE,
           place = "archive" => archive[client[c].cur].present,
           place = "pending" =>
               \/ dir.manifest = pending[client[c].cur].manifest
               \/ /\ dir.manifest.at = Default
                  /\ dir.manifest.state = "ready_to_upload" => Settled(client[c].cur)
    PROVE  ShapeStep(c) /\ ManifestStep
<1> DEFINE s == client[c].cur
<1>1. s \in Sessions /\ DiskType
  BY Facts
<1>2. CASE place = "archive"
  <2>1. /\ pending' = pending /\ archive' = [archive EXCEPT ![s] = dir]
        /\ dir.files = archive[s].files /\ dir.present = TRUE
    BY <1>2 DEF PutDir, DirAt
  <2>2. \A t \in Sessions : SameShape(t)
    BY <1>1, <1>2, <2>1 DEF SameShape, DiskType
  <2> QED
    BY <1>1, <2>1, <2>2 DEF ShapeStep, ManifestStep
<1>3. CASE place = "pending"
  <2>1. /\ archive' = archive /\ pending' = [pending EXCEPT ![s] = dir]
        /\ dir.files = pending[s].files
        /\ dir.present = pending[s].present \/ dir.present = TRUE
    BY <1>3 DEF PutDir, DirAt
  <2>2. pending'[s] = dir /\ \A t \in Sessions \ {s} : SameShape(t) /\ pending'[t] = pending[t]
    BY <1>1, <2>1 DEF SameShape, DiskType
  <2>3. ManifestStep
    BY <1>3, <2>2 DEF ManifestStep
  <2>4. SameShape(s) \/ Creates(c, s)
    <3>1. CASE dir.present = pending[s].present
      BY <2>1, <2>2, <3>1 DEF SameShape
    <3>2. CASE dir.present # pending[s].present
      <4>1. dir.present = TRUE /\ ~pending[s].present
        BY <1>1, <2>1, <3>2 DEF DiskType, Dir
      <4>2. pending[s].files = NoFiles
        BY <1>1, <4>1 DEF SafeInv, DirInv
      <4> QED
        BY <2>1, <2>2, <4>1, <4>2 DEF Creates
    <3> QED
      BY <3>1, <3>2
  <2> QED
    BY <1>1, <2>2, <2>3, <2>4 DEF ShapeStep
<1> QED
  BY <1>2, <1>3

LEMMA PlaceIsThere ==
    ASSUME SafeInv, NEW c \in Clients, pc[c] \in WritingJson
    PROVE  /\ Place(c) \in {"pending", "archive"}
           /\ Place(c) = "archive" => archive[client[c].cur].present
BY Facts DEF Place, ArchiverOf

\* Nothing that c relies on gets lost in a step that keeps its locals but for some.
LEMMA JsonGoesOn ==
    ASSUME SafeInv, NEW c \in Clients, pc[c] \in WritingJson, pc'[c] \in WritingJson,
           Effect(c), UNCHANGED reused,
           client'[c].src = client[c].src, client'[c].sid = client[c].sid,
           client'[c].cur = client[c].cur, client'[c].opt = client[c].opt,
           client'[c].paths = client[c].paths, client'[c].todo = client[c].todo,
           client'[c].job = client[c].job,
           client'[c].draft.at = Default,
           client[c].job = "capturing" =>
               /\ client'[c].draft.state # "ready_to_upload"
               /\ pending'[client[c].cur].present
               /\ pending'[client[c].cur].files = pending[client[c].cur].files
               /\ archive'[client[c].cur].present = archive[client[c].cur].present,
           client'[c].fd = "archive" =>
               pc'[c] = "json_write" /\ archive'[client[c].cur].present
    PROVE  Good(c)
<1>1. Unique(c)
  BY DEF Unique, Stopped, WritingJson
<1>2. PathsOf(c)' /\ OwnerOf(c)'
  <2>1. pc'[c] \notin Capturing /\ (Recording(c)' => Recording(c))
    BY DEF Capturing, Recording, WritingJson
  <2> QED
    BY <2>1, Facts DEF PathsOf, OwnerOf
<1>3. RecorderOf(c)'
  <2>1. Recording(c)' => Recording(c) /\ client[c].job = "capturing"
    BY DEF Recording, WritingJson
  <2>2. pc'[c] \notin {"summary_open", "summary_write"}
    BY DEF WritingJson
  <2> QED
    BY <2>1, <2>2, Facts DEF RecorderOf
<1>4. \A t \in Sessions : Settled(t) => Settled(t)'
  BY StaysSettled DEF Effect
<1>5. client[c].todo \subseteq Sessions /\ client[c].cur \in Sessions
  BY Facts DEF Locals
<1>6. HolderOf(c)'
  <2>1. Holds(c)' => Holds(c)
    BY DEF Holds, Uploading, WritingJson
  <2> QED
    BY <1>4, <1>5, <2>1, Facts DEF HolderOf
<1>7. ArchiverOf(c)'
  <2>1. archive[client[c].cur].present => archive'[client[c].cur].present
    BY <1>5, StaysSettled DEF Effect
  <2> QED
    BY <2>1, Facts DEF ArchiverOf
<1> QED
  BY <1>1, <1>2, <1>3, <1>6, <1>7 DEF Good, ClientInv

LEMMA DraftIsSound ==
    ASSUME SafeInv, NEW c \in Clients, NEW m \in Manifest
    PROVE  /\ NewManifest(c, m).at = Default
           /\ client[c].job = "capturing" =>
                  NewManifest(c, m).state # "ready_to_upload"
<1>1. client[c].paths[client[c].cur] = Default /\ client[c].job \in Jobs
  BY Facts, LocalsType DEF PathsOf
<1>2. CASE client[c].job = "failed"
  BY <1>1, <1>2 DEF NewManifest, upload_failure_json, base_state_json
<1>3. CASE client[c].job # "failed"
  BY <1>1, <1>3 DEF NewManifest, base_state_json, Default, Jobs
<1> QED
  BY <1>2, <1>3

LEMMA GoodJsonRead ==
    ASSUME SafeInv, NEW c \in Clients, JsonRead(c)
    PROVE  Good(c)
<1> DEFINE s == client[c].cur
           old == DirAt(Place(c), s)
           new == create_directories(old)
           draft == NewManifest(c, old.manifest)
           r == [client[c] EXCEPT !.draft = draft]
<1>1. /\ pc[c] = "json_read" /\ pc'[c] = "json_open" /\ UNCHANGED reused
      /\ PutDir(Place(c), s, new) /\ client' = [client EXCEPT ![c].draft = draft]
  BY Facts DEF JsonRead, ProcType, Goto, history
<1>2. /\ Place(c) \in {"pending", "archive"}
      /\ Place(c) = "archive" => archive[s].present
  BY <1>1, PlaceIsThere DEF WritingJson
<1>3. old \in Dir /\ new \in Dir
  BY <1>2, Facts, DirAtType, CreateType
<1>4. new.files = old.files /\ new.present = TRUE /\ new.manifest = old.manifest
  BY <1>3 DEF create_directories, Dir
<1>5. old.manifest \in Manifest
  BY <1>3 DEF Dir
<1>6. /\ draft.at = Default
      /\ client[c].job = "capturing" => draft.state # "ready_to_upload"
  BY <1>5, DraftIsSound
<1> HIDE DEF draft, new
<1>7. ShapeStep(c) /\ ManifestStep
  BY <1>1, <1>2, <1>3, <1>4, PutManifest DEF WritingJson, DirAt
<1>8. client' = [client EXCEPT ![c] = r]
  BY <1>1
<1>9. client'[c] = r /\ \A d \in Clients \ {c} : client'[d] = client[d]
  BY <1>8, Facts DEF ProcType
<1>10. Effect(c)
  BY <1>1, <1>7, <1>9 DEF Effect, FilesMove
<1>11. /\ r.src = client[c].src /\ r.sid = client[c].sid /\ r.cur = s
       /\ r.opt = client[c].opt /\ r.draft = draft /\ r.fd = client[c].fd
       /\ r.todo = client[c].todo /\ r.paths = client[c].paths /\ r.job = client[c].job
  BY Facts DEF Locals
<1> HIDE DEF r
<1>12. client[c].fd # "archive"
  BY <1>1, Facts DEF ArchiverOf
<1>13. ASSUME client[c].job = "capturing"
       PROVE  /\ pending'[s].present /\ pending'[s].files = pending[s].files
              /\ archive'[s].present = archive[s].present
  <2>1. Place(c) = "pending"
    BY <1>13 DEF Place
  <2> QED
    BY <1>1, <1>4, <2>1, Facts DEF PutDir, DirAt, DiskType
<1> QED
  BY <1>1, <1>6, <1>9, <1>10, <1>11, <1>12, <1>13, JsonGoesOn DEF WritingJson

LEMMA GoodJsonOpen ==
    ASSUME SafeInv, NEW c \in Clients, JsonOpen(c)
    PROVE  Good(c)
<1> DEFINE s == client[c].cur
           old == DirAt(Place(c), s)
           new == [create_directories(old) EXCEPT !.manifest = DamagedManifest]
           r == [client[c] EXCEPT !.fd = Place(c)]
<1>1. /\ pc[c] = "json_open" /\ pc'[c] = "json_write" /\ UNCHANGED reused
      /\ PutDir(Place(c), s, new) /\ client' = [client EXCEPT ![c].fd = Place(c)]
  BY Facts DEF JsonOpen, ProcType, Goto, history
<1>2. /\ Place(c) \in {"pending", "archive"}
      /\ Place(c) = "archive" => archive[s].present
  BY <1>1, PlaceIsThere DEF WritingJson
<1>3. old \in Dir /\ create_directories(old) \in Dir
  BY <1>2, Facts, DirAtType, CreateType
<1>4. new.files = old.files /\ new.present = TRUE /\ new.manifest = DamagedManifest
  BY <1>3 DEF create_directories, Dir
<1>5. new \in Dir
  BY <1>3, ManifestTypes DEF Dir
<1>6. DamagedManifest.at = Default /\ DamagedManifest.state # "ready_to_upload"
  BY DEF DamagedManifest, Unreadable, Default
<1> HIDE DEF new
<1>7. ShapeStep(c) /\ ManifestStep
  BY <1>1, <1>2, <1>4, <1>5, <1>6, PutManifest DEF WritingJson
<1>8. client'[c] = r /\ \A d \in Clients \ {c} : client'[d] = client[d]
  BY <1>1, Facts DEF ProcType
<1>9. Effect(c)
  BY <1>1, <1>7, <1>8 DEF Effect, FilesMove
<1>10. /\ r.src = client[c].src /\ r.sid = client[c].sid /\ r.cur = s
       /\ r.opt = client[c].opt /\ r.draft = client[c].draft /\ r.fd = Place(c)
       /\ r.todo = client[c].todo /\ r.paths = client[c].paths /\ r.job = client[c].job
  BY Facts DEF Locals
<1> HIDE DEF r
<1>11. ASSUME client[c].job = "capturing"
       PROVE  /\ client[c].draft.state # "ready_to_upload"
              /\ pending'[s].present /\ pending'[s].files = pending[s].files
              /\ archive'[s].present = archive[s].present
  <2>1. Place(c) = "pending"
    BY <1>11 DEF Place
  <2>2. Recording(c)
    BY <1>1, <1>11 DEF Recording, WritingJson
  <2> QED
    BY <1>1, <1>4, <2>1, <2>2, Facts DEF PutDir, DirAt, DiskType, RecorderOf
<1>12. archive[s].present => archive'[s].present
  BY <1>9, Facts, StaysSettled DEF Effect
<1>13. client[c].draft.at = Default
  BY Facts DEF PathsOf
<1> QED
  BY <1>1, <1>2, <1>8, <1>9, <1>10, <1>11, <1>12, <1>13, JsonGoesOn DEF WritingJson

\* write_artifact_state returns, whether or not the manifest got to the disk.
LEMMA GoodJsonReturn ==
    ASSUME SafeInv, NEW c \in Clients, pc[c] = "json_write", JsonReturn(c),
           Effect(c), UNCHANGED reused,
           client[c].job = "capturing" =>
               /\ pending'[client[c].cur].present
               /\ pending'[client[c].cur].files = pending[client[c].cur].files
               /\ archive'[client[c].cur].present = archive[client[c].cur].present
    PROVE  Good(c)
<1> DEFINE s == client[c].cur
           me == [client[c] EXCEPT !.draft = NoManifest, !.fd = "pending"]
           up == [me EXCEPT !.uploaded = TRUE]
<1>1. me \in Locals /\ up \in Locals
  BY Facts, ManifestTypes DEF Locals
<1>2. /\ me.src = client[c].src /\ me.sid = client[c].sid /\ me.cur = s
      /\ me.opt = client[c].opt /\ me.draft = NoManifest /\ me.fd = "pending"
      /\ me.todo = client[c].todo /\ me.paths = client[c].paths /\ me.job = client[c].job
  BY Facts DEF Locals
<1>3. /\ up.src = client[c].src /\ up.sid = client[c].sid /\ up.cur = s
      /\ up.opt = client[c].opt /\ up.draft = NoManifest /\ up.fd = "pending"
      /\ up.todo = client[c].todo /\ up.paths = client[c].paths /\ up.job = client[c].job
  BY <1>1, <1>2 DEF Locals
<1> DEFINE Returns(label, r) == Goto(c, label) /\ client' = [client EXCEPT ![c] = r]
<1>4. \/ me.job = "capturing" /\ Returns("open_log", me)
      \/ me.job = "ready_to_upload" /\ Returns("send", me)
      \/ me.job = "archived" /\ Returns("pick", up)
      \/ \E code \in Stopped : Exit(c, code)
  BY DEF JsonReturn, Stopped
<1> HIDE DEF me, up
<1>5. ASSUME NEW code \in Stopped, Exit(c, code) PROVE Good(c)
  BY <1>5, GoodEnd
<1>6. ASSUME NEW label \in {"open_log", "send", "pick"}, NEW r \in {me, up},
             Returns(label, r),
             label = "open_log" => client[c].job = "capturing",
             label = "send" => client[c].job # "capturing"
      PROVE  Good(c)
  <2>1. client'[c] = r /\ pc'[c] = label
    BY <1>6, Facts DEF ProcType, Goto
  <2>2. /\ r.src = client[c].src /\ r.sid = client[c].sid /\ r.cur = s
        /\ r.opt = client[c].opt /\ r.draft = NoManifest /\ r.fd = "pending"
        /\ r.todo = client[c].todo /\ r.paths = client[c].paths
    BY <1>2, <1>3, <1>6
  <2>3. Unique(c)
    BY <2>1, <2>2 DEF Unique, Stopped
  <2>4. PathsOf(c)'
    BY <2>1, <2>2, Facts DEF PathsOf, NoManifest, Unreadable, Default
  <2>5. OwnerOf(c)'
    BY <1>6, <2>1, <2>2, Facts DEF OwnerOf, Recording, WritingJson, Capturing
  <2>6. RecorderOf(c)'
    <3>1. Recording(c)' => label = "open_log"
      BY <2>1 DEF Recording, WritingJson
    <3>2. label = "open_log" => Recording(c)
      BY <1>6 DEF Recording, WritingJson
    <3> QED
      BY <1>6, <2>1, <2>2, <3>1, <3>2, Facts DEF RecorderOf
  <2>7. HolderOf(c)'
    <3>1. \A t \in Sessions : Settled(t) => Settled(t)'
      BY StaysSettled DEF Effect
    <3>2. client[c].todo \subseteq Sessions /\ s \in Sessions
      BY Facts DEF Locals
    <3>3. Holds(c)' => Holds(c)
      BY <1>6, <2>1 DEF Holds, WritingJson, Uploading
    <3> QED
      BY <2>1, <2>2, <3>1, <3>2, <3>3, Facts DEF HolderOf
  <2>8. ArchiverOf(c)'
    BY <1>6, <2>1, <2>2 DEF ArchiverOf, WritingJson
  <2> QED
    BY <2>3, <2>4, <2>5, <2>6, <2>7, <2>8 DEF Good, ClientInv
<1> QED
  BY <1>2, <1>4, <1>5, <1>6

LEMMA JsonReturnOthers ==
    ASSUME SafeInv, NEW c \in Clients, JsonReturn(c)
    PROVE  FilesMove(c)
<1>1. \E r : client' = [client EXCEPT ![c] = r]
  BY DEF JsonReturn, Exit
<1>2. \A d \in Clients \ {c} : client'[d] = client[d]
  BY <1>1, Facts DEF ProcType
<1> QED
  BY <1>2 DEF FilesMove

LEMMA GoodJsonWrite ==
    ASSUME SafeInv, NEW c \in Clients, JsonWrite(c)
    PROVE  Good(c)
<1> DEFINE s == client[c].cur
           fd == client[c].fd
           old == DirAt(fd, s)
           new == [old EXCEPT !.manifest = client[c].draft]
<1>1. /\ pc[c] = "json_write" /\ UNCHANGED reused /\ JsonReturn(c)
      /\ PutDir(fd, s, new)
  BY DEF JsonWrite, history
<1>2. /\ fd \in {"pending", "archive"} /\ s \in Sessions /\ client[c].draft \in Manifest
      /\ fd = "archive" => archive[s].present
  BY Facts, LocalsType DEF ArchiverOf
<1>3. old \in Dir
  BY <1>2, Facts, DirAtType
<1>4. new \in Dir /\ new.files = old.files /\ new.present = old.present
      /\ new.manifest = client[c].draft
  BY <1>2, <1>3 DEF Dir
<1>5. /\ client[c].draft.at = Default
      /\ client[c].draft.state = "ready_to_upload" => Settled(s)
  <2>1. CASE client[c].job = "capturing"
    BY <1>1, <2>1, Facts DEF PathsOf, RecorderOf, Recording, WritingJson
  <2>2. CASE client[c].job # "capturing"
    BY <1>1, <2>2, Facts DEF PathsOf, HolderOf, Holds, WritingJson
  <2> QED
    BY <2>1, <2>2
<1> HIDE DEF new
<1>6. ShapeStep(c) /\ ManifestStep
  BY <1>1, <1>2, <1>4, <1>5, PutManifest DEF WritingJson
<1>7. Effect(c)
  BY <1>1, <1>6, JsonReturnOthers DEF Effect
<1>8. ASSUME client[c].job = "capturing"
      PROVE  /\ pending'[s].present /\ pending'[s].files = pending[s].files
             /\ archive'[s].present = archive[s].present
  <2>1. pending[s].present
    BY <1>1, <1>8, Facts DEF RecorderOf, Recording, WritingJson
  <2> QED
    BY <1>1, <1>2, <1>4, <2>1, Facts DEF PutDir, DirAt, DiskType
<1> QED
  BY <1>1, <1>7, <1>8, GoodJsonReturn

LEMMA GoodJsonLost ==
    ASSUME SafeInv, NEW c \in Clients, JsonLost(c)
    PROVE  Good(c)
<1>1. /\ pc[c] = "json_write" /\ JsonReturn(c)
      /\ UNCHANGED <<pending, archive, reused>>
  BY DEF JsonLost, disk, history
<1>2. \E r : client' = [client EXCEPT ![c] = r]
  BY <1>1 DEF JsonReturn, Exit
<1>3. Effect(c)
  BY <1>1, <1>2, QuietEffect
<1>4. client[c].job = "capturing" => pending[client[c].cur].present
  BY <1>1, Facts DEF RecorderOf, Recording, WritingJson
<1> QED
  BY <1>1, <1>3, <1>4, GoodJsonReturn

-----------------------------------------------------------------------------
(* The capture.                                                             *)

LEMMA GoodPreparePending ==
    ASSUME SafeInv, NEW c \in Clients, PreparePending(c)
    PROVE  Good(c)
<1> DEFINE s == client[c].sid
<1>1. CASE Throw(c) /\ UNCHANGED <<pending, reused>>
  BY <1>1, GoodExit DEF PreparePending, Throw, Stopped
<1>2. CASE /\ pending[s].present => is_empty(pending[s])
           /\ pending' = [pending EXCEPT ![s] = create_directories(@)]
           /\ client' = [client EXCEPT ![c].own = TRUE, ![c].job = "capturing",
                                       ![c].paths[s] = client[c].opt]
           /\ reused' = IF archive[s].present THEN reused \cup {s} ELSE reused
           /\ Goto(c, "json_read")
  <2> DEFINE p == [client[c].paths EXCEPT ![s] = client[c].opt]
             r == [[[client[c] EXCEPT !.own = TRUE] EXCEPT
                       !.job = "capturing"] EXCEPT !.paths = p]
  <2>1. pc[c] = "prepare_pending" /\ archive' = archive
    BY DEF PreparePending
  <2>2. s \in Sessions /\ client[c].cur = s /\ client[c].src
    BY <2>1, Facts DEF OwnerOf, Capturing
  <2>3. pending[s].files = NoFiles
    BY <1>2, <2>2 DEF SafeInv, DirInv, is_empty
  <2>4. /\ pending'[s].present /\ pending'[s].files = NoFiles
        /\ pending'[s].manifest = pending[s].manifest
        /\ \A t \in Sessions \ {s} : pending'[t] = pending[t]
    BY <1>2, <2>2, <2>3, Facts DEF create_directories, DiskType, Dir
  <2>5. p \in [Sessions -> OutputPaths] /\ \A t \in Sessions : p[t] = Default
    BY <2>2, Facts DEF PathsOf, Locals
  <2>6. client' = [client EXCEPT ![c] = r]
    BY <1>2, Facts DEF ProcType, Locals
  <2>7. /\ r.src = client[c].src /\ r.sid = s /\ r.cur = s
        /\ r.opt = client[c].opt /\ r.draft = client[c].draft /\ r.fd = client[c].fd
        /\ r.todo = client[c].todo /\ r.paths = p /\ r.job = "capturing"
    BY <2>2, Facts DEF Locals
  <2> HIDE DEF r, p
  <2>8. pc'[c] = "json_read" /\ client'[c] = r
        /\ \A d \in Clients \ {c} : client'[d] = client[d]
    BY <1>2, <2>6, Facts DEF ProcType, Goto
  <2>9. Effect(c)
    <3>1. ShapeStep(c)
      <4>1. Creates(c, s) /\ \A t \in Sessions \ {s} : SameShape(t)
        BY <2>1, <2>3, <2>4 DEF Creates, SameShape
      <4> QED
        BY <2>2, <4>1 DEF ShapeStep
    <3>2. ManifestStep
      BY <2>4 DEF ManifestStep
    <3> QED
      BY <1>2, <2>8, <3>1, <3>2 DEF Effect, FilesMove
  <2>10. Unique(c)
    BY <2>1, <2>7, <2>8 DEF Unique, Stopped
  <2>11. PathsOf(c)' /\ OwnerOf(c)'
    BY <2>2, <2>5, <2>7, <2>8, Facts DEF PathsOf, OwnerOf
  <2>12. RecorderOf(c)'
    <3>1. NoFiles["summary_json"] # "complete"
      BY DEF NoFiles, Kinds
    <3>2. archive'[s].present => s \in reused'
      BY <1>2, <2>1
    <3> QED
      BY <2>4, <2>7, <2>8, <3>1, <3>2 DEF RecorderOf
  <2>13. HolderOf(c)'
    <3>1. \A t \in Sessions : Settled(t) => Settled(t)'
      BY <2>9, StaysSettled DEF Effect
    <3>2. client[c].todo \subseteq Sessions
      BY Facts DEF Locals
    <3> QED
      BY <2>7, <2>8, <3>1, <3>2, Facts DEF HolderOf, Holds, Uploading
  <2>14. ArchiverOf(c)'
    BY <2>1, <2>7, <2>8, Facts DEF ArchiverOf
  <2> QED
    BY <2>9, <2>10, <2>11, <2>12, <2>13, <2>14 DEF Good, ClientInv
<1> QED
  BY <1>1, <1>2 DEF PreparePending

\* The one process that captures a session writes into its pending directory.
Puts(c, k, st, r) ==
    /\ Recording(c) /\ pc[c] \in Capturing
    /\ k \in Kinds /\ st \in FileStates /\ PutFile(c, k, st)
    /\ UNCHANGED reused /\ client' = [client EXCEPT ![c] = r]

LEMMA PutFileEffect ==
    ASSUME SafeInv, NEW c \in Clients, NEW k, NEW st, NEW r, Puts(c, k, st, r)
    PROVE  LET s == client[c].cur IN
           /\ Effect(c)
           /\ pending'[s].present
           /\ pending'[s].files = [pending[s].files EXCEPT ![k] = st]
           /\ archive'[s] = archive[s]
<1> DEFINE s == client[c].cur
           dir == [pending[s] EXCEPT !.files[k] = st]
<1>0. /\ Recording(c) /\ pc[c] \in Capturing
      /\ k \in Kinds /\ st \in FileStates /\ PutFile(c, k, st)
      /\ UNCHANGED reused /\ client' = [client EXCEPT ![c] = r]
  BY Zenon DEF Puts
<1> USE <1>0
<1>1. client[c].paths[s] = Default /\ client[c].fd = "pending" /\ pending[s].present
  <2>1. pc[c] # "json_write"
    BY DEF Capturing
  <2> QED
    BY <2>1, Facts, LocalsType DEF PathsOf, ArchiverOf, RecorderOf
<1>2. PutDir("pending", s, [DirAt("pending", s) EXCEPT !.files[k] = st])
  BY <1>1 DEF PutFile, Default, artifact_paths_for_session_dir
<1>3. pending' = [pending EXCEPT ![s] = dir] /\ archive' = archive
  BY <1>2 DEF PutDir, DirAt
<1>4. pending[s] \in Dir /\ s \in Sessions
  BY Facts DEF DiskType
<1>5. /\ dir.present = pending[s].present /\ dir.manifest = pending[s].manifest
      /\ dir.files = [pending[s].files EXCEPT ![k] = st]
  BY <1>4 DEF Dir
<1> HIDE DEF dir
<1>6. pending'[s] = dir /\ \A t \in Sessions \ {s} : pending'[t] = pending[t]
  BY <1>3, Facts DEF DiskType
<1>7. ShapeStep(c)
  <2>1. Writes(c, s) /\ \A t \in Sessions \ {s} : SameShape(t)
    BY <1>1, <1>3, <1>5, <1>6 DEF Writes, SameShape
  <2> QED
    BY <1>4, <2>1 DEF ShapeStep
<1>8. ManifestStep
  BY <1>5, <1>6 DEF ManifestStep
<1>9. FilesMove(c)
  BY Facts DEF FilesMove, ProcType
<1> QED
  BY <1>1, <1>3, <1>5, <1>6, <1>7, <1>8, <1>9 DEF Effect

\* c goes on capturing after a step that left its locals alone, but for the file it has open.
LEMMA GoodCapture ==
    ASSUME SafeInv, NEW c \in Clients, Recording(c), pc[c] \in Capturing,
           pc'[c] \in {"capture", "summary_open", "summary_write"},
           Effect(c), UNCHANGED reused,
           client'[c].src = client[c].src, client'[c].sid = client[c].sid,
           client'[c].cur = client[c].cur, client'[c].opt = client[c].opt,
           client'[c].paths = client[c].paths, client'[c].todo = client[c].todo,
           client'[c].draft = client[c].draft, client'[c].fd # "archive",
           pending'[client[c].cur].present,
           pending'[client[c].cur].files["summary_json"] # "complete",
           pc'[c] \in {"summary_open", "summary_write"} =>
               pending'[client[c].cur].files["event_log"] = "complete",
           archive'[client[c].cur] = archive[client[c].cur]
    PROVE  Good(c)
<1>1. Unique(c) /\ PathsOf(c)' /\ OwnerOf(c)'
  BY Facts DEF Unique, PathsOf, OwnerOf, Stopped, Capturing
<1>2. RecorderOf(c)'
  BY Facts DEF RecorderOf
<1>3. HolderOf(c)'
  <2>1. \A t \in Sessions : Settled(t) => Settled(t)'
    BY StaysSettled DEF Effect
  <2>2. client[c].todo \subseteq Sessions
    BY Facts DEF Locals
  <2> QED
    BY <2>1, <2>2, Facts DEF HolderOf, Holds, Uploading, WritingJson
<1>4. ArchiverOf(c)'
  BY DEF ArchiverOf, WritingJson
<1> QED
  BY <1>1, <1>2, <1>3, <1>4 DEF Good, ClientInv

LEMMA GoodOpen ==
    ASSUME SafeInv, NEW c \in Clients, OpenLog(c) \/ SummaryOpen(c)
    PROVE  Good(c)
<1> DEFINE s == client[c].cur
<1>1. UNCHANGED reused /\ Recording(c) /\ pc[c] \in Capturing
  BY DEF OpenLog, SummaryOpen, history, Recording, Capturing
<1>2. CASE Throw(c) /\ UNCHANGED disk
  BY <1>1, <1>2, GoodExit DEF Throw, disk, Stopped
<1>3. ASSUME NEW k \in Kinds, NEW label \in {"capture", "summary_write"},
             PutFile(c, k, "partial"), Goto(c, label), UNCHANGED client,
             label = "capture" => k = "event_log",
             label = "summary_write" => k = "summary_json" /\ pc[c] = "summary_open"
      PROVE  Good(c)
  <2>1. pc'[c] = label /\ client' = [client EXCEPT ![c] = client[c]]
    BY <1>3, Facts DEF ProcType, Goto
  <2>2. /\ Effect(c) /\ pending'[s].present
        /\ pending'[s].files = [pending[s].files EXCEPT ![k] = "partial"]
        /\ archive'[s] = archive[s]
    <3>1. "partial" \in FileStates
      BY DEF FileStates
    <3> DEFINE r == client[c]
    <3>2. PutFile(c, k, "partial") /\ UNCHANGED reused /\ client' = [client EXCEPT ![c] = r]
      BY <1>1, <1>3, <2>1
    <3> HIDE DEF r
    <3>3. Puts(c, k, "partial", r)
      BY <1>1, <1>3, <3>1, <3>2 DEF Puts
    <3> QED
      BY <3>3, PutFileEffect
  <2>3. client[c].fd # "archive"
    BY <1>1, Facts DEF ArchiverOf, Capturing
  <2>4. pending[s] \in Dir
    BY Facts DEF DiskType
  <2>5. pending'[s].files["summary_json"] # "complete"
    BY <1>1, <1>3, <2>2, <2>4, Facts DEF Dir, Kinds, RecorderOf
  <2>6. label = "summary_write" => pending'[s].files["event_log"] = "complete"
    BY <1>1, <1>3, <2>2, <2>4, Facts DEF Dir, Kinds, RecorderOf
  <2> QED
    BY <1>1, <1>3, <2>1, <2>2, <2>3, <2>5, <2>6, GoodCapture
<1> QED
  BY <1>2, <1>3 DEF OpenLog, SummaryOpen, OpenOutput, Kinds

LEMMA GoodFinish ==
    ASSUME SafeInv, NEW c \in Clients, Finish(c)
    PROVE  Good(c)
<1> DEFINE s == client[c].cur
           r == [client[c] EXCEPT !.fd = "pending"]
<1>1. pc[c] = "capture" /\ UNCHANGED reused /\ Recording(c) /\ pc[c] \in Capturing
  BY DEF Finish, history, Recording, Capturing
<1>2. CASE Throw(c) /\ UNCHANGED disk
  BY <1>1, <1>2, GoodExit DEF Throw, disk, Stopped
<1>3. CASE /\ PutFile(c, "event_log", "complete")
           /\ client' = [client EXCEPT ![c].fd = "pending"]
           /\ Goto(c, "summary_open")
  <2>1. /\ r.src = client[c].src /\ r.sid = client[c].sid /\ r.cur = s
        /\ r.opt = client[c].opt /\ r.draft = client[c].draft /\ r.fd = "pending"
        /\ r.todo = client[c].todo /\ r.paths = client[c].paths
    BY Facts DEF Locals
  <2>2. client' = [client EXCEPT ![c] = r]
    BY <1>3
  <2> HIDE DEF r
  <2>3. pc'[c] = "summary_open" /\ client'[c] = r
    BY <1>3, <2>2, Facts DEF ProcType, Goto
  <2>4. /\ Effect(c) /\ pending'[s].present
        /\ pending'[s].files = [pending[s].files EXCEPT !["event_log"] = "complete"]
        /\ archive'[s] = archive[s]
    <3>1. Puts(c, "event_log", "complete", r)
      BY <1>1, <1>3, <2>2 DEF Puts, FileStates, Kinds
    <3> QED
      BY <3>1, PutFileEffect
  <2>5. pending[s] \in Dir
    BY Facts DEF DiskType
  <2>6. /\ pending'[s].files["summary_json"] # "complete"
        /\ pending'[s].files["event_log"] = "complete"
    BY <1>1, <2>4, <2>5, Facts DEF Dir, Kinds, RecorderOf
  <2> QED
    BY <1>1, <2>1, <2>3, <2>4, <2>6, GoodCapture
<1> QED
  BY <1>2, <1>3 DEF Finish

\* The last byte of the summary seals the session.
LEMMA GoodSummaryWrite ==
    ASSUME SafeInv, NEW c \in Clients, SummaryWrite(c)
    PROVE  Good(c)
<1> DEFINE s == client[c].cur
           r == [client[c] EXCEPT !.job = "ready_to_upload", !.fd = "pending"]
<1>1. pc[c] = "summary_write" /\ UNCHANGED reused /\ Recording(c) /\ pc[c] \in Capturing
  BY DEF SummaryWrite, history, Recording, Capturing
<1>2. CASE Throw(c) /\ UNCHANGED disk
  BY <1>1, <1>2, GoodExit DEF Throw, disk, Stopped
<1>3. CASE /\ PutFile(c, "summary_json", "complete")
           /\ client' = [client EXCEPT ![c].job = "ready_to_upload",
                                       ![c].fd = "pending"]
           /\ Goto(c, "json_read")
  <2>1. /\ r.src = client[c].src /\ r.sid = client[c].sid /\ r.cur = s
        /\ r.opt = client[c].opt /\ r.draft = client[c].draft /\ r.fd = "pending"
        /\ r.todo = client[c].todo /\ r.paths = client[c].paths
        /\ r.job = "ready_to_upload"
    BY Facts DEF Locals
  <2>2. client' = [client EXCEPT ![c] = r]
    BY <1>3, Facts DEF ProcType
  <2> HIDE DEF r
  <2>3. pc'[c] = "json_read" /\ client'[c] = r
    BY <1>3, <2>2, Facts DEF ProcType, Goto
  <2>4. /\ Effect(c) /\ pending'[s].present
        /\ pending'[s].files = [pending[s].files EXCEPT !["summary_json"] = "complete"]
        /\ archive'[s] = archive[s]
    <3>1. Puts(c, "summary_json", "complete", r)
      BY <1>1, <1>3, <2>2 DEF Puts, FileStates, Kinds
    <3> QED
      BY <3>1, PutFileEffect
  <2>5. pending[s] \in Dir
    BY Facts DEF DiskType
  <2>6. Sealed(pending'[s])
    BY <1>1, <2>4, <2>5, Facts DEF Dir, Kinds, RecorderOf, Sealed
  <2>7. Unique(c) /\ PathsOf(c)'
    BY <1>1, <2>1, <2>3, Facts DEF Unique, PathsOf, Stopped
  <2>8. OwnerOf(c)' /\ RecorderOf(c)'
    BY <2>1, <2>3 DEF OwnerOf, RecorderOf, Recording, Capturing
  <2>9. HolderOf(c)'
    <3>1. \A t \in Sessions : Settled(t) => Settled(t)'
      BY <2>4, StaysSettled DEF Effect
    <3>2. client[c].todo \subseteq Sessions
      BY Facts DEF Locals
    <3>3. client'[c].cur = s
      BY <2>1, <2>3
    <3>4. \A t \in Sessions : Sealed(pending'[t]) => Settled(t)'
      BY DEF Settled
    <3> QED
      BY <2>1, <2>3, <2>6, <3>1, <3>2, <3>3, <3>4, Facts DEF HolderOf
  <2>10. ArchiverOf(c)'
    BY <2>1, <2>3 DEF ArchiverOf
  <2> QED
    BY <2>4, <2>7, <2>8, <2>9, <2>10 DEF Good, ClientInv
<1> QED
  BY <1>2, <1>3 DEF SummaryWrite

-----------------------------------------------------------------------------
(* The theorems.                                                            *)

LEMMA EveryStepIsGood ==
    ASSUME SafeInv, PathChoices \subseteq {Default}, NEW c \in Clients, Step(c)
    PROVE  Good(c)
<1>1. CASE \E dest, src \in BOOLEAN : Launch(c, dest, src)
  BY <1>1, GoodLaunch
<1>2. CASE Retry(c)
  BY <1>2, GoodScan, GoodPickNext, GoodPickDone DEF Retry
<1>3. CASE Archive(c)
  BY <1>3, GoodArchiveCheck, GoodArchiveRename, GoodThrows DEF Archive
<1>4. CASE Json(c)
  BY <1>4, GoodJsonRead, GoodJsonOpen, GoodJsonWrite, GoodJsonLost, GoodThrows DEF Json
<1>5. CASE Capture(c)
  BY <1>5, GoodPrepareArchive, GoodPreparePending, GoodOpen, GoodThrows, GoodFinish,
     GoodSummaryWrite
  DEF Capture
<1>6. CASE Usage(c) \/ Send(c) \/ LogFault(c) \/ Crash(c)
  BY <1>6, GoodUsage, GoodSend, GoodLogFault, GoodThrows
<1> QED
  BY <1>1, <1>2, <1>3, <1>4, <1>5, <1>6 DEF Step, Run

LEMMA SafeInit == Init => SafeInv
<1> SUFFICES ASSUME Init PROVE SafeInv
  OBVIOUS
<1>1. TypeOK
  BY TypeInit
<1>2. OneCapture
  BY DEF Init, OneCapture, Stopped
<1>3. ASSUME NEW c \in Clients PROVE ClientInv(c)
  <2>1. pc[c] = "idle" /\ client[c] = NoLocals
    BY DEF Init
  <2> QED
    BY <2>1
    DEF ClientInv, PathsOf, OwnerOf, RecorderOf, Recording, HolderOf, Holds, ArchiverOf,
        Capturing, WritingJson, Uploading, NoLocals, NoManifest, Unreadable, Default
<1>4. ASSUME NEW s \in Sessions PROVE DirInv(s)
  BY DEF Init, DirInv, NoDir, NoManifest, Unreadable, Default
<1> QED
  BY <1>1, <1>2, <1>3, <1>4 DEF SafeInv

LEMMA SafeStep ==
    ASSUME SafeInv, PathChoices \subseteq {Default}, [Next]_vars
    PROVE  SafeInv'
<1>1. TypeOK'
  BY TypeStep DEF SafeInv
<1>2. CASE UNCHANGED vars
  BY <1>1, <1>2
  DEF SafeInv, OneCapture, ClientInv, DirInv, PathsOf, OwnerOf, RecorderOf, Recording,
      HolderOf, Holds, ArchiverOf, Settled, vars, disk, history
<1>3. ASSUME NEW c \in Clients, Step(c) PROVE SafeInv'
  BY <1>1, <1>3, StepKeepsOthers, EveryStepIsGood, GoodIsSafe DEF SafeInv
<1> QED
  BY <1>2, <1>3 DEF Next, Step

\* What the clients rely on when they act on a session they listed long ago: a
\* session whose capture is whole stays so, in pending or archived, and the one
\* process that writes into a session directory has made it itself and not sealed
\* it (artifact_lifecycle.cpp:278-300, main.cpp:126-160, main.cpp:640-667).
THEOREM SafeAlways ==
    ASSUME PathChoices \subseteq {Default}
    PROVE  Spec => []SafeInv
<1>1. SafeInv /\ [Next]_vars => SafeInv'
  BY SafeStep
<1> QED
  BY <1>1, SafeInit, PTL DEF Spec

\* What a step does to what the destination holds.
LEMMA ReceivedStep ==
    ASSUME NEW c \in Clients, Step(c)
    PROVE  \/ received' = received
           \/ pc[c] = "send" /\ Accept(c) /\ UNCHANGED <<pending, archive, reused>>
<1>1. CASE Send(c)
  BY <1>1 DEF Send, SendFails, SendLost, SendOk, SendThrows, disk
<1>2. CASE Retry(c) \/ Archive(c)
  BY <1>2
  DEF Retry, Scan, PickNext, PickDone, Archive, ArchiveCheck, ArchiveRename, ArchiveThrows
<1>3. CASE Json(c)
  BY <1>3 DEF Json, JsonRead, JsonOpen, JsonWrite, JsonLost, JsonThrows
<1>4. CASE Capture(c)
  BY <1>4
  DEF Capture, PrepareArchive, PreparePending, OpenLog, CaptureThrows, Finish,
      SummaryOpen, SummaryWrite
<1>5. CASE \/ \E dest, src \in BOOLEAN : Launch(c, dest, src)
           \/ Usage(c) \/ LogFault(c) \/ Crash(c)
  BY <1>5 DEF Launch, Usage, LogFault, Crash
<1> QED
  BY <1>1, <1>2, <1>3, <1>4, <1>5 DEF Step, Run

\* A client that can send what it holds sends it whole, or the session is archived
\* and its id was used again.
LEMMA RequestIsWhole ==
    ASSUME SafeInv, NEW c \in Clients, pc[c] = "send", CanSend(c)
    PROVE  LET u == Request(c) IN
           \/ u.session \in reused
           \/ \A k \in Kinds : u.files[k] = [st |-> "complete", of |-> u.session]
<1> DEFINE s == client[c].cur
           u == Request(c)
<1>1. s \in Sessions /\ Settled(s) /\ DirInv(s)
  BY Facts DEF SafeInv, HolderOf, Holds, Uploading
<1>2. client[c].paths[s] = Default
  BY <1>1, Facts DEF PathsOf
<1>3. u.session = s /\ \A k \in Kinds : u.files[k] = [st |-> pending[s].files[k], of |-> s]
  <2>1. \A k \in Kinds : Default[k] = "dir"
    BY DEF Default, artifact_paths_for_session_dir
  <2>2. \A k \in Kinds : FileAt(s, k, Default) = [st |-> pending[s].files[k], of |-> s]
    BY <2>1 DEF FileAt
  <2>3. u.session = s /\ u.files = [k \in Kinds |-> FileAt(s, k, client[c].paths[s])]
    BY DEF Request
  <2> QED
    BY <1>2, <2>2, <2>3
<1> HIDE DEF u
<1>4. CASE Sealed(pending[s])
  BY <1>3, <1>4 DEF Sealed, u
<1>5. CASE archive[s].present
  <2>1. pending[s].files # NoFiles
    <3>1. u.files["event_log"].st # "absent"
      BY DEF CanSend, Kinds, u
    <3>2. u.files["event_log"] = [st |-> pending[s].files["event_log"], of |-> s]
      BY <1>3 DEF Kinds
    <3>3. pending[s].files["event_log"] # "absent"
      BY <3>1, <3>2
    <3> QED
      BY <3>3 DEF NoFiles, Kinds
  <2> QED
    BY <1>1, <1>3, <1>5, <2>1 DEF DirInv, u
<1> QED
  BY <1>1, <1>4, <1>5 DEF Settled

LEMMA WholeStep ==
    ASSUME SafeInv, UploadsAreWhole, PathChoices \subseteq {Default}, [Next]_vars
    PROVE  UploadsAreWhole'
<1>1. CASE UNCHANGED vars
  BY <1>1 DEF vars, history, UploadsAreWhole
<1>2. ASSUME NEW c \in Clients, Step(c) PROVE UploadsAreWhole'
  <2>1. reused \subseteq reused'
    BY <1>2, EveryStepIsGood DEF Good, Effect
  <2>2. CASE received' = received
    BY <2>1, <2>2 DEF UploadsAreWhole
  <2>3. CASE pc[c] = "send" /\ Accept(c) /\ UNCHANGED <<pending, archive, reused>>
    <3> DEFINE u == Request(c)
    <3>1. \/ u.session \in reused
          \/ \A k \in Kinds : u.files[k] = [st |-> "complete", of |-> u.session]
      BY <2>3, RequestIsWhole DEF Accept
    <3>2. received' = received \cup {u}
      BY <2>3 DEF Accept
    <3> HIDE DEF u
    <3> QED
      BY <2>1, <3>1, <3>2 DEF UploadsAreWhole
  <2> QED
    BY <1>2, <2>2, <2>3, ReceivedStep
<1> QED
  BY <1>1, <1>2 DEF Next, Step

\* Whatever fails, crashes or races, the destination only accepts finished captures,
\* both files complete and of the session they are sent for, unless that session
\* was archived and then captured again under the same id
\* (artifact_sender.cpp:145-166, logging.cpp:33-53).
THEOREM OnlyWholeUploads ==
    ASSUME PathChoices \subseteq {Default}
    PROVE  Spec => []UploadsAreWhole
<1>1. Init => UploadsAreWhole
  BY DEF Init, UploadsAreWhole
<1>2. SafeInv /\ UploadsAreWhole /\ [Next]_vars => UploadsAreWhole'
  BY WholeStep
<1> QED
  BY <1>1, <1>2, SafeAlways, PTL DEF Spec

\* Once a capture is sealed no later step truncates, overwrites or removes it: it
\* stays whole where it is or moves to the archive, and stays there
\* (logging.cpp:33-53, artifact_lifecycle.cpp:346-353).
THEOREM NothingSealedIsLost ==
    ASSUME PathChoices \subseteq {Default}
    PROVE  Spec => SealedNeverLost
<1> DEFINE Kept ==
      \A s \in Sessions :
        /\ Sealed(pending[s]) => Sealed(pending'[s]) \/ Sealed(archive'[s])
        /\ archive[s].present => /\ archive'[s].present
                                 /\ Sealed(archive[s]) => Sealed(archive'[s])
<1>1. SafeInv /\ [Next]_vars => [Kept]_vars
  <2> SUFFICES ASSUME SafeInv, NEW c \in Clients, Step(c) PROVE Kept
    BY DEF Next, Step
  <2> QED
    BY EveryStepIsGood, StaysSettled DEF Good, Effect
<1> QED
  BY <1>1, SafeAlways, PTL DEF Spec, SealedNeverLost

\* Of a session marked ready either both files are complete at the paths that its
\* manifest names, or the session is archived, and whole there: what pending then
\* holds of it is what a later process made anew.
ReadyUnlessArchived ==
    \A s \in ReadySessions :
        \/ \A k \in Kinds :
               FileAt(s, k, pending[s].manifest.at) = [st |-> "complete", of |-> s]
        \/ archive[s].present /\ Sealed(archive[s])

\* A manifest that says ready_to_upload is written for a complete capture; it can
\* be wrong only of a session that another process has archived meanwhile, and of
\* that one nothing is lost (artifact_lifecycle.cpp:278-300, main.cpp:890-905).
THEOREM ReadyOrArchived ==
    ASSUME PathChoices \subseteq {Default}
    PROVE  Spec => []ReadyUnlessArchived
<1>1. SafeInv => ReadyUnlessArchived
  <2> SUFFICES ASSUME SafeInv, NEW s \in ReadySessions,
                      ~(archive[s].present /\ Sealed(archive[s])), NEW k \in Kinds
               PROVE  FileAt(s, k, pending[s].manifest.at) = [st |-> "complete", of |-> s]
    BY Zenon DEF ReadyUnlessArchived
  <2>1. DirInv(s) /\ pending[s].manifest.state = "ready_to_upload"
    BY DEF ReadySessions, SafeInv
  <2>2. pending[s].manifest.at = Default /\ pending[s].files[k] = "complete"
    BY <2>1 DEF DirInv, Settled, Sealed
  <2> QED
    BY <2>2 DEF FileAt, Default, artifact_paths_for_session_dir
<1> QED
  BY <1>1, SafeAlways, PTL

-----------------------------------------------------------------------------
(* The refinement.                                                          *)

LEMMA StageOfOthers ==
    ASSUME NEW t \in Sessions, SameShape(t)
    PROVE  Stage(t)' = Stage(t)
BY DEF SameShape, Stage, Sealed

\* Seen from outside, a step of c takes one session one stage further at most.
LEMMA StageStep ==
    ASSUME SafeInv, DeliveredInv, NEW c \in Clients, ShapeStep(c)
    PROVE  \E s \in Sessions :
             /\ \A t \in Sessions \ {s} : Stage(t)' = Stage(t)
             /\ \/ Stage(s)' = Stage(s)
                \/ Stage(s) = "none" /\ Stage(s)' = "open"
                \/ Stage(s) = "open" /\ Stage(s)' = "sealed"
                \/ Stage(s) = "sealed" /\ s \in Delivered /\ Stage(s)' = "archived"
<1>1. PICK s \in Sessions :
          /\ \A t \in Sessions \ {s} : SameShape(t)
          /\ SameShape(s) \/ Creates(c, s) \/ Writes(c, s) \/ Moves(c, s)
  BY DEF ShapeStep
<1>2. \A t \in Sessions \ {s} : Stage(t)' = Stage(t)
  BY <1>1, StageOfOthers
<1>3. CASE SameShape(s)
  BY <1>2, <1>3, StageOfOthers
<1>4. CASE Creates(c, s)
  <2>1. CASE archive[s].present
    BY <1>2, <1>4, <2>1 DEF Creates, Stage
  <2>2. CASE ~archive[s].present
    <3>1. ~Sealed(pending[s]) /\ ~Sealed(pending'[s])
      BY <1>4, <2>2 DEF Creates, Sealed, NoFiles, Kinds
    <3>2. Stage(s) \in {"none", "open"} /\ Stage(s)' = "open"
      BY <1>4, <2>2, <3>1 DEF Creates, Stage
    <3> QED
      BY <1>2, <3>2
  <2> QED
    BY <2>1, <2>2
<1>5. CASE Writes(c, s)
  <2>1. CASE archive[s].present
    BY <1>2, <1>5, <2>1 DEF Writes, Stage
  <2>2. CASE ~archive[s].present
    <3>1. pending[s].present /\ ~Sealed(pending[s])
      BY <1>5 DEF Writes, SafeInv, ClientInv, RecorderOf, Sealed, Kinds
    <3>2. Stage(s) = "open" /\ Stage(s)' \in {"open", "sealed"}
      BY <1>5, <2>2, <3>1 DEF Writes, Stage
    <3> QED
      BY <1>2, <3>2
  <2> QED
    BY <2>1, <2>2
<1>6. CASE Moves(c, s)
  <2>1. s \in Delivered
    BY <1>6 DEF Moves, DeliveredInv, Archiving
  <2>2. Stage(s) = "sealed" /\ Stage(s)' = "archived"
    BY <1>6 DEF Moves, Stage, Sealed
  <2> QED
    BY <1>2, <2>1, <2>2
<1> QED
  BY <1>1, <1>3, <1>4, <1>5, <1>6

StageMap == [s \in Sessions |-> Stage(s)]

LEMMA StageMapStep ==
    ASSUME NEW s \in Sessions, \A t \in Sessions \ {s} : Stage(t)' = Stage(t)
    PROVE  StageMap' = [StageMap EXCEPT ![s] = Stage(s)']
BY DEF StageMap

LEMMA DeliveryStep ==
    ASSUME SafeInv, DeliveredInv, PathChoices \subseteq {Default}, [Next]_vars
    PROVE  [Delivery!Next]_<<StageMap, Delivered>>
<1>1. CASE UNCHANGED vars
  BY <1>1 DEF vars, disk, StageMap, Stage, Delivered
<1>2. ASSUME NEW c \in Clients, Step(c) PROVE [Delivery!Next]_<<StageMap, Delivered>>
  <2>1. ShapeStep(c)
    BY <1>2, EveryStepIsGood DEF Good, Effect
  <2>2. CASE received' = received
    <3>1. UNCHANGED Delivered
      BY <2>2 DEF Delivered
    <3>2. PICK s \in Sessions :
             /\ \A t \in Sessions \ {s} : Stage(t)' = Stage(t)
             /\ \/ Stage(s)' = Stage(s)
                \/ Stage(s) = "none" /\ Stage(s)' = "open"
                \/ Stage(s) = "open" /\ Stage(s)' = "sealed"
                \/ Stage(s) = "sealed" /\ s \in Delivered /\ Stage(s)' = "archived"
      BY <2>1, StageStep
    <3>3. StageMap[s] = Stage(s) /\ StageMap' = [StageMap EXCEPT ![s] = Stage(s)']
      BY <3>2, StageMapStep DEF StageMap
    <3>4. CASE Stage(s)' = Stage(s)
      BY <3>1, <3>3, <3>4 DEF StageMap
    <3>5. CASE Stage(s)' # Stage(s)
      <4>1. Delivery!Begin(s) \/ Delivery!Seal(s) \/ Delivery!Archive(s)
        BY <3>1, <3>2, <3>3, <3>5
        DEF Delivery!Begin, Delivery!Seal, Delivery!Archive, StageMap, Delivered
      <4> QED
        BY <4>1 DEF Delivery!Next
    <3> QED
      BY <3>4, <3>5
  <2>3. CASE pc[c] = "send" /\ Accept(c) /\ UNCHANGED <<pending, archive, reused>>
    <3>1. client[c].cur \in Sessions /\ Settled(client[c].cur)
      BY <2>3, Facts DEF HolderOf, Holds, Uploading
    <3>2. PICK s \in Sessions : s = client[c].cur
      BY <3>1
    <3>3. UNCHANGED StageMap
      BY <2>3 DEF StageMap, Stage
    <3>4. Delivered' = Delivered \cup {s}
      <4> DEFINE u == Request(c)
      <4>1. u.session = s
        BY <3>2 DEF Request
      <4>2. received' = received \cup {u}
        BY <2>3 DEF Accept
      <4> HIDE DEF u
      <4> QED
        BY <4>1, <4>2 DEF Delivered
    <3>5. Settled(s)
      BY <3>1, <3>2
    <3>6. CASE archive[s].present
      <4>1. s \in Delivered
        BY <3>5, <3>6 DEF DeliveredInv, ArchivedWasDelivered, Delivered
      <4> QED
        BY <3>3, <3>4, <4>1
    <3>7. CASE ~archive[s].present
      <4>1. StageMap[s] = "sealed"
        BY <3>5, <3>7 DEF Settled, Stage, StageMap
      <4>2. Delivery!Accept(s)
        BY <3>3, <3>4, <4>1 DEF Delivery!Accept, StageMap, Delivered
      <4> QED
        BY <4>2 DEF Delivery!Next
    <3> QED
      BY <3>6, <3>7
  <2> QED
    BY <1>2, <2>2, <2>3, ReceivedStep
<1> QED
  BY <1>1, <1>2 DEF Next, Step

\* Every step of every client, kills and failed writes included, is a step of
\* ArtifactDelivery or changes nothing that it can see: a capture is begun, sealed
\* once, and archived at most once, after the destination has taken it.
THEOREM DeliveryIsImplemented ==
    ASSUME PathChoices \subseteq {Default}
    PROVE  Spec => ImplementsDelivery
<1>1. Init => Delivery!Init
  BY DEF Init, Delivery!Init, Stage, NoDir, Sealed
<1>2. Init => DeliveredInv
  BY DEF Init, DeliveredInv, ArchivedWasDelivered, Archiving, WritingJson, NoDir
<1>3. SafeInv /\ DeliveredInv /\ [Next]_vars => DeliveredInv'
  BY DeliveredStep DEF SafeInv
<1>4. SafeInv /\ DeliveredInv /\ [Next]_vars => [Delivery!Next]_<<StageMap, Delivered>>
  BY DeliveryStep
<1>5. Delivery!Spec <=> Delivery!Init /\ [][Delivery!Next]_<<StageMap, Delivered>>
  BY DEF Delivery!Spec, StageMap, Delivered
<1> QED
  BY <1>1, <1>2, <1>3, <1>4, <1>5, SafeAlways, PTL DEF Spec, ImplementsDelivery
=============================================================================
