---------------------- MODULE ArtifactLifecycle_proofs -----------------------
(***************************************************************************)
(* Theorems about ArtifactLifecycle, for any number of clients, sessions,  *)
(* kills and failed writes.                                                *)
(***************************************************************************)
EXTENDS ArtifactLifecycle, TLAPS

USE FilesAssumption, LifecycleAssumption

-----------------------------------------------------------------------------
(* Types.                                                                   *)

LEMMA DefaultPathsType ==
    artifact_paths_for_session_dir \in OutputPaths
BY DEF artifact_paths_for_session_dir, OutputPaths, Locations

LEMMA BumpType ==
    ASSUME NEW n \in 0..MaxCount
    PROVE  Bump(n) \in 0..MaxCount
BY DEF Bump

LEMMA ManifestTypes ==
    /\ NoManifest \in Manifest
    /\ DamagedManifest \in Manifest
    /\ NoDir \in Dir
BY DefaultPathsType, SMT
   DEF NoManifest, DamagedManifest, Unreadable, Manifest, NoDir, Dir, NoFiles, FileStates

LEMMA BaseType ==
    ASSUME NEW m \in Manifest, NEW st \in ArtifactState, NEW at \in OutputPaths
    PROVE  base_state_json(m, st, at) \in Manifest
BY DEF base_state_json, Manifest

LEMMA FailureType ==
    ASSUME NEW m \in Manifest, NEW at \in OutputPaths
    PROVE  upload_failure_json(m, at) \in Manifest
<1> DEFINE b == base_state_json(m, "ready_to_upload", at)
<1>1. b \in Manifest
  BY BaseType DEF ArtifactState
<1>2. Bump(b.failures) \in 0..MaxCount /\ Bump(b.attempts) \in 0..MaxCount
  BY <1>1, BumpType DEF Manifest
<1> QED
  BY <1>1, <1>2 DEF upload_failure_json, Manifest

LEMMA CreateType ==
    ASSUME NEW d \in Dir
    PROVE  create_directories(d) \in Dir
BY DEF create_directories, Dir

LEMMA NoLocalsType == NoLocals \in Locals
BY DefaultPathsType, ManifestTypes DEF NoLocals, Locals, Jobs

LEMMA EndedType ==
    ASSUME NEW c \in Clients, client[c] \in Locals
    PROVE  Ended(c) \in Locals
BY NoLocalsType DEF Ended, Locals

LEMMA LocalsUpdate ==
    ASSUME NEW l \in Locals
    PROVE  /\ \A x \in Manifest : [l EXCEPT !.draft = x] \in Locals
           /\ \A x \in {"pending", "archive"} : [l EXCEPT !.fd = x] \in Locals
           /\ \A x \in Jobs : [l EXCEPT !.job = x] \in Locals
           /\ \A x \in Sessions : [l EXCEPT !.cur = x] \in Locals
           /\ \A x \in SUBSET Sessions : [l EXCEPT !.todo = x] \in Locals
           /\ \A x \in [Sessions -> OutputPaths] : [l EXCEPT !.paths = x] \in Locals
           /\ [l EXCEPT !.logOk = FALSE] \in Locals
           /\ [l EXCEPT !.own = TRUE] \in Locals
<1> USE DEF Locals
<1>1. \A x \in Manifest : [l EXCEPT !.draft = x] \in Locals
  OBVIOUS
<1>2. \A x \in {"pending", "archive"} : [l EXCEPT !.fd = x] \in Locals
  OBVIOUS
<1>3. \A x \in Jobs : [l EXCEPT !.job = x] \in Locals
  OBVIOUS
<1>4. \A x \in Sessions : [l EXCEPT !.cur = x] \in Locals
  OBVIOUS
<1>5. \A x \in SUBSET Sessions : [l EXCEPT !.todo = x] \in Locals
  OBVIOUS
<1>6. \A x \in [Sessions -> OutputPaths] : [l EXCEPT !.paths = x] \in Locals
  OBVIOUS
<1>7. [l EXCEPT !.logOk = FALSE] \in Locals
  OBVIOUS
<1>8. [l EXCEPT !.own = TRUE] \in Locals
  OBVIOUS
<1> QED
  BY <1>1, <1>2, <1>3, <1>4, <1>5, <1>6, <1>7, <1>8

\* The parts of the state that go together in the steps below.
DiskType == /\ pending \in [Sessions -> Dir]
            /\ archive \in [Sessions -> Dir]
            /\ ext \in [Kinds -> ExtFile]
ProcType == pc \in [Clients -> Labels] /\ client \in [Clients -> Locals]
HistType == /\ crashes \in 0..MaxCrashes
            /\ copies \in [Sessions -> 0..MaxCount]
            /\ failed \in [Sessions -> 0..MaxCount]
            /\ blamed \in SUBSET Sessions
            /\ reused \in SUBSET Sessions

LEMMA TypeParts ==
    ASSUME TypeOK
    PROVE  DiskType /\ ProcType /\ HistType /\ received \in SUBSET Upload
BY DEF TypeOK, DiskType, ProcType, HistType

LEMMA TypeWhole ==
    ASSUME DiskType', ProcType', HistType', received' \in SUBSET Upload
    PROVE  TypeOK'
BY DEF TypeOK, DiskType, ProcType, HistType

LEMMA LocalsType ==
    ASSUME ProcType, NEW c \in Clients
    PROVE  /\ client[c].sid \in Sessions
           /\ client[c].cur \in Sessions
           /\ client[c].paths \in [Sessions -> OutputPaths]
           /\ client[c].job \in Jobs
           /\ client[c].draft \in Manifest
           /\ client[c].fd \in {"pending", "archive"}
<1>1. client[c] \in Locals
  BY DEF ProcType
<1> QED
  BY <1>1 DEF Locals

LEMMA GotoType ==
    ASSUME ProcType, NEW c \in Clients, NEW label \in Labels, Goto(c, label),
           client' \in [Clients -> Locals]
    PROVE  ProcType'
BY DEF ProcType, Goto

LEMMA ExitType ==
    ASSUME ProcType, NEW c \in Clients, NEW code \in Stopped, Exit(c, code)
    PROVE  ProcType'
BY EndedType DEF ProcType, Exit, Goto, Labels

LEMMA PutDirType ==
    ASSUME DiskType, NEW place \in {"pending", "archive"}, NEW s \in Sessions,
           NEW dir \in Dir, PutDir(place, s, dir)
    PROVE  DiskType'
BY DEF DiskType, PutDir

LEMMA DirAtType ==
    ASSUME DiskType, NEW place \in {"pending", "archive"}, NEW s \in Sessions
    PROVE  DirAt(place, s) \in Dir
BY DEF DiskType, DirAt

LEMMA PutFileType ==
    ASSUME DiskType, ProcType, NEW c \in Clients, NEW k \in Kinds,
           NEW st \in FileStates, PutFile(c, k, st)
    PROVE  DiskType'
<1> DEFINE s == client[c].cur
           fd == client[c].fd
<1>1. s \in Sessions /\ fd \in {"pending", "archive"}
  BY DEF ProcType, Locals
<1>2. CASE client[c].paths[s][k] = "ext"
  BY <1>1, <1>2 DEF PutFile, DiskType, ExtFile
<1>3. CASE client[c].paths[s][k] # "ext"
  <2> DEFINE dir == [DirAt(fd, s) EXCEPT !.files[k] = st]
  <2>1. dir \in Dir
    BY <1>1, DirAtType DEF Dir
  <2>2. PutDir(fd, s, dir)
    BY <1>3 DEF PutFile
  <2> HIDE DEF dir
  <2> QED
    BY <1>1, <2>1, <2>2, PutDirType
<1> QED
  BY <1>2, <1>3

LEMMA OpenOutputType ==
    ASSUME DiskType, ProcType, NEW c \in Clients, NEW k \in Kinds,
           NEW next \in Labels, OpenOutput(c, k, next)
    PROVE  DiskType' /\ ProcType'
<1>1. CASE PutFile(c, k, "partial") /\ Goto(c, next) /\ UNCHANGED client
  <2>1. DiskType'
    BY <1>1, PutFileType DEF FileStates
  <2>2. client' \in [Clients -> Locals]
    BY <1>1 DEF ProcType
  <2> QED
    BY <1>1, <2>1, <2>2, GotoType
<1>2. CASE Throw(c) /\ UNCHANGED disk
  BY <1>2, ExitType DEF Throw, Stopped, DiskType, disk
<1> QED
  BY <1>1, <1>2 DEF OpenOutput

LEMMA RequestType ==
    ASSUME DiskType, ProcType, NEW c \in Clients, CanSend(c)
    PROVE  Request(c) \in Upload
<1> DEFINE s == client[c].cur
           at == client[c].paths[s]
<1>1. s \in Sessions /\ pending[s] \in Dir
  BY DEF ProcType, Locals, DiskType
<1>2. pending[s].manifest.state \in ArtifactState \cup {"damaged"}
  BY <1>1 DEF CanSend, Request, Dir, Manifest
<1>3. \A k \in Kinds : FileAt(s, k, at) \in ExtFile
  BY <1>1 DEF FileAt, DiskType, Dir, ExtFile
<1> QED
  BY <1>1, <1>2, <1>3 DEF Request, Upload

LEMMA AcceptType ==
    ASSUME DiskType, ProcType, NEW c \in Clients, Accept(c), received \in SUBSET Upload,
           copies \in [Sessions -> 0..MaxCount]
    PROVE  received' \in SUBSET Upload /\ copies' \in [Sessions -> 0..MaxCount]
<1>1. client[c].cur \in Sessions
  BY DEF ProcType, Locals
<1>2. Bump(copies[client[c].cur]) \in 0..MaxCount
  BY <1>1, BumpType
<1> QED
  BY <1>1, <1>2, RequestType DEF Accept

LEMMA JsonReturnType ==
    ASSUME ProcType, NEW c \in Clients, JsonReturn(c)
    PROVE  ProcType'
<1> DEFINE me == [client[c] EXCEPT !.draft = NoManifest, !.fd = "pending"]
<1>1. me \in Locals /\ [me EXCEPT !.uploaded = TRUE] \in Locals
  BY ManifestTypes DEF ProcType, Locals
<1>2. CASE Goto(c, "open_log") /\ client' = [client EXCEPT ![c] = me]
  BY <1>1, <1>2, GotoType DEF ProcType, Labels, Capturing
<1>3. CASE Goto(c, "send") /\ client' = [client EXCEPT ![c] = me]
  BY <1>1, <1>3, GotoType DEF ProcType, Labels, Uploading
<1>4. CASE Goto(c, "pick") /\ client' = [client EXCEPT ![c] = [me EXCEPT !.uploaded = TRUE]]
  BY <1>1, <1>4, GotoType DEF ProcType, Labels, Retrying
<1>5. CASE Exit(c, "exit_0") \/ Exit(c, "exit_3")
  BY <1>5, ExitType DEF Stopped
<1> QED
  BY <1>2, <1>3, <1>4, <1>5 DEF JsonReturn

LEMMA NewManifestType ==
    ASSUME ProcType, NEW c \in Clients, NEW m \in Manifest
    PROVE  NewManifest(c, m) \in Manifest
<1> DEFINE at == client[c].paths[client[c].cur]
<1>1. at \in OutputPaths /\ client[c].job \in Jobs
  BY LocalsType
<1> QED
  BY <1>1, BaseType, FailureType, DefaultPathsType
  DEF NewManifest, Jobs, ArtifactState

\* Every step of the specification preserves the types.
LEMMA TypeStep ==
    ASSUME TypeOK, [Next]_vars
    PROVE  TypeOK'
<1>1. DiskType /\ ProcType /\ HistType /\ received \in SUBSET Upload
  BY TypeParts
<1>2. ASSUME UNCHANGED vars PROVE TypeOK'
  BY <1>2 DEF TypeOK, vars, disk, history
<1>3. ASSUME NEW c \in Clients, NEW dest \in BOOLEAN, NEW src \in BOOLEAN,
             Launch(c, dest, src)
      PROVE  TypeOK'
  <2>1. PICK s \in Sessions, at \in PathChoices :
           client' = [client EXCEPT ![c] =
              [NoLocals EXCEPT !.dest = dest, !.src = src, !.sid = s, !.cur = s,
                               !.opt = at]]
    BY <1>3 DEF Launch
  <2>2. [NoLocals EXCEPT !.dest = dest, !.src = src, !.sid = s, !.cur = s,
                         !.opt = at] \in Locals
    BY NoLocalsType DEF Locals
  <2>3. client' \in [Clients -> Locals]
    BY <1>1, <2>1, <2>2 DEF ProcType
  <2>4. ProcType'
    BY <1>1, <1>3, <2>3, GotoType DEF Launch, Labels, Retrying
  <2> QED
    BY TypeWhole, <1>1, <1>3, <2>4 DEF Launch, disk, history, DiskType, HistType
<1>4. ASSUME NEW c \in Clients, Usage(c) PROVE TypeOK'
  <2>1. client' \in [Clients -> Locals]
    BY <1>1, <1>4, NoLocalsType DEF Usage, ProcType
  <2>2. ProcType'
    BY <1>1, <1>4, <2>1, GotoType DEF Usage, Labels, Stopped
  <2> QED
    BY TypeWhole, <1>1, <1>4, <2>2 DEF Usage, disk, history, DiskType, HistType
<1>5. ASSUME NEW c \in Clients, Scan(c) PROVE TypeOK'
  <2> DEFINE paths == [s \in Sessions |-> IF s \in ReadySessions
                                           THEN pending[s].manifest.at
                                           ELSE client[c].paths[s]]
  <2>1. paths \in [Sessions -> OutputPaths]
    BY <1>1, LocalsType DEF DiskType, Dir, Manifest
  <2>2. ReadySessions \in SUBSET Sessions
    BY DEF ReadySessions
  <2>3. client' = [client EXCEPT ![c].todo = ReadySessions, ![c].paths = paths]
    BY <1>5 DEF Scan
  <2> HIDE DEF paths
  <2> DEFINE r == [[client[c] EXCEPT !.todo = ReadySessions] EXCEPT !.paths = paths]
  <2>4. client' \in [Clients -> Locals]
    <3>1. r \in Locals
      BY <1>1, <2>1, <2>2, LocalsUpdate DEF ProcType
    <3>2. client' = [client EXCEPT ![c] = r]
      BY <1>1, <2>3 DEF ProcType
    <3> QED
      BY <1>1, <3>1, <3>2 DEF ProcType
  <2>5. ProcType'
    BY <1>1, <1>5, <2>4, GotoType DEF Scan, Labels, Retrying
  <2> QED
    BY TypeWhole, <1>1, <1>5, <2>5 DEF Scan, disk, history, DiskType, HistType
<1>6. ASSUME NEW c \in Clients, PickNext(c) PROVE TypeOK'
  <2>1. PICK s \in client[c].todo :
           client' = [client EXCEPT ![c].cur = s, ![c].todo = @ \ {s}]
    BY <1>6 DEF PickNext
  <2>2. client' \in [Clients -> Locals]
    BY <1>1, <2>1 DEF ProcType, Locals
  <2>3. ProcType'
    BY <1>1, <1>6, <2>2, GotoType DEF PickNext, Labels, Uploading
  <2> QED
    BY TypeWhole, <1>1, <1>6, <2>3 DEF PickNext, disk, history, DiskType, HistType
<1>7. ASSUME NEW c \in Clients, PickDone(c) PROVE TypeOK'
  <2>1. CASE Goto(c, "prepare_archive")
             /\ client' = [client EXCEPT ![c].cur = client[c].sid, ![c].todo = {}]
    <3> DEFINE r == [[client[c] EXCEPT !.cur = client[c].sid] EXCEPT !.todo = {}]
    <3>1. client' \in [Clients -> Locals]
      <4>1. r \in Locals
        BY <1>1, LocalsType, LocalsUpdate DEF ProcType
      <4>2. client' = [client EXCEPT ![c] = r]
        BY <1>1, <2>1 DEF ProcType
      <4> QED
        BY <1>1, <4>1, <4>2 DEF ProcType
    <3> QED
      BY TypeWhole, <1>1, <2>1, <3>1, <1>7, GotoType
      DEF PickDone, Labels, Capturing, disk, history, DiskType, HistType
  <2>2. CASE Exit(c, IF client[c].uploaded THEN "exit_0" ELSE "exit_2")
    <3>1. ProcType'
      BY <1>1, <2>2, ExitType DEF Stopped
    <3> QED
      BY TypeWhole, <1>1, <3>1, <1>7 DEF PickDone, disk, history, DiskType, HistType
  <2> QED
    BY <1>7, <2>1, <2>2 DEF PickDone
<1>8. ASSUME NEW c \in Clients, SendThrows(c)
      PROVE  /\ DiskType' /\ ProcType'
             /\ crashes' \in 0..MaxCrashes
             /\ failed' \in [Sessions -> 0..MaxCount]
  <2>1. client[c].cur \in Sessions
    BY <1>1, LocalsType
  <2>2. failed' \in [Sessions -> 0..MaxCount]
    BY <1>1, <1>8, <2>1, BumpType DEF SendThrows, HistType
  <2>3. client' \in [Clients -> Locals]
    <3>1. [client[c] EXCEPT !.job = "failed"] \in Locals
      BY <1>1, LocalsUpdate DEF ProcType, Jobs
    <3> QED
      BY <1>1, <1>8, <3>1 DEF SendThrows, ProcType
  <2>4. ProcType'
    BY <1>1, <1>8, <2>3, GotoType DEF SendThrows, Labels, WritingJson
  <2> QED
    BY TypeWhole, <1>1, <1>8, <2>2, <2>4 DEF SendThrows, disk, DiskType, HistType
<1>9. ASSUME NEW c \in Clients, SendFails(c) PROVE TypeOK'
  BY TypeWhole, <1>1, <1>8, <1>9 DEF SendFails, HistType
<1>10. ASSUME NEW c \in Clients, SendLost(c) PROVE TypeOK'
  <2>1. received' \in SUBSET Upload /\ copies' \in [Sessions -> 0..MaxCount]
    BY <1>1, <1>10, AcceptType DEF SendLost, HistType
  <2>2. blamed' \in SUBSET Sessions
    BY <1>1, <1>10, LocalsType DEF SendLost, HistType
  <2> QED
    BY TypeWhole, <1>1, <1>8, <1>10, <2>1, <2>2 DEF SendLost, HistType
<1>11. ASSUME NEW c \in Clients, SendOk(c) PROVE TypeOK'
  <2>1. received' \in SUBSET Upload /\ copies' \in [Sessions -> 0..MaxCount]
    BY <1>1, <1>11, AcceptType DEF SendOk, HistType
  <2>2. ProcType'
    BY <1>1, <1>11, GotoType DEF SendOk, Labels, Uploading, ProcType
  <2> QED
    BY TypeWhole, <1>1, <1>11, <2>1, <2>2 DEF SendOk, disk, HistType, DiskType
<1>12. ASSUME NEW c \in Clients, ArchiveCheck(c) PROVE TypeOK'
  <2>1. ProcType'
    BY <1>1, <1>12, GotoType, ExitType
    DEF ArchiveCheck, Labels, Uploading, Stopped, ProcType
  <2> QED
    BY TypeWhole, <1>1, <1>12, <2>1 DEF ArchiveCheck, disk, history, HistType, DiskType
<1>13. ASSUME NEW c \in Clients, ArchiveRename(c) PROVE TypeOK'
  <2> DEFINE s == client[c].cur
  <2>1. s \in Sessions
    BY <1>1, LocalsType
  <2>2. DiskType'
    BY <1>1, <1>13, <2>1, ManifestTypes DEF ArchiveRename, DiskType
  <2>3. OpenAcrossRename(s) \in [Clients -> Locals]
    BY <1>1 DEF OpenAcrossRename, ProcType, Locals
  <2>4. client' \in [Clients -> Locals]
    <3>1. [OpenAcrossRename(s)[c] EXCEPT !.job = "archived"] \in Locals
      BY <2>3, LocalsUpdate DEF Jobs
    <3> QED
      BY <1>13, <2>3, <3>1 DEF ArchiveRename
  <2>5. ProcType'
    BY <1>1, <1>13, <2>4, GotoType DEF ArchiveRename, Labels, WritingJson
  <2> QED
    BY TypeWhole, <1>1, <1>13, <2>2, <2>5 DEF ArchiveRename, history, HistType
<1>14. ASSUME NEW c \in Clients, ArchiveThrows(c) PROVE TypeOK'
  <2>1. ProcType'
    BY <1>1, <1>14, ExitType DEF ArchiveThrows, Stopped
  <2> QED
    BY TypeWhole, <1>1, <1>14, <2>1, LocalsType DEF ArchiveThrows, disk, HistType, DiskType
<1>15. ASSUME NEW c \in Clients, JsonRead(c) PROVE TypeOK'
  <2> DEFINE s == client[c].cur
             dir == DirAt(Place(c), s)
  <2>1. s \in Sessions /\ Place(c) \in {"pending", "archive"}
    BY <1>1, LocalsType DEF Place
  <2>2. dir \in Dir /\ create_directories(dir) \in Dir
    BY <1>1, <2>1, DirAtType DEF create_directories, Dir
  <2>3. DiskType'
    BY <1>1, <1>15, <2>1, <2>2, PutDirType DEF JsonRead
  <2>4. NewManifest(c, dir.manifest) \in Manifest
    BY <1>1, <2>2, NewManifestType DEF Dir
  <2>5. client' = [client EXCEPT ![c].draft = NewManifest(c, dir.manifest)]
    BY <1>15 DEF JsonRead
  <2> HIDE DEF dir
  <2>6. client' \in [Clients -> Locals]
    <3>1. [client[c] EXCEPT !.draft = NewManifest(c, dir.manifest)] \in Locals
      BY <1>1, <2>4, LocalsUpdate DEF ProcType
    <3> QED
      BY <1>1, <2>5, <3>1 DEF ProcType
  <2>7. ProcType'
    BY <1>1, <1>15, <2>6, GotoType DEF JsonRead, Labels, WritingJson
  <2> QED
    BY TypeWhole, <1>1, <1>15, <2>3, <2>7 DEF JsonRead, history, HistType
<1>16. ASSUME NEW c \in Clients, JsonOpen(c) PROVE TypeOK'
  <2> DEFINE s == client[c].cur
             dir == [create_directories(DirAt(Place(c), s)) EXCEPT
                        !.manifest = DamagedManifest]
  <2>1. s \in Sessions /\ Place(c) \in {"pending", "archive"}
    BY <1>1, LocalsType DEF Place
  <2>2. dir \in Dir
    BY <1>1, <2>1, DirAtType, ManifestTypes DEF create_directories, Dir
  <2>3. DiskType'
    BY <1>1, <1>16, <2>1, <2>2, PutDirType DEF JsonOpen
  <2>4. client' \in [Clients -> Locals]
    BY <1>1, <1>16, <2>1 DEF JsonOpen, ProcType, Locals
  <2>5. ProcType'
    BY <1>1, <1>16, <2>4, GotoType DEF JsonOpen, Labels, WritingJson
  <2> QED
    BY TypeWhole, <1>1, <1>16, <2>3, <2>5 DEF JsonOpen, history, HistType
<1>17. ASSUME NEW c \in Clients, JsonWrite(c) PROVE TypeOK'
  <2> DEFINE s == client[c].cur
             fd == client[c].fd
             dir == [DirAt(fd, s) EXCEPT !.manifest = client[c].draft]
  <2>1. s \in Sessions /\ fd \in {"pending", "archive"}
    BY <1>1, LocalsType
  <2>2. dir \in Dir
    BY <1>1, <2>1, DirAtType, LocalsType DEF Dir
  <2>3. DiskType'
    BY <1>1, <1>17, <2>1, <2>2, PutDirType DEF JsonWrite
  <2>4. ProcType'
    BY <1>1, <1>17, JsonReturnType DEF JsonWrite
  <2> QED
    BY TypeWhole, <1>1, <1>17, <2>3, <2>4 DEF JsonWrite, history, HistType
<1>18. ASSUME NEW c \in Clients, JsonLost(c) PROVE TypeOK'
  <2>1. ProcType'
    BY <1>1, <1>18, JsonReturnType DEF JsonLost
  <2> QED
    BY TypeWhole, <1>1, <1>18, <2>1 DEF JsonLost, disk, history, HistType, DiskType
<1>19. ASSUME NEW c \in Clients, JsonThrows(c) PROVE TypeOK'
  <2>1. ProcType'
    BY <1>1, <1>19, ExitType DEF JsonThrows, Stopped
  <2> QED
    BY TypeWhole, <1>1, <1>19, <2>1 DEF JsonThrows, disk, history, HistType, DiskType
<1>20. ASSUME NEW c \in Clients, PrepareArchive(c) PROVE TypeOK'
  <2>1. ProcType'
    BY <1>1, <1>20, GotoType, ExitType
    DEF PrepareArchive, Throw, Labels, Capturing, Stopped, ProcType
  <2> QED
    BY TypeWhole, <1>1, <1>20, <2>1 DEF PrepareArchive, disk, history, HistType, DiskType
<1>21. ASSUME NEW c \in Clients, PreparePending(c) PROVE TypeOK'
  <2> DEFINE s == client[c].sid
  <2>1. CASE Throw(c) /\ UNCHANGED <<pending, reused>>
    <3>1. ProcType'
      BY <1>1, <2>1, ExitType DEF Throw, Stopped
    <3> QED
      BY TypeWhole, <1>1, <1>21, <2>1, <3>1 DEF PreparePending, HistType, DiskType
  <2>2. CASE /\ pending' = [pending EXCEPT ![s] = create_directories(@)]
             /\ client' = [client EXCEPT ![c].own = TRUE, ![c].job = "capturing",
                                         ![c].paths[s] = client[c].opt]
             /\ reused' = IF archive[s].present THEN reused \cup {s} ELSE reused
             /\ Goto(c, "json_read")
    <3>1. s \in Sessions /\ client[c].opt \in OutputPaths
      BY <1>1 DEF ProcType, Locals
    <3>2. DiskType'
      <4>1. create_directories(pending[s]) \in Dir
        BY <1>1, <3>1, CreateType DEF DiskType
      <4> QED
        BY <1>1, <1>21, <2>2, <3>1, <4>1 DEF PreparePending, DiskType
    <3> DEFINE p == [client[c].paths EXCEPT ![s] = client[c].opt]
               r == [[[client[c] EXCEPT !.own = TRUE] EXCEPT
                         !.job = "capturing"] EXCEPT !.paths = p]
    <3>3. client' \in [Clients -> Locals]
      <4>1. p \in [Sessions -> OutputPaths]
        BY <1>1, <3>1, LocalsType
      <4>2. r \in Locals
        BY <1>1, <4>1, LocalsUpdate DEF ProcType, Jobs
      <4>3. client' = [client EXCEPT ![c] = r]
        BY <1>1, <2>2 DEF ProcType, Locals
      <4> QED
        BY <1>1, <4>2, <4>3 DEF ProcType
    <3>4. ProcType'
      BY <1>1, <2>2, <3>3, GotoType DEF Labels, WritingJson
    <3>5. HistType'
      BY <1>1, <1>21, <2>2, <3>1 DEF PreparePending, HistType
    <3> QED
      BY TypeWhole, <1>1, <1>21, <3>2, <3>4, <3>5 DEF PreparePending
  <2> QED
    BY <1>21, <2>1, <2>2 DEF PreparePending
<1>22. ASSUME NEW c \in Clients, OpenLog(c) PROVE TypeOK'
  <2>1. DiskType' /\ ProcType'
    BY <1>1, <1>22, OpenOutputType DEF OpenLog, Kinds, Labels, Capturing
  <2> QED
    BY TypeWhole, <1>1, <1>22, <2>1 DEF OpenLog, history, HistType
<1>23. ASSUME NEW c \in Clients, LogFault(c) PROVE TypeOK'
  <2>1. ProcType'
    <3>1. [client[c] EXCEPT !.logOk = FALSE] \in Locals
      BY <1>1, LocalsUpdate DEF ProcType
    <3> QED
      BY <1>1, <1>23, <3>1 DEF LogFault, ProcType
  <2> QED
    BY TypeWhole, <1>1, <1>23, <2>1 DEF LogFault, disk, history, HistType, DiskType
<1>24. ASSUME NEW c \in Clients, CaptureThrows(c) PROVE TypeOK'
  <2>1. ProcType'
    BY <1>1, <1>24, ExitType DEF CaptureThrows, Throw, Stopped
  <2> QED
    BY TypeWhole, <1>1, <1>24, <2>1 DEF CaptureThrows, disk, history, HistType, DiskType
<1>25. ASSUME NEW c \in Clients, Finish(c) PROVE TypeOK'
  <2>1. CASE Throw(c) /\ UNCHANGED disk
    BY TypeWhole, <1>1, <1>25, <2>1, ExitType
    DEF Finish, Throw, Stopped, disk, history, HistType, DiskType
  <2>2. CASE /\ PutFile(c, "event_log", "complete")
             /\ client' = [client EXCEPT ![c].fd = "pending"]
             /\ Goto(c, "summary_open")
    <3>1. DiskType'
      BY <1>1, <2>2, PutFileType DEF Kinds, FileStates
    <3>2. client' \in [Clients -> Locals]
      <4>1. [client[c] EXCEPT !.fd = "pending"] \in Locals
        BY <1>1, LocalsUpdate DEF ProcType
      <4> QED
        BY <1>1, <2>2, <4>1 DEF ProcType
    <3>3. ProcType'
      BY <1>1, <2>2, <3>2, GotoType DEF Labels, Capturing
    <3> QED
      BY TypeWhole, <1>1, <1>25, <3>1, <3>3 DEF Finish, history, HistType
  <2> QED
    BY <1>25, <2>1, <2>2 DEF Finish
<1>26. ASSUME NEW c \in Clients, SummaryOpen(c) PROVE TypeOK'
  <2>1. DiskType' /\ ProcType'
    BY <1>1, <1>26, OpenOutputType DEF SummaryOpen, Kinds, Labels, Capturing
  <2> QED
    BY TypeWhole, <1>1, <1>26, <2>1 DEF SummaryOpen, history, HistType
<1>27. ASSUME NEW c \in Clients, SummaryWrite(c) PROVE TypeOK'
  <2>1. CASE Throw(c) /\ UNCHANGED disk
    BY TypeWhole, <1>1, <1>27, <2>1, ExitType
    DEF SummaryWrite, Throw, Stopped, disk, history, HistType, DiskType
  <2>2. CASE /\ PutFile(c, "summary_json", "complete")
             /\ client' = [client EXCEPT ![c].job = "ready_to_upload",
                                         ![c].fd = "pending"]
             /\ Goto(c, "json_read")
    <3>1. DiskType'
      BY <1>1, <2>2, PutFileType DEF Kinds, FileStates
    <3> DEFINE r == [[client[c] EXCEPT !.job = "ready_to_upload"] EXCEPT !.fd = "pending"]
    <3>2. client' \in [Clients -> Locals]
      <4>1. r \in Locals
        BY <1>1, LocalsUpdate DEF ProcType, Jobs
      <4>2. client' = [client EXCEPT ![c] = r]
        BY <1>1, <2>2 DEF ProcType
      <4> QED
        BY <1>1, <4>1, <4>2 DEF ProcType
    <3>3. ProcType'
      BY <1>1, <2>2, <3>2, GotoType DEF Labels, WritingJson
    <3> QED
      BY TypeWhole, <1>1, <1>27, <3>1, <3>3 DEF SummaryWrite, history, HistType
  <2> QED
    BY <1>27, <2>1, <2>2 DEF SummaryWrite
<1>28. ASSUME NEW c \in Clients, Crash(c) PROVE TypeOK'
  <2>1. ProcType'
    BY <1>1, <1>28, ExitType DEF Crash, Stopped
  <2>2. crashes' \in 0..MaxCrashes
    BY <1>1, <1>28 DEF Crash, HistType
  <2>3. blamed' \in SUBSET Sessions
    <3>1. client[c].cur \in Sessions
      BY <1>1, LocalsType
    <3> QED
      BY <1>1, <1>28, <3>1 DEF Crash, HistType
  <2> QED
    BY TypeWhole, <1>1, <1>28, <2>1, <2>2, <2>3 DEF Crash, disk, HistType, DiskType
<1> QED
  BY <1>2, <1>3, <1>4, <1>5, <1>6, <1>7, <1>9, <1>10, <1>11, <1>12, <1>13, <1>14,
     <1>15, <1>16, <1>17, <1>18, <1>19, <1>20, <1>21, <1>22, <1>23, <1>24, <1>25,
     <1>26, <1>27, <1>28
  DEF Next, Run, Retry, Send, Archive, Json, Capture

LEMMA TypeInit == Init => TypeOK
BY NoLocalsType, ManifestTypes
DEF Init, TypeOK, NoExtFile, ExtFile, FileStates, Labels, Stopped

\* Every behaviour stays within the types, whatever the number of clients,
\* sessions, kills and failed writes (main.cpp, artifact_lifecycle.cpp).
THEOREM TypeCorrect == Spec => []TypeOK
<1>1. TypeOK /\ [Next]_vars => TypeOK'
  BY TypeStep
<1> QED
  BY <1>1, TypeInit, PTL DEF Spec
-----------------------------------------------------------------------------
(* One process steps at a time: a step of client c leaves the program       *)
(* counters and the locals of the others alone, except that a rename moves  *)
(* the files they have open.                                                *)

Step(c) ==
    \/ \E dest, src \in BOOLEAN : Launch(c, dest, src)
    \/ Usage(c)
    \/ Run(c)
    \/ LogFault(c)
    \/ Crash(c)

OthersKeep(c) ==
    \A d \in Clients \ {c} :
        /\ pc'[d] = pc[d]
        /\ client'[d] = [client[d] EXCEPT !.fd = client'[d].fd]

LEMMA KeepByUpdate ==
    ASSUME ProcType, NEW c \in Clients, NEW label, Goto(c, label),
           NEW r, client' = [client EXCEPT ![c] = r]
    PROVE  OthersKeep(c)
<1>1. \A d \in Clients \ {c} : pc'[d] = pc[d] /\ client'[d] = client[d]
  BY DEF ProcType, Goto
<1>2. \A d \in Clients : client[d] = [client[d] EXCEPT !.fd = client[d].fd]
  BY DEF ProcType, Locals
<1> QED
  BY <1>1, <1>2 DEF OthersKeep

LEMMA KeepByExit ==
    ASSUME ProcType, NEW c \in Clients, NEW code, Exit(c, code)
    PROVE  OthersKeep(c)
BY KeepByUpdate DEF Exit

LEMMA KeepByGoto ==
    ASSUME ProcType, NEW c \in Clients, NEW label, Goto(c, label), UNCHANGED client
    PROVE  OthersKeep(c)
<1>1. client' = [client EXCEPT ![c] = client[c]]
  BY DEF ProcType
<1> QED
  BY <1>1, KeepByUpdate

LEMMA StepKeepsOthers ==
    ASSUME TypeOK, NEW c \in Clients, Step(c)
    PROVE  OthersKeep(c)
<1>1. ProcType
  BY TypeParts
<1> USE <1>1
<1>2. CASE \E dest, src \in BOOLEAN : Launch(c, dest, src)
  BY <1>2, KeepByUpdate DEF Launch
<1>3. CASE Usage(c)
  BY <1>3, KeepByUpdate DEF Usage
<1>4. CASE Scan(c)
  <2> DEFINE paths == [s \in Sessions |-> IF s \in ReadySessions
                                           THEN pending[s].manifest.at
                                           ELSE client[c].paths[s]]
  <2>1. client' = [client EXCEPT ![c].todo = ReadySessions, ![c].paths = paths]
    BY <1>4 DEF Scan
  <2> HIDE DEF paths
  <2>2. client' = [client EXCEPT ![c] =
                      [[client[c] EXCEPT !.todo = ReadySessions] EXCEPT !.paths = paths]]
    BY <2>1 DEF ProcType
  <2> QED
    BY <1>4, <2>2, KeepByUpdate DEF Scan
<1>5. CASE PickNext(c)
  <2>1. PICK s \in client[c].todo :
           client' = [client EXCEPT ![c].cur = s, ![c].todo = @ \ {s}]
    BY <1>5 DEF PickNext
  <2>2. client' = [client EXCEPT ![c] = client'[c]]
    BY <2>1 DEF ProcType
  <2> QED
    BY <1>5, <2>2, KeepByUpdate DEF PickNext
<1>6. CASE PickDone(c)
  <2>1. CASE Exit(c, IF client[c].uploaded THEN "exit_0" ELSE "exit_2")
    BY <2>1, KeepByExit
  <2>2. CASE Goto(c, "prepare_archive")
             /\ client' = [client EXCEPT ![c].cur = client[c].sid, ![c].todo = {}]
    <3>1. client' = [client EXCEPT ![c] = client'[c]]
      BY <2>2 DEF ProcType
    <3> QED
      BY <2>2, <3>1, KeepByUpdate
  <2> QED
    BY <1>6, <2>1, <2>2 DEF PickDone
<1>7. CASE SendThrows(c)
  BY <1>7, KeepByUpdate DEF SendThrows
<1>8. CASE SendOk(c)
  BY <1>8, KeepByGoto DEF SendOk
<1>9. CASE ArchiveCheck(c)
  BY <1>9, KeepByGoto, KeepByExit DEF ArchiveCheck
<1>10. CASE ArchiveRename(c)
  <2>1. \A d \in Clients \ {c} : pc'[d] = pc[d]
    BY <1>10 DEF ArchiveRename, Goto, ProcType
  <2> DEFINE s == client[c].cur
  <2>2. \A d \in Clients \ {c} : client'[d] = OpenAcrossRename(s)[d]
    BY <1>10 DEF ArchiveRename, OpenAcrossRename
  <2>3. \A d \in Clients \ {c} : client'[d] = [client[d] EXCEPT !.fd = client'[d].fd]
    BY <2>2 DEF OpenAcrossRename, ProcType, Locals
  <2> QED
    BY <2>1, <2>3 DEF OthersKeep
<1>11. CASE ArchiveThrows(c)
  BY <1>11, KeepByExit DEF ArchiveThrows
<1>12. CASE JsonRead(c)
  BY <1>12, KeepByUpdate DEF JsonRead
<1>13. CASE JsonOpen(c)
  BY <1>13, KeepByUpdate DEF JsonOpen
<1>14. ASSUME JsonReturn(c) PROVE OthersKeep(c)
  BY <1>14, KeepByUpdate, KeepByExit DEF JsonReturn
<1>15. CASE JsonThrows(c)
  BY <1>15, KeepByExit DEF JsonThrows
<1>16. CASE PrepareArchive(c)
  BY <1>16, KeepByGoto, KeepByExit DEF PrepareArchive, Throw
<1>17. CASE PreparePending(c)
  <2>1. CASE Throw(c)
    BY <2>1, KeepByExit DEF Throw
  <2>2. CASE /\ client' = [client EXCEPT ![c].own = TRUE, ![c].job = "capturing",
                                         ![c].paths[client[c].sid] = client[c].opt]
             /\ Goto(c, "json_read")
    <3>1. client' = [client EXCEPT ![c] = client'[c]]
      BY <2>2 DEF ProcType
    <3> QED
      BY <2>2, <3>1, KeepByUpdate
  <2> QED
    BY <1>17, <2>1, <2>2 DEF PreparePending
<1>18. CASE OpenLog(c)
  BY <1>18, KeepByGoto, KeepByExit DEF OpenLog, OpenOutput, Throw
<1>19. CASE LogFault(c)
  <2>1. Goto(c, pc[c])
    BY <1>19 DEF LogFault, Goto, ProcType
  <2> QED
    BY <1>19, <2>1, KeepByUpdate DEF LogFault
<1>20. CASE CaptureThrows(c)
  BY <1>20, KeepByExit DEF CaptureThrows, Throw
<1>21. CASE Finish(c)
  BY <1>21, KeepByUpdate, KeepByExit DEF Finish, Throw
<1>22. CASE SummaryOpen(c)
  BY <1>22, KeepByGoto, KeepByExit DEF SummaryOpen, OpenOutput, Throw
<1>23. CASE SummaryWrite(c)
  <2>1. CASE Throw(c)
    BY <2>1, KeepByExit DEF Throw
  <2>2. CASE /\ client' = [client EXCEPT ![c].job = "ready_to_upload",
                                         ![c].fd = "pending"]
             /\ Goto(c, "json_read")
    <3>1. client' = [client EXCEPT ![c] = client'[c]]
      BY <2>2 DEF ProcType
    <3> QED
      BY <2>2, <3>1, KeepByUpdate
  <2> QED
    BY <1>23, <2>1, <2>2 DEF SummaryWrite
<1>24. CASE Crash(c)
  BY <1>24, KeepByExit DEF Crash
<1> QED
  BY <1>2, <1>3, <1>4, <1>5, <1>6, <1>7, <1>8, <1>9, <1>10, <1>11, <1>12, <1>13,
     <1>14, <1>15, <1>16, <1>17, <1>18, <1>19, <1>20, <1>21, <1>22, <1>23, <1>24
  DEF Step, Run, Retry, Send, SendFails, SendLost, Archive, Json, JsonWrite,
      JsonLost, Capture

-----------------------------------------------------------------------------
(* Only what was delivered is archived. ArchivedWasDelivered alone is not   *)
(* inductive: the rename trusts that the client was sent to archive_check   *)
(* by an accepted upload, and the write of the archived manifest, which     *)
(* creates its directory if need be, trusts that the rename came before.    *)

\* The sessions the destination holds.
Delivered == {u.session : u \in received}

Archiving(c) ==
    \/ pc[c] \in {"archive_check", "archive_rename"}
    \/ pc[c] \in WritingJson /\ client[c].job = "archived"

DeliveredInv ==
    /\ ArchivedWasDelivered
    /\ \A c \in Clients : Archiving(c) => client[c].cur \in Delivered

\* A step of c keeps the invariant if it keeps what was received, adds to the
\* archive only what was delivered, and leaves c archiving only such a session.
LEMMA DeliveredFrame ==
    ASSUME DeliveredInv, NEW c \in Clients, OthersKeep(c), ProcType, ProcType',
           received \subseteq received',
           \A s \in Sessions : archive'[s].present => archive[s].present \/ s \in Delivered',
           Archiving(c)' => client'[c].cur \in Delivered'
    PROVE  DeliveredInv'
<1>1. \A s : s \in Delivered => s \in Delivered'
  BY DEF Delivered
<1>2. ArchivedWasDelivered'
  BY <1>1 DEF DeliveredInv, ArchivedWasDelivered, Delivered
<1>3. ASSUME NEW d \in Clients, Archiving(d)' PROVE client'[d].cur \in Delivered'
  <2>1. CASE d = c
    BY <1>3, <2>1
  <2>2. CASE d # c
    <3>1. /\ pc'[d] = pc[d] /\ client[d] \in Locals
          /\ client'[d] = [client[d] EXCEPT !.fd = client'[d].fd]
      BY <2>2 DEF OthersKeep, ProcType
    <3>2. client'[d].cur = client[d].cur /\ client'[d].job = client[d].job
      BY <3>1 DEF Locals
    <3>3. Archiving(d)
      BY <1>3, <3>1, <3>2 DEF Archiving
    <3> QED
      BY <1>1, <3>2, <3>3 DEF DeliveredInv
  <2> QED
    BY <2>1, <2>2
<1> QED
  BY <1>2, <1>3 DEF DeliveredInv

\* Writing a manifest or a file into a directory of the archive does not
\* create it, unless the client is there because it was delivered.
LEMMA PutDirFrame ==
    ASSUME DiskType, NEW s \in Sessions, NEW place, NEW dir, PutDir(place, s, dir),
           dir.present => DirAt(place, s).present \/ place # "archive" \/ s \in Delivered'
    PROVE  \A t \in Sessions :
              archive'[t].present => archive[t].present \/ t \in Delivered'
BY DEF PutDir, DirAt, DiskType

LEMMA PutFileFrame ==
    ASSUME DiskType, ProcType, NEW c \in Clients, NEW k \in Kinds, NEW st,
           PutFile(c, k, st)
    PROVE  \A s \in Sessions : archive'[s].present => archive[s].present
<1> DEFINE s == client[c].cur
           fd == client[c].fd
           dir == [DirAt(fd, s) EXCEPT !.files[k] = st]
<1>1. s \in Sessions /\ fd \in {"pending", "archive"}
  BY LocalsType
<1>2. dir.present = DirAt(fd, s).present
  BY <1>1, DirAtType DEF Dir
<1>3. CASE UNCHANGED archive
  BY <1>3
<1>4. CASE PutDir(fd, s, dir)
  <2> HIDE DEF dir
  <2> QED
    BY <1>1, <1>2, <1>4 DEF PutDir, DirAt, DiskType
<1> QED
  BY <1>3, <1>4 DEF PutFile

LEMMA DeliveredStep ==
    ASSUME TypeOK, DeliveredInv, [Next]_vars
    PROVE  DeliveredInv'
<1>1. DiskType /\ ProcType /\ TypeOK' /\ ProcType'
  BY TypeParts, TypeStep DEF TypeOK, ProcType
<1>2. CASE UNCHANGED vars
  BY <1>2 DEF vars, disk, DeliveredInv, ArchivedWasDelivered, Archiving, Delivered
<1>3. ASSUME NEW c \in Clients, Step(c) PROVE DeliveredInv'
  <2> DEFINE s == client[c].cur
             Grows == \A t \in Sessions :
                         archive'[t].present => archive[t].present \/ t \in Delivered'
             Safe == Archiving(c)' => client'[c].cur \in Delivered'
  <2>1. OthersKeep(c) /\ s \in Sessions /\ client[c] \in Locals /\ client'[c] \in Locals
    BY <1>1, <1>3, StepKeepsOthers, LocalsType DEF ProcType
  <2> SUFFICES received \subseteq received' /\ Grows /\ Safe
    BY <1>1, <2>1, DeliveredFrame
  <2>2. ASSUME UNCHANGED archive PROVE Grows
    BY <2>2
  <2>3. ASSUME NEW code \in Stopped, Exit(c, code) PROVE Safe
    BY <1>1, <2>3 DEF Exit, Goto, ProcType, Archiving, Stopped, WritingJson
  <2>4. ASSUME NEW label \in Labels \ ({"archive_check", "archive_rename"} \cup WritingJson),
               Goto(c, label)
        PROVE  Safe
    BY <1>1, <2>4 DEF Goto, ProcType, Archiving
  <2>5. CASE \E dest, src \in BOOLEAN : Launch(c, dest, src)
    BY <2>2, <2>4, <2>5 DEF Launch, disk, Labels, Retrying, WritingJson
  <2>6. CASE Usage(c)
    BY <2>2, <2>4, <2>6 DEF Usage, disk, Labels, Stopped, WritingJson
  <2>7. CASE Scan(c)
    BY <2>2, <2>4, <2>7 DEF Scan, disk, Labels, Retrying, WritingJson
  <2>8. CASE PickNext(c)
    BY <2>2, <2>4, <2>8 DEF PickNext, disk, Labels, Uploading, WritingJson
  <2>9. CASE PickDone(c)
    BY <2>2, <2>3, <2>4, <2>9
    DEF PickDone, disk, Labels, Capturing, Stopped, WritingJson
  <2>10. ASSUME SendThrows(c) PROVE Grows /\ Safe
    <3>1. client'[c].job = "failed" /\ pc'[c] = "json_read"
      BY <1>1, <2>1, <2>10 DEF SendThrows, Goto, ProcType, Locals
    <3> QED
      BY <2>2, <2>10, <3>1 DEF SendThrows, disk, Archiving
  <2>11. CASE SendFails(c)
    BY <2>10, <2>11 DEF SendFails
  <2>12. CASE SendLost(c)
    BY <2>10, <2>12 DEF SendLost, Accept
  <2>13. CASE SendOk(c)
    <3>1. s \in Delivered' /\ client'[c].cur = s
      BY <2>13 DEF SendOk, Accept, Delivered, Request
    <3> QED
      BY <2>2, <2>13, <3>1 DEF SendOk, Accept, disk
  <2>14. CASE ArchiveCheck(c)
    <3>1. s \in Delivered
      BY <2>14 DEF ArchiveCheck, DeliveredInv, Archiving
    <3> QED
      BY <2>2, <2>3, <2>14, <3>1 DEF ArchiveCheck, disk, Stopped, Delivered
  <2>15. CASE ArchiveRename(c)
    <3>1. s \in Delivered
      BY <2>15 DEF ArchiveRename, DeliveredInv, Archiving
    <3>2. client'[c].cur = s
      <4>1. \/ OpenAcrossRename(s)[c] = client[c]
            \/ OpenAcrossRename(s)[c] = [client[c] EXCEPT !.fd = "archive"]
        BY DEF OpenAcrossRename
      <4>2. OpenAcrossRename(s)[c].cur = s
        BY <2>1, <4>1 DEF Locals
      <4>3. client'[c] = [OpenAcrossRename(s)[c] EXCEPT !.job = "archived"]
        BY <2>15 DEF ArchiveRename, OpenAcrossRename
      <4>4. OpenAcrossRename(s)[c] \in Locals
        BY <2>1, <4>1, LocalsUpdate
      <4> QED
        BY <4>2, <4>3, <4>4 DEF Locals
    <3> QED
      BY <1>1, <2>15, <3>1, <3>2 DEF ArchiveRename, DiskType, Delivered
  <2>16. CASE ArchiveThrows(c)
    BY <2>2, <2>3, <2>16 DEF ArchiveThrows, disk, Stopped
  <2>17. ASSUME client[c].job = "archived", pc[c] \in WritingJson
         PROVE  s \in Delivered
    BY <2>17 DEF DeliveredInv, Archiving
  <2>18. CASE JsonRead(c)
    <3>1. client'[c].cur = s /\ client'[c].job = client[c].job
      BY <1>1, <2>1, <2>18 DEF JsonRead, ProcType, Locals
    <3>2. Place(c) = "archive" => s \in Delivered'
      BY <2>17, <2>18 DEF JsonRead, Place, WritingJson, Delivered
    <3>3. Grows
      BY <1>1, <2>1, <2>18, <3>2, PutDirFrame DEF JsonRead
    <3> QED
      BY <1>1, <2>17, <2>18, <3>1, <3>3
      DEF JsonRead, Archiving, WritingJson, Delivered, Goto, ProcType
  <2>19. CASE JsonOpen(c)
    <3>1. client'[c].cur = s /\ client'[c].job = client[c].job
      BY <1>1, <2>1, <2>19 DEF JsonOpen, ProcType, Locals
    <3>2. Place(c) = "archive" => s \in Delivered'
      BY <2>17, <2>19 DEF JsonOpen, Place, WritingJson, Delivered
    <3>3. Grows
      BY <1>1, <2>1, <2>19, <3>2, PutDirFrame DEF JsonOpen
    <3> QED
      BY <1>1, <2>17, <2>19, <3>1, <3>3
      DEF JsonOpen, Archiving, WritingJson, Delivered, Goto, ProcType
  <2>20. ASSUME JsonReturn(c) PROVE Safe
    BY <2>3, <2>4, <2>20
    DEF JsonReturn, Labels, Capturing, Uploading, Retrying, Stopped, WritingJson
  <2>21. CASE JsonWrite(c)
    <3> DEFINE fd == client[c].fd
               dir == [DirAt(fd, s) EXCEPT !.manifest = client[c].draft]
    <3>1. fd \in {"pending", "archive"}
      BY <1>1, LocalsType
    <3>2. dir.present = DirAt(fd, s).present
      BY <1>1, <2>1, <3>1, DirAtType DEF Dir
    <3>3. PutDir(fd, s, dir)
      BY <2>21 DEF JsonWrite
    <3> HIDE DEF dir
    <3>4. Grows
      BY <1>1, <2>1, <3>2, <3>3, PutDirFrame
    <3> QED
      BY <2>20, <2>21, <3>4 DEF JsonWrite
  <2>22. CASE JsonLost(c)
    BY <2>2, <2>20, <2>22 DEF JsonLost, disk
  <2>23. CASE JsonThrows(c)
    BY <2>2, <2>3, <2>23 DEF JsonThrows, disk, Stopped
  <2>24. CASE PrepareArchive(c)
    BY <2>2, <2>3, <2>4, <2>24
    DEF PrepareArchive, Throw, disk, Labels, Capturing, Stopped, WritingJson
  <2>25. CASE PreparePending(c)
    <3>1. CASE Throw(c)
      BY <2>2, <2>3, <2>25, <3>1 DEF PreparePending, Throw, Stopped
    <3>2. CASE client' = [client EXCEPT ![c].own = TRUE, ![c].job = "capturing",
                                        ![c].paths[client[c].sid] = client[c].opt]
               /\ Goto(c, "json_read")
      <4>1. client'[c].job = "capturing" /\ pc'[c] = "json_read"
        BY <1>1, <2>1, <3>2 DEF Goto, ProcType, Locals
      <4> QED
        BY <2>2, <2>25, <4>1 DEF PreparePending, Archiving
    <3> QED
      BY <2>25, <3>1, <3>2 DEF PreparePending
  <2>26. ASSUME NEW k \in Kinds, NEW label \in Labels \ ({"archive_check", "archive_rename"} \cup WritingJson),
                OpenOutput(c, k, label)
         PROVE  Grows /\ Safe
    BY <1>1, <2>2, <2>3, <2>4, <2>26, PutFileFrame
    DEF OpenOutput, Throw, Stopped, disk
  <2>27. CASE OpenLog(c)
    BY <2>26, <2>27 DEF OpenLog, Kinds, Labels, Capturing, WritingJson
  <2>28. CASE LogFault(c)
    <3>1. client'[c].cur = s /\ client'[c].job = client[c].job /\ pc'[c] = "capture"
      BY <1>1, <2>1, <2>28 DEF LogFault, ProcType, Locals
    <3> QED
      BY <2>2, <2>28, <3>1 DEF LogFault, disk, Archiving, WritingJson
  <2>29. CASE CaptureThrows(c)
    BY <2>2, <2>3, <2>29 DEF CaptureThrows, Throw, disk, Stopped
  <2>30. CASE Finish(c)
    BY <1>1, <2>2, <2>3, <2>4, <2>30, PutFileFrame
    DEF Finish, Throw, disk, Kinds, Labels, Capturing, Stopped, WritingJson
  <2>31. CASE SummaryOpen(c)
    BY <2>26, <2>31 DEF SummaryOpen, Kinds, Labels, Capturing, WritingJson
  <2>32. CASE SummaryWrite(c)
    <3>1. CASE Throw(c) /\ UNCHANGED disk
      BY <2>2, <2>3, <2>32, <3>1 DEF SummaryWrite, Throw, disk, Stopped
    <3>2. CASE /\ PutFile(c, "summary_json", "complete")
               /\ client' = [client EXCEPT ![c].job = "ready_to_upload",
                                           ![c].fd = "pending"]
               /\ Goto(c, "json_read")
      <4>1. client'[c].job = "ready_to_upload" /\ pc'[c] = "json_read"
        BY <1>1, <2>1, <3>2 DEF Goto, ProcType, Locals
      <4> QED
        BY <1>1, <2>32, <3>2, <4>1, PutFileFrame DEF SummaryWrite, Archiving, Kinds
    <3> QED
      BY <2>32, <3>1, <3>2 DEF SummaryWrite
  <2>33. CASE Crash(c)
    BY <2>2, <2>3, <2>33 DEF Crash, disk, Stopped
  <2> QED
    BY <1>3, <2>5, <2>6, <2>7, <2>8, <2>9, <2>11, <2>12, <2>13, <2>14, <2>15, <2>16,
       <2>18, <2>19, <2>21, <2>22, <2>23, <2>24, <2>25, <2>27, <2>28, <2>29, <2>30,
       <2>31, <2>32, <2>33
    DEF Step, Run, Retry, Send, Archive, Json, Capture
<1> QED
  BY <1>2, <1>3 DEF Next, Step

\* Whatever fails, crashes or races, and wherever a run puts its files, only a
\* session the destination has accepted is ever in the archive
\* (main.cpp:172-188, 917-937).
THEOREM OnlyDeliveredIsArchived == Spec => []ArchivedWasDelivered
<1>1. Init => DeliveredInv
  BY DEF Init, DeliveredInv, ArchivedWasDelivered, Archiving, WritingJson, NoDir
<1>2. TypeOK /\ DeliveredInv /\ [Next]_vars => DeliveredInv'
  BY DeliveredStep
<1>3. DeliveredInv => ArchivedWasDelivered
  BY DEF DeliveredInv
<1> QED
  BY <1>1, <1>2, <1>3, TypeCorrect, PTL DEF Spec
=============================================================================
