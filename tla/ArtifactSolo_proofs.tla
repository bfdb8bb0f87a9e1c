-------------------------- MODULE ArtifactSolo_proofs --------------------------
(***************************************************************************)
(* Proofs of what holds while a single process at a time uses the artifacts *)
(* directory, launched and killed as often as one likes: that a session     *)
(* marked ready is complete, that a second copy has a cause, that the       *)
(* history of failures is exact and that exit code 0 tells the truth. With  *)
(* two processes at once these are false: the code does not lock the        *)
(* directory, and each process acts on what it has read earlier. What exit  *)
(* code 0 still says then is at the end.                                    *)
(***************************************************************************)
EXTENDS ArtifactDelivery_proofs

-----------------------------------------------------------------------------
(* What each step does to the locals of its process, field by field. They   *)
(* are stated once, so that the invariants below need no record arithmetic. *)

\* The process is the one that was launched, and works on the same session.
SameRun(c) ==
    /\ client'[c].dest = client[c].dest /\ client'[c].src = client[c].src
    /\ client'[c].sid = client[c].sid /\ client'[c].opt = client[c].opt
SameSession(c) ==
    /\ client'[c].cur = client[c].cur /\ client'[c].own = client[c].own
    /\ client'[c].paths = client[c].paths /\ client'[c].todo = client[c].todo
SameManifest(c) ==
    /\ client'[c].job = client[c].job /\ client'[c].draft = client[c].draft

LEMMA ExitLocals ==
    ASSUME TypeOK, NEW c \in Clients, NEW code, Exit(c, code)
    PROVE  /\ pc'[c] = code
           /\ client'[c].dest = client[c].dest /\ client'[c].src = client[c].src
           /\ client'[c].sid = client[c].sid
           /\ client'[c].todo = {} /\ client'[c].own = FALSE
BY TypeParts DEF Exit, Goto, ProcType, Ended, NoLocals

LEMMA LaunchLocals ==
    ASSUME TypeOK, NEW c \in Clients, NEW dest \in BOOLEAN, NEW src \in BOOLEAN,
           Launch(c, dest, src)
    PROVE  /\ pc'[c] = "scan" /\ client'[c].src = src
           /\ client'[c].todo = {} /\ client'[c].own = FALSE
<1>1. PICK s \in Sessions, at \in PathChoices :
         client' = [client EXCEPT ![c] =
              [NoLocals EXCEPT !.dest = dest, !.src = src, !.sid = s, !.cur = s,
                               !.opt = at]]
  BY DEF Launch
<1>2. /\ pc'[c] = "scan"
      /\ client'[c] = [NoLocals EXCEPT !.dest = dest, !.src = src, !.sid = s, !.cur = s,
                                       !.opt = at]
  BY <1>1, TypeParts DEF Launch, Goto, ProcType
<1> QED
  BY <1>2 DEF NoLocals

LEMMA UsageLocals ==
    ASSUME TypeOK, NEW c \in Clients, Usage(c)
    PROVE  /\ pc'[c] \in {"exit_0", "exit_2"} /\ client'[c].src = FALSE
           /\ client'[c].todo = {} /\ client'[c].own = FALSE
BY TypeParts DEF Usage, Goto, ProcType, NoLocals

LEMMA ScanLocals ==
    ASSUME TypeOK, NEW c \in Clients, Scan(c)
    PROVE  /\ pc[c] = "scan" /\ pc'[c] = "pick"
           /\ SameRun(c) /\ client'[c].todo = ReadySessions
           /\ client'[c].own = client[c].own
<1> DEFINE paths == [s \in Sessions |-> IF s \in ReadySessions
                                         THEN pending[s].manifest.at
                                         ELSE client[c].paths[s]]
           r == [[client[c] EXCEPT !.todo = ReadySessions] EXCEPT !.paths = paths]
<1>1. client' = [client EXCEPT ![c].todo = ReadySessions, ![c].paths = paths]
  BY DEF Scan
<1>2. pc[c] = "scan" /\ pc'[c] = "pick"
  BY TypeParts DEF Scan, Goto, ProcType
<1> HIDE DEF paths
<1>3. client'[c] = r /\ client[c] \in Locals
  BY <1>1, TypeParts DEF ProcType
<1> QED
  BY <1>2, <1>3 DEF SameRun, Locals

LEMMA PickNextLocals ==
    ASSUME TypeOK, NEW c \in Clients, PickNext(c)
    PROVE  /\ pc[c] = "pick" /\ pc'[c] = "send" /\ client[c].dest
           /\ SameRun(c) /\ client'[c].own = client[c].own
           /\ client'[c].cur \in client[c].todo
           /\ client'[c].todo = client[c].todo \ {client'[c].cur}
<1>1. PICK s \in client[c].todo :
         client' = [client EXCEPT ![c].cur = s, ![c].todo = @ \ {s}]
  BY DEF PickNext
<1>2. client[c] \in Locals /\ pc[c] = "pick" /\ pc'[c] = "send" /\ client[c].dest
  BY TypeParts DEF PickNext, Goto, ProcType
<1>3. client'[c] = [[client[c] EXCEPT !.cur = s] EXCEPT !.todo = @ \ {s}]
  BY <1>1, TypeParts DEF ProcType
<1> QED
  BY <1>2, <1>3 DEF SameRun, Locals

LEMMA PickDoneLocals ==
    ASSUME TypeOK, NEW c \in Clients, PickDone(c)
    PROVE  /\ pc[c] = "pick"
           /\ \/ /\ pc'[c] = "prepare_archive" /\ client[c].src /\ SameRun(c)
                 /\ client'[c].own = client[c].own
                 /\ client'[c].cur = client[c].sid /\ client'[c].todo = {}
              \/ /\ ~client[c].src
                 /\ Exit(c, IF client[c].uploaded THEN "exit_0" ELSE "exit_2")
<1>1. client[c] \in Locals /\ pc[c] = "pick"
  BY TypeParts DEF PickDone, ProcType
<1>2. CASE client[c].src
  <2>1. client' = [client EXCEPT ![c].cur = client[c].sid, ![c].todo = {}]
        /\ Goto(c, "prepare_archive")
    BY <1>2 DEF PickDone
  <2>2. client'[c] = [[client[c] EXCEPT !.cur = client[c].sid] EXCEPT !.todo = {}]
    BY <2>1, TypeParts DEF ProcType
  <2>3. pc'[c] = "prepare_archive"
    BY <2>1, TypeParts DEF Goto, ProcType
  <2> QED
    BY <1>1, <1>2, <2>2, <2>3 DEF SameRun, Locals
<1>3. CASE ~client[c].src
  BY <1>1, <1>3 DEF PickDone
<1> QED
  BY <1>2, <1>3

LEMMA SendThrowsLocals ==
    ASSUME TypeOK, NEW c \in Clients, SendThrows(c)
    PROVE  /\ pc[c] = "send" /\ pc'[c] = "json_read" /\ client'[c].job = "failed"
           /\ SameRun(c) /\ SameSession(c)
<1>1. client[c] \in Locals /\ pc[c] = "send" /\ pc'[c] = "json_read"
  BY TypeParts DEF SendThrows, Goto, ProcType
<1>2. client'[c] = [client[c] EXCEPT !.job = "failed"]
  BY TypeParts DEF SendThrows, ProcType
<1> QED
  BY <1>1, <1>2 DEF SameRun, SameSession, Locals

LEMMA GotoLocals ==
    ASSUME TypeOK, NEW c \in Clients, NEW label, Goto(c, label), UNCHANGED client
    PROVE  /\ pc'[c] = label
           /\ SameRun(c) /\ SameSession(c) /\ SameManifest(c)
           /\ client'[c].fd = client[c].fd
BY TypeParts DEF Goto, ProcType, SameRun, SameSession, SameManifest

LEMMA RenameLocals ==
    ASSUME TypeOK, NEW c \in Clients, ArchiveRename(c)
    PROVE  /\ pc[c] = "archive_rename" /\ pc'[c] = "json_read"
           /\ client'[c].job = "archived" /\ client'[c].fd = client[c].fd
           /\ SameRun(c) /\ SameSession(c)
<1> DEFINE s == client[c].cur
<1>1. client[c] \in Locals /\ pc[c] = "archive_rename" /\ pc'[c] = "json_read"
  BY TypeParts DEF ArchiveRename, Goto, ProcType
<1>2. OpenAcrossRename(s)[c] = client[c]
  BY <1>1 DEF OpenAcrossRename
<1>3. client'[c] = [client[c] EXCEPT !.job = "archived"]
  BY <1>1, <1>2 DEF ArchiveRename, OpenAcrossRename
<1> QED
  BY <1>1, <1>3 DEF SameRun, SameSession, Locals

LEMMA JsonReadLocals ==
    ASSUME TypeOK, NEW c \in Clients, JsonRead(c)
    PROVE  /\ pc[c] = "json_read" /\ pc'[c] = "json_open"
           /\ SameRun(c) /\ SameSession(c) /\ client'[c].job = client[c].job
           /\ client'[c].fd = client[c].fd
           /\ client'[c].draft = NewManifest(c, DirAt(Place(c), client[c].cur).manifest)
<1> DEFINE new == NewManifest(c, DirAt(Place(c), client[c].cur).manifest)
<1>1. client[c] \in Locals /\ pc[c] = "json_read" /\ pc'[c] = "json_open"
  BY TypeParts DEF JsonRead, Goto, ProcType
<1>2. client' = [client EXCEPT ![c].draft = new]
  BY DEF JsonRead
<1> HIDE DEF new
<1>3. client'[c] = [client[c] EXCEPT !.draft = new]
  BY <1>2, TypeParts DEF ProcType
<1>4. client'[c].draft = new
  BY <1>1, <1>3 DEF Locals
<1>5. SameRun(c) /\ SameSession(c) /\ client'[c].job = client[c].job
      /\ client'[c].fd = client[c].fd
  BY <1>1, <1>3 DEF SameRun, SameSession, Locals
<1> QED
  BY <1>1, <1>4, <1>5 DEF new

LEMMA JsonOpenLocals ==
    ASSUME TypeOK, NEW c \in Clients, JsonOpen(c)
    PROVE  /\ pc[c] = "json_open" /\ pc'[c] = "json_write"
           /\ SameRun(c) /\ SameSession(c) /\ SameManifest(c)
           /\ client'[c].fd = Place(c)
<1>1. client[c] \in Locals /\ pc[c] = "json_open" /\ pc'[c] = "json_write"
  BY TypeParts DEF JsonOpen, Goto, ProcType
<1>2. client'[c] = [client[c] EXCEPT !.fd = Place(c)]
  BY TypeParts DEF JsonOpen, ProcType
<1> QED
  BY <1>1, <1>2 DEF SameRun, SameSession, SameManifest, Locals

LEMMA JsonReturnLocals ==
    ASSUME TypeOK, NEW c \in Clients, JsonReturn(c)
    PROVE  \/ /\ SameRun(c) /\ SameSession(c) /\ client'[c].fd = "pending"
              /\ \/ client[c].job = "capturing" /\ pc'[c] = "open_log"
                 \/ /\ client[c].job = "ready_to_upload" /\ client[c].dest
                    /\ pc'[c] = "send"
                 \/ client[c].job = "archived" /\ ~client[c].own /\ pc'[c] = "pick"
           \/ /\ \/ client[c].job = "ready_to_upload" /\ ~client[c].dest
                 \/ client[c].job = "archived" /\ client[c].own
              /\ Exit(c, "exit_0")
           \/ client[c].job = "failed" /\ Exit(c, "exit_3")
<1> DEFINE me == [client[c] EXCEPT !.draft = NoManifest, !.fd = "pending"]
           r == [me EXCEPT !.uploaded = TRUE]
           Same(x) ==
             /\ x.dest = client[c].dest /\ x.src = client[c].src /\ x.sid = client[c].sid
             /\ x.opt = client[c].opt /\ x.cur = client[c].cur /\ x.own = client[c].own
             /\ x.paths = client[c].paths /\ x.todo = client[c].todo
             /\ x.job = client[c].job /\ x.fd = "pending"
<1>1. client[c] \in Locals
  BY TypeParts DEF ProcType
<1>2. Same(me) /\ Same(r)
  BY <1>1 DEF Locals
<1>3. \A l : Goto(c, l) => pc'[c] = l
  BY TypeParts DEF Goto, ProcType
<1>4. ASSUME NEW x, client' = [client EXCEPT ![c] = x], Same(x)
      PROVE  SameRun(c) /\ SameSession(c) /\ client'[c].fd = "pending"
  BY <1>4, TypeParts DEF SameRun, SameSession, ProcType
<1>5. CASE /\ me.job = "capturing" /\ Goto(c, "open_log")
           /\ client' = [client EXCEPT ![c] = me]
  <2>1. client[c].job = "capturing" /\ pc'[c] = "open_log"
    BY <1>2, <1>3, <1>5
  <2> HIDE DEF me
  <2> QED
    BY <1>2, <1>4, <1>5, <2>1
<1>6. CASE /\ me.job = "ready_to_upload" /\ me.dest /\ Goto(c, "send")
           /\ client' = [client EXCEPT ![c] = me]
  <2>1. client[c].job = "ready_to_upload" /\ client[c].dest /\ pc'[c] = "send"
    BY <1>2, <1>3, <1>6
  <2> HIDE DEF me
  <2> QED
    BY <1>2, <1>4, <1>6, <2>1
<1>7. CASE /\ me.job = "archived" /\ ~me.own /\ Goto(c, "pick")
           /\ client' = [client EXCEPT ![c] = r]
  <2>1. client[c].job = "archived" /\ ~client[c].own /\ pc'[c] = "pick"
    BY <1>2, <1>3, <1>7
  <2> HIDE DEF r
  <2> QED
    BY <1>2, <1>4, <1>7, <2>1
<1>8. CASE /\ \/ me.job = "ready_to_upload" /\ ~me.dest
              \/ me.job = "archived" /\ me.own
           /\ Exit(c, "exit_0")
  BY <1>2, <1>8
<1>9. CASE me.job = "failed" /\ Exit(c, "exit_3")
  BY <1>2, <1>9
<1> QED
  BY <1>5, <1>6, <1>7, <1>8, <1>9 DEF JsonReturn

LEMMA PreparePendingLocals ==
    ASSUME TypeOK, NEW c \in Clients, PreparePending(c)
    PROVE  /\ pc[c] = "prepare_pending"
           /\ \/ /\ Throw(c) /\ UNCHANGED <<pending, reused>>
              \/ /\ pending[client[c].sid].present => is_empty(pending[client[c].sid])
                 /\ pending' = [pending EXCEPT ![client[c].sid] = create_directories(@)]
                 /\ pc'[c] = "json_read" /\ SameRun(c)
                 /\ client'[c].own = TRUE /\ client'[c].job = "capturing"
                 /\ client'[c].cur = client[c].cur /\ client'[c].todo = client[c].todo
<1> DEFINE s == client[c].sid
<1>1. client[c] \in Locals /\ pc[c] = "prepare_pending"
  BY TypeParts DEF PreparePending, ProcType
<1>2. CASE Throw(c) /\ UNCHANGED <<pending, reused>>
  BY <1>1, <1>2
<1>3. CASE /\ pending[s].present => is_empty(pending[s])
           /\ pending' = [pending EXCEPT ![s] = create_directories(@)]
           /\ client' = [client EXCEPT ![c].own = TRUE, ![c].job = "capturing",
                                       ![c].paths[s] = client[c].opt]
           /\ Goto(c, "json_read")
  <2>1. client'[c] = [[[client[c] EXCEPT !.own = TRUE] EXCEPT !.job = "capturing"]
                        EXCEPT !.paths[s] = client[c].opt]
    BY <1>3, TypeParts DEF ProcType
  <2>2. pc'[c] = "json_read"
    BY <1>3, TypeParts DEF Goto, ProcType
  <2>3. /\ SameRun(c) /\ client'[c].own = TRUE /\ client'[c].job = "capturing"
        /\ client'[c].cur = client[c].cur /\ client'[c].todo = client[c].todo
    BY <1>1, <2>1 DEF SameRun, Locals
  <2> QED
    BY <1>1, <1>3, <2>2, <2>3
<1> QED
  BY <1>2, <1>3 DEF PreparePending

LEMMA LogFaultLocals ==
    ASSUME TypeOK, NEW c \in Clients, LogFault(c)
    PROVE  /\ pc[c] = "capture" /\ pc'[c] = "capture"
           /\ SameRun(c) /\ SameSession(c) /\ SameManifest(c)
           /\ client'[c].fd = client[c].fd
<1>1. client[c] \in Locals /\ client'[c] = [client[c] EXCEPT !.logOk = FALSE]
  BY TypeParts DEF LogFault, ProcType
<1> QED
  BY <1>1 DEF LogFault, SameRun, SameSession, SameManifest, Locals

LEMMA FinishLocals ==
    ASSUME TypeOK, NEW c \in Clients, Finish(c)
    PROVE  /\ pc[c] = "capture"
           /\ \/ /\ PutFile(c, "event_log", "complete") /\ pc'[c] = "summary_open"
                 /\ SameRun(c) /\ SameSession(c) /\ SameManifest(c)
                 /\ client'[c].fd = "pending"
              \/ Throw(c) /\ UNCHANGED disk
<1>1. client[c] \in Locals /\ pc[c] = "capture"
  BY TypeParts DEF Finish, ProcType
<1>2. CASE /\ PutFile(c, "event_log", "complete")
           /\ client' = [client EXCEPT ![c].fd = "pending"]
           /\ Goto(c, "summary_open")
  <2>1. client'[c] = [client[c] EXCEPT !.fd = "pending"] /\ pc'[c] = "summary_open"
    BY <1>2, TypeParts DEF Goto, ProcType
  <2>2. SameRun(c) /\ SameSession(c) /\ SameManifest(c) /\ client'[c].fd = "pending"
    BY <1>1, <2>1 DEF SameRun, SameSession, SameManifest, Locals
  <2> QED
    BY <1>1, <1>2, <2>1, <2>2
<1>3. CASE Throw(c) /\ UNCHANGED disk
  BY <1>1, <1>3
<1> QED
  BY <1>2, <1>3 DEF Finish

LEMMA SummaryWriteLocals ==
    ASSUME TypeOK, NEW c \in Clients, SummaryWrite(c)
    PROVE  /\ pc[c] = "summary_write"
           /\ \/ /\ PutFile(c, "summary_json", "complete") /\ pc'[c] = "json_read"
                 /\ SameRun(c) /\ SameSession(c)
                 /\ client'[c].job = "ready_to_upload" /\ client'[c].fd = "pending"
              \/ Throw(c) /\ UNCHANGED disk
<1>1. client[c] \in Locals /\ pc[c] = "summary_write"
  BY TypeParts DEF SummaryWrite, ProcType
<1>2. CASE /\ PutFile(c, "summary_json", "complete")
           /\ client' = [client EXCEPT ![c].job = "ready_to_upload", ![c].fd = "pending"]
           /\ Goto(c, "json_read")
  <2>1. client'[c] = [[client[c] EXCEPT !.job = "ready_to_upload"] EXCEPT !.fd = "pending"]
        /\ pc'[c] = "json_read"
    BY <1>2, TypeParts DEF Goto, ProcType
  <2>2. /\ SameRun(c) /\ SameSession(c)
        /\ client'[c].job = "ready_to_upload" /\ client'[c].fd = "pending"
    BY <1>1, <2>1 DEF SameRun, SameSession, Locals
  <2> QED
    BY <1>1, <1>2, <2>1, <2>2
<1>3. CASE Throw(c) /\ UNCHANGED disk
  BY <1>1, <1>3
<1> QED
  BY <1>2, <1>3 DEF SummaryWrite

LEMMA OpenLocals ==
    ASSUME TypeOK, NEW c \in Clients, NEW k \in Kinds, NEW next, OpenOutput(c, k, next)
    PROVE  \/ /\ PutFile(c, k, "partial") /\ pc'[c] = next
              /\ SameRun(c) /\ SameSession(c) /\ SameManifest(c)
              /\ client'[c].fd = client[c].fd
           \/ Throw(c) /\ UNCHANGED disk
BY GotoLocals DEF OpenOutput

-----------------------------------------------------------------------------
(* Where the process is and what it knows of its session. The sessions it   *)
(* has listed, and the one it works on, are not archived by anybody else,   *)
(* and nothing is left in pending of an archived one. This is what fails    *)
(* with a second process.                                                   *)

Writing(c) == pc[c] \in {"open_log", "capture", "summary_open", "summary_write"}

OwnOf(c) ==
    /\ client[c].own =>
           /\ client[c].src /\ client[c].cur = client[c].sid /\ client[c].todo = {}
           /\ pc[c] \notin Retrying
    /\ pc[c] \in Capturing =>
           client[c].src /\ client[c].cur = client[c].sid /\ client[c].todo = {}
    /\ Writing(c) => client[c].own /\ client[c].fd = "pending"
    /\ pc[c] \in WritingJson =>
           /\ client[c].job \in {"capturing", "ready_to_upload"} => client[c].own
           /\ pc[c] = "json_write" => client[c].fd = Place(c)

PlaceOf(c) ==
    /\ \A s \in client[c].todo : ~archive[s].present
    /\ pc[c] \in (Capturing \ {"prepare_archive"}) \cup Uploading =>
           ~archive[client[c].cur].present
    /\ pc[c] \in Uploading \cup WritingJson => client[c].cur \notin client[c].todo
    /\ pc[c] \in Uploading => client[c].dest
    /\ pc[c] \in WritingJson =>
           /\ client[c].job = "archived" => archive[client[c].cur].present /\ client[c].dest
           /\ client[c].job # "archived" => ~archive[client[c].cur].present

NothingLeft == \A s \in Sessions : archive[s].present => pending[s] = NoDir

SoloInv(c) == OwnOf(c) /\ PlaceOf(c) /\ NothingLeft

\* The archive has the same sessions, and what is pending of them is untouched.
SameArchive ==
    \A t \in Sessions :
        /\ archive'[t].present = archive[t].present
        /\ archive[t].present => pending'[t] = pending[t]

LEMMA QuietArchive ==
    ASSUME UNCHANGED <<pending, archive>>
    PROVE  SameArchive
BY DEF SameArchive

-----------------------------------------------------------------------------
(* What the steps that write do to the directories of the one process.      *)

\* The manifest of a session, wherever it is.
Current(s) == IF archive[s].present THEN archive[s].manifest ELSE pending[s].manifest

\* Session s gets manifest m; nothing else changes but that its directory may appear.
OnlyManifest(s, m) ==
    /\ SameArchive /\ UNCHANGED ext
    /\ Current(s)' = m /\ \A t \in Sessions \ {s} : Current(t)' = Current(t)
    /\ \A t \in Sessions : /\ pending'[t].files = pending[t].files
                           /\ pending[t].present => pending'[t].present

LEMMA PutDirDisk ==
    ASSUME DiskType, NEW s \in Sessions, NEW place \in {"pending", "archive"}, NEW dir \in Dir,
           PutDir(place, s, dir),
           place = "archive" => archive[s].present,
           place = "pending" => ~archive[s].present,
           dir.files = DirAt(place, s).files,
           DirAt(place, s).present => dir.present
    PROVE  OnlyManifest(s, dir.manifest)
<1>1. CASE place = "pending"
  <2>1. /\ archive' = archive /\ pending' = [pending EXCEPT ![s] = dir] /\ ext' = ext
        /\ dir.files = pending[s].files
        /\ pending[s].present => dir.present
        /\ ~archive[s].present
    BY <1>1 DEF PutDir, DirAt
  <2>2. /\ pending'[s] = dir
        /\ \A t \in Sessions \ {s} : pending'[t] = pending[t]
    BY <2>1 DEF DiskType
  <2>3. SameArchive
    BY <2>1, <2>2 DEF SameArchive
  <2>4. /\ Current(s)' = dir.manifest
        /\ \A t \in Sessions \ {s} : Current(t)' = Current(t)
    BY <2>1, <2>2 DEF Current
  <2>5. \A t \in Sessions :
           /\ pending'[t].files = pending[t].files
           /\ pending[t].present => pending'[t].present
    BY <2>1, <2>2
  <2> QED
    BY <2>1, <2>3, <2>4, <2>5 DEF OnlyManifest
<1>2. CASE place = "archive"
  <2>1. /\ pending' = pending /\ archive' = [archive EXCEPT ![s] = dir] /\ ext' = ext
        /\ dir.present = TRUE /\ archive[s].present = TRUE
    BY <1>2 DEF PutDir, DirAt, Dir, DiskType
  <2> QED
    BY <2>1 DEF DiskType, SameArchive, OnlyManifest, Current
<1> QED
  BY <1>1, <1>2

LEMMA PlaceIsWhereItIs ==
    ASSUME TypeOK, NEW c \in Clients, SoloInv(c), pc[c] \in WritingJson
    PROVE  /\ Place(c) \in {"pending", "archive"}
           /\ Place(c) = "archive" <=> archive[client[c].cur].present
           /\ pc[c] = "json_write" => client[c].fd = Place(c)
           /\ DirAt(Place(c), client[c].cur).manifest = Current(client[c].cur)
BY DEF SoloInv, OwnOf, PlaceOf, Place, DirAt, Current

LEMMA JsonReadDisk ==
    ASSUME TypeOK, NEW c \in Clients, SoloInv(c), JsonRead(c),
           NEW s \in Sessions, s = client[c].cur
    PROVE  OnlyManifest(s, Current(s))
<1> DEFINE old == DirAt(Place(c), s)
           new == create_directories(old)
<1>1. pc[c] \in WritingJson /\ PutDir(Place(c), s, new)
  BY DEF JsonRead, WritingJson
<1>2. DiskType /\ old \in Dir
  BY <1>1, PlaceIsWhereItIs, TypeParts, LocalsType, DirAtType
<1>3. /\ new \in Dir /\ new.present = TRUE
      /\ new.files = old.files /\ new.manifest = old.manifest
  BY <1>2 DEF create_directories, Dir
<1> HIDE DEF new
<1> QED
  BY <1>1, <1>2, <1>3, PlaceIsWhereItIs, PutDirDisk

LEMMA JsonOpenDisk ==
    ASSUME TypeOK, NEW c \in Clients, SoloInv(c), JsonOpen(c),
           NEW s \in Sessions, s = client[c].cur
    PROVE  OnlyManifest(s, DamagedManifest)
<1> DEFINE old == DirAt(Place(c), s)
           new == [create_directories(old) EXCEPT !.manifest = DamagedManifest]
<1>1. pc[c] \in WritingJson /\ PutDir(Place(c), s, new)
  BY DEF JsonOpen, WritingJson
<1>2. DiskType /\ old \in Dir
  BY <1>1, PlaceIsWhereItIs, TypeParts, LocalsType, DirAtType
<1>3. /\ new \in Dir /\ new.present = TRUE
      /\ new.files = old.files /\ new.manifest = DamagedManifest
  BY <1>2, ManifestTypes DEF create_directories, Dir
<1> HIDE DEF new
<1> QED
  BY <1>1, <1>2, <1>3, PlaceIsWhereItIs, PutDirDisk

LEMMA JsonWriteDisk ==
    ASSUME TypeOK, NEW c \in Clients, SoloInv(c), JsonWrite(c),
           NEW s \in Sessions, s = client[c].cur
    PROVE  OnlyManifest(s, client[c].draft)
<1> DEFINE old == DirAt(Place(c), s)
           new == [old EXCEPT !.manifest = client[c].draft]
<1>1. pc[c] \in WritingJson /\ PutDir(Place(c), s, new)
  BY PlaceIsWhereItIs DEF JsonWrite, WritingJson
<1>2. DiskType /\ old \in Dir /\ client[c].draft \in Manifest
  BY <1>1, PlaceIsWhereItIs, TypeParts, LocalsType, DirAtType
<1>3. /\ new \in Dir /\ new.present = old.present
      /\ new.files = old.files /\ new.manifest = client[c].draft
  BY <1>2 DEF Dir
<1> HIDE DEF new
<1> QED
  BY <1>1, <1>2, <1>3, PlaceIsWhereItIs, PutDirDisk

LEMMA JsonDisk ==
    ASSUME TypeOK, NEW c \in Clients, SoloInv(c),
           \/ JsonRead(c) \/ JsonOpen(c) \/ JsonWrite(c) \/ JsonLost(c) \/ JsonThrows(c)
    PROVE  SameArchive
<1>1. PICK s \in Sessions : s = client[c].cur
  BY TypeParts, LocalsType
<1>2. CASE JsonRead(c) \/ JsonOpen(c) \/ JsonWrite(c)
  BY <1>1, <1>2, JsonReadDisk, JsonOpenDisk, JsonWriteDisk DEF OnlyManifest
<1>3. CASE JsonLost(c) \/ JsonThrows(c)
  BY <1>3, QuietArchive DEF JsonLost, JsonThrows, disk
<1> QED
  BY <1>2, <1>3

\* A step that creates an empty directory, or writes a file into one.
SameManifests ==
    SameArchive /\ \A t \in Sessions : Current(t)' = Current(t)

LEMMA QuietManifests ==
    ASSUME UNCHANGED <<pending, archive>>
    PROVE  SameManifests
BY DEF SameManifests, SameArchive, Current

LEMMA CreateDisk ==
    ASSUME TypeOK, NEW c \in Clients, SoloInv(c), PreparePending(c)
    PROVE  SameManifests
<1>1. client[c].cur = client[c].sid /\ client[c].sid \in Sessions
      /\ ~archive[client[c].sid].present /\ UNCHANGED archive /\ DiskType
  BY TypeParts, LocalsType DEF SoloInv, OwnOf, PlaceOf, PreparePending, Capturing
<1>2. CASE UNCHANGED pending
  BY <1>1, <1>2, QuietManifests
<1>3. CASE pending' = [pending EXCEPT ![client[c].sid] = create_directories(@)]
  <2>1. create_directories(pending[client[c].sid]).manifest
          = pending[client[c].sid].manifest
    BY <1>1 DEF create_directories, DiskType, Dir
  <2> QED
    BY <1>1, <1>3, <2>1 DEF SameManifests, SameArchive, Current, DiskType
<1> QED
  BY <1>2, <1>3, PreparePendingLocals

LEMMA PutFileDisk ==
    ASSUME TypeOK, NEW c \in Clients, SoloInv(c), Writing(c),
           NEW k \in Kinds, NEW st \in FileStates, PutFile(c, k, st)
    PROVE  SameManifests
<1> DEFINE s == client[c].cur
<1>1. client[c].fd = "pending" /\ ~archive[s].present /\ s \in Sessions /\ DiskType
  BY TypeParts, LocalsType DEF SoloInv, OwnOf, PlaceOf, Writing, Capturing
<1>2. CASE UNCHANGED <<pending, archive>>
  BY <1>2, QuietManifests
<1>3. CASE PutDir("pending", s, [DirAt("pending", s) EXCEPT !.files[k] = st])
  <2>1. archive' = archive /\ pending' = [pending EXCEPT ![s] =
                                              [pending[s] EXCEPT !.files[k] = st]]
    BY <1>3 DEF PutDir, DirAt
  <2>2. [pending[s] EXCEPT !.files[k] = st].manifest = pending[s].manifest
    BY <1>1 DEF DiskType, Dir
  <2> QED
    BY <1>1, <2>1, <2>2 DEF SameManifests, SameArchive, Current, DiskType
<1> QED
  BY <1>1, <1>2, <1>3 DEF PutFile

-----------------------------------------------------------------------------
(* Every step keeps SoloInv.                                                *)

LEMMA SoloExit ==
    ASSUME TypeOK, NEW c \in Clients, SoloInv(c), NEW code \in Stopped, Exit(c, code),
           SameArchive
    PROVE  SoloInv(c)'
<1>1. pc'[c] = code /\ client'[c].todo = {} /\ client'[c].own = FALSE
  BY ExitLocals
<1>2. code \notin Capturing \cup WritingJson \cup Uploading \cup Retrying
  BY DEF Stopped, Capturing, WritingJson, Uploading, Retrying
<1> QED
  BY <1>1, <1>2
  DEF SoloInv, OwnOf, PlaceOf, NothingLeft, SameArchive, Writing, Capturing

\* What a step that writes a manifest goes on with.
LEMMA SoloJson ==
    ASSUME TypeOK, NEW c \in Clients, SoloInv(c), SameArchive,
           pc[c] \in WritingJson, pc'[c] \in WritingJson, SameRun(c), SameSession(c),
           client'[c].job = client[c].job,
           pc'[c] = "json_write" => client'[c].fd = Place(c)
    PROVE  SoloInv(c)'
<1>1. pc'[c] \notin Capturing \cup Uploading /\ ~Writing(c)'
  BY DEF WritingJson, Capturing, Uploading, Writing
<1>2. OwnOf(c)'
  BY <1>1 DEF SoloInv, OwnOf, SameRun, SameSession, Place, WritingJson, Retrying
<1>3. client[c].cur \in Sessions /\ client[c].todo \subseteq Sessions
  BY TypeParts DEF ProcType, Locals
<1>4. PlaceOf(c)'
  BY <1>1, <1>3 DEF SoloInv, PlaceOf, SameRun, SameSession, SameArchive
<1> QED
  BY <1>2, <1>4 DEF SoloInv, NothingLeft, SameArchive

\* What a step of the capture goes on with.
LEMMA SoloCapture ==
    ASSUME TypeOK, NEW c \in Clients, SoloInv(c), SameArchive,
           pc[c] \in Capturing, pc'[c] \in Capturing \ {"prepare_archive"},
           SameRun(c), SameSession(c),
           ~archive[client[c].cur].present,
           Writing(c)' => client[c].own /\ client'[c].fd = "pending"
    PROVE  SoloInv(c)'
<1>1. pc'[c] \notin Retrying \cup WritingJson \cup Uploading
  BY DEF WritingJson, Capturing, Uploading, Retrying
<1>2. client[c].cur \in Sessions /\ client[c].todo \subseteq Sessions
  BY TypeParts DEF ProcType, Locals
<1>3. OwnOf(c)'
  BY <1>1 DEF SoloInv, OwnOf, SameRun, SameSession
<1>4. PlaceOf(c)'
  BY <1>1, <1>2 DEF SoloInv, PlaceOf, SameRun, SameSession, SameArchive
<1> QED
  BY <1>3, <1>4 DEF SoloInv, NothingLeft, SameArchive

\* Steps that leave the disk alone and after which nothing is held or written.
LEMMA SoloQuiet ==
    ASSUME TypeOK, NEW c \in Clients, SoloInv(c), UNCHANGED disk,
           pc'[c] \notin Capturing \cup Uploading \cup WritingJson,
           client'[c].own = FALSE,
           \A s \in client'[c].todo : ~archive[s].present
    PROVE  SoloInv(c)'
BY DEF SoloInv, OwnOf, PlaceOf, NothingLeft, Writing, Capturing, disk

LEMMA SoloRetry ==
    ASSUME TypeOK, NEW c \in Clients, SoloInv(c), Retry(c)
    PROVE  SoloInv(c)'
<1>1. UNCHANGED disk /\ pc[c] \in Retrying
  BY DEF Retry, Scan, PickNext, PickDone, Retrying
<1>2. client[c].own = FALSE /\ \A s \in client[c].todo : ~archive[s].present
  BY <1>1, TypeParts DEF SoloInv, OwnOf, PlaceOf, ProcType, Locals
<1>3. CASE Scan(c)
  <2>1. \A s \in ReadySessions : ~archive[s].present
    <3>1. ~NoDir.present
      BY DEF NoDir
    <3> QED
      BY <3>1 DEF ReadySessions, SoloInv, NothingLeft
  <2> QED
    BY <1>1, <1>2, <1>3, <2>1, ScanLocals, SoloQuiet
    DEF Capturing, Uploading, WritingJson
<1>4. CASE PickNext(c)
  <2>1. /\ pc'[c] = "send" /\ client[c].dest /\ SameRun(c)
        /\ client'[c].own = client[c].own
        /\ client'[c].cur \in client[c].todo
        /\ client'[c].todo = client[c].todo \ {client'[c].cur}
    BY <1>4, PickNextLocals
  <2>2. OwnOf(c)'
    BY <1>2, <2>1 DEF OwnOf, Writing, Capturing, WritingJson
  <2>3. PlaceOf(c)'
    BY <1>1, <1>2, <2>1 DEF PlaceOf, SameRun, disk, Capturing, WritingJson
  <2> QED
    BY <1>1, <2>2, <2>3 DEF SoloInv, NothingLeft, disk
<1>5. CASE PickDone(c)
  <2>1. CASE /\ pc'[c] = "prepare_archive" /\ client[c].src /\ SameRun(c)
             /\ client'[c].own = client[c].own
             /\ client'[c].cur = client[c].sid /\ client'[c].todo = {}
    <3>1. OwnOf(c)' /\ PlaceOf(c)'
      BY <1>2, <2>1
      DEF OwnOf, PlaceOf, SameRun, Writing, Capturing, WritingJson, Uploading
    <3> QED
      BY <1>1, <3>1 DEF SoloInv, NothingLeft, disk
  <2>2. CASE Exit(c, IF client[c].uploaded THEN "exit_0" ELSE "exit_2")
    <3>1. Exit(c, "exit_0") \/ Exit(c, "exit_2")
      BY <2>2
    <3> QED
      BY <1>1, <3>1, SoloExit, QuietArchive DEF Stopped, disk
  <2> QED
    BY <1>5, <2>1, <2>2, PickDoneLocals
<1> QED
  BY <1>3, <1>4, <1>5 DEF Retry

LEMMA SoloSend ==
    ASSUME TypeOK, NEW c \in Clients, SoloInv(c), Send(c)
    PROVE  SoloInv(c)'
<1>1. UNCHANGED disk /\ pc[c] = "send"
  BY DEF Send, SendFails, SendLost, SendOk, SendThrows
<1>2. /\ ~archive[client[c].cur].present /\ client[c].cur \notin client[c].todo
      /\ client[c].dest
  BY <1>1 DEF SoloInv, PlaceOf, Uploading
<1>3. CASE SendThrows(c)
  <2>1. /\ pc'[c] = "json_read" /\ client'[c].job = "failed"
        /\ SameRun(c) /\ SameSession(c)
    BY <1>3, SendThrowsLocals
  <2>2. OwnOf(c)'
    BY <2>1 DEF SoloInv, OwnOf, SameRun, SameSession, Writing, Capturing, WritingJson,
                Retrying
  <2>3. PlaceOf(c)'
    BY <1>1, <1>2, <2>1 DEF SoloInv, PlaceOf, SameRun, SameSession, disk, Capturing,
                Uploading
  <2> QED
    BY <1>1, <2>2, <2>3 DEF SoloInv, NothingLeft, disk
<1>4. CASE SendOk(c)
  <2>1. pc'[c] = "archive_check" /\ UNCHANGED client
    BY <1>4, TypeParts DEF SendOk, Goto, ProcType
  <2>2. OwnOf(c)' /\ PlaceOf(c)'
    BY <1>1, <1>2, <2>1
    DEF SoloInv, OwnOf, PlaceOf, Writing, Capturing, WritingJson, Retrying, disk
  <2> QED
    BY <1>1, <2>2 DEF SoloInv, NothingLeft, disk
<1> QED
  BY <1>3, <1>4 DEF Send, SendFails, SendLost

LEMMA SoloArchive ==
    ASSUME TypeOK, NEW c \in Clients, SoloInv(c), Archive(c)
    PROVE  SoloInv(c)'
<1>1. pc[c] \in {"archive_check", "archive_rename"}
  BY DEF Archive, ArchiveCheck, ArchiveRename, ArchiveThrows
<1>2. /\ ~archive[client[c].cur].present /\ client[c].cur \notin client[c].todo
      /\ client[c].dest
  BY <1>1 DEF SoloInv, PlaceOf, Uploading
<1>3. CASE ArchiveCheck(c)
  <2>1. pc'[c] = "archive_rename" /\ UNCHANGED client /\ UNCHANGED disk
    BY <1>2, <1>3, TypeParts DEF ArchiveCheck, Goto, ProcType
  <2>2. OwnOf(c)' /\ PlaceOf(c)'
    BY <1>1, <1>2, <2>1
    DEF SoloInv, OwnOf, PlaceOf, Writing, Capturing, WritingJson, Retrying, disk
  <2> QED
    BY <2>1, <2>2 DEF SoloInv, NothingLeft, disk
<1>4. CASE ArchiveRename(c)
  <2> DEFINE s == client[c].cur
  <2>1. /\ pc'[c] = "json_read" /\ client'[c].job = "archived"
        /\ SameRun(c) /\ SameSession(c)
    BY <1>4, RenameLocals
  <2>2. /\ s \in Sessions /\ pending[s].present
        /\ archive'[s] = pending[s] /\ pending'[s] = NoDir
        /\ \A t \in Sessions \ {s} : archive'[t] = archive[t] /\ pending'[t] = pending[t]
    BY <1>4, TypeParts, LocalsType DEF ArchiveRename, DiskType
  <2>3. client[c].todo \subseteq Sessions
    BY TypeParts DEF ProcType, Locals
  <2>4. OwnOf(c)'
    BY <2>1 DEF SoloInv, OwnOf, SameRun, SameSession, Writing, Capturing, WritingJson,
                Retrying
  <2>5. PlaceOf(c)'
    BY <1>2, <2>1, <2>2, <2>3
    DEF SoloInv, PlaceOf, SameRun, SameSession, Capturing, Uploading
  <2>6. NothingLeft'
    BY <2>2 DEF SoloInv, NothingLeft
  <2> QED
    BY <2>4, <2>5, <2>6 DEF SoloInv
<1>5. CASE ArchiveThrows(c)
  BY <1>5, SoloExit, QuietArchive DEF ArchiveThrows, Stopped, disk
<1> QED
  BY <1>3, <1>4, <1>5 DEF Archive

LEMMA SoloJsonReturn ==
    ASSUME TypeOK, NEW c \in Clients, SoloInv(c), pc[c] = "json_write", JsonReturn(c),
           SameArchive
    PROVE  SoloInv(c)'
<1>1. client[c].cur \in Sessions /\ client[c].todo \subseteq Sessions
  BY TypeParts DEF ProcType, Locals
<1>2. /\ client[c].job \in {"capturing", "ready_to_upload"} => client[c].own
      /\ client[c].job # "archived" => ~archive[client[c].cur].present
      /\ client[c].cur \notin client[c].todo
  BY DEF SoloInv, OwnOf, PlaceOf, WritingJson
<1>3. CASE /\ SameRun(c) /\ SameSession(c) /\ client'[c].fd = "pending"
           /\ \/ client[c].job = "capturing" /\ pc'[c] = "open_log"
              \/ /\ client[c].job = "ready_to_upload" /\ client[c].dest
                 /\ pc'[c] = "send"
              \/ client[c].job = "archived" /\ ~client[c].own /\ pc'[c] = "pick"
  <2>1. OwnOf(c)'
    BY <1>2, <1>3
    DEF SoloInv, OwnOf, SameRun, SameSession, Writing, Capturing, WritingJson, Retrying
  <2>2. PlaceOf(c)'
    BY <1>1, <1>2, <1>3
    DEF SoloInv, PlaceOf, SameRun, SameSession, SameArchive, Capturing, Uploading,
        WritingJson
  <2> QED
    BY <2>1, <2>2 DEF SoloInv, NothingLeft, SameArchive
<1>4. CASE Exit(c, "exit_0") \/ Exit(c, "exit_3")
  BY <1>4, SoloExit DEF Stopped
<1> QED
  BY <1>3, <1>4, JsonReturnLocals

LEMMA SoloManifest ==
    ASSUME TypeOK, NEW c \in Clients, SoloInv(c), Json(c)
    PROVE  SoloInv(c)'
<1>1. pc[c] \in WritingJson
  BY DEF Json, JsonRead, JsonOpen, JsonWrite, JsonLost, JsonThrows, WritingJson
<1>2. CASE JsonRead(c)
  BY <1>1, <1>2, JsonDisk, JsonReadLocals, SoloJson DEF WritingJson
<1>3. CASE JsonOpen(c)
  BY <1>1, <1>3, JsonDisk, JsonOpenLocals, SoloJson DEF WritingJson, SameManifest
<1>4. CASE JsonWrite(c)
  BY <1>4, JsonDisk, SoloJsonReturn DEF JsonWrite
<1>5. CASE JsonLost(c)
  BY <1>5, JsonDisk, SoloJsonReturn DEF JsonLost
<1>6. CASE JsonThrows(c)
  <2>1. Exit(c, "exit_3") \/ Exit(c, "exit_2")
    BY <1>6 DEF JsonThrows
  <2> QED
    BY <1>6, <2>1, JsonDisk, SoloExit DEF Stopped
<1> QED
  BY <1>2, <1>3, <1>4, <1>5, <1>6 DEF Json

LEMMA SoloThrow ==
    ASSUME TypeOK, NEW c \in Clients, SoloInv(c), Throw(c), SameArchive
    PROVE  SoloInv(c)'
BY SoloExit DEF Throw, Stopped

LEMMA SoloPrepare ==
    ASSUME TypeOK, NEW c \in Clients, SoloInv(c), PrepareArchive(c) \/ PreparePending(c)
    PROVE  SoloInv(c)'
<1>1. client[c].src /\ client[c].cur = client[c].sid /\ client[c].todo = {}
      /\ client[c].cur \in Sessions /\ pc[c] \in {"prepare_archive", "prepare_pending"}
  BY LocalsType, TypeParts
  DEF SoloInv, OwnOf, Capturing, PrepareArchive, PreparePending
<1>2. CASE PrepareArchive(c)
  <2>1. UNCHANGED disk /\ SameArchive
    BY <1>2, QuietArchive DEF PrepareArchive, disk
  <2>2. CASE ~archive[client[c].sid].present /\ Goto(c, "prepare_pending") /\ UNCHANGED client
    BY <1>1, <2>1, <2>2, GotoLocals, SoloCapture DEF Capturing, Writing
  <2>3. CASE Throw(c)
    BY <2>1, <2>3, SoloThrow
  <2> QED
    BY <1>2, <2>2, <2>3 DEF PrepareArchive
<1>3. CASE PreparePending(c)
  <2>1. ~archive[client[c].cur].present /\ UNCHANGED archive
    BY <1>3 DEF PreparePending, SoloInv, PlaceOf, Capturing
  <2>2. CASE Throw(c) /\ UNCHANGED <<pending, reused>>
    BY <2>1, <2>2, QuietArchive, SoloThrow
  <2>3. CASE /\ pending' = [pending EXCEPT ![client[c].sid] = create_directories(@)]
             /\ pc'[c] = "json_read" /\ SameRun(c)
             /\ client'[c].own = TRUE /\ client'[c].job = "capturing"
             /\ client'[c].cur = client[c].cur /\ client'[c].todo = client[c].todo
    <3>1. \A t \in Sessions : archive[t].present => pending'[t] = pending[t]
      BY <1>1, <2>1, <2>3, TypeParts DEF DiskType
    <3>2. NothingLeft'
      BY <2>1, <3>1 DEF SoloInv, NothingLeft
    <3>3. OwnOf(c)' /\ PlaceOf(c)'
      BY <1>1, <2>1, <2>3
      DEF OwnOf, PlaceOf, SameRun, Writing, Capturing, Retrying, Uploading
    <3> QED
      BY <3>2, <3>3 DEF SoloInv
  <2> QED
    BY <1>3, <2>2, <2>3, PreparePendingLocals
<1> QED
  BY <1>2, <1>3

LEMMA SoloRecord ==
    ASSUME TypeOK, NEW c \in Clients, SoloInv(c),
           \/ OpenLog(c) \/ LogFault(c) \/ CaptureThrows(c) \/ Finish(c)
           \/ SummaryOpen(c) \/ SummaryWrite(c)
    PROVE  SoloInv(c)'
<1>1. Writing(c) /\ pc[c] \in Capturing
  BY DEF Writing, Capturing, OpenLog, LogFault, CaptureThrows, Finish, SummaryOpen,
         SummaryWrite
<1>2. /\ client[c].own /\ client[c].fd = "pending"
      /\ client[c].src /\ client[c].cur = client[c].sid /\ client[c].todo = {}
      /\ ~archive[client[c].cur].present
  BY <1>1 DEF SoloInv, OwnOf, PlaceOf, Writing, Capturing
<1>3. ASSUME Throw(c), UNCHANGED disk PROVE SoloInv(c)'
  BY <1>3, SoloThrow, QuietArchive DEF disk
<1>4. ASSUME NEW k \in Kinds, NEW next \in {"capture", "summary_write"},
             OpenOutput(c, k, next)
      PROVE  SoloInv(c)'
  <2>1. CASE /\ PutFile(c, k, "partial") /\ pc'[c] = next
             /\ SameRun(c) /\ SameSession(c) /\ client'[c].fd = client[c].fd
    <3>1. SameArchive
      BY <1>1, <2>1, PutFileDisk DEF SameManifests, FileStates
    <3> QED
      BY <1>1, <1>2, <2>1, <3>1, SoloCapture DEF Capturing
  <2> QED
    BY <1>3, <1>4, <2>1, OpenLocals
<1>5. CASE LogFault(c)
  BY <1>1, <1>2, <1>5, LogFaultLocals, SoloCapture, QuietArchive
  DEF LogFault, disk, Capturing
<1>6. CASE CaptureThrows(c)
  BY <1>3, <1>6 DEF CaptureThrows
<1>7. CASE Finish(c)
  <2>1. CASE /\ PutFile(c, "event_log", "complete") /\ pc'[c] = "summary_open"
             /\ SameRun(c) /\ SameSession(c) /\ client'[c].fd = "pending"
    <3>1. SameArchive
      BY <1>1, <2>1, PutFileDisk DEF SameManifests, Kinds, FileStates
    <3> QED
      BY <1>1, <1>2, <2>1, <3>1, SoloCapture DEF Capturing
  <2> QED
    BY <1>3, <1>7, <2>1, FinishLocals
<1>8. CASE SummaryWrite(c)
  <2>1. CASE /\ PutFile(c, "summary_json", "complete") /\ pc'[c] = "json_read"
             /\ SameRun(c) /\ SameSession(c)
             /\ client'[c].job = "ready_to_upload" /\ client'[c].fd = "pending"
    <3>1. SameArchive
      BY <1>1, <2>1, PutFileDisk DEF SameManifests, Kinds, FileStates
    <3>2. OwnOf(c)' /\ PlaceOf(c)'
      BY <1>2, <2>1, <3>1, LocalsType, TypeParts
      DEF OwnOf, PlaceOf, SameRun, SameSession, SameArchive, Writing, Capturing,
          Retrying, Uploading
    <3> QED
      BY <3>1, <3>2 DEF SoloInv, NothingLeft, SameArchive
  <2> QED
    BY <1>3, <1>8, <2>1, SummaryWriteLocals
<1> QED
  BY <1>4, <1>5, <1>6, <1>7, <1>8 DEF OpenLog, SummaryOpen, Kinds

LEMMA SoloStep ==
    ASSUME TypeOK, NEW c \in Clients, SoloInv(c), Step(c)
    PROVE  SoloInv(c)'
<1>1. ASSUME NEW dest \in BOOLEAN, NEW src \in BOOLEAN, Launch(c, dest, src)
      PROVE  SoloInv(c)'
  <2>1. UNCHANGED disk
    BY <1>1 DEF Launch
  <2>2. pc'[c] = "scan" /\ client'[c].todo = {} /\ client'[c].own = FALSE
    BY <1>1, LaunchLocals
  <2> QED
    BY <2>1, <2>2, SoloQuiet DEF Capturing, Uploading, WritingJson
<1>2. CASE Usage(c)
  BY <1>2, UsageLocals, SoloQuiet DEF Usage, Capturing, Uploading, WritingJson
<1>3. CASE Crash(c)
  BY <1>3, SoloExit, QuietArchive DEF Crash, Stopped, disk
<1> QED
  BY <1>1, <1>2, <1>3, SoloRetry, SoloSend, SoloArchive, SoloManifest, SoloPrepare,
     SoloRecord
  DEF Step, Run, Capture

\* What the steps of a capture of its own write besides manifests: files.
LEMMA RecordDisk ==
    ASSUME TypeOK, NEW c \in Clients, SoloInv(c), Capture(c)
    PROVE  SameManifests
<1>1. CASE UNCHANGED <<pending, archive>>
  BY <1>1, QuietManifests
<1>2. CASE PreparePending(c)
  BY <1>2, CreateDisk
<1>3. ASSUME NEW k \in Kinds, NEW next, OpenOutput(c, k, next), Writing(c)
      PROVE  SameManifests
  BY <1>3, PutFileDisk, QuietManifests DEF OpenOutput, FileStates, disk
<1>4. CASE OpenLog(c) \/ SummaryOpen(c)
  BY <1>3, <1>4 DEF OpenLog, SummaryOpen, Kinds, Writing
<1>5. CASE Finish(c) \/ SummaryWrite(c)
  BY <1>5, PutFileDisk, QuietManifests
  DEF Finish, SummaryWrite, FileStates, Kinds, Writing, disk
<1> QED
  BY <1>1, <1>2, <1>4, <1>5 DEF Capture, PrepareArchive, CaptureThrows, disk

-----------------------------------------------------------------------------
(* Second copies. A session the destination has taken is in the archive, or *)
(* about to be moved there, unless something went wrong in between.         *)

CopiesInv(c) ==
    \A s \in Sessions :
        \/ s \in blamed
        \/ copies[s] = 0
        \/ /\ copies[s] = 1
           /\ \/ archive[s].present
              \/ pc[c] \in {"archive_check", "archive_rename"} /\ client[c].cur = s

LEMMA CopiesFrame ==
    ASSUME TypeOK, NEW c \in Clients, CopiesInv(c), UNCHANGED <<copies, blamed>>,
           SameArchive, pc[c] \notin {"archive_check", "archive_rename"}
    PROVE  CopiesInv(c)'
BY DEF CopiesInv, SameArchive

LEMMA CopiesSend ==
    ASSUME TypeOK, NEW c \in Clients, SoloInv(c), CopiesInv(c), Send(c)
    PROVE  CopiesInv(c)'
<1> DEFINE s == client[c].cur
<1>1. UNCHANGED disk /\ pc[c] = "send" /\ SameArchive /\ s \in Sessions
  BY QuietArchive, TypeParts, LocalsType
  DEF Send, SendFails, SendLost, SendOk, SendThrows, disk
<1>2. ~archive[s].present
  BY <1>1 DEF SoloInv, PlaceOf, Uploading
<1>3. CASE SendFails(c)
  BY <1>1, <1>3, CopiesFrame DEF SendFails
<1>4. ASSUME Accept(c)
      PROVE  /\ \A t \in Sessions \ {s} : copies'[t] = copies[t]
             /\ s \in blamed \/ copies'[s] = 1
  <2>1. copies \in [Sessions -> 0..MaxCount]
    BY DEF TypeOK
  <2>2. copies' = [copies EXCEPT ![s] = Bump(copies[s])]
    BY <1>4 DEF Accept
  <2>3. s \in blamed \/ copies[s] = 0
    BY <1>1, <1>2 DEF CopiesInv
  <2>4. Bump(0) = 1
    BY FilesAssumption DEF Bump
  <2>5. /\ copies'[s] = Bump(copies[s])
        /\ \A t \in Sessions \ {s} : copies'[t] = copies[t]
    BY <1>1, <2>1, <2>2
  <2> QED
    BY <2>3, <2>4, <2>5
<1>5. CASE SendLost(c)
  BY <1>1, <1>4, <1>5 DEF SendLost, CopiesInv, SameArchive
<1>6. CASE SendOk(c)
  <2>1. pc'[c] = "archive_check" /\ UNCHANGED <<client, blamed>>
    BY <1>6, TypeParts DEF SendOk, Goto, ProcType
  <2> QED
    BY <1>1, <1>4, <1>6, <2>1 DEF SendOk, CopiesInv, SameArchive
<1> QED
  BY <1>3, <1>5, <1>6 DEF Send

LEMMA CopiesArchive ==
    ASSUME TypeOK, NEW c \in Clients, SoloInv(c), CopiesInv(c), Archive(c)
    PROVE  CopiesInv(c)'
<1> DEFINE s == client[c].cur
<1>1. pc[c] \in {"archive_check", "archive_rename"} /\ s \in Sessions /\ DiskType
  BY TypeParts, LocalsType DEF Archive, ArchiveCheck, ArchiveRename, ArchiveThrows
<1>2. ~archive[s].present
  BY <1>1 DEF SoloInv, PlaceOf, Uploading
<1>3. CASE ArchiveCheck(c)
  <2>1. pc'[c] = "archive_rename" /\ UNCHANGED <<client, disk, history>>
    BY <1>2, <1>3, TypeParts DEF ArchiveCheck, Goto, ProcType
  <2> QED
    BY <2>1 DEF CopiesInv, disk, history
<1>4. CASE ArchiveRename(c)
  <2>1. /\ UNCHANGED <<copies, blamed>> /\ archive'[s].present
        /\ \A t \in Sessions \ {s} : archive'[t] = archive[t]
    BY <1>1, <1>4 DEF ArchiveRename, DiskType, history
  <2> QED
    BY <2>1 DEF CopiesInv
<1>5. CASE ArchiveThrows(c)
  BY <1>5 DEF ArchiveThrows, CopiesInv, disk
<1> QED
  BY <1>3, <1>4, <1>5 DEF Archive

LEMMA CopiesStep ==
    ASSUME TypeOK, NEW c \in Clients, SoloInv(c), CopiesInv(c), Step(c)
    PROVE  CopiesInv(c)'
<1>1. CASE Usage(c) \/ LogFault(c) \/ Retry(c)
           \/ \E dest, src \in BOOLEAN : Launch(c, dest, src)
  <2>1. UNCHANGED <<disk, history>> /\ pc[c] \notin {"archive_check", "archive_rename"}
    BY <1>1
    DEF Usage, LogFault, Launch, Retry, Scan, PickNext, PickDone, Stopped
  <2> QED
    BY <2>1, CopiesFrame, QuietArchive DEF disk, history
<1>2. CASE Json(c)
  <2>1. UNCHANGED <<copies, blamed>> /\ pc[c] \notin {"archive_check", "archive_rename"}
    BY <1>2
    DEF Json, JsonRead, JsonOpen, JsonWrite, JsonLost, JsonThrows, WritingJson, history
  <2>2. SameArchive
    BY <1>2, JsonDisk DEF Json
  <2> QED
    BY <2>1, <2>2, CopiesFrame
<1>3. CASE Capture(c)
  <2>1. UNCHANGED <<copies, blamed>> /\ pc[c] \notin {"archive_check", "archive_rename"}
    BY <1>3
    DEF Capture, PrepareArchive, PreparePending, OpenLog, CaptureThrows, Finish,
        SummaryOpen, SummaryWrite, history
  <2> QED
    BY <1>3, <2>1, RecordDisk, CopiesFrame DEF SameManifests
<1>4. CASE Crash(c)
  BY <1>4 DEF Crash, CopiesInv, disk
<1> QED
  BY <1>1, <1>2, <1>3, <1>4, CopiesSend, CopiesArchive DEF Step, Run

-----------------------------------------------------------------------------
(* The history of failures. Coming is the manifest that a session has, or   *)
(* will have once the process has written what it is about to write.        *)

Coming(c, s) ==
    IF pc[c] \in WritingJson /\ client[c].cur = s
    THEN IF pc[c] = "json_read" THEN NewManifest(c, Current(s)) ELSE client[c].draft
    ELSE Current(s)

Counted(m, n) == m.attempts = m.failures /\ m.failures <= n

CountsInv(c) ==
    \A s \in Sessions :
        /\ Counted(Current(s), failed[s]) /\ Counted(Coming(c, s), failed[s])
        /\ crashes = 0 /\ ~WritesMayFail => Coming(c, s).failures = failed[s]

SameCounts(m, n) == m.failures = n.failures /\ m.attempts = n.attempts

\* The counts of a session are those it had, or would have had without a fault.
LEMMA CountsFrame ==
    ASSUME NEW c \in Clients, CountsInv(c), UNCHANGED failed, crashes' = 0 => crashes = 0,
           \A t \in Sessions :
               \/ Current(t)' = Current(t) \/ Current(t)' = DamagedManifest
               \/ Current(t)' = Coming(c, t),
           \A t \in Sessions :
               \/ SameCounts(Coming(c, t)', Coming(c, t))
               \/ SameCounts(Coming(c, t)', Current(t)) /\ (crashes' # 0 \/ WritesMayFail),
           TypeOK
    PROVE  CountsInv(c)'
<1>1. \A t \in Sessions : failed[t] \in Nat /\ failed'[t] = failed[t]
  BY DEF TypeOK
<1>2. Counted(DamagedManifest, 0) /\ DamagedManifest.failures = 0
  BY DEF Counted, DamagedManifest, Unreadable
<1> SUFFICES ASSUME NEW t \in Sessions
             PROVE  /\ Counted(Current(t)', failed[t]) /\ Counted(Coming(c, t)', failed[t])
                    /\ crashes' = 0 /\ ~WritesMayFail => Coming(c, t)'.failures = failed[t]
  BY <1>1 DEF CountsInv, Counted
<1>3. Counted(Current(t)', failed[t])
  BY <1>1, <1>2 DEF CountsInv, Counted
<1> QED
  BY <1>1, <1>3 DEF CountsInv, Counted, SameCounts

\* Steps before and after which the process writes no manifest.
LEMMA CountsQuiet ==
    ASSUME TypeOK, NEW c \in Clients, CountsInv(c), UNCHANGED failed,
           crashes' = 0 => crashes = 0, SameManifests,
           pc[c] \notin WritingJson, pc'[c] \notin WritingJson
    PROVE  CountsInv(c)'
<1>1. \A t \in Sessions : Coming(c, t)' = Current(t) /\ Coming(c, t) = Current(t)
  BY DEF Coming, SameManifests
<1> QED
  BY <1>1, CountsFrame DEF SameManifests, SameCounts

LEMMA FailureCounts ==
    ASSUME NEW m, NEW at
    PROVE  /\ upload_failure_json(m, at).failures = Bump(m.failures)
           /\ upload_failure_json(m, at).attempts = Bump(m.attempts)
BY DEF upload_failure_json, base_state_json

LEMMA BaseCounts ==
    ASSUME NEW m, NEW st, NEW at
    PROVE  SameCounts(base_state_json(m, st, at), m)
BY DEF base_state_json, SameCounts

LEMMA BumpKeepsOrder ==
    ASSUME NEW m \in 0..MaxCount, NEW n \in 0..MaxCount, m <= n
    PROVE  Bump(m) <= Bump(n)
BY DEF Bump

\* Steps after which it begins to write one: all but a failure keep the counts.
LEMMA CountsEnter ==
    ASSUME TypeOK, NEW c \in Clients, CountsInv(c), SameManifests, UNCHANGED <<failed, crashes>>,
           pc[c] \notin WritingJson, pc'[c] = "json_read",
           client'[c].job # "failed"
    PROVE  CountsInv(c)'
<1>1. \A t \in Sessions : Current(t)' = Current(t) /\ Coming(c, t) = Current(t)
  BY DEF Coming, SameManifests
<1>2. ASSUME NEW t \in Sessions PROVE SameCounts(Coming(c, t)', Current(t)')
  <2>1. CASE client'[c].cur = t
    <3>1. Coming(c, t)' = NewManifest(c, Current(t))'
      BY <2>1 DEF Coming, WritingJson
    <3>2. \E st, at : NewManifest(c, Current(t))' = base_state_json(Current(t)', st, at)
      BY DEF NewManifest
    <3> QED
      BY <3>1, <3>2, BaseCounts
  <2>2. CASE client'[c].cur # t
    BY <2>2 DEF Coming, SameCounts
  <2> QED
    BY <2>1, <2>2
<1>3. \A t \in Sessions : SameCounts(Coming(c, t)', Coming(c, t))
  BY <1>1, <1>2
<1> QED
  BY <1>1, <1>3, CountsFrame

\* A failed upload is counted in failed and in the manifest that will be written.
LEMMA CountsFailure ==
    ASSUME TypeOK, NEW c \in Clients, CountsInv(c), SendThrows(c)
    PROVE  CountsInv(c)'
<1>0. PICK s \in Sessions : s = client[c].cur
  BY TypeParts, LocalsType
<1>1. /\ pc[c] = "send" /\ pc'[c] = "json_read" /\ client'[c].job = "failed"
      /\ client'[c].cur = s
  BY <1>0, SendThrowsLocals DEF SameSession
<1>2. /\ failed \in [Sessions -> 0..MaxCount]
      /\ failed' = [failed EXCEPT ![s] = Bump(failed[s])]
      /\ UNCHANGED <<disk, crashes>>
  BY <1>0 DEF TypeOK, SendThrows
<1>3. \A t \in Sessions : Current(t)' = Current(t)
  BY <1>2 DEF Current, disk
<1>4. \A t \in Sessions : Coming(c, t) = Current(t)
  BY <1>1 DEF Coming, WritingJson
<1>5. \A t \in Sessions \ {s} : Coming(c, t)' = Current(t) /\ failed'[t] = failed[t]
  BY <1>1, <1>2, <1>3 DEF Coming
<1>6. /\ Coming(c, s)'.failures = Bump(Current(s).failures)
      /\ Coming(c, s)'.attempts = Bump(Current(s).attempts)
  <2>1. Coming(c, s)' = NewManifest(c, Current(s))'
    BY <1>1 DEF Coming, WritingJson
  <2>2. \E at : NewManifest(c, Current(s))' = upload_failure_json(Current(s)', at)
    BY <1>1 DEF NewManifest
  <2> QED
    BY <1>1, <1>3, <2>1, <2>2, FailureCounts
<1>7. Current(s).failures \in 0..MaxCount /\ failed[s] \in 0..MaxCount
      /\ Bump(failed[s]) \in 0..MaxCount /\ failed'[s] = Bump(failed[s])
  BY <1>1, <1>2, TypeParts, BumpType DEF DiskType, Dir, Manifest, Current
<1>8. failed[s] <= Bump(failed[s])
  BY <1>7 DEF Bump
<1>9. Current(s).failures <= failed[s] /\ Current(s).attempts = Current(s).failures
  BY <1>1 DEF CountsInv, Counted
<1>10. Counted(Current(s)', failed'[s]) /\ Counted(Coming(c, s)', failed'[s])
  <2>1. Bump(Current(s).failures) <= Bump(failed[s])
    BY <1>7, <1>9, BumpKeepsOrder
  <2>2. Current(s).failures <= Bump(failed[s])
    BY <1>7, <1>8, <1>9
  <2>3. Counted(Current(s)', failed'[s])
    BY <1>1, <1>3, <1>7, <1>9, <2>2 DEF Counted
  <2>4. Counted(Coming(c, s)', failed'[s])
    BY <1>6, <1>7, <1>9, <2>1 DEF Counted
  <2> QED
    BY <2>3, <2>4
<1>11. crashes' = 0 /\ ~WritesMayFail => Coming(c, s)'.failures = failed'[s]
  BY <1>1, <1>2, <1>4, <1>6, <1>7 DEF CountsInv
<1>12. ASSUME NEW t \in Sessions
       PROVE  /\ Counted(Current(t)', failed'[t]) /\ Counted(Coming(c, t)', failed'[t])
              /\ crashes' = 0 /\ ~WritesMayFail => Coming(c, t)'.failures = failed'[t]
  <2>1. CASE t = s
    BY <1>10, <1>11, <2>1
  <2>2. CASE t # s
    BY <1>2, <1>3, <1>4, <1>5, <2>2 DEF CountsInv
  <2> QED
    BY <2>1, <2>2
<1> QED
  BY <1>12 DEF CountsInv

LEMMA CountsJson ==
    ASSUME TypeOK, NEW c \in Clients, SoloInv(c), CountsInv(c), Json(c)
    PROVE  CountsInv(c)'
<1>0. PICK s \in Sessions : s = client[c].cur
  BY TypeParts, LocalsType
<1>1. pc[c] \in WritingJson /\ UNCHANGED failed /\ UNCHANGED crashes
  BY DEF Json, JsonRead, JsonOpen, JsonWrite, JsonLost, JsonThrows, WritingJson, history
<1>2. /\ Coming(c, s) = IF pc[c] = "json_read" THEN NewManifest(c, Current(s))
                        ELSE client[c].draft
      /\ \A t \in Sessions \ {s} : Coming(c, t) = Current(t)
  BY <1>0, <1>1 DEF Coming
<1>3. ASSUME client'[c].cur = s, pc'[c] \in {"json_open", "json_write"},
             client'[c].draft = Coming(c, s),
             Current(s)' \in {Current(s), DamagedManifest},
             \A t \in Sessions \ {s} : Current(t)' = Current(t)
      PROVE  CountsInv(c)'
  <2>1. Coming(c, s)' = Coming(c, s)
    BY <1>3 DEF Coming, WritingJson
  <2>2. \A t \in Sessions \ {s} : Coming(c, t)' = Coming(c, t)
    BY <1>2, <1>3 DEF Coming
  <2> QED
    BY <1>1, <1>3, <2>1, <2>2, CountsFrame DEF SameCounts
<1>4. CASE JsonRead(c)
  <2>1. client'[c].draft = NewManifest(c, Current(s)) /\ pc[c] = "json_read"
        /\ pc'[c] = "json_open" /\ client'[c].cur = s
    BY <1>0, <1>1, <1>4, JsonReadLocals, PlaceIsWhereItIs DEF SameSession
  <2>2. Current(s)' = Current(s) /\ \A t \in Sessions \ {s} : Current(t)' = Current(t)
    BY <1>0, <1>4, JsonReadDisk DEF OnlyManifest
  <2> QED
    BY <1>2, <1>3, <2>1, <2>2
<1>5. CASE JsonOpen(c)
  BY <1>0, <1>2, <1>3, <1>5, JsonOpenDisk, JsonOpenLocals
  DEF OnlyManifest, SameSession, SameManifest
<1>6. ASSUME JsonReturn(c) PROVE pc'[c] \notin WritingJson
  <2>1. Exit(c, "exit_0") => pc'[c] = "exit_0"
    BY ExitLocals
  <2>2. Exit(c, "exit_3") => pc'[c] = "exit_3"
    BY ExitLocals
  <2> QED
    BY <1>6, <2>1, <2>2, JsonReturnLocals DEF WritingJson
<1>7. ASSUME pc'[c] \notin WritingJson,
             \/ Current(s)' = client[c].draft /\ pc[c] # "json_read"
             \/ Current(s)' = Current(s) /\ WritesMayFail,
             \A t \in Sessions \ {s} : Current(t)' = Current(t)
      PROVE  CountsInv(c)'
  <2>1. \A t \in Sessions : Coming(c, t)' = Current(t)'
    BY <1>7 DEF Coming
  <2> QED
    BY <1>1, <1>2, <1>7, <2>1, CountsFrame DEF SameCounts
<1>8. CASE JsonWrite(c)
  BY <1>0, <1>6, <1>7, <1>8, JsonWriteDisk DEF JsonWrite, OnlyManifest
<1>9. CASE JsonLost(c)
  BY <1>6, <1>7, <1>9, QuietManifests DEF JsonLost, SameManifests, disk
<1>10. CASE JsonThrows(c)
  <2>1. pc'[c] \in {"exit_2", "exit_3"}
    BY <1>10, ExitLocals DEF JsonThrows
  <2> QED
    BY <1>7, <1>10, <2>1, QuietManifests DEF JsonThrows, SameManifests, disk, WritingJson
<1> QED
  BY <1>4, <1>5, <1>8, <1>9, <1>10 DEF Json

LEMMA CountsCapture ==
    ASSUME TypeOK, NEW c \in Clients, SoloInv(c), CountsInv(c), Capture(c)
    PROVE  CountsInv(c)'
<1>1. /\ SameManifests /\ UNCHANGED <<failed, crashes>> /\ pc[c] \notin WritingJson
  BY RecordDisk
  DEF Capture, PrepareArchive, PreparePending, OpenLog, CaptureThrows, Finish,
      SummaryOpen, SummaryWrite, history, WritingJson
<1>2. \/ pc'[c] \in Capturing \cup Stopped
      \/ pc'[c] = "json_read" /\ client'[c].job # "failed"
  <2>1. ASSUME Throw(c) PROVE pc'[c] \in Stopped
    BY <2>1, ExitLocals DEF Throw, Stopped
  <2>2. CASE PrepareArchive(c) \/ CaptureThrows(c)
    BY <2>1, <2>2, GotoLocals DEF PrepareArchive, CaptureThrows, Capturing
  <2>3. CASE PreparePending(c)
    BY <2>1, <2>3, PreparePendingLocals
  <2>4. CASE OpenLog(c) \/ SummaryOpen(c)
    BY <2>1, <2>4, OpenLocals DEF OpenLog, SummaryOpen, Capturing, Kinds
  <2>5. CASE Finish(c)
    BY <2>1, <2>5, FinishLocals DEF Capturing
  <2>6. CASE SummaryWrite(c)
    BY <2>1, <2>6, SummaryWriteLocals
  <2> QED
    BY <2>2, <2>3, <2>4, <2>5, <2>6 DEF Capture
<1>3. CASE pc'[c] \in Capturing \cup Stopped
  <2>1. pc'[c] \notin WritingJson
    BY <1>3 DEF Capturing, Stopped, WritingJson
  <2> QED
    BY <1>1, <2>1, CountsQuiet
<1> QED
  BY <1>1, <1>2, <1>3, CountsEnter

LEMMA CountsArchive ==
    ASSUME TypeOK, NEW c \in Clients, SoloInv(c), CountsInv(c), Archive(c)
    PROVE  CountsInv(c)'
<1>1. pc[c] \in Uploading /\ UNCHANGED failed /\ UNCHANGED crashes
  BY DEF Archive, ArchiveCheck, ArchiveRename, ArchiveThrows, Uploading, history
<1>2. CASE ArchiveCheck(c) \/ ArchiveThrows(c)
  <2>1. pc'[c] \in {"archive_rename", "exit_3"} /\ UNCHANGED disk
    BY <1>2, ExitLocals, GotoLocals DEF ArchiveCheck, ArchiveThrows
  <2> QED
    BY <1>1, <2>1, CountsQuiet, QuietManifests DEF disk, Uploading, WritingJson
<1>3. CASE ArchiveRename(c)
  <2>0. PICK s \in Sessions : s = client[c].cur
    BY TypeParts, LocalsType
  <2>1. /\ ~archive[s].present /\ pending[s].present /\ DiskType
        /\ archive' = [archive EXCEPT ![s] = pending[s]]
        /\ pending' = [pending EXCEPT ![s] = NoDir]
    BY <1>3, <2>0, TypeParts DEF ArchiveRename
  <2>2. \A t \in Sessions : Current(t)' = Current(t)
    BY <2>1 DEF Current, DiskType
  <2>3. /\ pc'[c] = "json_read" /\ client'[c].job = "archived" /\ client'[c].cur = s
    BY <1>3, <2>0, RenameLocals DEF SameSession
  <2>4. \A t \in Sessions : Coming(c, t) = Current(t)
    BY <1>1 DEF Coming, Uploading, WritingJson
  <2>5. ASSUME NEW t \in Sessions PROVE SameCounts(Coming(c, t)', Current(t)')
    <3>1. CASE t = s
      <4>1. Coming(c, t)' = NewManifest(c, Current(t))'
        BY <2>3, <3>1 DEF Coming, WritingJson
      <4>2. \E st, at : NewManifest(c, Current(t))' = base_state_json(Current(t)', st, at)
        BY <2>3 DEF NewManifest
      <4> QED
        BY <4>1, <4>2, BaseCounts
    <3>2. CASE t # s
      BY <2>3, <3>2 DEF Coming, SameCounts
    <3> QED
      BY <3>1, <3>2
  <2> QED
    BY <1>1, <2>2, <2>4, <2>5, CountsFrame
<1> QED
  BY <1>2, <1>3 DEF Archive

LEMMA CountsStep ==
    ASSUME TypeOK, NEW c \in Clients, SoloInv(c), CountsInv(c), Step(c)
    PROVE  CountsInv(c)'
<1>1. CASE Usage(c) \/ LogFault(c) \/ Retry(c) \/ SendOk(c)
           \/ \E dest, src \in BOOLEAN : Launch(c, dest, src)
  <2>1. UNCHANGED <<disk, failed, crashes>> /\ pc[c] \notin WritingJson
    BY <1>1
    DEF Usage, LogFault, Launch, Retry, Scan, PickNext, PickDone, SendOk, Stopped,
        WritingJson, history
  <2>2. pc'[c] \notin WritingJson
    <3>1. CASE Usage(c) \/ LogFault(c) \/ \E dest, src \in BOOLEAN : Launch(c, dest, src)
      BY <3>1, UsageLocals, LogFaultLocals, LaunchLocals DEF WritingJson
    <3>2. CASE Scan(c) \/ PickNext(c) \/ SendOk(c)
      BY <3>2, ScanLocals, PickNextLocals, GotoLocals DEF SendOk, WritingJson
    <3>3. CASE PickDone(c)
      <4>1. pc'[c] \in {"prepare_archive", "exit_0", "exit_2"}
        BY <3>3, PickDoneLocals, ExitLocals
      <4> QED
        BY <4>1 DEF WritingJson
    <3> QED
      BY <1>1, <3>1, <3>2, <3>3 DEF Retry
  <2> QED
    BY <2>1, <2>2, CountsQuiet, QuietManifests DEF disk
<1>2. CASE SendFails(c) \/ SendLost(c)
  BY <1>2, CountsFailure DEF SendFails, SendLost
<1>3. CASE Crash(c)
  <2>1. crashes' # 0 /\ UNCHANGED <<disk, failed>>
    BY <1>3, LifecycleAssumption DEF Crash, TypeOK
  <2>3. pc'[c] = "crashed"
    BY <1>3, ExitLocals DEF Crash
  <2>2. \A t \in Sessions : Current(t)' = Current(t) /\ Coming(c, t)' = Current(t)
    BY <2>1, <2>3 DEF Coming, Current, WritingJson, disk
  <2> QED
    BY <2>1, <2>2, CountsFrame DEF SameCounts
<1> QED
  BY <1>1, <1>2, <1>3, CountsJson, CountsCapture, CountsArchive DEF Step, Run, Send

-----------------------------------------------------------------------------
(* Exit code 0. What the process captures is complete when it is sealed,    *)
(* complete when it is sent, and named by the manifest it writes. This is   *)
(* about a disk that loses nothing: a manifest whose last bytes are lost    *)
(* without an error is the counterexample otherwise.                        *)

Whole(s, at) == \A k \in Kinds : FileAt(s, k, at) = [st |-> "complete", of |-> s]

Given(s) ==
    \E u \in received :
        u.session = s /\ \A k \in Kinds : u.files[k] = [st |-> "complete", of |-> s]

\* s is the session the process works on, and at the paths of its files.
HonestAt(c, s, at) ==
    /\ pc[c] \in {"summary_open", "summary_write"} =>
           FileAt(s, "event_log", at) = [st |-> "complete", of |-> s]
    /\ client[c].own /\ pc[c] = "send" => Whole(s, at)
    /\ client[c].own /\ pc[c] \in {"archive_check", "archive_rename"} => Given(s)
    /\ Writing(c) => pending[s].present
    /\ pc[c] \in WritingJson /\ client[c].job = "capturing" => pending[s].present
    /\ pc[c] \in WritingJson /\ client[c].job = "ready_to_upload" =>
           /\ pending[s].present /\ Whole(s, at)
           /\ pc[c] # "json_read" =>
                  client[c].draft.state = "ready_to_upload" /\ client[c].draft.at = at
    /\ pc[c] \in WritingJson /\ client[c].job = "archived" =>
           /\ client[c].own => Given(s)
           /\ pc[c] # "json_read" => client[c].draft.state = "archived"

\* What ExitZeroIsHonest says of one process that exits with 0.
HonestExit(c, s) ==
    \/ client[c].dest /\ archive[s].manifest.state = "archived" /\ Given(s)
    \/ /\ ~client[c].dest /\ s \in ReadySessions
       /\ Whole(s, pending[s].manifest.at)

HonestInv(c) ==
    /\ HonestAt(c, client[c].cur, client[c].paths[client[c].cur])
    /\ pc[c] = "exit_0" /\ client[c].src => HonestExit(c, client[c].sid)

LEMMA PutFileFiles ==
    ASSUME TypeOK, NEW c \in Clients, SoloInv(c), Writing(c),
           NEW s \in Sessions, s = client[c].cur, NEW at, at = client[c].paths[s],
           NEW k \in Kinds, NEW st \in FileStates, PutFile(c, k, st)
    PROVE  /\ FileAt(s, k, at)' = [st |-> st, of |-> s]
           /\ \A j \in Kinds \ {k} : FileAt(s, j, at)' = FileAt(s, j, at)
           /\ pending'[s].present = pending[s].present
<1>1. client[c].fd = "pending" /\ DiskType /\ at \in OutputPaths
  BY TypeParts, LocalsType DEF SoloInv, OwnOf
<1>2. CASE at[k] = "ext"
  <2>1. /\ ext' = [ext EXCEPT ![k] = [st |-> st, of |-> s]]
        /\ UNCHANGED <<pending, archive>>
    BY <1>2 DEF PutFile
  <2> QED
    BY <1>1, <1>2, <2>1 DEF FileAt, DiskType
<1>3. CASE at[k] # "ext"
  <2>1. at[k] = "dir"
    BY <1>1, <1>3 DEF OutputPaths, Locations
  <2>2. /\ pending' = [pending EXCEPT ![s] = [pending[s] EXCEPT !.files[k] = st]]
        /\ UNCHANGED ext
    BY <1>1, <1>3 DEF PutFile, PutDir, DirAt
  <2>3. /\ pending'[s].files = [pending[s].files EXCEPT ![k] = st]
        /\ pending'[s].present = pending[s].present
        /\ pending[s].files \in [Kinds -> FileStates]
    BY <1>1, <2>2 DEF DiskType, Dir
  <2> QED
    BY <2>1, <2>2, <2>3 DEF FileAt
<1> QED
  BY <1>2, <1>3

LEMMA JsonFiles ==
    ASSUME NEW s \in Sessions, NEW m, OnlyManifest(s, m), NEW at
    PROVE  /\ \A k \in Kinds : FileAt(s, k, at)' = FileAt(s, k, at)
           /\ Whole(s, at) => Whole(s, at)'
           /\ pending[s].present => pending'[s].present
BY DEF OnlyManifest, FileAt, Whole

\* After steps that lead where nothing is claimed.
LEMMA HonestElsewhere ==
    ASSUME TypeOK, NEW c \in Clients,
           \/ pc'[c] \in Retrying \cup {"exit_2", "exit_3", "crashed",
                                        "prepare_archive", "prepare_pending"}
           \/ pc'[c] = "exit_0" /\ ~client'[c].src
           \/ pc'[c] = "send" /\ ~client'[c].own
           \/ pc'[c] = "json_read" /\ client'[c].job = "failed"
    PROVE  HonestInv(c)'
BY DEF HonestInv, HonestAt, Writing, WritingJson, Retrying

\* To show HonestInv(c)' it is enough to look at the session and its paths.
LEMMA HonestHere ==
    ASSUME NEW c \in Clients, NEW s, NEW at,
           s = client'[c].cur, at = client'[c].paths[s],
           HonestAt(c, s, at)', pc'[c] # "exit_0"
    PROVE  HonestInv(c)'
BY DEF HonestInv, HonestAt, Whole, Given, FileAt

LEMMA HonestRetry ==
    ASSUME TypeOK, NEW c \in Clients, SoloInv(c), Retry(c)
    PROVE  HonestInv(c)'
<1>1. CASE Scan(c)
  BY <1>1, ScanLocals, HonestElsewhere DEF Retrying
<1>2. CASE PickNext(c)
  <2>1. client[c].own = FALSE
    BY <1>2, TypeParts, LocalsType DEF PickNext, SoloInv, OwnOf, Retrying, ProcType, Locals
  <2> QED
    BY <1>2, <2>1, PickNextLocals, HonestElsewhere
<1>3. CASE PickDone(c)
  <2>1. CASE pc'[c] = "prepare_archive"
    BY <2>1, HonestElsewhere
  <2>2. CASE ~client[c].src /\ Exit(c, IF client[c].uploaded THEN "exit_0" ELSE "exit_2")
    <3>1. Exit(c, "exit_0") \/ Exit(c, "exit_2")
      BY <2>2
    <3> QED
      BY <2>2, <3>1, ExitLocals, HonestElsewhere
  <2> QED
    BY <1>3, <2>1, <2>2, PickDoneLocals
<1> QED
  BY <1>1, <1>2, <1>3 DEF Retry

LEMMA HonestSend ==
    ASSUME TypeOK, NEW c \in Clients, SoloInv(c), HonestInv(c), Send(c)
    PROVE  HonestInv(c)'
<1>1. CASE SendFails(c) \/ SendLost(c)
  BY <1>1, SendThrowsLocals, HonestElsewhere DEF SendFails, SendLost
<1>2. CASE SendOk(c)
  <2> DEFINE s == client[c].cur
             at == client[c].paths[s]
  <2>1. pc[c] = "send" /\ pc'[c] = "archive_check" /\ client'[c] = client[c]
    BY <1>2, TypeParts DEF SendOk, Goto, ProcType
  <2>2. client[c].own => Given(s)'
    <3>1. ASSUME client[c].own
          PROVE  /\ Request(c).session = s
                 /\ \A k \in Kinds : Request(c).files[k] = [st |-> "complete", of |-> s]
      BY <2>1, <3>1 DEF HonestInv, HonestAt, Whole, Request
    <3>2. Request(c) \in received'
      BY <1>2 DEF SendOk, Accept
    <3>3. client[c].own => \E u \in received' : /\ u.session = s
               /\ \A k \in Kinds : u.files[k] = [st |-> "complete", of |-> s]
      BY <3>1, <3>2
    <3>4. client'[c].cur = s
      BY <2>1
    <3> QED
      BY <3>3, <3>4 DEF Given
  <2> QED
    BY <2>1, <2>2 DEF HonestInv, HonestAt, Given, Writing, WritingJson
<1> QED
  BY <1>1, <1>2 DEF Send

LEMMA HonestArchive ==
    ASSUME TypeOK, NEW c \in Clients, SoloInv(c), HonestInv(c), Archive(c)
    PROVE  HonestInv(c)'
<1>1. CASE ArchiveCheck(c)
  <2>1. pc[c] = "archive_check" /\ UNCHANGED received
    BY <1>1 DEF ArchiveCheck
  <2>2. CASE Exit(c, "exit_3")
    BY <2>2, ExitLocals, HonestElsewhere
  <2>3. CASE Goto(c, "archive_rename") /\ UNCHANGED client
    <3>1. pc'[c] = "archive_rename"
      BY <2>3, GotoLocals
    <3> QED
      BY <2>1, <2>3, <3>1 DEF HonestInv, HonestAt, Given, Writing, WritingJson
  <2> QED
    BY <1>1, <2>2, <2>3 DEF ArchiveCheck
<1>2. CASE ArchiveRename(c)
  <2>1. /\ pc[c] = "archive_rename" /\ pc'[c] = "json_read"
        /\ client'[c].job = "archived" /\ SameSession(c) /\ UNCHANGED received
    BY <1>2, RenameLocals DEF ArchiveRename
  <2> QED
    BY <2>1 DEF HonestInv, HonestAt, Given, Writing, SameSession
<1>3. CASE ArchiveThrows(c)
  BY <1>3, ExitLocals, HonestElsewhere DEF ArchiveThrows
<1> QED
  BY <1>1, <1>2, <1>3 DEF Archive

LEMMA HonestJson ==
    ASSUME TypeOK, NEW c \in Clients, SoloInv(c), HonestInv(c), Json(c), ~WritesMayFail
    PROVE  HonestInv(c)'
<1>1. PICK s \in Sessions : s = client[c].cur
  BY TypeParts, LocalsType
<1>2. PICK at : at = client[c].paths[s]
  OBVIOUS
<1>3. HonestAt(c, s, at) /\ UNCHANGED received /\ pc[c] \in WritingJson
  BY <1>1, <1>2
  DEF HonestInv, Json, JsonRead, JsonOpen, JsonWrite, JsonLost, JsonThrows, WritingJson
<1>4. ASSUME NEW m, OnlyManifest(s, m)
      PROVE  /\ Whole(s, at) => Whole(s, at)'
             /\ pending[s].present => pending'[s].present
             /\ Given(s)' <=> Given(s)
  BY <1>3, <1>4, JsonFiles DEF Given
<1>5. CASE JsonRead(c)
  <2>1. /\ pc[c] = "json_read" /\ pc'[c] = "json_open" /\ SameSession(c)
        /\ client'[c].job = client[c].job
        /\ client'[c].draft = NewManifest(c, DirAt(Place(c), s).manifest)
    BY <1>1, <1>5, JsonReadLocals
  <2>2. /\ client[c].job = "archived" => client'[c].draft.state = "archived"
        /\ client[c].job = "ready_to_upload" =>
               client'[c].draft.state = "ready_to_upload" /\ client'[c].draft.at = at
    BY <1>1, <1>2, <2>1 DEF NewManifest, base_state_json
  <2>3. OnlyManifest(s, Current(s))
    BY <1>1, <1>5, JsonReadDisk
  <2>4. HonestAt(c, s, at)'
    BY <1>3, <1>4, <2>1, <2>2, <2>3 DEF HonestAt, SameSession, Writing
  <2> QED
    BY <1>1, <1>2, <2>1, <2>4, HonestHere DEF SameSession
<1>6. CASE JsonOpen(c)
  <2>1. /\ pc[c] = "json_open" /\ pc'[c] = "json_write"
        /\ SameSession(c) /\ SameManifest(c)
    BY <1>6, JsonOpenLocals
  <2>2. OnlyManifest(s, DamagedManifest)
    BY <1>1, <1>6, JsonOpenDisk
  <2>3. HonestAt(c, s, at)'
    BY <1>3, <1>4, <2>1, <2>2 DEF HonestAt, SameSession, SameManifest, Writing
  <2> QED
    BY <1>1, <1>2, <2>1, <2>3, HonestHere DEF SameSession
<1>7. CASE JsonWrite(c)
  <2>1. OnlyManifest(s, client[c].draft) /\ pc[c] = "json_write" /\ JsonReturn(c)
    BY <1>1, <1>7, JsonWriteDisk DEF JsonWrite
  <2>2. CASE SameSession(c) /\ client[c].job = "capturing" /\ pc'[c] = "open_log"
    <3>1. HonestAt(c, s, at)'
      BY <1>3, <1>4, <2>1, <2>2 DEF HonestAt, WritingJson
    <3> QED
      BY <1>1, <1>2, <2>2, <3>1, HonestHere DEF SameSession
  <2>3. CASE SameSession(c) /\ client[c].job = "ready_to_upload" /\ pc'[c] = "send"
    <3>1. HonestAt(c, s, at)'
      BY <1>3, <1>4, <2>1, <2>3 DEF HonestAt, Writing, WritingJson
    <3> QED
      BY <1>1, <1>2, <2>3, <3>1, HonestHere DEF SameSession
  <2>4. CASE pc'[c] = "pick"
    BY <2>4, HonestElsewhere DEF Retrying
  <2>5. CASE client[c].job = "ready_to_upload" /\ ~client[c].dest /\ Exit(c, "exit_0")
    <3>1. client[c].own /\ s = client[c].sid /\ ~archive[s].present
      BY <1>1, <2>1, <2>5 DEF SoloInv, OwnOf, PlaceOf, WritingJson
    <3>2. /\ pc'[c] = "exit_0" /\ client'[c].sid = s
          /\ ~client'[c].dest /\ client'[c].own = FALSE
      BY <2>5, <3>1, ExitLocals
    <3>3. pending'[s].manifest = client[c].draft
      BY <2>1, <3>1 DEF OnlyManifest, SameArchive, Current
    <3>4. /\ client[c].draft.state = "ready_to_upload" /\ client[c].draft.at = at
          /\ pending[s].present /\ Whole(s, at)
      BY <1>3, <2>1, <2>5 DEF HonestAt, WritingJson
    <3>5. s \in ReadySessions' /\ Whole(s, at)'
      BY <1>4, <2>1, <3>3, <3>4 DEF ReadySessions
    <3>6. HonestExit(c, s)'
      BY <3>2, <3>3, <3>4, <3>5 DEF HonestExit, Whole, FileAt
    <3> QED
      BY <3>2, <3>6 DEF HonestInv, HonestAt, HonestExit, Writing, WritingJson, Given, Whole,
         FileAt
  <2>6. CASE client[c].job = "archived" /\ client[c].own /\ Exit(c, "exit_0")
    <3>1. s = client[c].sid /\ archive[s].present /\ client[c].dest
      BY <1>1, <2>1, <2>6 DEF SoloInv, OwnOf, PlaceOf, WritingJson
    <3>2. /\ pc'[c] = "exit_0" /\ client'[c].sid = s
          /\ client'[c].dest /\ client'[c].own = FALSE
      BY <2>6, <3>1, ExitLocals
    <3>3. archive'[s].manifest = client[c].draft
      BY <2>1, <3>1 DEF OnlyManifest, SameArchive, Current
    <3>4. client[c].draft.state = "archived" /\ Given(s)
      BY <1>3, <2>1, <2>6 DEF HonestAt, WritingJson
    <3>5. Given(s)'
      BY <1>4, <2>1, <3>4
    <3>6. HonestExit(c, s)'
      BY <3>2, <3>3, <3>4, <3>5 DEF HonestExit, Given
    <3> QED
      BY <3>2, <3>6 DEF HonestInv, HonestAt, HonestExit, Writing, WritingJson, Given, Whole,
         FileAt
  <2>7. CASE Exit(c, "exit_3")
    BY <2>7, ExitLocals, HonestElsewhere
  <2> QED
    BY <2>1, <2>2, <2>3, <2>4, <2>5, <2>6, <2>7, JsonReturnLocals
<1> QED
  BY <1>5, <1>6, <1>7 DEF Json, JsonLost, JsonThrows

LEMMA HonestRecord ==
    ASSUME TypeOK, NEW c \in Clients, SoloInv(c), HonestInv(c),
           OpenLog(c) \/ Finish(c) \/ SummaryOpen(c) \/ SummaryWrite(c)
    PROVE  HonestInv(c)'
<1>1. PICK s \in Sessions : s = client[c].cur
  BY TypeParts, LocalsType
<1>2. PICK at : at = client[c].paths[s]
  OBVIOUS
<1>3. HonestAt(c, s, at) /\ Writing(c) /\ pending[s].present
  BY <1>1, <1>2
  DEF HonestInv, HonestAt, OpenLog, Finish, SummaryOpen, SummaryWrite, Writing
<1>4. ASSUME Throw(c) PROVE HonestInv(c)'
  BY <1>4, ExitLocals, HonestElsewhere DEF Throw
<1>5. ASSUME NEW k \in Kinds, NEW st \in FileStates, PutFile(c, k, st)
      PROVE  /\ FileAt(s, k, at)' = [st |-> st, of |-> s]
             /\ \A j \in Kinds \ {k} : FileAt(s, j, at)' = FileAt(s, j, at)
             /\ pending'[s].present
  BY <1>1, <1>2, <1>3, <1>5, PutFileFiles
<1>6. CASE OpenLog(c)
  <2>1. CASE /\ PutFile(c, "event_log", "partial") /\ pc'[c] = "capture"
             /\ SameSession(c)
    <3>1. HonestAt(c, s, at)'
      BY <1>5, <2>1 DEF HonestAt, Kinds, FileStates, WritingJson
    <3> QED
      BY <1>1, <1>2, <2>1, <3>1, HonestHere DEF SameSession
  <2> QED
    BY <1>4, <1>6, <2>1, OpenLocals DEF OpenLog, Kinds
<1>7. CASE Finish(c)
  <2>1. CASE /\ PutFile(c, "event_log", "complete") /\ pc'[c] = "summary_open"
             /\ SameSession(c)
    <3>1. HonestAt(c, s, at)'
      BY <1>5, <2>1 DEF HonestAt, Kinds, FileStates, WritingJson
    <3> QED
      BY <1>1, <1>2, <2>1, <3>1, HonestHere DEF SameSession
  <2> QED
    BY <1>4, <1>7, <2>1, FinishLocals
<1>8. CASE SummaryOpen(c)
  <2>1. CASE /\ PutFile(c, "summary_json", "partial") /\ pc'[c] = "summary_write"
             /\ SameSession(c)
    <3>1. FileAt(s, "event_log", at) = [st |-> "complete", of |-> s]
      BY <1>3, <1>8 DEF HonestAt, SummaryOpen
    <3>2. HonestAt(c, s, at)'
      BY <1>5, <2>1, <3>1 DEF HonestAt, Kinds, FileStates, WritingJson
    <3> QED
      BY <1>1, <1>2, <2>1, <3>2, HonestHere DEF SameSession
  <2> QED
    BY <1>4, <1>8, <2>1, OpenLocals DEF SummaryOpen, Kinds
<1>9. CASE SummaryWrite(c)
  <2>1. CASE /\ PutFile(c, "summary_json", "complete") /\ pc'[c] = "json_read"
             /\ SameSession(c) /\ client'[c].job = "ready_to_upload"
    <3>1. FileAt(s, "event_log", at) = [st |-> "complete", of |-> s]
      BY <1>3, <1>9 DEF HonestAt, SummaryWrite
    <3>2. Whole(s, at)'
      BY <1>5, <2>1, <3>1 DEF Whole, Kinds, FileStates
    <3>3. HonestAt(c, s, at)'
      BY <1>5, <2>1, <3>2 DEF HonestAt, Kinds, FileStates, Writing
    <3> QED
      BY <1>1, <1>2, <2>1, <3>3, HonestHere DEF SameSession
  <2> QED
    BY <1>4, <1>9, <2>1, SummaryWriteLocals
<1> QED
  BY <1>6, <1>7, <1>8, <1>9

LEMMA HonestPrepare ==
    ASSUME TypeOK, NEW c \in Clients, SoloInv(c), PrepareArchive(c) \/ PreparePending(c)
    PROVE  HonestInv(c)'
<1>1. CASE PrepareArchive(c)
  BY <1>1, GotoLocals, ExitLocals, HonestElsewhere DEF PrepareArchive, Throw
<1>2. CASE PreparePending(c) /\ Throw(c)
  BY <1>2, ExitLocals, HonestElsewhere DEF Throw
<1>3. CASE /\ pending' = [pending EXCEPT ![client[c].sid] = create_directories(@)]
           /\ pc'[c] = "json_read" /\ client'[c].job = "capturing"
           /\ client'[c].cur = client[c].cur /\ PreparePending(c)
  <2>1. client[c].cur = client[c].sid /\ client[c].sid \in Sessions /\ DiskType
    BY <1>3, TypeParts, LocalsType DEF SoloInv, OwnOf, PreparePending, Capturing
  <2>2. pending'[client'[c].cur].present
    BY <1>3, <2>1 DEF DiskType, Dir, create_directories
  <2> QED
    BY <1>3, <2>2 DEF HonestInv, HonestAt, Writing
<1> QED
  BY <1>1, <1>2, <1>3, PreparePendingLocals

LEMMA HonestStep ==
    ASSUME TypeOK, NEW c \in Clients, SoloInv(c), HonestInv(c), Step(c), ~WritesMayFail
    PROVE  HonestInv(c)'
<1>1. CASE \E dest, src \in BOOLEAN : Launch(c, dest, src)
  BY <1>1, LaunchLocals, HonestElsewhere DEF Retrying
<1>2. CASE Usage(c)
  BY <1>2, UsageLocals, HonestElsewhere
<1>3. CASE Crash(c) \/ CaptureThrows(c)
  BY <1>3, ExitLocals, HonestElsewhere DEF Crash, CaptureThrows, Throw
<1> QED
  BY <1>1, <1>2, <1>3, HonestRetry, HonestSend, HonestArchive, HonestJson, HonestPrepare,
     HonestRecord
  DEF Step, Run, Capture, LogFault

-----------------------------------------------------------------------------
(* The theorems. One client is the constant set {c}: one process at a time, *)
(* as many one after the other as there are launches.                       *)

LEMMA SoloInit ==
    ASSUME NEW c \in Clients, Init
    PROVE  SoloInv(c) /\ CopiesInv(c) /\ CountsInv(c) /\ HonestInv(c)
<1>1. /\ pc[c] = "idle" /\ client[c] = NoLocals
      /\ \A s \in Sessions : pending[s] = NoDir /\ archive[s] = NoDir
      /\ \A s \in Sessions : copies[s] = 0 /\ failed[s] = 0
  BY DEF Init
<1>0. /\ NoLocals.own = FALSE /\ NoLocals.todo = {}
      /\ NoDir.present = FALSE /\ NoDir.manifest = NoManifest
      /\ NoManifest.failures = 0 /\ NoManifest.attempts = 0
  BY DEF NoLocals, NoDir, NoManifest, Unreadable
<1>2. SoloInv(c) /\ CopiesInv(c)
  BY <1>0, <1>1
  DEF SoloInv, OwnOf, PlaceOf, NothingLeft, CopiesInv, Writing, Capturing, WritingJson,
      Uploading, Retrying
<1>3. CountsInv(c)
  <2>1. \A s \in Sessions : Current(s) = NoManifest /\ Coming(c, s) = NoManifest
    BY <1>0, <1>1, Zenon DEF Current, Coming, WritingJson
  <2>2. Counted(NoManifest, 0)
    BY <1>0 DEF Counted
  <2> HIDE DEF Counted
  <2> QED
    BY <1>0, <1>1, <2>1, <2>2, Zenon DEF CountsInv
<1>4. HonestInv(c)
  BY <1>0, <1>1 DEF HonestInv, HonestAt, Writing, WritingJson
<1> QED
  BY <1>2, <1>3, <1>4

LEMMA SoloNext ==
    ASSUME NEW c, Clients = {c}, TypeOK, SoloInv(c), CopiesInv(c), CountsInv(c),
           [Next]_vars
    PROVE  TypeOK' /\ SoloInv(c)' /\ CopiesInv(c)' /\ CountsInv(c)'
<1>0. TypeOK'
  BY TypeStep
<1>1. CASE Next
  <2>1. c \in Clients /\ Step(c)
    BY <1>1 DEF Next, Step
  <2> QED
    BY <1>0, <2>1, SoloStep, CopiesStep, CountsStep
<1>2. CASE UNCHANGED vars
  <2>1. SoloInv(c)'
    BY <1>2
    DEF vars, disk, SoloInv, OwnOf, PlaceOf, NothingLeft, Writing, Place
  <2>2. CopiesInv(c)'
    BY <1>2 DEF vars, disk, history, CopiesInv
  <2>3. CountsInv(c)'
    <3>1. \A s \in Sessions : Current(s)' = Current(s) /\ Coming(c, s)' = Coming(c, s)
      BY <1>2 DEF vars, disk, Current, Coming, NewManifest
    <3> QED
      BY <1>2, <3>1 DEF vars, history, CountsInv, Counted
  <2> QED
    BY <1>0, <2>1, <2>2, <2>3
<1> QED
  BY <1>1, <1>2

\* With one process at a time: nothing is left in pending of an archived session,
\* the sessions a process has listed are not archived behind its back, it writes
\* only into the directory it has made, and copies and failures are accounted for
\* (main.cpp:126-160, 640-667, artifact_lifecycle.cpp:231-266, 336-353).
THEOREM SoloAlways ==
    ASSUME NEW c, Clients = {c}
    PROVE  Spec => [](TypeOK /\ SoloInv(c) /\ CopiesInv(c) /\ CountsInv(c))
<1>1. c \in Clients
  OBVIOUS
<1>2. Init => TypeOK /\ SoloInv(c) /\ CopiesInv(c) /\ CountsInv(c)
  BY <1>1, TypeInit, SoloInit
<1>3. TypeOK /\ SoloInv(c) /\ CopiesInv(c) /\ CountsInv(c) /\ [Next]_vars
        => TypeOK' /\ SoloInv(c)' /\ CopiesInv(c)' /\ CountsInv(c)'
  BY SoloNext
<1> QED
  BY <1>2, <1>3, PTL DEF Spec

\* A session whose manifest says ready_to_upload has both files complete at the
\* paths the manifest names, whatever is killed or refused by the disk: the readme
\* lets a later run upload it on that word alone (artifact_lifecycle.cpp:278-300).
THEOREM ReadyIsCompleteAlone ==
    ASSUME NEW c, Clients = {c}, PathChoices \subseteq {Default}
    PROVE  Spec => []ReadyIsComplete
<1>1. c \in Clients
  OBVIOUS
<1>2. SafeInv /\ SoloInv(c) => ReadyIsComplete
  <2> SUFFICES ASSUME SafeInv, SoloInv(c), NEW s \in ReadySessions, NEW k \in Kinds
               PROVE  FileAt(s, k, pending[s].manifest.at) = [st |-> "complete", of |-> s]
    BY Zenon DEF ReadyIsComplete
  <2>1. s \in Sessions /\ pending[s].present /\ Settled(s)
        /\ pending[s].manifest.at = Default
    BY DEF ReadySessions, SafeInv, DirInv
  <2>2. ~archive[s].present
    BY <2>1 DEF SoloInv, NothingLeft, NoDir
  <2>3. pending[s].files[k] = "complete"
    BY <2>1, <2>2 DEF Settled, Sealed
  <2> QED
    BY <2>1, <2>3 DEF FileAt, Default, artifact_paths_for_session_dir
<1> QED
  BY <1>2, SafeAlways, SoloAlways, PTL

\* The destination gets a second copy of a session only after a lost answer, a kill
\* or a failed rename (main.cpp:143-199).
THEOREM NoDuplicateAlone ==
    ASSUME NEW c, Clients = {c}
    PROVE  Spec => []NoDuplicateWithoutFault
<1>1. CopiesInv(c) => NoDuplicateWithoutFault
  BY DEF CopiesInv, NoDuplicateWithoutFault
<1> QED
  BY <1>1, SoloAlways, PTL

\* A readable manifest that no process is writing counts no failure that did not
\* happen, and all of them as long as no write was cut or refused
\* (artifact_lifecycle.cpp:231-266).
THEOREM FailureHistoryAlone ==
    ASSUME NEW c, Clients = {c}
    PROVE  Spec => []FailureHistory
<1>1. TypeOK /\ CountsInv(c) => FailureHistory
  <2> SUFFICES ASSUME CountsInv(c), NEW s \in Sessions,
                      pc[c] \in WritingJson => client[c].cur # s
               PROVE  /\ Current(s).attempts = Current(s).failures
                      /\ Current(s).failures <= failed[s]
                      /\ crashes = 0 /\ ~WritesMayFail => Current(s).failures = failed[s]
    BY DEF FailureHistory, Current
  <2>1. Coming(c, s) = Current(s)
    BY DEF Coming
  <2> QED
    BY <2>1 DEF CountsInv, Counted
<1> QED
  BY <1>1, SoloAlways, PTL

\* A run that captured and exits with 0 has handed on a complete session of its own:
\* delivered whole and archived if a destination is configured, ready to upload
\* otherwise; on a disk that does not lose what is written to it, whatever paths
\* are overridden and whatever is killed (main.cpp:902-959).
THEOREM ExitZeroIsHonestAlone ==
    ASSUME NEW c, Clients = {c}, ~WritesMayFail
    PROVE  Spec => []ExitZeroIsHonest
<1>1. c \in Clients
  OBVIOUS
<1>2. Init => HonestInv(c)
  BY <1>1, SoloInit
<1>3. TypeOK /\ SoloInv(c) /\ HonestInv(c) /\ [Next]_vars => HonestInv(c)'
  <2> SUFFICES ASSUME TypeOK, SoloInv(c), HonestInv(c), [Next]_vars PROVE HonestInv(c)'
    OBVIOUS
  <2>1. CASE Next
    <3>1. Step(c)
      BY <2>1 DEF Next, Step
    <3> QED
      BY <1>1, <3>1, HonestStep
  <2>2. CASE UNCHANGED vars
    BY <2>2
    DEF vars, disk, history, HonestInv, HonestAt, HonestExit, Writing, Whole, Given,
        FileAt, ReadySessions
  <2> QED
    BY <2>1, <2>2
<1>4. HonestInv(c) => ExitZeroIsHonest
  <2> SUFFICES ASSUME HonestInv(c), pc[c] = "exit_0", client[c].src
               PROVE  ExitZeroIsHonest
    BY DEF ExitZeroIsHonest
  <2> DEFINE s == client[c].sid
             at == pending[s].manifest.at
  <2>1. HonestExit(c, s)
    BY DEF HonestInv
  <2>2. CASE client[c].dest /\ archive[s].manifest.state = "archived" /\ Given(s)
    BY <2>2 DEF ExitZeroIsHonest, Given
  <2>3. CASE ~client[c].dest /\ s \in ReadySessions /\ Whole(s, at)
    <3>1. \A k \in Kinds :
            [j \in Kinds |-> FileAt(s, j, at)][k] = [st |-> "complete", of |-> s]
      BY <2>3 DEF Whole
    <3> QED
      BY <2>3, <3>1 DEF ExitZeroIsHonest
  <2> QED
    BY <2>1, <2>2, <2>3 DEF HonestExit
<1> QED
  BY <1>2, <1>3, <1>4, SoloAlways, PTL DEF Spec

-----------------------------------------------------------------------------
(* What exit code 0 still says with any number of clients. Others may archive *)
(* a session as soon as it is marked ready, so it is about the step that      *)
(* exits. What it needs of a process, only that process changes, except where *)
(* the file that it has open is.                                              *)

OneRun(c) ==
    /\ client[c].own =>
           /\ client[c].src /\ client[c].cur = client[c].sid
           /\ pc[c] \notin Retrying
    /\ pc[c] \in Capturing => client[c].src /\ client[c].cur = client[c].sid
    /\ Writing(c) => client[c].own
    /\ pc[c] \in Uploading => client[c].dest
    /\ pc[c] \in WritingJson =>
           /\ client[c].job \in {"capturing", "ready_to_upload"} => client[c].own
           /\ client[c].job = "archived" => client[c].dest
    /\ pc[c] \in {"json_open", "json_write"}
         /\ client[c].job \in {"ready_to_upload", "archived"} =>
           client[c].draft.state = client[c].job
    /\ pc[c] = "json_write" /\ client[c].job = "archived" => client[c].fd = "archive"

HandedOn(c) ==
    LET s == client[c].sid IN
    \/ /\ client[c].dest
       /\ archive'[s].manifest.state = "archived" /\ Sealed(archive'[s])
       /\ s \in Delivered'
    \/ /\ ~client[c].dest
       /\ \/ s \in ReadySessions' /\ Sealed(pending'[s])
          \/ archive'[s].present /\ Sealed(archive'[s])

\* A run that captured exits with 0 only in a step that leaves its session whole:
\* accepted, archived and marked so if it had a destination, else ready to upload
\* unless somebody else has archived it already.
ExitZeroHandsOn ==
    [][\A c \in Clients :
          client[c].src /\ pc[c] \notin Stopped /\ pc'[c] = "exit_0" => HandedOn(c)]_vars

LEMMA RunEnded ==
    ASSUME TypeOK, NEW c \in Clients, NEW code \in Stopped, Exit(c, code)
    PROVE  OneRun(c)'
<1>1. pc'[c] = code /\ client'[c].own = FALSE
  BY ExitLocals
<1> QED
  BY <1>1 DEF OneRun, Stopped, Capturing, Writing, Uploading, WritingJson

LEMMA RunRetry ==
    ASSUME TypeOK, NEW c \in Clients, OneRun(c),
           Retry(c) \/ Usage(c) \/ \E dest, src \in BOOLEAN : Launch(c, dest, src)
    PROVE  OneRun(c)'
<1>1. CASE Usage(c) \/ \E dest, src \in BOOLEAN : Launch(c, dest, src)
  BY <1>1, UsageLocals, LaunchLocals
  DEF OneRun, Capturing, Writing, Uploading, WritingJson
<1>2. CASE Scan(c)
  BY <1>2, ScanLocals
  DEF OneRun, SameRun, Retrying, Capturing, Writing, Uploading, WritingJson
<1>3. CASE PickNext(c)
  BY <1>3, PickNextLocals
  DEF OneRun, SameRun, Retrying, Capturing, Writing, Uploading, WritingJson
<1>4. CASE PickDone(c)
  <2>1. ASSUME NEW code \in Stopped, Exit(c, code) PROVE OneRun(c)'
    BY <2>1, RunEnded
  <2>2. CASE /\ pc[c] = "pick" /\ pc'[c] = "prepare_archive" /\ client[c].src /\ SameRun(c)
             /\ client'[c].own = client[c].own /\ client'[c].cur = client[c].sid
    BY <2>2 DEF OneRun, SameRun, Retrying, Capturing, Writing, Uploading, WritingJson
  <2> QED
    BY <1>4, <2>1, <2>2, PickDoneLocals DEF Stopped
<1> QED
  BY <1>1, <1>2, <1>3, <1>4 DEF Retry

LEMMA RunUpload ==
    ASSUME TypeOK, NEW c \in Clients, OneRun(c), Send(c) \/ Archive(c)
    PROVE  OneRun(c)'
<1>1. CASE SendThrows(c)
  BY <1>1, SendThrowsLocals
  DEF OneRun, SameRun, SameSession, Retrying, Capturing, Writing, Uploading, WritingJson
<1>2. ASSUME NEW label \in {"archive_check", "archive_rename"}, pc[c] \in Uploading,
             Goto(c, label), UNCHANGED client
      PROVE  OneRun(c)'
  BY <1>2, GotoLocals
  DEF OneRun, SameRun, SameSession, Retrying, Capturing, Writing, Uploading, WritingJson
<1>3. CASE ArchiveRename(c)
  BY <1>3, RenameLocals
  DEF OneRun, SameRun, SameSession, Retrying, Capturing, Writing, Uploading, WritingJson
<1>4. ASSUME Exit(c, "exit_3") PROVE OneRun(c)'
  BY <1>4, RunEnded DEF Stopped
<1> QED
  BY <1>1, <1>2, <1>3, <1>4
  DEF Send, SendFails, SendLost, SendOk, Archive, ArchiveCheck, ArchiveThrows, Uploading

LEMMA RunJson ==
    ASSUME TypeOK, NEW c \in Clients, OneRun(c), Json(c)
    PROVE  OneRun(c)'
<1>1. CASE JsonRead(c)
  <2>1. PICK previous : client'[c].draft = NewManifest(c, previous)
    BY <1>1, JsonReadLocals
  <2>2. client[c].job \in {"ready_to_upload", "archived"} =>
            client'[c].draft.state = client[c].job
    BY <2>1 DEF NewManifest, base_state_json
  <2> QED
    BY <1>1, <2>2, JsonReadLocals
    DEF OneRun, SameRun, SameSession, Retrying, Capturing, Writing, Uploading, WritingJson
<1>2. CASE JsonOpen(c)
  BY <1>2, JsonOpenLocals
  DEF OneRun, SameRun, SameSession, SameManifest, Place, Retrying, Capturing, Writing,
      Uploading, WritingJson
<1>3. ASSUME pc[c] = "json_write", JsonReturn(c) PROVE OneRun(c)'
  <2>1. ASSUME NEW code \in Stopped, Exit(c, code) PROVE OneRun(c)'
    BY <2>1, RunEnded
  <2>2. CASE /\ SameRun(c) /\ SameSession(c)
             /\ \/ client[c].job = "capturing" /\ pc'[c] = "open_log"
                \/ /\ client[c].job = "ready_to_upload" /\ client[c].dest
                   /\ pc'[c] = "send"
                \/ client[c].job = "archived" /\ ~client[c].own /\ pc'[c] = "pick"
    BY <1>3, <2>2
    DEF OneRun, SameRun, SameSession, Retrying, Capturing, Writing, Uploading, WritingJson
  <2> QED
    BY <1>3, <2>1, <2>2, JsonReturnLocals DEF Stopped
<1>4. CASE JsonThrows(c)
  BY <1>4, RunEnded DEF JsonThrows, Stopped
<1> QED
  BY <1>1, <1>2, <1>3, <1>4 DEF Json, JsonWrite, JsonLost

LEMMA RunCapture ==
    ASSUME TypeOK, NEW c \in Clients, OneRun(c), Capture(c) \/ LogFault(c) \/ Crash(c)
    PROVE  OneRun(c)'
<1> USE DEF OneRun, SameRun, SameSession, Retrying, Capturing, Writing, Uploading,
            WritingJson
<1>1. ASSUME Throw(c) \/ Exit(c, "crashed") PROVE OneRun(c)'
  BY <1>1, RunEnded DEF Throw, Stopped
<1>2. CASE PrepareArchive(c)
  BY <1>1, <1>2, GotoLocals DEF PrepareArchive
<1>3. CASE PreparePending(c)
  BY <1>1, <1>3, PreparePendingLocals
<1>4. CASE OpenLog(c)
  BY <1>1, <1>4, OpenLocals DEF OpenLog, Kinds
<1>5. CASE Finish(c)
  BY <1>1, <1>5, FinishLocals
<1>6. CASE SummaryOpen(c)
  BY <1>1, <1>6, OpenLocals DEF SummaryOpen, Kinds
<1>7. CASE SummaryWrite(c)
  BY <1>1, <1>7, SummaryWriteLocals
<1>8. CASE LogFault(c)
  BY <1>8, LogFaultLocals
<1>9. CASE CaptureThrows(c) \/ Crash(c)
  BY <1>1, <1>9 DEF CaptureThrows, Crash
<1> QED
  BY <1>2, <1>3, <1>4, <1>5, <1>6, <1>7, <1>8, <1>9 DEF Capture

\* A rename moves the file that another process has open only where nothing of the
\* session was archived, so not under a process that writes an archived manifest.
LEMMA RunOfOthers ==
    ASSUME SafeInv, NEW c \in Clients, FilesMove(c), OthersKeep(c),
           NEW d \in Clients \ {c}, OneRun(d)
    PROVE  OneRun(d)'
<1>1. client[d] \in Locals /\ ArchiverOf(d)
  BY Facts
<1>2. /\ client'[d].dest = client[d].dest /\ client'[d].src = client[d].src
      /\ client'[d].sid = client[d].sid /\ client'[d].cur = client[d].cur
      /\ client'[d].own = client[d].own /\ client'[d].job = client[d].job
      /\ client'[d].draft = client[d].draft
  BY <1>1 DEF OthersKeep, Locals
<1>3. pc'[d] = pc[d]
  BY DEF OthersKeep
<1>4. pc[d] = "json_write" /\ client[d].job = "archived" => client'[d].fd = "archive"
  BY <1>1 DEF FilesMove, ArchiverOf, OneRun, WritingJson
<1> QED
  BY <1>2, <1>3, <1>4 DEF OneRun, Writing

LEMMA RunStep ==
    ASSUME SafeInv, \A c \in Clients : OneRun(c), PathChoices \subseteq {Default},
           [Next]_vars
    PROVE  \A c \in Clients : OneRun(c)'
<1>1. CASE UNCHANGED vars
  BY <1>1 DEF vars, OneRun, Writing
<1>2. ASSUME NEW c \in Clients, Step(c) PROVE \A d \in Clients : OneRun(d)'
  <2>1. TypeOK /\ OthersKeep(c) /\ FilesMove(c)
    BY <1>2, EveryStepIsGood, StepKeepsOthers DEF Good, Effect, SafeInv
  <2>2. OneRun(c)'
    BY <1>2, <2>1, RunRetry, RunUpload, RunJson, RunCapture DEF Step, Run
  <2> QED
    BY <2>1, <2>2, RunOfOthers
<1> QED
  BY <1>1, <1>2 DEF Next, Step

\* The one step that exits with 0 after a capture writes a manifest.
LEMMA ZeroIsWritten ==
    ASSUME TypeOK, NEW c \in Clients, Step(c), ~WritesMayFail,
           client[c].src, pc[c] \notin Stopped, pc'[c] = "exit_0"
    PROVE  /\ JsonWrite(c)
           /\ \/ client[c].job = "ready_to_upload" /\ ~client[c].dest
              \/ client[c].job = "archived" /\ client[c].own
<1>1. ASSUME NEW code, Exit(c, code) PROVE code = "exit_0"
  BY <1>1, ExitLocals
<1>2. ~(Usage(c) \/ \E dest, src \in BOOLEAN : Launch(c, dest, src))
  BY DEF Usage, Launch
<1>3. ~Retry(c)
  BY ScanLocals, PickNextLocals, PickDoneLocals DEF Retry
<1>4. ~Send(c) /\ ~Archive(c)
  BY <1>1, SendThrowsLocals, RenameLocals, GotoLocals
  DEF Send, SendFails, SendLost, SendOk, Archive, ArchiveCheck, ArchiveThrows
<1>5. ~Capture(c) /\ ~LogFault(c) /\ ~Crash(c)
  <2>1. ~Throw(c) /\ ~Exit(c, "crashed")
    BY <1>1 DEF Throw
  <2>2. ~PrepareArchive(c) /\ ~PreparePending(c)
    <3>1. ~PrepareArchive(c)
      BY <2>1, GotoLocals DEF PrepareArchive
    <3>2. ~PreparePending(c)
      BY <2>1, PreparePendingLocals
    <3> QED
      BY <3>1, <3>2
  <2>3. ~OpenLog(c) /\ ~SummaryOpen(c)
    <3>1. ASSUME NEW k \in Kinds, NEW next, OpenOutput(c, k, next)
          PROVE  next = "exit_0"
      BY <2>1, <3>1, OpenLocals
    <3> QED
      BY <3>1 DEF OpenLog, SummaryOpen, Kinds
  <2>4. ~Finish(c) /\ ~SummaryWrite(c)
    BY <2>1, FinishLocals, SummaryWriteLocals
  <2>5. ~CaptureThrows(c) /\ ~LogFault(c) /\ ~Crash(c)
    BY <2>1, LogFaultLocals DEF CaptureThrows, Crash
  <2> QED
    BY <2>2, <2>3, <2>4, <2>5 DEF Capture
<1>6. JsonWrite(c)
  <2>1. ~JsonRead(c) /\ ~JsonOpen(c)
    BY JsonReadLocals, JsonOpenLocals
  <2> QED
    BY <1>2, <1>3, <1>4, <1>5, <2>1 DEF Step, Run, Json, JsonLost, JsonThrows
<1>7. JsonReturn(c)
  BY <1>6 DEF JsonWrite
<1> QED
  BY <1>1, <1>6, <1>7, JsonReturnLocals

LEMMA ZeroHandsOn ==
    ASSUME SafeInv, SafeInv', DeliveredInv, NEW c \in Clients, OneRun(c), JsonWrite(c),
           received' = received,
           \/ client[c].job = "ready_to_upload" /\ ~client[c].dest
           \/ client[c].job = "archived" /\ client[c].own
    PROVE  HandedOn(c)
<1> PICK s \in Sessions : s = client[c].sid
  BY Facts
<1> DEFINE fd == client[c].fd
           dir == [DirAt(fd, s) EXCEPT !.manifest = client[c].draft]
<1>1. /\ DiskType /\ client[c] \in Locals /\ s \in Sessions
      /\ HolderOf(c) /\ ArchiverOf(c) /\ pc[c] = "json_write"
  BY Facts DEF JsonWrite
<1>2. client[c].cur = s /\ client[c].draft.state = client[c].job
  BY <1>1 DEF OneRun, WritingJson
<1>3. PutDir(fd, s, dir)
  BY <1>2 DEF JsonWrite
<1>4. Settled(s) /\ DirInv(s) /\ DirInv(s)'
  BY <1>1, <1>2 DEF SafeInv, HolderOf, Holds, WritingJson
<1>5. CASE client[c].job = "archived"
  <2>1. client[c].dest /\ fd = "archive" /\ archive[s].present
    BY <1>1, <1>2, <1>5 DEF OneRun, ArchiverOf, WritingJson
  <2>2. archive'[s] = [archive[s] EXCEPT !.manifest = client[c].draft]
    BY <1>1, <1>3, <2>1 DEF PutDir, DirAt, DiskType
  <2>3. archive'[s].manifest.state = "archived" /\ archive'[s].present
    BY <1>1, <1>2, <1>5, <2>1, <2>2 DEF DiskType, Dir
  <2>4. s \in Delivered'
    BY <1>1, <1>2, <1>5 DEF DeliveredInv, Archiving, WritingJson, Delivered
  <2> QED
    BY <1>4, <2>1, <2>3, <2>4 DEF HandedOn, DirInv
<1>6. CASE client[c].job = "ready_to_upload" /\ ~client[c].dest
  <2>1. CASE archive[s].present
    <3>1. archive'[s].present
      BY <1>1, <1>3, <2>1 DEF PutDir, DirAt, DiskType, Dir
    <3> QED
      BY <1>4, <1>6, <3>1 DEF HandedOn, DirInv
  <2>2. CASE ~archive[s].present
    <3>1. fd = "pending" /\ Sealed(pending[s])
      BY <1>1, <1>2, <1>4, <2>2 DEF ArchiverOf, Locals, Settled
    <3>2. pending'[s] = [pending[s] EXCEPT !.manifest = client[c].draft]
      BY <1>1, <1>3, <3>1 DEF PutDir, DirAt, DiskType
    <3>3. /\ pending'[s].present /\ pending'[s].files = pending[s].files
          /\ pending'[s].manifest.state = "ready_to_upload"
      BY <1>1, <1>2, <1>6, <3>1, <3>2 DEF DiskType, Dir, Sealed
    <3>4. s \in ReadySessions' /\ Sealed(pending'[s])
      BY <1>1, <3>1, <3>3 DEF ReadySessions, Sealed
    <3> QED
      BY <1>6, <3>4 DEF HandedOn
  <2> QED
    BY <2>1, <2>2
<1> QED
  BY <1>5, <1>6

\* However many processes share the directory, a run that captured and exits with 0
\* leaves its session whole: accepted by the destination, archived and marked so if
\* it had one; else ready to upload, unless a retry of somebody else was faster. On
\* a disk that does not lose what is written to it (main.cpp:902-959).
THEOREM ExitZeroHandsTheSessionOn ==
    ASSUME PathChoices \subseteq {Default}, ~WritesMayFail
    PROVE  Spec => ExitZeroHandsOn
<1> DEFINE Runs == \A c \in Clients : OneRun(c)
           Hands == \A c \in Clients :
               client[c].src /\ pc[c] \notin Stopped /\ pc'[c] = "exit_0" => HandedOn(c)
<1>1. Init => Runs
  <2> SUFFICES ASSUME Init, NEW c \in Clients PROVE OneRun(c)
    OBVIOUS
  <2>1. pc[c] = "idle" /\ client[c] = NoLocals
    BY DEF Init
  <2> QED
    BY <2>1
    DEF OneRun, NoLocals, Retrying, Capturing, Writing, Uploading, WritingJson
<1>2. SafeInv /\ Runs /\ [Next]_vars => Runs'
  BY RunStep
<1>3. SafeInv /\ SafeInv' /\ DeliveredInv /\ Runs /\ [Next]_vars => [Hands]_vars
  <2> SUFFICES ASSUME SafeInv, SafeInv', DeliveredInv, Runs, Next, NEW c \in Clients,
                      client[c].src, pc[c] \notin Stopped, pc'[c] = "exit_0"
               PROVE  HandedOn(c)
    OBVIOUS
  <2>1. PICK d \in Clients : Step(d)
    BY DEF Next, Step
  <2>2. d = c
    BY <2>1, StepKeepsOthers DEF OthersKeep, SafeInv, Stopped
  <2>3. /\ JsonWrite(c)
        /\ \/ client[c].job = "ready_to_upload" /\ ~client[c].dest
           \/ client[c].job = "archived" /\ client[c].own
    BY <2>1, <2>2, ZeroIsWritten DEF SafeInv
  <2> QED
    BY <2>3, ZeroHandsOn DEF JsonWrite
<1>4. Init => DeliveredInv
  BY DEF Init, DeliveredInv, ArchivedWasDelivered, Archiving, WritingJson, NoDir
<1>5. SafeInv /\ DeliveredInv /\ [Next]_vars => DeliveredInv'
  BY DeliveredStep DEF SafeInv
<1> QED
  BY <1>1, <1>2, <1>3, <1>4, <1>5, SafeAlways, PTL DEF Spec, ExitZeroHandsOn
=============================================================================
