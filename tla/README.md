# btclient: a TLA+ verification project

`btclient` is a BitTorrent client that watches its peers. It joins one swarm
through libtorrent, writes everything it sees to an event log (NDJSON), derives
per-peer statistics for a summary (JSON), and hands both files to a collecting
server: a session is captured in `artifacts/pending/<session>`, uploaded, and
moved to `artifacts/archive/<session>`; uploads that fail are retried by later
runs. Nothing in the repository tests any of this.

The modules here follow a session from its launch to the archive:

* how a container or an operator starts the program (`Launch`);
* the loop of the capture in time (`CaptureLoop`), and what its polling does to the
  times it measures (`RequestSampling`);
* how it files what it learns from libtorrent, out of order and with gaps, under
  the right connection (`PeerRegistry`), and what the record of a connection
  measures (`PeerRecord`);
* what the summary makes of the records (`SessionTotals`, `SampleStatistics`);
* the life of the artifacts: which files a run leaves behind, what it uploads, what
  it moves, and what other processes do to the same directory meanwhile
  (`ArtifactLifecycle`).

All paths below are relative to `src/`; the program itself is in `src/src/`.

## 1. Inventory

| Component | State | Operations | What makes it correct |
|---|---|---|---|
| Manifest and session directories (`src/artifact_lifecycle.cpp`) | `pending/<s>/state.json`, `archive/<s>/state.json` | `write_artifact_state`, `record_artifact_upload_failure`, `find_pending_artifact_sessions`, `archive_artifact_session` | A manifest that says `ready_to_upload` names complete files; the upload history is kept; only delivered sessions are archived |
| Upload (`src/artifact_sender.cpp`) | none (a libcurl request) | `send_artifacts_to_destination` | What arrives is a finished capture of the session it is sent for; no second copy without a fault |
| Main program (`src/main.cpp`) | its locals, the stop flag, the deadline, when the next snapshot is due | reading the arguments, `retry_pending_artifact_uploads`, the capture loop, `record_upload_failure_or_throw`, exit codes 0/2/3 | Exit code 0 means that the session was handed on; a ready session is archived in the end; alerts are drained and signals obeyed in bounded time |
| Output paths and event log (`src/logging.cpp`) | the files, an `ofstream` | `prepare_output_paths`, `EventWriter` | A session directory is never used twice; a log that could not be written does not become `ready_to_upload` |
| Session summary (`src/summary_writer.cpp`) | `session_summary.json` | `write_session_summary`, `peer_observation_counts` | It is complete before the session is ready; its totals and counts are those of the connections there were |
| Peer registry (`src/peer_stats.cpp`, `SessionStats`) | connection records by endpoint and sequence number, who sent the last block of each piece | `ensure_peer_for_endpoint`, `note_peer_*`, `note_alert_loss`, `note_piece_finished`, `finalize` | One record per connection, at most one active per endpoint; nothing is measured across lost alerts |
| Per-peer tracking (`src/peer_stats.cpp`, `PeerStats`) | outstanding requests, pending upload requests, the current burst, the activity window | `note_request_sent`, `note_block_response`, ..., `update_from_snapshot` | Each sample measures one request and its own answer; bursts partition the requests, windows the time |
| Sample statistics (`src/util.cpp`) | none | `summarize_samples`, `percentile` | They agree with the definitions of the statistics they are named for |
| Entry point (`docker-entrypoint.sh`) | the payload in the save path, on a volume that outlives the container | copy the payload for a seeder, turn environment variables into arguments | Every value arrives in its own place; a seeder has the whole payload |
| Build (`dockerfile`, `CMakeLists.txt`, `Makefile`) | none | build | - |

How they interact. `main()` is one thread. It first calls
`retry_pending_artifact_uploads`, which scans `pending/` once and then uploads
and archives session after session; the first failure ends the run (exit code
3). Only then does it prepare the directory of its own session, write the
manifest (`capturing`), open the event log, and loop: drain libtorrent's alerts
into `SessionStats` and the log, take a snapshot, sleep. When a signal or the
deadline ends the loop it closes the log, writes the summary, writes the manifest
again (`ready_to_upload`), uploads if it has a destination, and archives.
libtorrent runs threads of its own; the program meets them only through the
alert queue (at most 50000 alerts, `main.cpp:719`; more are dropped and reported
as lost) and through snapshots of the peers as they are now, which may be ahead
of the alerts still queued. Several processes meet only on disk.

What is hard:

* **Processes on one directory.** There is no lock. Every check (is the archive
  directory there, is the pending directory empty, which sessions are ready) is
  made some steps before it is used.
* **Kills.** A run may end between truncating a file and writing it, between the
  acceptance of an upload and the rename, between the rename and the manifest.
* **Failed writes.** Some are checked when they happen, some when the file is
  closed, and those of a small manifest never (`artifact_lifecycle.cpp:70-74`).
* **Lost answers.** An upload may be accepted and its answer never arrive (the
  60 s timeout, `artifact_sender.cpp`).
* **Alerts and snapshots out of step**, alerts lost, endpoints that reconnect.
* **Times.** Steps of the loop overrun, the deadline passes in the middle of a round,
  a signal wakes nobody up, and an alert is stamped when it is handled, not when it
  was posted.
* **Sums of samples** that must neither skip nor repeat a request, a gap or a stretch
  of time, at the end of a connection and of the session too.

`PROJECT.json` lists each hazard at its line with the properties that cover it.

## 2. Modules

| Module | Models | Role |
|---|---|---|
| `ArtifactFiles` | what is on disk: paths, file contents, manifest, directory | values and pure operators, shared |
| `ArtifactLifecycle` | every process from start to exit | the detailed specification |
| `ArtifactDelivery` | what a session goes through as seen from outside | the abstract specification |
| `Launch` | `docker-entrypoint.sh` and the argument loop of `main()` | what a capture is started with |
| `CaptureRounds` | the order of drains and snapshots | an abstract specification |
| `CaptureLoop` | the loop of `main()` in time | implements `CaptureRounds` |
| `RequestSampling` | the same loop, with the requests of a peer arriving | composes the loop and the times of a record |
| `PeerRegistry` | `SessionStats` and the main thread of a capture, with libtorrent around them | connection records; implements `CaptureRounds` too |
| `PeerRecord` | `PeerStats`: one connection | what is measured |
| `SessionTotals` | the totals and counts of the summary, against the connections there were | the end of the chain |
| `SampleStatistics` | `summarize_samples`, `percentile` | pure operators |
| `MC...` | - | values, symmetry and scenarios for TLC |
| `..._proofs` | - | theorems and proofs of the module they are named for |
| `ArtifactDelivery_proofs` | - | the proofs about `ArtifactLifecycle` for any number of clients that override no path: what is delivered, and the refinement |
| `ArtifactSolo_proofs` | - | the proofs about `ArtifactLifecycle` for one client at a time |

How they fit together. `Launch` ends where `main()` has its configuration, which is
where a client of `ArtifactLifecycle` is launched. What `ArtifactLifecycle` calls
`capture` is one step there and is what `CaptureLoop` and `PeerRegistry` take apart:
one in time, without what the alerts say, the other without time, with what they
say. Both implement `CaptureRounds`, which is what they assume of one another.
`PeerRecord` is a record of `PeerRegistry` seen from inside, over a clock;
`RequestSampling` says what that clock shows of the true times. `SessionTotals` has
the records as the summary sees them, with less of their inside and with the bytes
that `PeerRegistry` leaves out. Nothing that happens inside the records decides about
the files, so the modules are checked apart.

### State and code

`pending[s]` and `archive[s]` are the two directories a session may be in: whether
the directory exists, its manifest, and how far each of the two artifact files has
been written (`absent`, `partial`, `complete`). A manifest is its `state`, the
length of `upload_failures`, `upload_attempt_count`, and where the two paths under
`files` point: into the directory or to the path given with `--event-log` /
`--summary-json`. All runs that override a path use the same one; `ext[k]` is the
file there and whose capture it holds. `received` is what the destination has
accepted, as it was at that moment. `reused`, a history variable, are the sessions
whose pending directory was made again after they had been archived.

`pc[c]` is where process `c` is in `main()` and `client[c]` its locals, named for
those of the code. A process that ends keeps only the way it was invoked, so that
properties can ask what its exit code meant; then it may be launched again with
another destination, torrent source, session id and paths.

| Labels of `pc` | Code |
|---|---|
| `scan`, `pick` | `retry_pending_artifact_uploads`, `find_pending_artifact_sessions` |
| `send` | `send_artifacts_to_destination` |
| `archive_check`, `archive_rename` | the two halves of `archive_artifact_session` |
| `json_read`, `json_open`, `json_write` | read the old manifest, truncate, write (all four writers of state.json; `job` says which) |
| `prepare_archive`, `prepare_pending` | the two checks of `prepare_output_paths` |
| `open_log`, `capture` | `EventWriter`, and the capture loop up to `close()` |
| `summary_open`, `summary_write` | `write_session_summary` |
| `exit_0`, `exit_2`, `exit_3`, `crashed` | how it ended |

Each access to the file system that another process can observe, or a kill can
separate from the next, is a step of its own.

`PeerRegistry` has three groups of variables. `opened`, `up`, `asked`, `have`,
`sender`, `network` are the swarm as libtorrent knows it; `queue`, `lost` its alert
queue. `at`, `stopping`, `batch` are the main thread. `peers`, `active`,
`last_piece`, `latest`, `connects`, `completions` are the members of `SessionStats`.
The history variables `epoch`, `latencies`, `overtaken`, the `tag` of an alert and
`alerted` / `sampled` of a record remember which connection something was about;
no action of the program reads them.

| `PeerRegistry` | Code |
|---|---|
| `set_initial_totals` | the status that `main()` reads before the loop (`main.cpp:798-799`) |
| `Check`, `Drained` | the loop of `main()`, its two exits, and the final round |
| `PopAlerts`, `Handle`, `Dispatch` | `drain_alerts`: `pop_alerts`, the loop over the batch, its branches |
| `Snapshot` | `capture_snapshots`, `note_peer_snapshot`, `record_session_snapshot` |
| `note_*`, `ensure_peer_for_endpoint`, `finalize` | the functions of the same names |
| `peers[e][n]` | `peers_by_key["e#n"]` |

Alerts are posted between any two steps of the main thread, so that a snapshot, one
step later than the drain, may know more than the alerts handled so far.

`CaptureLoop` counts time in ticks, `TicksPerMs` to a millisecond. `at` is the step the
thread is at and `until` when the one before will be over: a step takes as long as its
bound allows (`Takes`), `Tick` passes the time, and a signal may come at any tick.
`now`, `next_snapshot`, `g_stop_requested`, `exit_reason` are the variables of `main()`;
`popped`, `taken` and `asked` are history. `RequestSampling` extends it: `arrived` are
the requests whose alerts are queued, `stamp` is `last_incoming_request_mono_ns`.

| `CaptureLoop` | `src/main.cpp` |
|---|---|
| `Check` | the condition of the loop (828) |
| `Drain`, `SnapshotDue`, `NoSnapshotDue`, `DeadlinePassed` | 831-848 |
| `Sleep`, `Remaining`, `sleep_until`, `poll_interval_ms` | 824, 850-862 |
| `LastDrain`, `LastSnapshot`, `finalize` | 865-882 |
| `handle_signal` | 38-41, installed at 557-558 |

`PeerRecord` has the members of `PeerStats`, those of one kind as a function:
`last[s]`, `delay[s]`, `number[s]` and `samples[s]` for the streams `request`,
`incoming_request`, `block_upload`. A series of samples is the number and the sum of
them, which is what a mean is made of. Each handler is an action of its name;
`InteractionSamples`, `GapSamples`, `BurstSamples`, `FlushSamples` are what the handlers
share, and return the samples with those of their own added. `asked` and `due` are what
libtorrent and the peer really wait for; `answered` and `served` what the latencies
really were. A request of the peer may be for any part of a block (`PeerRequests`). The
code files it under `Key`, its start divided by its own length, and looks it up under
`BlockOf`, the block it is in; where the two differ both blocks are `mixed`, and what is
measured of uploads of these is kept apart, in `strays`.

`SessionTotals` keeps of a record its bytes and its requests, those sent and received
together, as the counts of the summary add them up; and of an attempt to connect the
same and `seen`, its bytes at the last snapshot that saw it. An attempt that fails, and a
connection that closes, is told by a disconnect, or by an error alone, which leaves its
record active (`blurred`). `peer_network_byte_totals` is `NetworkBytes`. `SampleStatistics` has numbers that are exact: a percentile in
twentieths, the deviations times the third power of the count. `std::sort` is `Sorted`,
which puts one sample after the other where it belongs (`Inserted`).

`Launch` follows one container, or command line, after another. `env` is what it is
given, `args` and `i` are `argv` and the argument that is read next, `config` the
`RuntimeConfig`; `payload` and `target` are the source and the destination of the copy.
The steps `Start` to `Exec` are `docker-entrypoint.sh`, `ParseOption` to `Validate` are
`main.cpp:564-665`; `Stop` may end a container anywhere, in the middle of the copy too.
`CommandFails` is what `set -e` makes of a `mkdir` or `cp` that fails: the script ends
with 1, and what has been copied stays. `failed` remembers it.

### What is abstracted

* The scan of `pending/` is one step, as is one transfer with its three files: no
  other process changes a file of a ready session but by rename, and libcurl reads
  them through paths it opens once per request.
* A kill is the end of the process: what it has written is in the page cache and
  survives. The code never calls fsync; a crash of the machine is not modelled.
* A manifest without many failures is smaller than the stream's buffer. It is
  checked (`artifact_lifecycle.cpp:71`) before it is written, and written by the
  destructor, which reports nothing: `JsonLost`. The summary is written in the same
  way (`summary_writer.cpp:222-228`), but the model has its check see an error: its text
  is one long string, which the libstdc++ of the container's image (GCC 12) hands to the
  file directly if it does not fit into the buffer. Where it fits, or a library keeps
  it back, the summary can be lost unseen like the manifest. Event log writes are not checked
  (`logging.cpp:99-132`), but a stream that went bad stays bad until `close()`
  checks it: `LogFault`, `Finish`.
* Two writers of one manifest at the same time: the last one that writes wins. (In
  the code the shorter text could also leave a tail of the longer one.)
* A rename moves the directory under the feet of whoever has a file open in it:
  `OpenAcrossRename` sends the writes of such a process to the new place.
* Two live processes do not capture under the same session id (generated ids are
  random, an explicit one is chosen by the operator). Ids of runs that have ended
  are repeated freely.
* Reading a manifest and scanning a directory do not fail by themselves
  (`find_pending_artifact_sessions` would end the run with code 2): such a failure
  changes nothing on disk.
* In `PeerRegistry`: a piece stands for its blocks. `status()` and `get_peer_info()`
  of one snapshot are one step. Alerts that only count or log are left out, and so
  are all that call `note_peer_event` and nothing else about connections (snubbed,
  incoming request, uploaded, peer log); `peer_error` stands for them.
* libtorrent, as the program uses it: an endpoint has at most one connection at a
  time. A connection that opens or closes, a request, an answer post an alert at
  that moment; a connection that cannot be made is reported as an error or a
  disconnect; an error that ends a connection may be the only alert about its end
  (`error_closes`). A queue that is full loses every alert until it is popped, and
  the batch then ends with `alerts_dropped`. `Troubles` says which of these an
  instance allows.
* `CaptureLoop`: what a drain and a snapshot do is left out, how long they may take is a
  constant, and so is how late `sleep_for` returns.
* `PeerRecord`: the clock is the one `main()` reads when it handles an alert. Blocks are
  those of one piece, in one stream per direction. libtorrent asks for whole blocks; it
  serves requests of any length up to a block, from anywhere within the piece, and names
  the block a request starts in when it has sent the answer. Of the requests for one block
  the oldest is served first. libtorrent may give a request up, and
  the peer may cancel one, without an alert. Left out: the samples of how many requests
  are outstanding, `mark_seen` (its times are used only for a connection that is open,
  and `finalize` closes all before a summary is made), counts of snubs, rates.
* `SessionTotals`: one direction of the traffic stands for both; a batch of alerts
  is handled in one step, since libtorrent posts the next ones to another queue.
* `SampleStatistics`: integers, so that nothing is rounded (the code computes in doubles);
  the standard deviation is the root of the variance, which is what is modelled.
* `Launch`: a value is what the code tells apart: none, a number, a number with more
  behind it, one out of range, a word, and a text that looks like an option. Long and
  short names of an option are the same.
* In the artifacts, time stamps, run ids, error texts and the contents of the log are left out. In
  the archived manifest the code always names the directory's own files, whether or
  not the run had overridden them; so does the model.

## 3. Properties

* `ReadyIsComplete`: a ready session has its own complete files where its manifest
  says.
* `ArchivedWasDelivered`: only what the destination accepted is archived.
* `UploadsAreWhole`: what the destination accepts is complete and of the session it
  is for, unless that session is in `reused`.
* `SealedNeverLost`: a capture with both files complete stays so, in `pending/` or
  in `archive/`; an archived session stays archived.
* `ExitZeroIsHonest`: a run that captured and exits with 0 has delivered and
  archived its session, or left it ready and complete if it had no destination.
* `NoDuplicateWithoutFault`: the destination takes a session twice only after a lost
  answer, a kill or an error between its acceptance and the rename.
* `FailureHistory`: a manifest counts no failure that did not happen; it counts all
  of them when nothing was cut short.
* `ReadyIsArchived` (liveness): a ready session is archived in the end, unless a
  kill cut the rewriting of its manifest.
* `ImplementsDelivery` (refinement): every step of every process is a step of
  `ArtifactDelivery` or invisible to it.

Of `PeerRegistry`:

* `OneActiveRecord`: until the end, an endpoint has at most one record with
  `active_connection`, its last, and `active_peer_key_by_endpoint` names it; after
  `finalize` no record is active and nothing is outstanding, also of records that the
  last snapshot made.
* `ClosedIsFrozen` (action property): a closed record never changes again but for
  the credit of a piece.
* `LatencyHasNoGap`: a latency is measured over one connection, and never across
  lost alerts.
* `CreditIsEarned`: a piece is credited only to a record into which the connection
  that sent it went.
* `RecordsAreConnections`: if no alert was lost, then whenever all are handled the
  connected records are the connections libtorrent had.
* `OneConnectionIfInOrder`: if moreover no snapshot was taken with alerts queued, no
  record has data of two connections and no connection is in two records.
* `CompletionsAreDownloads`: under the same condition, which here is asked of the status
  read before the loop too, no verified piece counts as a download.

Of `CaptureLoop` and `RequestSampling`:

* `StopsPromptly`: a signal ends the loop within one round, though it does not interrupt
  the sleep.
* `SnapshotsOnTime`: the last snapshot was never started longer ago than the interval,
  one overrun and one drain.
* `RuntimeIsHonoured`: without a signal the loop ends when the runtime is over, and not
  later than one overrun and one round without a sleep.
* `Ends` (liveness): a capture that has a deadline, or is told to stop, is finalized.
* `RoundsInOrder` (refinement of `CaptureRounds`): alerts are drained before each
  snapshot, and a last drain and a last snapshot come before the end.
* `GapsAreSampled`: a measured gap between two requests is off by at most a round and a
  drain, in either direction.
* Proved only: `AlertsDrainedInTime` (no alert waits longer than a round),
  `SnapshotsSpaced` (two snapshots start an interval apart, the last one excepted),
  `ReasonIsTrue` (the exit reason given is the true one).

Of `PeerRecord`:

* `MeasuredOnce`: a request is measured at most once, and not while it is outstanding
  or pending.
* `UploadLatencyNeverShort`: if nothing was lost, every upload of a block that no request
  was mixed up with is measured, and its latency is its own unless the peer took
  requests back, and then too long, never too short. As long as the peer asks for whole
  blocks, only a short block at the end of a piece is mixed up, and of that nothing is
  measured.
* `BurstsPartition`, `BurstsKeepTheGap`: every request is in one burst; bursts and the
  gaps between them are the whole stream; gaps over the limit end a burst, no others.
* `WindowsTile`: active and idle time cover the time from the connection to the last
  update without hole or overlap.
* Proved only: `GapsTelescope` (the delay and the gaps of a stream add up to its last
  event), `LatencyOfLastRequest`, `ActiveWhileConnected`, `TransitionsAlternate`.

Of the summary:

* `NeverOvercounted`: no byte is counted twice, unless a snapshot overtook alerts.
* `TotalsAddUp`, `CountsAreConnections`: if every end is told by a disconnect, no alert is
  lost and no snapshot is ahead of one (`AllTold`), the bytes and counts of the summary
  are those of the attempts and of what snapshots saw of them, also when peers
  reconnect. Whatever is lost or told by an error alone, there are never more records
  than attempts, unless a snapshot was ahead.
* `PercentilesAreQuantiles`, `DeviationsAreOfTheMean`: median, 95th percentile and
  variance agree with definitions by counting and by sums of squares.

Of `Launch`:

* `EnvironmentArrives`: a container runs with what its environment says, each value in
  its own place, whatever it looks like and whichever others are empty.
* `RefusedOnlyIfInvalid`: `main()` refuses only a value that is wrong, the script only a
  payload that was not given or a command that failed; and what has any of these does
  not run, so that no failed command goes unnoticed.
* `SeedersHavePayload`: a seeder has the whole payload before it starts, also when an
  earlier copy or download was cut short; the exception is a payload that is a
  directory, of which a part was left behind.

The refinement of `ArtifactLifecycle` maps a session to `archived` if its archive directory exists, to
`sealed` if both files are complete in its pending directory, to `open` if the
directory exists, else to `none`. It holds for runs that override no path, and
says in one formula that a session is begun once, sealed once, delivered only
sealed, archived only delivered, and that nothing ever takes it back.

## 4. Runs

| Run | Instance | What it shows |
|---|---|---|
| `solo_faults` | 1 client, 2 sessions, any write may fail, 2 kills, counters to 2 | `TypeOK`, `ReadyIsComplete`, `NoDuplicateWithoutFault`, `FailureHistory` |
| `solo_live` | 1 client, 2 sessions, log may be elsewhere, 1 kill, counters to 1, fair | `FailureHistory` (exact until the kill), `ExitZeroIsHonest`, `ReadyIsArchived` |
| `shared` | 3 clients, 1 session, no fault, counters to 1 | `ArchivedWasDelivered`, `UploadsAreWhole`, `SealedNeverLost`, `ImplementsDelivery` |
| `shared_zombie` | 2 clients, 1 session, no fault | violation of `ReadyIsComplete` |
| `silent_loss` | 1 client, 1 session, writes may fail | violation of `ExitZeroIsHonest` |
| `peers_lossy` | 1 endpoint, 1 piece, queue of 2, 8 alerts, hashes fail, errors close connections | `TypeOK`, `OneActiveRecord`, `ClosedIsFrozen`, `LatencyHasNoGap`, `CreditIsEarned` |
| `peers_exact` | 2 endpoints, 1 piece, queue of 5, 5 alerts (none lost), files checked first | `RecordsAreConnections`, `OneConnectionIfInOrder`, `CompletionsAreDownloads` |
| `loop_timed` | interval 5 ms, poll 2 ms, runtime 11 ms, 2 ticks to a ms, drain to 2, snapshot to 12, oversleep to 1 tick, fair | `StopsPromptly`, `SnapshotsOnTime`, `RuntimeIsHonoured`, `Ends`, `RoundsInOrder` |
| `sampled_gaps` | 3 requests at any tick, poll 3, runtime 15 | `GapsAreSampled` |
| `record` | 5 scenarios of one record; the last of 3 blocks is short | `MeasuredOnce`, `UploadLatencyNeverShort`, `BurstsPartition`, `BurstsKeepTheGap`, `WindowsTile` |
| `summary` | 1 endpoint, 3 connections, queue of 3; or up to 6 samples from 0 to 4 | `TypeOK`, `NeverOvercounted`, `TotalsAddUp`, `CountsAreConnections`, `PercentilesAreQuantiles`, `DeviationsAreOfTheMean` |
| `launch` | every value of 4 options, command lines of up to 3 of 6 words | `TypeOK`, `EnvironmentArrives`, `RefusedOnlyIfInvalid`, `SeedersHavePayload` |

**Bounds.** Two sessions are enough for one client: its own, and one an earlier run
left behind; that gives the order of the retries, the failure of the first that
keeps the second waiting, and the repeated id. One session is enough for
several clients: sessions interact only through one client's list, and a client without
a torrent source uses no session id, so that all may work on the same session (two
retries, or the owner's first upload and a retry). Three clients at a time are needed
for a session that is held by one, archived by another and begun again by a third. In
`shared` clients are symmetric, and what only counts (`copies`, `failed`, `blamed`) is
left out of the `VIEW`: no guard and none of the four properties reads it. Kills and
failed writes with several clients are left to the proofs, which have them all, for any
number of clients. Two kills allow one in the run
that recovers from the first. `MaxCount` saturates counters only; 2 distinguishes a
first copy or failure from a further one. `MaxCrashes` bounds kills in a behaviour,
nothing else is bounded: processes are launched for ever.

For `PeerRegistry`, `MaxPosts` bounds the alerts of a behaviour; rounds of the main
thread are not bounded. Records of different endpoints share no state but
`last_piece` and counters, so that one endpoint shows what concerns one record, and
two what could be mixed up between them. A queue of 2 overflows at the third alert.
Losing a request's answer and measuring its latency with the next answer takes
connect, request, a full queue and another answer: 6 alerts. Crediting a piece
wrongly takes two answers with a refused hash between them, the loss of the second,
and the finished piece: 8 alerts with the connects. A reconnection with a snapshot
between takes 3, and a snapshot that overtakes a checked piece 2.

For `CaptureLoop` the units are small, but every order of the things that compete
happens: a snapshot takes from no time to longer than the interval, the interval is
no multiple of the poll, the deadline no multiple of either, and a tick is half a
millisecond, so that what remains of one is cut off. `Horizon` and `LastSignal` lie
beyond the latest end of the capture: no behaviour is cut short.

In `record` a behaviour plays one scenario, in which only some handlers are called,
because all at once is too much; handlers of different scenarios share little but
`last_interaction`, and the proofs below have them all. `requests`: 2 blocks, clock
to 4, 3 requests, with answers before and after a timeout and losses. `uploads`: the
same in the other direction, clock to 5. `bursts`: 5 requests on a clock to 10 with a
limit of 2, so that a gap may be at, below or over it several times. `activity`: clock to 5,
snapshots of an interval of 2. `parts`: requests of any part of 2 blocks, clock to 4, so
that one may be filed under a block that is then uploaded for another. `summary`: the threshold is 2 requests, a third
connection is the first that comes after a record that was closed and one that was
not, and series of up to 6 samples have a median on a sample and between two, at one
end of the series and inside it. `launch` varies the run time (a number), the role, and two options that are left
out when empty, one of which is followed by the other; the others have the same form.

In `loop_timed` a capture has a deadline. One without a deadline that a signal ends is
not in this run; `SignalStops` is proved for it too, `Ends` is not shown.

**Fairness** (`FairSpec`). A live process keeps running and its capture ends (weak
fairness of `Run`: the process is one thread that waits for nothing but timeouts;
the capture has a deadline, or else is ended by a signal). Somebody launches the
client with a destination again and again (strong fairness of `Launch`, as other
launches compete with it): without that nothing is ever retried, since the program
has no daemon. The destination, asked again and again, accepts again and again
(strong fairness of `SendOk`). No fairness on kills, refusals or errors.

`CaptureLoop` (`LiveSpec`): the clock goes on while the thread is busy and the thread is
scheduled when it is not (weak fairness of `Tick` and of `Main`). Each step has a bound,
and nothing is assumed of signals. The other modules state safety only and need no
fairness.

Deadlock is checked in the runs of `ArtifactLifecycle` and `Launch`: a process that has
ended may always be launched again, so nothing stops. A capture does end: the runs
about one switch the check off.

### Findings

* `shared_zombie`. `record_artifact_upload_failure` creates the session's directory
  and a manifest that says `ready_to_upload` without checking that the session is
  still there. If another client archived it meanwhile, a directory with nothing but
  the manifest comes back; each later run with a destination fails on it with exit
  code 3, before it reaches the sessions after it or its own capture.
* `silent_loss`. The manifest is lost on a full disk and the run exits with 0.

### Other behaviour the model shows

No document speaks about these, or not clearly enough to call them wrong.

Of the artifacts:

* A session may be uploaded while it is being captured. `prepare_output_paths` looks
  for the archive directory (`logging.cpp:33`) before it makes the pending one
  (`logging.cpp:54`). If a client has session `s` on its list of sessions to retry, another
  one archives `s`, and a third, which was given the same id and had found no archive
  before that, makes `pending/<s>` anew, then the first uploads what the third has
  written so far. It takes three processes and a repeated id (37 steps in TLC; no
  two clients reach it). It was found because `UploadsAreWhole` could not be proved
  without `reused`, and is the only exception there is (`OnlyWholeUploads`).
* An overridden path that is in use is truncated (`logging.cpp:57`): the pending session
  that named it is still marked ready, with another session's log. `ReadyIsComplete`
  is checked for runs that override nothing.
* A kill between truncating and writing a manifest leaves it unreadable, and the session,
  though complete, is never retried (the exception in `ReadyIsArchived`).
* A kill between the rename and the manifest leaves `archive/<s>` saying
  `ready_to_upload`.
* Two clients that fail on one session at the same time record one failure
  (`FailureHistory` is checked for clients that run one at a time).
* The archived manifest of a session with an overridden log names a file that is not in
  the archive.

Of the connections:

* A peer that reconnects from the same endpoint between a drain and the snapshot that
  follows it has its new rates, totals and flags written into the record of the old
  connection (`peer_stats.cpp:661`), although the sequence suffix is there to keep
  records distinct (`peer_stats.cpp:670-671`); its own record starts when the alerts are
  drained. The bytes of the snapshot are then counted again in it, and those of the
  old connection are overwritten.
* Bytes moved after the last snapshot of a connection that closes are in no record.
* Pieces verified while the files are checked count as downloads if a snapshot sees the
  new state before their alerts are drained, or the status read before the loop does, and
  `session_completed_bytes` includes what checking found (`main.cpp:798-799`).
* A connection attempt that fails with an error alone leaves a record that is active until
  the end, or until the endpoint connects and takes it over: the two are then one in the
  counts of the summary. When a disconnect is lost, or
  an error was all that was said about the end of a connection, the next connection of
  that endpoint is filed under the old record and is not counted as a connect.

Of what is measured:

* Times are those of the drain. With a poll of 100 ms and a burst limit of 100 ms
  (`main.cpp:824`, `peer_stats.cpp:13`) the requests of a steady stream that came between two drains look like one
  burst, and those of the next drain may or may not join it.
* A lost alert does not end a burst and does not interrupt a series of gaps; only what was
  outstanding is forgotten.
* A request that the peer cancels, or that is rejected when it is choked, stays pending,
  and the next upload of that block is measured from it. The last block of a piece, if
  short, is filed under an index that is not its own (`peer_stats.cpp:70`), and its
  upload is not measured.
* A peer that asks for parts of blocks has its requests filed under other blocks
  (`start / length`): with blocks of 16384 bytes, 8192 from 16384 go under block 2. The
  next upload of that block is measured from there, and its latency may be too short.
* A peer that left is idle until the session ends (`peer_stats.cpp:426`): its idle time
  exceeds the time it was connected, its active time does not.
* The exit reason `stopped` is never given; the last snapshot does not wait for its
  interval.

Of the launch:

* `-t 60s` is accepted as 60 (`std::stoi`).
* A payload that is a directory is copied into the one that is there
  (`docker-entrypoint.sh:35`): what was cut short stays so. Roles other than the seeder
  start with whatever is in the save path (`docker-entrypoint.sh:37`).

## 5. Proofs

`ArtifactLifecycle_proofs` proves, for any set of clients, sessions, choices of
paths, any bound on kills and counters, and with writes that fail or not:

* `TypeCorrect`: `Spec => []TypeOK`.
* `OnlyDeliveredIsArchived`: `Spec => []ArchivedWasDelivered`.

They assume only `FilesAssumption` and `LifecycleAssumption`, which TLC evaluates in
every run of the module.

`ArchivedWasDelivered` is not inductive: `archive_check` and `archive_rename` move
whatever session the client is working on, and the write of the archived manifest
creates the directory anew if it is gone. `DeliveredInv` adds what the code relies
on: a client that is at `archive_check` or `archive_rename`, or writes an archived
manifest, works on a session that the destination has accepted. Each action keeps it because only
`SendOk` leads to `archive_check`, because `received` only grows, and because the
other clients' program counters and sessions do not change (`StepKeepsOthers`).
The proof has one step per action; leaves name the facts they use.

`ArtifactDelivery_proofs` proves, for any set of clients, sessions, any bound on kills and
counters, and with writes that fail or not, for runs that override no path
(`PathChoices \subseteq {Default}`: `--event-log` and `--summary-json` are "mainly for
tests and one-off captures", `logging.cpp:27-28`, and take a file out of the directory
that is moved):

* `OnlyWholeUploads`: `Spec => []UploadsAreWhole`.
* `NothingSealedIsLost`: `Spec => SealedNeverLost`.
* `DeliveryIsImplemented`: `Spec => ImplementsDelivery`, step by step.
* `ReadyOrArchived`: a session marked ready is complete where its manifest says, or it is
  archived, and whole there. So what `shared_zombie` shows is the only way in which
  `ReadyIsComplete` fails, and nothing is lost by it.

All of them rest on `SafeAlways`, the invariant `SafeInv`. None of them is inductive, because
clients act on what they saw long ago: on a list of sessions made at the start, on an
archive they checked some steps before. `SafeInv` says what remains true meanwhile. A
session is *settled* once its capture is whole in `pending/` or it is archived; every
session a client has listed, holds or uploads is settled (`HolderOf`), and stays so. A
process that writes files works in a directory that it has made itself, with the files
that its place in the program allows, and that is not archived unless the id was reused
(`RecorderOf`); a file that was open across a rename belongs to an archived session
(`ArchiverOf`); no two live processes capture under one id (`OneCapture`). `DirInv` says
of the disk alone that what is archived is whole, and that a manifest says
`ready_to_upload` of settled sessions only. The proof classifies the steps by what they
do to the two directories of a session (`SameShape`, `Creates`, `Writes`, ...), shows
that every step of every client is one of these, and that each of them keeps what the
*other* clients rely on.

`ArtifactSolo_proofs` is about one client at a time (`Clients = {c}`), launched again and
again: the way the program is mostly used, and the only way in which these hold
(`shared_zombie`, the lost update described above, and a session that somebody else
retries at the same time, break them for two clients):

* `ReadyIsCompleteAlone` (no path overridden; kills and failed writes anywhere).
* `NoDuplicateAlone` and `FailureHistoryAlone` (any paths, kills and failed writes).
* `ExitZeroIsHonestAlone` (any paths, kills; writes do not fail, as `silent_loss` refutes
  it otherwise).

`SoloInv` says what one process knows: nothing is left in `pending/` of an archived
session, what it has listed is still there, the file it has open is where it thinks.
`CopiesInv` adds that a session that was delivered once, without a fault since, is
archived or about to be; `CountsInv` that the manifest which is on disk, or will be when
the write under way is done, counts the failures there were; `HonestInv` that the files
a run has closed, wherever they are, are complete and its own until it ends.

The module ends with what exit code 0 says with *any* number of clients (no path
overridden, writes do not fail). As an invariant it says too much then: after a run
without a destination has exited, somebody else may upload and archive its session.
`ExitZeroHandsTheSessionOn` says it of the step that exits: `Spec => ExitZeroHandsOn`, the
session is then accepted, archived and marked so, or ready and whole, or another process
was faster and it is archived and whole. It needs of each process only what that process
itself remembers (`OneRun`), except where the file it has open is: a rename moves that,
but, by `ArchiverOf`, never from under a process that writes an archived manifest.

`PeerRegistry_proofs` proves, for any endpoints and pieces, any length of the queue
and any number of alerts, lost or overtaken:

* `RegistryTypeCorrect`: `Spec => []TypeOK`. It says in particular that every key the
  table and `last_piece_peer_key` hold names a record, so that the `at()` of
  `ensure_peer_for_endpoint` does not throw.
* `ActiveRecordIsUnique`: `Spec => []OneActiveRecord`.
* `ClosedStaysFrozen`: `Spec => ClosedIsFrozen`.
* `LatenciesHaveNoGap`: `Spec => []LatencyHasNoGap`.
* `CreditsAreEarned`: `Spec => []CreditIsEarned`.
* `ConnectionsAreRecorded`: `Spec => []RecordsAreConnections`, and
  `OneConnectionEach`: `Spec => []OneConnectionIfInOrder`, both as long as every
  connection that ends is reported as disconnected (`"error_closes" \notin Troubles`, as
  in `peers_exact`).
* `OnlyDownloadsComplete`: `Spec => []CompletionsAreDownloads`.
* `ImplementsRounds`: `Spec => RoundsInOrder`, the main thread of the registry goes
  through the rounds of `CaptureRounds`.

They assume only `RegistryAssumption`, and those two that no connection is closed by an
error alert alone, without which they fail: the next connection then goes into the record
that is still active. The first two are proved together, as neither is
inductive alone: a handler changes the record that the table names, and that this is
the last one, and active, is what keeps all others closed. `EnsureType` states it for
`ensure_peer_for_endpoint`; `SetPeerKeeps` and `DisconnectKeeps` carry it to any
handler that leaves the record active, or closes it and erases the entry. After
`finalize` the table still names closed records: `Table`, what is said of it before, holds
as long as `at` is not `done`, and `AllClosed` takes its place then (`FinalizeCloses`).
That nothing is outstanding at the end, and `ClosedStaysFrozen`, rest besides on `Idle`: a
closed record has nothing outstanding, since `note_alert_loss` resets the requests of
all records.

The others relate the records to alerts that were posted long before they are handled.
They look at `Pending`, the batch followed by the queue, as one sequence that is only
taken from at its head and added to at its end: `LastIn(E, G, s, i)` says that the last of
the first `i` alerts that is in `E` is in `G`, and each conjunct of an invariant says such
a thing of what is in the records now, or of what libtorrent knows at the end of the
sequence. For a latency (`LatencyInv`): libtorrent answers only what was asked over the
open connection, and the alert of that request is the last one about the piece before
the answer: it replaces an older request that was still outstanding, and if it was
lost, the loss clears what is. For a credit
(`CreditInv`): when the alert of a finished piece is handled, the last answer for that
piece is the one of its `sender`, or a loss has cleared the table; an earlier answer, to
a request whose piece was refused, is overwritten by a later one unless that one was
lost, and then the loss is handled before the piece is.

For the connections (`ConnInv`) an endpoint has a number, how many of its connections the
records stand for, and a standing, up or down. `Follows` says that after the first `i`
pending alerts both are what libtorrent had when alert `i` was posted; `Announced`, that
each alert of a connection is the next one in that count, so that `ensure_peer_for_endpoint`
opens a record at the connect alert of each and at no other. `OrderAt` says what is in the
records: those of one endpoint hold the data of its connections, one each. A snapshot
keeps it only if no alert is queued, when the standing and the link agree. For the pieces
(`FinishInv`), the alerts about finished pieces that are pending are of different pieces,
each that was not downloaded comes before the change of state that begins to count
(`Timely`), and the count is at most that of the downloads no pending alert is about.

`CaptureLoop_proofs` proves, for every interval, runtime (0, to run forever, included)
and bound on drains, snapshots and oversleeping, from `LoopAssumption`: `TypeCorrect`,
`AlertsAreDrained`, `SignalStops`, `SnapshotsKeepComing`, `SnapshotsKeepApart`,
`RuntimeKept`, `ReasonsAreTrue`, and `ImplementsRounds`, that the loop refines
`CaptureRounds`. The bounds are not inductive: that no more than a round has passed
since the last drain says nothing about how long the step under way will last. `IInv`
is a table: for each place of the loop, how far `until` may be beyond the last drain,
the last snapshot, the first signal, and the deadline. Every step adds to one column the
bound of its own duration. `TableInvariant` has a lemma per step.

The same module proves of `RequestSampling` `SamplingTypeCorrect` and `GapsMeasuredWithinARound` for
any number of requests. `SInv` adds to the table that a queued request came after the
last drain, and that the last one handled was stamped within a round and a drain of
its arrival; a gap is off by at most the difference of two such delays.

`PeerRecord_proofs` proves, for any piece, size of its blocks, limit of a burst, interval
and number of events, all handlers together, from `RecordAssumption`:
`RecordTypeCorrect`, `GapsAddUp`, `BurstsArePartition`, `BurstsRespectTheGap`,
`WindowsAreTiles`, `ActiveOnlyConnected`, `TransitionsDoAlternate`, `LatenciesAreTrue`,
`RequestsAreMeasuredOnce` and `UploadsNeverTooShort`: all that `record` checks, and more.
The invariant `RInv` is what the sums have in common: `NumbersOK` (every count, sum and
time is a natural number that is not of the future), `InteractionsOK`, `StreamsOK`,
`BurstsOK`, `WindowOK`, `LatencyOK`; `QueuesOK` types the queues. `BurstsPartition` needs
`StreamsOK` (a burst's last request is the last of the stream), and that an open
connection with requests has a burst under way. `LatencyOK` says that a request that is
outstanding and was not given up is the last one of its block. `ActiveWhileConnected` needs that a
closed record has an idle window. Lemmas about `Push` say what a series is after a
sample is added. `MeasuredOnce` is inductive with the bound on a queue that makes
`Requested` count it in full. `UploadLatencyNeverShort` rests on `LateInv`: while the
connection is open and nothing was lost, the times pending for a block that is not `mixed`
are ordered, at least as many as the peer waits for, and none is younger than the one due
at the same place. A request the peer took back keeps that (`QueueForgets`), and so does
serving the oldest of both (`QueueServes`). `OnlyWhole` says what is left to mix up as long
as the peer asks for whole blocks: no regular block, and of the others nothing is pending.
It is arithmetic: `KeyIsOwn` says that the key of a request for a whole block, its start
divided by its own length, is its block's number or no block's.

`SessionSummary_proofs` proves, for any endpoints, any length of the queue and any number
of connections and of alerts, lost or overtaken, from `TotalsAssumption` (the endpoints are finitely
many): `TotalsTypes`, `OvertakenOrNotOvercounted`
(`NeverOvercounted`), `InOrderTotalsAddUp` (`TotalsAddUp`) and `InOrderCountsAreRight`
(`CountsAreConnections`). The totals are sums folded over the records. No rule of induction
that the provers can apply gives what a fold is, so the module proves one for the subsets of
a finite set from well-foundedness (`SubsetInduction`: the sets that are in `D`, where `D`
is a set and not a predicate), and with it that the function a sum is folded with
exists and is the only one. From then on sums are taken apart one record at a time.

An alert that waits has been posted by a connection that moved on since, so the records
say nothing of the attempts by themselves. `Later` is the table as it will be when the
alerts that wait are handled, and `Inv` speaks of that: if nothing was overtaken it holds
no more bytes than were seen of the attempts and no more records than there were
(`FewerAt`), and of an endpoint that is connected also at most the bytes without the active
record and the last attempt (`Within`); if besides every end is told (`AllTold`) its
records are the attempts, one by one (`Matches`). To post an alert changes
`Later` by what that alert does, to handle one does not change it (`DrainsOneMore`), and a
snapshot changes the active records alone, and keeps `Inv` if no alert waits: otherwise it
has `overtaken`.

Of `SampleStatistics` the module proves, for samples in any number and of any size, from
`StatisticsAssumption`, both properties `summary` checks: `PercentilesAreTrue`
(`PercentilesAreQuantiles`) and `DeviationsAreTrue` (`DeviationsAreOfTheMean`), besides
`PercentileBetween` (a percentile of sorted integers lies between the samples its rank falls
between) and `PercentilesRise` (a higher fraction gives no lower percentile). Both rest on
what `Sorted` returns (`SortedIs`, by induction over the places, which `UpTo` of the
module gives for sets): a sequence that ascends, as long as the samples, over which any
function sums to what it sums to over the samples. With the function that is one for the
numbers below a bound and zero for the others, that says that counts are kept
(`SortedCounts`); in a sequence that ascends they determine what is at a place
(`OrderStatisticIs`), so the polygon through the order statistics is the one
`percentile` interpolates. With squares it says that the deviations of the sorted copy
are those of the samples (`DeviationsAre`), and the identity is algebra under the sum.
They are zero only if no sample is off the mean (`NoDeviation`), for which a sum of
squares is shown to be no less than any of them.

`Launch_proofs` proves, for any environments of all 13 options, any command lines and
kills anywhere, from `LaunchAssumption`: `SeedersAreSeeded`, `LaunchTypes`,
`EnvironmentReachesMain` and `RefusalsAreRight`. For the first, `Preseeded` adds that a
part of the payload that is there before a copy was left by an earlier container, and
that only a directory is nested. The others rest on the shape of the argument list
(`Laid`): at every odd place there is the name of an option, behind it its value, and
the flag, if any, is last. It is kept by each part of the list in turn (`GivenLaid`),
so a left-out option moves what follows by two. `Reading` is the invariant of the loop
in `main()`: it stands at an odd place or behind the flag, every pair before it has
been stored, and an option that was not met has its default. At the end that is what
the environment means, since only options whose default is empty are left out
(`AllRead`), and `Valid` decides as the environment does (`ValidIfRight`). A container that
has reached `main()` was given its payload, and no command of its script failed.

**Only model-checked.** `ReadyIsComplete`, `NoDuplicateWithoutFault`, `FailureHistory` and
`ExitZeroIsHonest` are proved for one client at a time, and the runs check them for one; for
several clients they are false. The liveness properties `ReadyIsArchived` and `Ends` stay
with TLC for good: they need fairness, of which the prover knows nothing.

## 6. Plan

Every safety property the passing runs check is stated by a theorem, for as many clients as
it holds for, so of those nothing is left to prove.

**Not modelled, and not planned:** labels, time formats, host names and JSON layout (the
rest of `src/util.cpp`, most of `src/summary_writer.cpp`): no state, and no property is
about them; rates and plain counters, session-wide totals and the tracker's state in
`record_session_snapshot`: each is one assignment of what libtorrent says; the build files;
libtorrent and libcurl themselves, which are modelled as far as the program uses them.
