----------------------------- MODULE CaptureLoop ------------------------------
(***************************************************************************)
(* The loop of the main thread in time (main.cpp, 815-882): drain the      *)
(* alerts, take a snapshot when one is due, stop at the deadline, sleep    *)
(* until something is due but never for longer than the poll interval, and *)
(* look at the flag a signal sets.                                         *)
(*                                                                         *)
(* Time is counted in ticks from process_start. A tick is the shortest     *)
(* time a drain takes; a millisecond has TicksPerMs of them. Draining,     *)
(* taking a snapshot and waking up take as long as the bounds below allow: *)
(* the thread is busy until "until", and a signal may come at any tick.    *)
(***************************************************************************)
EXTENDS Integers

CONSTANTS
    TicksPerMs,
    snapshot_interval_ms,
    PollLimitMs,    \* the 100 ms that cap poll_interval
    RuntimeMs,      \* runtime_seconds, in milliseconds; 0 is to run forever
    MaxDrain,       \* the longest drain_alerts, in ticks
    MaxSnapshot,    \* the longest capture_snapshots
    MaxOversleep,   \* how much too late sleep_for returns
    LastSignal,     \* no first signal comes later (a bound of the model)
    Horizon         \* where the clock stops (a bound of the model)

ASSUME LoopAssumption ==
    /\ TicksPerMs \in Nat \ {0}
    /\ snapshot_interval_ms \in Nat \ {0} /\ PollLimitMs \in Nat \ {0}
    /\ RuntimeMs \in Nat
    /\ MaxDrain \in Nat \ {0} /\ MaxSnapshot \in Nat /\ MaxOversleep \in Nat
    /\ LastSignal \in Nat /\ Horizon \in Nat

VARIABLES
    at,               \* where main() is
    clock,            \* steady_clock
    until,            \* when what the thread is doing will be over
    now,              \* read once in a round
    next_snapshot,
    g_stop_requested,
    exit_reason,
    \* history
    popped,           \* when the alerts were popped last
    taken,            \* when the last snapshot was started
    asked             \* when the first signal came

time == <<clock, until>>
history == <<popped, taken, asked>>
vars == <<at, time, now, next_snapshot, g_stop_requested, exit_reason, history>>

Interval == snapshot_interval_ms * TicksPerMs
deadline == RuntimeMs * TicksPerMs
run_forever == RuntimeMs = 0

MinOf(a, b) == IF a <= b THEN a ELSE b
MaxOf(a, b) == IF a <= b THEN b ELSE a

poll_interval_ms == MinOf(PollLimitMs, snapshot_interval_ms)

InLoop == {"check", "drain", "now", "deadline", "sleep"}
Places == InLoop \cup {"last_drain", "last_snapshot", "finalize", "done"}

NoReason == "none"

\* The thread has somewhere to be, and never until a time that is over.
TypeOK ==
    /\ at \in Places
    /\ clock \in Nat /\ until \in Nat /\ clock <= until
    /\ now \in Nat /\ next_snapshot \in Nat
    /\ g_stop_requested \in BOOLEAN
    /\ exit_reason \in {NoReason, "signal", "stopped", "runtime_elapsed"}
    /\ popped \in Nat /\ taken \in Int /\ asked \in Nat

-----------------------------------------------------------------------------
(* Time, and the signals.                                                   *)

Tick ==
    /\ clock < until /\ clock < Horizon
    /\ clock' = clock + 1
    /\ UNCHANGED <<at, until, now, next_snapshot, g_stop_requested, exit_reason, history>>

\* The handler sets the flag and nothing else; it wakes nobody up. Later signals
\* change nothing.
handle_signal ==
    /\ at # "done" /\ ~g_stop_requested /\ clock <= LastSignal
    /\ g_stop_requested' = TRUE
    /\ asked' = clock
    /\ UNCHANGED <<at, time, now, next_snapshot, exit_reason, popped, taken>>

-----------------------------------------------------------------------------
(* The loop. Each step is taken when the one before is over.                *)

Go(from, to) == at = from /\ clock = until /\ at' = to

\* What takes between "least" and "most" ticks.
Takes(least, most) == \E d \in least..most : until' = clock + d

\* Mutants: the flag is looked at only without a deadline; the last drain is left out.
Check_DeadlineOnly ==
    /\ Go("check", IF g_stop_requested /\ run_forever THEN "last_drain" ELSE "drain")
    /\ UNCHANGED <<time, now, next_snapshot, g_stop_requested, exit_reason, history>>
Check_NoLastDrain ==
    /\ Go("check", IF g_stop_requested THEN "last_snapshot" ELSE "drain")
    /\ UNCHANGED <<time, now, next_snapshot, g_stop_requested, exit_reason, history>>

Check ==
    /\ Go("check", IF g_stop_requested THEN "last_drain" ELSE "drain")
    /\ UNCHANGED <<time, now, next_snapshot, g_stop_requested, exit_reason, history>>

\* drain_alerts pops the alerts first and then handles them.
Drain ==
    /\ Go("drain", "now")
    /\ Takes(1, MaxDrain)
    /\ popped' = clock
    /\ UNCHANGED <<clock, now, next_snapshot, g_stop_requested, exit_reason, taken, asked>>

\* Mutant: the next snapshot is due one interval after this one is over.
SnapshotDue_FromEnd ==
    /\ Go("now", "deadline")
    /\ clock >= next_snapshot
    /\ now' = clock
    /\ taken' = clock
    /\ Takes(0, MaxSnapshot)
    /\ next_snapshot' = until' + Interval
    /\ UNCHANGED <<clock, g_stop_requested, exit_reason, popped, asked>>

\* The next one is due one interval after "now", which is when this one starts.
SnapshotDue ==
    /\ Go("now", "deadline")
    /\ clock >= next_snapshot
    /\ now' = clock
    /\ taken' = clock
    /\ Takes(0, MaxSnapshot)
    /\ next_snapshot' = clock + Interval
    /\ UNCHANGED <<clock, g_stop_requested, exit_reason, popped, asked>>

NoSnapshotDue ==
    /\ Go("now", "deadline")
    /\ clock < next_snapshot
    /\ now' = clock
    /\ UNCHANGED <<time, next_snapshot, g_stop_requested, exit_reason, history>>

\* Mutants: the deadline is not looked at; the last interval is cut off.
DeadlinePassed_Never ==
    /\ Go("deadline", "sleep")
    /\ UNCHANGED <<time, now, next_snapshot, g_stop_requested, exit_reason, history>>
DeadlinePassed_Early ==
    /\ Go("deadline", IF ~run_forever /\ now + Interval > deadline
                      THEN "last_drain" ELSE "sleep")
    /\ UNCHANGED <<time, now, next_snapshot, g_stop_requested, exit_reason, history>>

\* "now" is from before the snapshot: if that has taken long, one more round follows.
DeadlinePassed ==
    /\ Go("deadline", IF ~run_forever /\ now >= deadline THEN "last_drain" ELSE "sleep")
    /\ UNCHANGED <<time, now, next_snapshot, g_stop_requested, exit_reason, history>>

sleep_until == IF ~run_forever THEN MinOf(deadline, next_snapshot) ELSE next_snapshot

\* duration_cast to milliseconds: what is left of one is cut off.
Remaining ==
    IF sleep_until > clock THEN (sleep_until - clock) \div TicksPerMs ELSE 0

SleepFor(ms) ==
    IF ms > 0 THEN Takes(ms * TicksPerMs, ms * TicksPerMs + MaxOversleep)
              ELSE UNCHANGED until

\* Mutant: the sleep is not capped.
Sleep_Uncapped ==
    /\ Go("sleep", "check")
    /\ SleepFor(Remaining)
    /\ UNCHANGED <<clock, now, next_snapshot, g_stop_requested, exit_reason, history>>

\* From a fresh reading of the clock; not at all if less than 1 ms remains.
Sleep ==
    /\ Go("sleep", "check")
    /\ SleepFor(MinOf(Remaining, poll_interval_ms))
    /\ UNCHANGED <<clock, now, next_snapshot, g_stop_requested, exit_reason, history>>

-----------------------------------------------------------------------------
(* The end of the capture.                                                  *)

LastDrain ==
    /\ Go("last_drain", "last_snapshot")
    /\ Takes(1, MaxDrain)
    /\ popped' = clock
    /\ UNCHANGED <<clock, now, next_snapshot, g_stop_requested, exit_reason, taken, asked>>

LastSnapshot ==
    /\ Go("last_snapshot", "finalize")
    /\ Takes(0, MaxSnapshot)
    /\ taken' = clock
    /\ UNCHANGED <<clock, now, next_snapshot, g_stop_requested, exit_reason, popped, asked>>

\* The flag is read again: a signal during the last round is a reason as well.
finalize ==
    /\ Go("finalize", "done")
    /\ exit_reason' = IF g_stop_requested THEN "signal"
                      ELSE IF run_forever THEN "stopped" ELSE "runtime_elapsed"
    /\ UNCHANGED <<time, now, next_snapshot, g_stop_requested, history>>

-----------------------------------------------------------------------------
(* The specification.                                                       *)

\* The first snapshot is due at once, as if the last one had been an interval ago.
Init ==
    /\ at = "check"
    /\ clock = 0 /\ until = 0 /\ now = 0 /\ next_snapshot = 0
    /\ g_stop_requested \in BOOLEAN
    /\ exit_reason = NoReason
    /\ popped = 0 /\ taken = 0 - Interval /\ asked = 0

Main ==
    \/ Check \/ Drain \/ SnapshotDue \/ NoSnapshotDue \/ DeadlinePassed \/ Sleep
    \/ LastDrain \/ LastSnapshot \/ finalize

Next == Tick \/ handle_signal \/ Main

Spec == Init /\ [][Next]_vars

\* The thread is scheduled and its time passes; nothing is assumed of signals.
LiveSpec == Spec /\ WF_vars(Tick) /\ WF_vars(Main)

-----------------------------------------------------------------------------
(* Properties.                                                              *)

poll_interval == poll_interval_ms * TicksPerMs

\* The longest a round can take, from one look at the flag to the next.
LongestRound == MaxDrain + MaxSnapshot + poll_interval + MaxOversleep

\* main.cpp:824, 850-862: until the last drain, no alert waits for longer than one
\* round, however long the snapshot interval and the deadline are.
AlertsDrainedInTime ==
    at \in InLoop \cup {"last_drain"} => clock - popped <= LongestRound

\* main.cpp:558, 828: a signal ends the loop within one round, though it does not
\* interrupt the sleep; "asked" is when it came.
StopsPromptly ==
    at \in InLoop /\ g_stop_requested => clock - asked <= LongestRound

\* The latest start of a snapshot after the one before: what overruns is either the
\* sleep or the snapshot before, not both, and the drain comes on top.
LongestGap == MaxOf(Interval + MaxOversleep, MaxSnapshot) + MaxDrain

\* main.cpp:833-843: as long as the loop runs, snapshots keep coming: the last one was
\* never started longer ago than the interval plus one overrun and one drain.
SnapshotsOnTime ==
    at \in InLoop => clock - taken <= LongestGap

\* main.cpp:833-843: they do not bunch up after a delay either: two of them start an
\* interval apart at least, the last one of the session excepted.
SnapshotsSpaced ==
    [][taken' # taken /\ at \in InLoop => taken' - taken >= Interval]_vars

\* main.cpp:845-848: without a signal the loop ends when the runtime is over, not
\* before, and not later than one overrun and one more round without a sleep.
RuntimeIsHonoured ==
    /\ at \notin InLoop /\ ~g_stop_requested => ~run_forever /\ now >= deadline
    /\ at \in InLoop /\ ~run_forever =>
           clock <= deadline + MaxOf(MaxOversleep, MaxSnapshot) + MaxDrain + MaxSnapshot

\* main.cpp:878-880: the reason given is the true one: "signal" if one came before the
\* session was finalized, "runtime_elapsed" if it ran for its whole time; "stopped"
\* is never given.
ReasonIsTrue ==
    at = "done" =>
        \/ exit_reason = "signal" /\ asked <= clock /\ g_stop_requested
        \/ exit_reason = "runtime_elapsed" /\ ~run_forever /\ clock >= deadline

\* main.cpp:828-882: a capture that has a deadline, or is told to stop, is finalized.
Ends == (~run_forever \/ g_stop_requested) ~> at = "done"

-----------------------------------------------------------------------------
(* The refinement.                                                          *)

\* The alerts have been drained since the last snapshot was started.
Fresh == popped >= taken

RoundsStep ==
    CASE at = "now" /\ Fresh -> "drained"
      [] at = "last_snapshot" /\ Fresh -> "last_drained"
      [] at = "finalize" -> "recorded"
      [] at = "done" -> "finished"
      [] OTHER -> "round"

Rounds == INSTANCE CaptureRounds WITH step <- RoundsStep

\* main.cpp:828-876: the loop drains before it takes a snapshot, and whatever ends
\* it, a last drain and a last snapshot come before the session is finalized.
RoundsInOrder == Rounds!Spec
=============================================================================
