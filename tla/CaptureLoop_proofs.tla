-------------------------- MODULE CaptureLoop_proofs --------------------------
(***************************************************************************)
(* Proofs for CaptureLoop, for every interval, runtime and bound, and for  *)
(* RequestSampling, which adds the requests the loop takes in. The         *)
(* argument is a table: at each place of the loop it is known how far      *)
(* "until" may lie beyond the last drain, the last snapshot, the first     *)
(* signal and the deadline, because every step adds a bounded amount.      *)
(***************************************************************************)
EXTENDS RequestSampling, SequenceTheorems, TLAPS

-----------------------------------------------------------------------------
(* The inductive invariant.                                                 *)

\* What the thread is doing will be over within the bound of that step.
Busy ==
    /\ at \in {"drain", "sleep", "last_drain"} => until = clock
    /\ at = "now" => until <= clock + MaxDrain
    /\ at = "deadline" => until <= clock + MaxSnapshot
    /\ at = "check" => until <= clock + poll_interval + MaxOversleep

\* No time stamp is of the future.
Past == popped <= clock /\ taken <= clock /\ asked <= clock /\ now <= clock

\* Since the alerts were popped: one sum grows from place to place.
SincePopped ==
    /\ at \in {"check", "drain", "last_drain"} => until <= popped + LongestRound
    /\ at = "now" => until <= popped + MaxDrain
    /\ at \in {"deadline", "sleep"} => until <= popped + MaxDrain + MaxSnapshot

\* Since the signal: the same sum, from the look at the flag that missed it.
SinceAsked ==
    g_stop_requested =>
        /\ at = "check" => until <= asked + LongestRound
        /\ at = "drain" => until <= asked
        /\ at = "now" => until <= asked + MaxDrain
        /\ at \in {"deadline", "sleep"} => until <= asked + MaxDrain + MaxSnapshot

\* Since the last snapshot: either the sleep overran, or the snapshot did.
SinceTaken ==
    at \in InLoop =>
        /\ next_snapshot = taken + Interval
        /\ at \in {"check", "drain"} => until <= taken + MaxOf(Interval + MaxOversleep, MaxSnapshot)
        /\ at = "now" => until <= taken + LongestGap
        /\ at \in {"deadline", "sleep"} => until <= taken + MaxOf(Interval, MaxSnapshot)

\* Beyond the deadline: the round that passes it starts at most one overrun late.
BeyondDeadline ==
    ~run_forever =>
        /\ at \in {"check", "drain"} => until <= deadline + MaxOf(MaxOversleep, MaxSnapshot)
        /\ at = "now" => until <= deadline + MaxOf(MaxOversleep, MaxSnapshot) + MaxDrain
        /\ at = "deadline" => now <= deadline + MaxOf(MaxOversleep, MaxSnapshot) + MaxDrain
        /\ at \in {"deadline", "sleep"} => until <= now + MaxSnapshot
        /\ at = "sleep" => now < deadline

\* Out of the loop there was a reason to leave it, and the reason given is true.
Left ==
    /\ at \notin InLoop /\ ~g_stop_requested => ~run_forever /\ now >= deadline
    /\ ReasonIsTrue

\* A snapshot is taken when the alerts have been drained since the one before.
Drained == at \in {"now", "last_snapshot"} => Fresh

IInv ==
    /\ TypeOK /\ Busy /\ Past /\ SincePopped /\ SinceAsked /\ SinceTaken
    /\ BeyondDeadline /\ Left /\ Drained

-----------------------------------------------------------------------------
(* The numbers.                                                             *)

\* Products and quotients: stated once, so that the steps are linear.
LEMMA PositiveProduct ==
  ASSUME NEW a \in Nat \ {0}, NEW b \in Nat \ {0}
  PROVE  a * b \in Nat \ {0}
  OBVIOUS

LEMMA ProductIsMonotonic ==
  ASSUME NEW a \in Nat, NEW b \in Nat, NEW t \in Nat, a <= b
  PROVE  a * t \in Nat /\ b * t \in Nat /\ a * t <= b * t
  OBVIOUS

LEMMA Quotient ==
  ASSUME NEW x \in Nat, NEW t \in Nat \ {0}
  PROVE  x \div t \in Nat /\ (x \div t) * t <= x
  OBVIOUS

\* Intervals, deadline and poll interval are natural numbers of ticks.
LEMMA TicksAreNat ==
  /\ Interval \in Nat \ {0} /\ deadline \in Nat
  /\ poll_interval_ms \in Nat /\ poll_interval \in Nat
  <1>1. Interval \in Nat \ {0}
    BY LoopAssumption, PositiveProduct DEF Interval
  <1>2. deadline \in Nat
    BY LoopAssumption, ProductIsMonotonic DEF deadline
  <1>3. poll_interval_ms \in Nat
    BY LoopAssumption DEF poll_interval_ms, MinOf
  <1>4. poll_interval \in Nat
    BY <1>3, LoopAssumption, ProductIsMonotonic DEF poll_interval
  <1> QED BY <1>1, <1>2, <1>3, <1>4

\* main.cpp:850-861: a sleep is over within the poll interval, and unless there was
\* none, what it waits for is passed by no more than the oversleep.
LEMMA SleepBounds ==
  ASSUME TypeOK, Sleep
  PROVE  /\ until' \in Nat /\ until' >= clock
         /\ until' <= clock + poll_interval + MaxOversleep
         /\ until' = clock \/ until' <= sleep_until + MaxOversleep
  <1> DEFINE left == Remaining
             ms == MinOf(left, poll_interval_ms)
  <1>1. clock \in Nat /\ until = clock /\ sleep_until \in Nat /\ SleepFor(ms)
    BY TicksAreNat DEF TypeOK, Sleep, Go, sleep_until, MinOf
  <1>2. /\ left \in Nat
        /\ left > 0 => left * TicksPerMs <= sleep_until - clock
    <2>1. CASE sleep_until > clock
      <3>1. sleep_until - clock \in Nat BY <1>1, <2>1
      <3> QED BY <2>1, <3>1, Quotient, LoopAssumption DEF Remaining
    <2>2. CASE ~(sleep_until > clock)
      BY <2>2 DEF Remaining
    <2> QED BY <2>1, <2>2
  <1>3. ms \in Nat /\ ms <= left /\ ms <= poll_interval_ms
    BY <1>2, TicksAreNat DEF MinOf
  <1>4. /\ ms * TicksPerMs \in Nat
        /\ ms * TicksPerMs <= left * TicksPerMs
        /\ ms * TicksPerMs <= poll_interval
    BY <1>2, <1>3, TicksAreNat, ProductIsMonotonic, LoopAssumption DEF poll_interval
  <1>5. left * TicksPerMs \in Nat
    BY <1>2, ProductIsMonotonic, LoopAssumption
  <1> HIDE DEF left, ms
  <1>6. CASE ms > 0
    <2>1. PICK d \in (ms * TicksPerMs)..(ms * TicksPerMs + MaxOversleep) :
              until' = clock + d
      BY <1>1, <1>6 DEF SleepFor, Takes
    <2> QED BY <1>1, <1>2, <1>3, <1>4, <1>5, <1>6, <2>1, TicksAreNat, LoopAssumption
  <1>7. CASE ~(ms > 0)
    BY <1>1, <1>7, TicksAreNat, LoopAssumption DEF SleepFor
  <1> QED BY <1>6, <1>7

-----------------------------------------------------------------------------
(* The invariant holds initially and is preserved.                          *)

LEMMA InitIInv == Init => IInv
  BY TicksAreNat, LoopAssumption
  DEF Init, IInv, TypeOK, Busy, Past, SincePopped, SinceAsked, SinceTaken,
      BeyondDeadline, Left, Drained, ReasonIsTrue, Places, InLoop, LongestRound,
      LongestGap, MaxOf, NoReason, Fresh

\* Every step preserves the table.
LEMMA NextIInv ==
  ASSUME IInv, Next
  PROVE  IInv'
  <1> USE TicksAreNat, LoopAssumption
      DEF IInv, TypeOK, Busy, Past, SincePopped, SinceAsked, SinceTaken,
          BeyondDeadline, Left, Drained, ReasonIsTrue, Places, InLoop, LongestRound,
          LongestGap, MaxOf, NoReason, Fresh, history, time, Go, Takes
  <1>1. CASE Tick
    BY <1>1 DEF Tick
  \* asked becomes clock, and Busy bounds how far until is beyond it.
  <1>2. CASE handle_signal
    BY <1>2 DEF handle_signal
  <1>3. CASE Check
    BY <1>3 DEF Check
  \* From popped = clock on the sum starts again.
  <1>4. CASE Drain
    BY <1>4 DEF Drain
  \* From taken = clock on likewise; the alerts were drained just before.
  <1>5. CASE SnapshotDue
    BY <1>5 DEF SnapshotDue
  \* until = clock is before the next snapshot, so within Interval of the last one.
  <1>6. CASE NoSnapshotDue
    BY <1>6 DEF NoSnapshotDue
  <1>7. CASE DeadlinePassed
    BY <1>7 DEF DeadlinePassed
  \* The poll interval bounds the first two sums, sleep_until the last two.
  <1>8. CASE Sleep
    BY <1>8, SleepBounds DEF Sleep, sleep_until, MinOf
  <1>9. CASE LastDrain
    BY <1>9 DEF LastDrain
  <1>10. CASE LastSnapshot
    BY <1>10 DEF LastSnapshot
  \* now >= deadline was noted in Left when the loop was left, and clock >= now.
  <1>11. CASE finalize
    BY <1>11 DEF finalize
  <1> QED
    BY <1>1, <1>2, <1>3, <1>4, <1>5, <1>6, <1>7, <1>8, <1>9, <1>10, <1>11 DEF Next, Main

LEMMA StutterIInv ==
  ASSUME IInv, UNCHANGED vars
  PROVE  IInv'
  BY DEF vars, time, history, IInv, TypeOK, Busy, Past, SincePopped, SinceAsked,
         SinceTaken, BeyondDeadline, Left, Drained, ReasonIsTrue, Fresh

\* The table holds in every state of every capture.
THEOREM TableInvariant == Spec => []IInv
  <1>1. IInv /\ [Next]_vars => IInv'
    BY NextIInv, StutterIInv
  <1> QED BY <1>1, InitIInv, PTL DEF Spec

-----------------------------------------------------------------------------
(* What it implies.                                                         *)

\* Every variable of the loop keeps its type, and the thread never sleeps
\* backwards (CaptureLoop!TypeOK).
THEOREM TypeCorrect == Spec => []TypeOK
  <1>1. IInv => TypeOK
    BY DEF IInv
  <1> QED BY <1>1, TableInvariant, PTL

\* main.cpp:822, 850-861: the alerts are popped at least once in LongestRound, for
\* every snapshot interval, every runtime and all durations of the steps.
THEOREM AlertsAreDrained == Spec => []AlertsDrainedInTime
  <1>1. IInv => AlertsDrainedInTime
    BY TicksAreNat, LoopAssumption
    DEF IInv, TypeOK, SincePopped, AlertsDrainedInTime, InLoop, LongestRound
  <1> QED BY <1>1, TableInvariant, PTL

\* main.cpp:558, 828: a signal ends the loop within LongestRound.
THEOREM SignalStops == Spec => []StopsPromptly
  <1>1. IInv => StopsPromptly
    BY TicksAreNat, LoopAssumption
    DEF IInv, TypeOK, SinceAsked, StopsPromptly, InLoop, LongestRound
  <1> QED BY <1>1, TableInvariant, PTL

\* main.cpp:833-843: no snapshot starts later than LongestGap after the one before,
\* and the loop is never further from the last one.
THEOREM SnapshotsKeepComing == Spec => []SnapshotsOnTime
  <1>1. IInv => SnapshotsOnTime
    BY TicksAreNat, LoopAssumption
    DEF IInv, TypeOK, SinceTaken, SnapshotsOnTime, InLoop, LongestGap, MaxOf
  <1> QED BY <1>1, TableInvariant, PTL

\* main.cpp:833-843: nor does one start earlier than an interval after it.
THEOREM SnapshotsKeepApart == Spec => SnapshotsSpaced
  <1>1. ASSUME IInv, [Next]_vars, taken' # taken, at \in InLoop
        PROVE  taken' - taken >= Interval
    <2>1. SnapshotDue
      BY <1>1 DEF vars, time, history, Next, Main, Tick, handle_signal, Check, Drain,
                  SnapshotDue, NoSnapshotDue, DeadlinePassed, Sleep, LastDrain,
                  LastSnapshot, finalize, Go, InLoop
    <2> QED
      BY <1>1, <2>1, TicksAreNat DEF SnapshotDue, IInv, TypeOK, SinceTaken, InLoop
  <1>2. IInv /\ [Next]_vars =>
            [taken' # taken /\ at \in InLoop => taken' - taken >= Interval]_vars
    BY <1>1
  <1> QED BY <1>2, TableInvariant, PTL DEF Spec, SnapshotsSpaced

\* main.cpp:845-848: without a signal the capture lasts for its runtime, and for at
\* most two overruns and a drain more.
THEOREM RuntimeKept == Spec => []RuntimeIsHonoured
  <1>1. IInv => RuntimeIsHonoured
    BY TicksAreNat, LoopAssumption
    DEF IInv, TypeOK, Past, BeyondDeadline, Left, RuntimeIsHonoured, InLoop, Places, MaxOf
  <1> QED BY <1>1, TableInvariant, PTL

\* main.cpp:878-880: the exit reason is the true one, and "stopped" is not reachable.
THEOREM ReasonsAreTrue == Spec => []ReasonIsTrue
  <1>1. IInv => ReasonIsTrue
    BY DEF IInv, Left
  <1> QED BY <1>1, TableInvariant, PTL

-----------------------------------------------------------------------------
(* The loop implements CaptureRounds.                                       *)

\* A step of the loop is a step of the rounds or none.
LEMMA StepInRounds ==
  ASSUME IInv, [Next]_vars
  PROVE  [Rounds!Next]_RoundsStep
  <1> USE DEF RoundsStep, Fresh, IInv, TypeOK, Drained, Past, Go
  <1>1. CASE Tick
    BY <1>1 DEF Tick, history
  <1>2. CASE handle_signal
    BY <1>2 DEF handle_signal
  <1>3. CASE Check
    BY <1>3 DEF Check
  <1>4. CASE Drain
    BY <1>4 DEF Drain, Rounds!Next, Rounds!Drain
  <1>5. CASE SnapshotDue
    BY <1>5 DEF SnapshotDue, Rounds!Next, Rounds!EndRound
  <1>6. CASE NoSnapshotDue
    BY <1>6 DEF NoSnapshotDue, Rounds!Next, Rounds!EndRound
  <1>7. CASE DeadlinePassed
    BY <1>7 DEF DeadlinePassed
  <1>8. CASE Sleep
    BY <1>8 DEF Sleep
  <1>9. CASE LastDrain
    BY <1>9 DEF LastDrain, Rounds!Next, Rounds!LastDrain
  <1>10. CASE LastSnapshot
    BY <1>10 DEF LastSnapshot, Rounds!Next, Rounds!LastSnapshot
  <1>11. CASE finalize
    BY <1>11 DEF finalize, Rounds!Next, Rounds!Finalize
  <1>12. CASE UNCHANGED vars
    BY <1>12 DEF vars, history
  <1> QED
    BY <1>1, <1>2, <1>3, <1>4, <1>5, <1>6, <1>7, <1>8, <1>9, <1>10, <1>11, <1>12
    DEF Next, Main

\* main.cpp:828-876: in whatever time its steps take, the loop keeps the order of
\* CaptureRounds.
THEOREM ImplementsRounds == Spec => RoundsInOrder
  <1>1. Init => Rounds!Init
    BY DEF Init, Rounds!Init, RoundsStep
  <1>2. IInv /\ [Next]_vars => [Rounds!Next]_RoundsStep
    BY StepInRounds
  <1> QED BY <1>1, <1>2, TableInvariant, PTL DEF Spec, RoundsInOrder, Rounds!Spec

-----------------------------------------------------------------------------
(* RequestSampling: what the table says of the rounds bounds how far a      *)
(* measured gap is from the true one, for any number of requests and any    *)
(* times of their arrival. The inductive invariant adds what is known of    *)
(* the requests.                                                            *)

\* What is queued came after the last drain began, one after the other.
Queued ==
    /\ arrived \in Seq(Nat)
    /\ \A i \in 1..Len(arrived) : 1 <= arrived[i] /\ popped <= arrived[i] /\ arrived[i] <= clock
    /\ \A i \in 2..Len(arrived) : arrived[i - 1] <= arrived[i]

\* What was handled came before the last drain began, and was stamped in its round.
Stamped ==
    /\ made \in Nat /\ arrival \in Nat /\ stamp \in Nat
    /\ arrival <= popped /\ arrival <= stamp /\ stamp <= arrival + LatestStamp
    /\ stamp <= until

GapsOK ==
    /\ gaps \in SUBSET [true : Nat, measured : Nat]
    /\ GapsAreSampled

SInv == IInv /\ Queued /\ Stamped /\ GapsOK

-----------------------------------------------------------------------------
(* The steps.                                                               *)

LEMMA LatestStampIsNat == LongestRound \in Nat /\ LatestStamp \in Nat
  BY TicksAreNat, LoopAssumption DEF LongestRound, LatestStamp

LEMMA InitSInv == SamplingInit => SInv
  BY InitIInv, LatestStampIsNat DEF SamplingInit, SInv, Queued, Stamped, GapsOK, GapsAreSampled,
     Init

\* Two times before and after a drain, each stamped at most d late.
LEMMA TwoStamps ==
  ASSUME NEW d \in Nat, NEW p \in Nat, NEW c \in Nat,
         NEW a \in Nat, NEW s \in Nat, a <= p, a <= s, s <= a + d, s <= c,
         NEW b \in Nat, NEW t \in Nat, p <= b, b <= c, c <= t, t <= p + d
  PROVE  /\ b - a \in Nat /\ t - s \in Nat
         /\ t - s <= b - a + d
         /\ b - a <= t - s + d
  OBVIOUS

\* main.cpp:828-866: a drain begins within one round of the one before.
LEMMA DrainInTime ==
  ASSUME IInv, Drain \/ LastDrain
  PROVE  /\ clock \in Nat /\ popped \in Nat /\ popped <= clock
         /\ clock = until /\ clock <= popped + LongestRound
         /\ clock' = clock /\ popped' = clock
         /\ until' \in Nat /\ clock <= until' /\ until' <= clock + MaxDrain
  BY LoopAssumption
  DEF IInv, TypeOK, Past, SincePopped, Drain, LastDrain, Go, Takes

\* main.cpp:245-248: one batch, its requests handled at the times t.
LEMMA StampAtKeeps ==
  ASSUME SInv, Drain \/ LastDrain, arrived # <<>>,
         NEW t \in Stamps, StampAt(t), made' = made
  PROVE  (Queued /\ Stamped /\ GapsOK)'
  <1> DEFINE n == Len(arrived)
  <1>1. /\ clock \in Nat /\ popped \in Nat /\ popped <= clock
        /\ clock = until /\ clock <= popped + LongestRound
        /\ clock' = clock /\ popped' = clock
        /\ until' \in Nat /\ clock <= until' /\ until' <= clock + MaxDrain
    BY DrainInTime DEF SInv
  <1>2. \A i \in 1..n : /\ t[i] \in Nat /\ clock <= t[i] /\ t[i] <= until'
                        /\ t[i] <= popped + LatestStamp
    <2> SUFFICES ASSUME NEW i \in 1..n
                 PROVE  /\ t[i] \in Nat /\ clock <= t[i] /\ t[i] <= until'
                        /\ t[i] <= popped + LatestStamp
      OBVIOUS
    <2>1. t[i] \in clock..until'
      BY DEF Stamps
    <2> QED BY <1>1, <2>1, LatestStampIsNat, LoopAssumption DEF LatestStamp
  <1>3. n \in Nat \ {0}
    BY DEF SInv, Queued
  <1>4. \A i \in 1..n : arrived[i] \in Nat /\ 1 <= arrived[i] /\ popped <= arrived[i]
                        /\ arrived[i] <= clock
    BY DEF SInv, Queued
  <1>5. Queued'
    BY <1>1 DEF StampAt, Queued
  <1>6. Stamped'
    <2>1. arrived[n] \in Nat /\ popped <= arrived[n] /\ arrived[n] <= clock
          /\ t[n] \in Nat /\ clock <= t[n] /\ t[n] <= until' /\ t[n] <= popped + LatestStamp
      BY <1>2, <1>3, <1>4
    <2>2. arrival' = arrived[n] /\ stamp' = t[n]
      BY DEF StampAt
    <2> HIDE DEF n
    <2> QED BY <1>1, <1>2, <2>1, <2>2, LatestStampIsNat DEF SInv, Stamped
  \* The gap to the request before: one of the two is stamped late, or both.
  <1>7. stamp # 0 =>
          /\ arrived[1] - arrival \in Nat /\ t[1] - stamp \in Nat
          /\ t[1] - stamp <= arrived[1] - arrival + LatestStamp
          /\ arrived[1] - arrival <= t[1] - stamp + LatestStamp
    <2>1. /\ arrived[1] \in Nat /\ popped <= arrived[1] /\ arrived[1] <= clock
          /\ t[1] \in Nat /\ clock <= t[1] /\ t[1] <= popped + LatestStamp
      BY <1>2, <1>3, <1>4
    <2>2. /\ arrival \in Nat /\ stamp \in Nat /\ arrival <= popped /\ arrival <= stamp
          /\ stamp <= arrival + LatestStamp /\ stamp <= clock
      BY <1>1 DEF SInv, Stamped
    <2>3. clock \in Nat /\ popped \in Nat /\ LatestStamp \in Nat
      BY <1>1, LatestStampIsNat
    <2> QED BY <2>1, <2>2, <2>3, TwoStamps
  \* Within the batch all came since the last drain, and are stamped in this one.
  <1>8. \A i \in 2..n :
          /\ arrived[i] - arrived[i - 1] \in Nat /\ t[i] - t[i - 1] \in Nat
          /\ arrived[i] - arrived[i - 1] <= LatestStamp
          /\ t[i] - t[i - 1] <= LatestStamp
    <2> SUFFICES ASSUME NEW i \in 2..n
                 PROVE  /\ arrived[i] - arrived[i - 1] \in Nat /\ t[i] - t[i - 1] \in Nat
                        /\ arrived[i] - arrived[i - 1] <= LatestStamp
                        /\ t[i] - t[i - 1] <= LatestStamp
      OBVIOUS
    <2>1. i \in 1..n /\ i - 1 \in 1..n
      BY <1>3
    <2>2. arrived[i - 1] <= arrived[i]
      BY DEF SInv, Queued
    <2>3. t[i - 1] <= t[i]
      BY DEF Stamps
    <2> HIDE DEF n
    <2>4. arrived[i] - arrived[i - 1] \in Nat /\ arrived[i] - arrived[i - 1] <= LatestStamp
      BY <1>1, <1>4, <2>1, <2>2, LatestStampIsNat, LoopAssumption DEF LatestStamp
    <2>5. t[i] - t[i - 1] \in Nat /\ t[i] - t[i - 1] <= LatestStamp
      BY <1>1, <1>2, <2>1, <2>3, LatestStampIsNat, LoopAssumption DEF LatestStamp
    <2> QED BY <2>4, <2>5
  <1>9. \A gap \in Gaps(t) :
          /\ gap \in [true : Nat, measured : Nat]
          /\ gap.measured <= gap.true + LatestStamp
          /\ gap.true <= gap.measured + LatestStamp
    <2> HIDE DEF n
    <2> SUFFICES ASSUME NEW gap \in Gaps(t)
                 PROVE  /\ gap \in [true : Nat, measured : Nat]
                        /\ gap.measured <= gap.true + LatestStamp
                        /\ gap.true <= gap.measured + LatestStamp
      OBVIOUS
    <2>1. CASE stamp # 0 /\ gap = [true |-> arrived[1] - arrival, measured |-> t[1] - stamp]
      BY <1>7, <2>1
    <2>2. CASE \E i \in 2..n : gap = [true |-> arrived[i] - arrived[i - 1],
                                     measured |-> t[i] - t[i - 1]]
      BY <1>8, <2>2, LatestStampIsNat
    <2> QED BY <2>1, <2>2 DEF Gaps, n
  <1>10. GapsOK'
    BY <1>9 DEF SInv, GapsOK, GapsAreSampled, StampAt
  <1> QED BY <1>5, <1>6, <1>10

\* Each step is one of the loop or leaves the loop alone.
LEMMA SamplingIsLoop ==
  ASSUME SamplingNext
  PROVE  [Next]_vars
  BY DEF SamplingNext, Arrive, Stamp, OtherStep, Next, Main

LEMMA NextSInv ==
  ASSUME SInv, SamplingNext
  PROVE  SInv'
  <1>1. IInv'
    BY SamplingIsLoop, NextIInv, StutterIInv DEF SInv
  <1>2. CASE Arrive
    <2>1. /\ arrived' = Append(arrived, clock) /\ clock \in Nat /\ clock > 0
          /\ popped <= clock /\ popped \in Nat
      BY <1>2 DEF SInv, IInv, TypeOK, Past, Arrive
    <2>2. UNCHANGED <<clock, until, popped, arrival, stamp, gaps>> /\ made' = made + 1
      BY <1>2 DEF Arrive, vars, time, history
    <2>3. Queued'
      <3> DEFINE n == Len(arrived)
      <3>1. /\ arrived \in Seq(Nat) /\ n \in Nat
            /\ arrived' \in Seq(Nat) /\ Len(arrived') = n + 1
            /\ \A i \in 1..n : arrived'[i] = arrived[i]
            /\ arrived'[n + 1] = clock
        BY <2>1 DEF SInv, Queued
      <3> HIDE DEF n
      <3>2. \A i \in 1..(n + 1) :
              1 <= arrived'[i] /\ popped <= arrived'[i] /\ arrived'[i] <= clock
        BY <2>1, <3>1 DEF SInv, Queued, n
      <3>3. \A i \in 2..(n + 1) : arrived'[i - 1] <= arrived'[i]
        <4> SUFFICES ASSUME NEW i \in 2..(n + 1) PROVE arrived'[i - 1] <= arrived'[i]
          OBVIOUS
        <4>1. CASE i = n + 1
          BY <2>1, <3>1, <3>2, <4>1
        <4>2. CASE i # n + 1
          <5>1. i \in 2..n /\ i \in 1..n /\ i - 1 \in 1..n
            BY <3>1, <4>2
          <5>2. arrived[i - 1] <= arrived[i]
            BY <5>1 DEF SInv, Queued, n
          <5> QED BY <3>1, <5>1, <5>2
        <4> QED BY <4>1, <4>2
      <3> QED BY <2>2, <3>1, <3>2, <3>3 DEF Queued
    <2>4. Stamped' /\ GapsOK'
      BY <2>2 DEF SInv, Stamped, GapsOK, GapsAreSampled
    <2> QED BY <1>1, <2>3, <2>4 DEF SInv
  <1>3. CASE Stamp
    <2>1. CASE arrived = <<>>
      <3>1. UNCHANGED <<arrived, arrival, stamp, gaps, made>>
        BY <1>3, <2>1 DEF Stamp
      <3>2. /\ popped' = clock /\ arrival <= clock /\ clock \in Nat
            /\ until' \in Nat /\ stamp <= until'
        BY <1>3, DrainInTime DEF SInv, Stamped, Stamp
      <3> QED BY <1>1, <2>1, <3>1, <3>2
              DEF SInv, Queued, Stamped, GapsOK, GapsAreSampled
    <2>2. CASE arrived # <<>>
      BY <1>1, <1>3, <2>2, StampAtKeeps DEF Stamp, SInv
    <2> QED BY <2>1, <2>2
  <1>4. CASE OtherStep
    <2>1. UNCHANGED <<arrived, made, arrival, stamp, gaps>>
      BY <1>4 DEF OtherStep, sampling
    <2>2. popped' = popped /\ clock <= clock' /\ clock' \in Nat
      BY <1>4 DEF OtherStep, SInv, IInv, TypeOK, Tick, handle_signal, Check, SnapshotDue,
         NoSnapshotDue, DeadlinePassed, Sleep, LastSnapshot, finalize, time, history
    <2>3. until <= until' /\ until' \in Nat
      <3>1. CASE Sleep
        BY <3>1, SleepBounds DEF SInv, IInv, TypeOK, Sleep, Go
      <3>2. CASE ~Sleep
        BY <1>4, <3>2, LoopAssumption
        DEF OtherStep, SInv, IInv, TypeOK, Tick, handle_signal, Check, SnapshotDue,
            NoSnapshotDue, DeadlinePassed, LastSnapshot, finalize, time, history, Go, Takes
      <3> QED BY <3>1, <3>2
    <2>4. Queued'
      BY <2>1, <2>2 DEF SInv, Queued, IInv, TypeOK
    <2>5. Stamped' /\ GapsOK'
      BY <2>1, <2>2, <2>3 DEF SInv, Stamped, GapsOK, GapsAreSampled, IInv, TypeOK
    <2> QED BY <1>1, <2>4, <2>5 DEF SInv
  <1> QED BY <1>2, <1>3, <1>4 DEF SamplingNext

LEMMA StutterSInv ==
  ASSUME SInv, UNCHANGED <<vars, sampling>>
  PROVE  SInv'
  <1>1. IInv' BY StutterIInv DEF SInv
  <1>2. UNCHANGED <<clock, until, popped, arrived, made, arrival, stamp, gaps>>
    BY DEF vars, time, history, sampling
  <1> QED BY <1>1, <1>2 DEF SInv, Queued, Stamped, GapsOK, GapsAreSampled

-----------------------------------------------------------------------------
(* The theorems.                                                            *)

\* No alert is handled twice, stamped before it came or taken from the future
\* (RequestSampling!SamplingTypeOK).
THEOREM SamplingTypeCorrect == SamplingSpec => []SamplingTypeOK
  <1>1. SInv /\ [SamplingNext]_<<vars, sampling>> => SInv'
    BY NextSInv, StutterSInv
  <1>2. ASSUME SInv PROVE SamplingTypeOK
    <2>1. clock \in Nat /\ popped \in Nat /\ popped <= clock
      BY <1>2 DEF SInv, IInv, TypeOK, Past
    <2>2. \A i \in 1..Len(arrived) : arrived[i] \in 1..clock
      BY <1>2, <2>1 DEF SInv, Queued
    <2>3. arrived = [i \in 1..Len(arrived) |-> arrived[i]] /\ Len(arrived) \in Nat
      BY <1>2 DEF SInv, Queued
    <2>4. arrived \in [1..Len(arrived) -> 1..clock]
      BY <2>2, <2>3, Zenon
    <2>5. arrived \in Seq(1..clock)
      BY <2>3, <2>4, SeqDef, Zenon
    <2> QED BY <1>2, <2>1, <2>5 DEF SInv, Stamped, GapsOK, SamplingTypeOK
  <1> QED BY <1>1, <1>2, InitSInv, PTL DEF SamplingSpec

\* However the requests of a peer come, a gap between two of them is measured with an
\* error of at most one round and one drain (RequestSampling!GapsAreSampled).
THEOREM GapsMeasuredWithinARound == SamplingSpec => []GapsAreSampled
  <1>1. SInv /\ [SamplingNext]_<<vars, sampling>> => SInv'
    BY NextSInv, StutterSInv
  <1>2. SInv => GapsAreSampled
    BY DEF SInv, GapsOK
  <1> QED BY <1>1, <1>2, InitSInv, PTL DEF SamplingSpec
=============================================================================
