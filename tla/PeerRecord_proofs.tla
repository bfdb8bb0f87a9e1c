--------------------------- MODULE PeerRecord_proofs ---------------------------
(***************************************************************************)
(* Proofs for PeerRecord, for pieces and blocks of any size, any limit of  *)
(* a burst and any number of events. What the handlers have in common is   *)
(* proved once per operator: what it adds to one series, and that it       *)
(* leaves the others alone.                                                *)
(***************************************************************************)
EXTENDS PeerRecord, Integers, SequenceTheorems, TLAPS, FiniteSetTheorems

SampleType == [Series -> [count : Nat, total : Nat]]

\* TypeOK but for the queues of requests of the peer.
NumbersOK ==
    /\ clock \in Nat \ {0}
    /\ asked \in [Blocks -> 0..clock]
    /\ choking \in BOOLEAN
    /\ connected \in 1..clock /\ disconnected \in 0..clock
    /\ active_connection \in BOOLEAN /\ final \in BOOLEAN
    /\ outstanding_requests \in [Blocks -> 0..clock]
    /\ last \in [Streams -> 0..clock] /\ delay \in [Streams -> 0..clock]
    /\ number \in [Streams -> Nat]
    /\ last_interaction \in 0..clock /\ first_interaction \in 0..clock
    /\ burst \in [active : BOOLEAN, size : Nat, start : 0..clock, last : 0..clock]
    /\ window \in [since : 1..clock, active : BOOLEAN]
    /\ active_time \in Nat /\ idle_time \in Nat
    /\ choke \in [initialized : BOOLEAN, flag : BOOLEAN, choked : Nat, unchoked : Nat]
    /\ samples \in SampleType
    /\ answered \in [count : Nat, total : Nat]
    /\ initially \in BOOLEAN

-----------------------------------------------------------------------------
(* What the operators add to a series.                                      *)

LEMMA SeriesNames ==
  /\ Streams \subseteq Series /\ "interaction" \in Series \ Streams
  /\ "block_latency" \in Series \ Streams /\ "upload_latency" \in Series \ Streams
  /\ "burst_size" \in Series \ Streams /\ "burst_duration" \in Series \ Streams
  /\ "burst_idle_gap" \in Series \ Streams
  BY DEF Series, Streams

LEMMA PushAdds ==
  ASSUME NEW series \in SampleType, NEW name \in Series, NEW value \in Nat,
         NEW after, after = Push(series, name, value)
  PROVE  /\ after \in SampleType
         /\ \A other \in Series \ {name} : after[other] = series[other]
         /\ after[name].count = series[name].count + 1
         /\ after[name].total = series[name].total + value
  BY DEF Push, Add, SampleType

InteractionsOK ==
    InteractionsTelescope /\ (first_interaction = Never <=> last_interaction = Never)

\* peer_stats.cpp:565-572.
LEMMA InteractionAdds ==
  ASSUME NumbersOK, InteractionsOK, note_interaction,
         NEW after, after = InteractionSamples(samples)
  PROVE  /\ after \in SampleType
         /\ \A other \in Series \ {"interaction"} : after[other] = samples[other]
         /\ first_interaction' + after["interaction"].total = last_interaction'
         /\ first_interaction' \in 1..clock /\ last_interaction' \in 1..clock
  <1> DEFINE before == samples["interaction"]
  <1>1. /\ clock \in Nat \ {0} /\ last_interaction \in 0..clock
        /\ first_interaction \in 0..clock /\ "interaction" \in Series
        /\ samples \in SampleType
    BY SeriesNames DEF NumbersOK
  <1>2. before.total \in Nat
    BY <1>1 DEF SampleType
  <1>3. last_interaction' = clock
    BY DEF note_interaction
  <1> HIDE DEF before
  <1>4. CASE last_interaction # Never /\ clock > last_interaction
    <2>1. clock - last_interaction \in Nat
      BY <1>1, <1>4
    <2>2. after = Push(samples, "interaction", clock - last_interaction)
      BY <1>4 DEF InteractionSamples
    <2>3. /\ after \in SampleType
          /\ \A other \in Series \ {"interaction"} : after[other] = samples[other]
          /\ after["interaction"].total = before.total + (clock - last_interaction)
      BY <1>1, <2>1, <2>2, PushAdds DEF before
    <2>4. first_interaction' = first_interaction /\ first_interaction # 0
      BY <1>4 DEF note_interaction, InteractionsOK, Never
    <2>5. first_interaction + before.total = last_interaction
      BY DEF InteractionsOK, InteractionsTelescope, before
    <2> QED BY <1>1, <1>2, <1>3, <2>3, <2>4, <2>5
  <1>5. CASE ~(last_interaction # Never /\ clock > last_interaction)
    <2>1. after = samples
      BY <1>5 DEF InteractionSamples
    <2>2. /\ first_interaction' = IF first_interaction = 0 THEN clock ELSE first_interaction
          /\ first_interaction = 0 <=> last_interaction = 0
          /\ first_interaction + before.total = last_interaction
      BY DEF note_interaction, InteractionsOK, InteractionsTelescope, Never, before
    <2>3. first_interaction' + before.total = clock
      BY <1>1, <1>2, <1>5, <2>2 DEF Never
    <2>4. first_interaction' \in 1..clock
      BY <1>1, <2>2
    <2> QED BY <1>1, <1>3, <2>1, <2>3, <2>4 DEF before
  <1> QED BY <1>4, <1>5

\* peer_stats.cpp:195-204, 251-261, 273-283.
LEMMA GapAdds ==
  ASSUME NumbersOK, NEW s \in Streams, StreamTelescopes(s), note_pace(s),
         NEW series \in SampleType, series[s] = samples[s],
         NEW after, after = GapSamples(s, series)
  PROVE  /\ after \in SampleType
         /\ \A other \in Series \ {s} : after[other] = series[other]
         /\ number'[s] = number[s] + 1
         /\ after[s].count + 1 = number'[s]
         /\ connected + delay'[s] + after[s].total = last'[s]
         /\ last[s] # Never => after[s].total = samples[s].total + (clock - last[s])
         /\ last[s] = Never => number[s] = 0 /\ after[s].total = 0 /\ samples[s].total = 0
  <1> DEFINE before == samples[s]
  <1>1. /\ clock \in Nat /\ last[s] \in 0..clock /\ connected \in 1..clock /\ s \in Series
        /\ number[s] \in Nat /\ delay[s] \in 0..clock /\ samples \in SampleType
    BY SeriesNames DEF NumbersOK
  <1>2. before.total \in Nat /\ before.count \in Nat
    BY <1>1 DEF SampleType
  <1>3. /\ number'[s] = number[s] + 1 /\ last'[s] = clock
        /\ delay'[s] = IF last[s] = Never THEN clock - connected ELSE delay[s]
    BY DEF note_pace, NumbersOK
  <1> HIDE DEF before
  <1>4. CASE last[s] # Never
    <2>1. clock - last[s] \in Nat
      BY <1>1
    <2>2. after = Push(series, s, clock - last[s])
      BY <1>4 DEF GapSamples
    <2>3. /\ after \in SampleType
          /\ \A other \in Series \ {s} : after[other] = series[other]
          /\ after[s].count = before.count + 1
          /\ after[s].total = before.total + (clock - last[s])
      <3> DEFINE gap == clock - last[s]
      <3>1. series[s] = before /\ s \in Series
        BY <1>1 DEF before
      <3>2. gap \in Nat /\ after = Push(series, s, gap)
        BY <2>1, <2>2
      <3> HIDE DEF gap
      <3>3. /\ after \in SampleType
            /\ \A other \in Series \ {s} : after[other] = series[other]
            /\ after[s].count = series[s].count + 1
            /\ after[s].total = series[s].total + gap
        BY <3>1, <3>2, PushAdds
      <3> QED BY <3>1, <3>3 DEF gap
    <2>4. /\ before.count + 1 = number[s]
          /\ connected + delay[s] + before.total = last[s]
      BY <1>4 DEF StreamTelescopes, before
    <2> QED BY <1>1, <1>2, <1>3, <1>4, <2>3, <2>4 DEF before
  <1>5. CASE last[s] = Never
    <2>1. number[s] = 0 /\ before = NoSamples
      BY <1>1, <1>2, <1>5 DEF StreamTelescopes, Never, before
    <2>2. after = series
      BY <1>5 DEF GapSamples
    <2>3. after[s].count = 0 /\ after[s].total = 0
      BY <2>1, <2>2 DEF NoSamples, before
    <2> QED BY <1>1, <1>3, <1>5, <2>1, <2>2, <2>3 DEF before, NoSamples
  <1> QED BY <1>4, <1>5

\* Pace of the other streams.
LEMMA PaceOfOthers ==
  ASSUME NumbersOK, NEW s \in Streams, note_pace(s)
  PROVE  /\ \A other \in Streams \ {s} :
               /\ number'[other] = number[other] /\ last'[other] = last[other]
               /\ delay'[other] = delay[other]
         /\ number' \in [Streams -> Nat] /\ last' \in [Streams -> 0..clock]
         /\ delay' \in [Streams -> 0..clock]
  <1>1. clock \in Nat /\ clock \in 0..clock /\ clock - connected \in 0..clock
    BY DEF NumbersOK
  <1> QED BY <1>1 DEF NumbersOK, note_pace

BurstSeries == {"burst_size", "burst_duration", "burst_idle_gap"}

\* peer_stats.cpp:609-614.
LEMMA FlushAdds ==
  ASSUME NumbersOK, burst.start <= burst.last,
         NEW series \in SampleType, NEW after, after = FlushSamples(series)
  PROVE  /\ after \in SampleType
         /\ \A other \in Series \ {"burst_size", "burst_duration"} : after[other] = series[other]
         /\ ~burst.active => after = series
         /\ burst.active =>
              /\ after["burst_size"].count = series["burst_size"].count + 1
              /\ after["burst_size"].total = series["burst_size"].total + burst.size
              /\ after["burst_duration"].count = series["burst_duration"].count + 1
              /\ after["burst_duration"].total
                     = series["burst_duration"].total + (burst.last - burst.start)
  <1> DEFINE size == burst.size
             duration == burst.last - burst.start
             first == Push(series, "burst_size", size)
             second == Push(first, "burst_duration", duration)
  <1>1. size \in Nat /\ duration \in Nat
    BY DEF NumbersOK
  <1>2. after = IF burst.active THEN second ELSE series
    BY DEF FlushSamples
  <1> HIDE DEF size, duration
  <1>3. /\ first \in SampleType
        /\ \A other \in Series \ {"burst_size"} : first[other] = series[other]
        /\ first["burst_size"].count = series["burst_size"].count + 1
        /\ first["burst_size"].total = series["burst_size"].total + size
    BY <1>1, PushAdds, SeriesNames
  <1> HIDE DEF first
  <1>4. /\ second \in SampleType
        /\ \A other \in Series \ {"burst_duration"} : second[other] = first[other]
        /\ second["burst_duration"].count = first["burst_duration"].count + 1
        /\ second["burst_duration"].total = first["burst_duration"].total + duration
    <2>1. second = Push(first, "burst_duration", duration)
      OBVIOUS
    <2>2. first \in SampleType /\ "burst_duration" \in Series
      BY <1>3, SeriesNames
    <2> HIDE DEF second
    <2> QED BY <1>1, <2>1, <2>2, PushAdds
  <1> HIDE DEF second
  <1> QED BY <1>2, <1>3, <1>4, SeriesNames DEF size, duration

\* peer_stats.cpp:574-607.
LEMMA BurstAdds ==
  ASSUME NumbersOK, burst.start <= burst.last,
         NEW series \in SampleType, NEW after, after = BurstSamples(series)
  PROVE  /\ after \in SampleType
         /\ \A other \in Series \ BurstSeries : after[other] = series[other]
         /\ ~burst.active \/ Continues => after = series
         /\ burst.active /\ ~Continues =>
              /\ clock - burst.last > BurstGap
              /\ after["burst_size"].count = series["burst_size"].count + 1
              /\ after["burst_size"].total = series["burst_size"].total + burst.size
              /\ after["burst_duration"].count = series["burst_duration"].count + 1
              /\ after["burst_duration"].total
                     = series["burst_duration"].total + (burst.last - burst.start)
              /\ after["burst_idle_gap"].count = series["burst_idle_gap"].count + 1
              /\ after["burst_idle_gap"].total
                     = series["burst_idle_gap"].total + (clock - burst.last)
  <1>1. CASE ~burst.active \/ Continues
    BY <1>1 DEF BurstSamples
  <1>2. CASE burst.active /\ ~Continues
    <2> DEFINE flushed == FlushSamples(series)
               gap == clock - burst.last
    <2>1. gap \in Nat /\ clock \in Nat /\ burst.last \in Nat
      BY DEF NumbersOK
    <2>2. gap > BurstGap
      BY <1>2, <2>1, RecordAssumption DEF Continues
    <2>3. after = Push(flushed, "burst_idle_gap", gap)
      BY <1>2 DEF BurstSamples
    <2>4. /\ flushed \in SampleType
          /\ \A other \in Series \ {"burst_size", "burst_duration"} :
                 flushed[other] = series[other]
          /\ flushed["burst_size"].count = series["burst_size"].count + 1
          /\ flushed["burst_size"].total = series["burst_size"].total + burst.size
          /\ flushed["burst_duration"].count = series["burst_duration"].count + 1
          /\ flushed["burst_duration"].total
                 = series["burst_duration"].total + (burst.last - burst.start)
      BY <1>2, FlushAdds
    <2> HIDE DEF flushed, gap
    <2>5. /\ after \in SampleType
          /\ \A other \in Series \ {"burst_idle_gap"} : after[other] = flushed[other]
          /\ after["burst_idle_gap"].count = flushed["burst_idle_gap"].count + 1
          /\ after["burst_idle_gap"].total = flushed["burst_idle_gap"].total + gap
      <3>1. flushed \in SampleType /\ "burst_idle_gap" \in Series
        BY <2>4, SeriesNames
      <3> QED BY <2>1, <2>3, <3>1, PushAdds
    <2> QED BY <1>2, <2>2, <2>4, <2>5, SeriesNames DEF gap, BurstSeries
  <1> QED BY <1>1, <1>2

-----------------------------------------------------------------------------
(* The inductive invariant.                                                 *)

StreamsOK == \A s \in Streams : StreamTelescopes(s)

\* As long as the connection is open, a peer that has requested has a burst under way;
\* between two bursts no time of the gaps is lost.
BurstsOK ==
    /\ BurstsPartition /\ BurstsKeepTheGap
    /\ burst.start <= burst.last
    /\ ~burst.active => burst = NoBurst
    /\ burst.active => burst.size >= 1
    /\ active_connection /\ number["incoming_request"] > 0 => burst.active

\* The time of an open connection goes on; one that is closed is never active again.
WindowOK ==
    /\ WindowsTile
    /\ active_connection => disconnected = Never /\ ~final
    /\ ~active_connection =>
           disconnected # Never /\ ~window.active /\ connected + active_time <= disconnected

\* A request that is outstanding and was not given up is the last one of its block.
LatencyOK ==
    /\ LatencyOfLastRequest
    /\ \A b \in Blocks : asked[b] # Never /\ outstanding_requests[b] # Never =>
                             asked[b] = outstanding_requests[b]

RInv ==
    /\ NumbersOK /\ InteractionsOK /\ StreamsOK /\ BurstsOK /\ WindowOK
    /\ TransitionsAlternate /\ LatencyOK

-----------------------------------------------------------------------------
(* Bursts.                                                                  *)

\* Products: stated once, so that the steps are linear.
LEMMA OneMore ==
  ASSUME NEW a \in Int, NEW b \in Nat
  PROVE  /\ a * b \in Int /\ (a + 1) * b \in Int
         /\ (a + 1) * b = a * b + b
  OBVIOUS

LEMMA GoesOn ==
  ASSUME NEW a \in Nat, NEW b \in Nat, NEW sum \in Nat,
         NEW from \in Nat, NEW to \in Nat, NEW later \in Nat,
         from <= to, to <= later, a + b + (to - from) = sum
  PROVE  a + b + (later - from) = sum + (later - to)
  OBVIOUS

LEMMA InitRInv == Init => RInv
  <1> SUFFICES ASSUME Init PROVE RInv
    OBVIOUS
  <1>1. NumbersOK
    <2>1. samples \in SampleType /\ answered \in [count : Nat, total : Nat]
      BY DEF Init, SampleType, NoSamples
    <2>2. choking \in BOOLEAN
      BY DEF Init
    <2>3. /\ asked \in [Blocks -> 0..clock] /\ outstanding_requests \in [Blocks -> 0..clock]
          /\ last \in [Streams -> 0..clock] /\ delay \in [Streams -> 0..clock]
          /\ number \in [Streams -> Nat]
      BY DEF Init, Never
    <2>4. /\ burst \in [active : BOOLEAN, size : Nat, start : 0..clock, last : 0..clock]
          /\ window \in [since : 1..clock, active : BOOLEAN]
          /\ choke \in [initialized : BOOLEAN, flag : BOOLEAN, choked : Nat, unchoked : Nat]
      BY DEF Init, NoBurst
    <2>5. /\ clock \in Nat \ {0} /\ connected \in 1..clock /\ disconnected \in 0..clock
          /\ last_interaction \in 0..clock /\ first_interaction \in 0..clock
          /\ active_time \in Nat /\ idle_time \in Nat
      BY DEF Init, Never
    <2>6. active_connection \in BOOLEAN /\ final \in BOOLEAN /\ initially \in BOOLEAN
      BY DEF Init
    <2> QED BY <2>1, <2>2, <2>3, <2>4, <2>5, <2>6 DEF NumbersOK
  <1>2. /\ \A s \in Series : samples[s].count = 0 /\ samples[s].total = 0
        /\ \A s \in Streams : number[s] = 0 /\ last[s] = 0 /\ samples[s] = NoSamples
        /\ "incoming_request" \in Streams
    BY SeriesNames DEF Init, NoSamples, Never, Streams
  <1>3. InteractionsOK /\ StreamsOK
    BY <1>2, SeriesNames DEF Init, InteractionsOK, InteractionsTelescope, StreamsOK,
       StreamTelescopes, Never
  <1>4. BurstsOK
    BY <1>2, SeriesNames, RecordAssumption
    DEF Init, BurstsOK, BurstsPartition, BurstsKeepTheGap, NoBurst, One
  <1>5. WindowOK /\ TransitionsAlternate
    BY DEF Init, WindowOK, WindowsTile, TransitionsAlternate, Never
  <1>6. LatencyOK
    BY SeriesNames DEF Init, LatencyOK, LatencyOfLastRequest, NoSamples
  <1> QED BY <1>1, <1>3, <1>4, <1>5, <1>6 DEF RInv

\* A step that leaves the bursts and the requests of the peer alone.
LEMMA BurstsFrame ==
  ASSUME BurstsOK, UNCHANGED <<burst, number["incoming_request"], last["incoming_request"]>>,
         active_connection' = active_connection,
         samples'["incoming_request"] = samples["incoming_request"],
         \A s \in BurstSeries : samples'[s] = samples[s]
  PROVE  BurstsOK'
  BY DEF BurstsOK, BurstsPartition, BurstsKeepTheGap, BurstSeries

\* peer_stats.cpp:245-265, 574-607: a request goes on with the burst or begins one.
LEMMA BurstsRequest ==
  ASSUME RInv, active_connection, active_connection' = active_connection,
         note_incoming_request_burst,
         NEW before \in SampleType, NEW after, after = BurstSamples(before),
         \A s \in BurstSeries : before[s] = samples[s],
         number'["incoming_request"] = number["incoming_request"] + 1,
         last'["incoming_request"] = clock,
         last["incoming_request"] # Never =>
             before["incoming_request"].total
                 = samples["incoming_request"].total + (clock - last["incoming_request"]),
         last["incoming_request"] = Never =>
             /\ number["incoming_request"] = 0
             /\ before["incoming_request"].total = samples["incoming_request"].total,
         samples' = after
  PROVE  BurstsOK'
  <1> DEFINE n == number["incoming_request"]
             l == last["incoming_request"]
             size == samples["burst_size"]
             duration == samples["burst_duration"]
             idle == samples["burst_idle_gap"]
             gaps == samples["incoming_request"].total
  <1>1. /\ n \in Nat /\ l \in 0..clock /\ clock \in Nat \ {0} /\ gaps \in Nat
        /\ size.count \in Nat /\ size.total \in Nat
        /\ duration.count \in Nat /\ duration.total \in Nat
        /\ idle.count \in Nat /\ idle.total \in Nat
        /\ burst.start \in 0..clock /\ burst.last \in 0..clock /\ burst.size \in Nat
        /\ BurstGap \in Nat /\ burst.active \in BOOLEAN
    BY SeriesNames, RecordAssumption DEF RInv, NumbersOK, SampleType, Streams
  <1>2. /\ size.total + burst.size = n
        /\ duration.total + idle.total + (burst.last - burst.start) = gaps
        /\ size.count = duration.count
        /\ burst.start <= burst.last
    BY DEF RInv, BurstsOK, BurstsPartition
  <1>3. /\ burst.active => burst.last = l /\ burst.size >= 1
        /\ ~burst.active => burst = NoBurst /\ n = 0
    BY <1>1 DEF RInv, BurstsOK, BurstsPartition
  <1>4. burst.active => idle.count = size.count
    <2>1. idle.count + One(n > 0) = size.count + One(burst.active)
      BY DEF RInv, BurstsOK, BurstsPartition
    <2>2. burst.active => n > 0
      BY <1>1, <1>2, <1>3
    <2> HIDE DEF n, size, idle
    <2> QED BY <1>1, <2>1, <2>2 DEF One
  <1>5. ~burst.active => idle.count = size.count
    <2>1. idle.count + One(n > 0) = size.count + One(burst.active)
      BY DEF RInv, BurstsOK, BurstsPartition
    <2>2. ~burst.active => ~(n > 0)
      BY <1>1, <1>3
    <2> HIDE DEF n, size, idle
    <2> QED BY <1>1, <2>1, <2>2 DEF One
  <1>6. /\ idle.total >= idle.count * (BurstGap + 1)
        /\ burst.active => duration.total + (burst.last - burst.start)
                               <= (n - (size.count + 1)) * BurstGap
        /\ ~burst.active => duration.total <= (0 - size.count) * BurstGap
    <2>1. /\ idle.total >= idle.count * (BurstGap + 1)
          /\ duration.total + (burst.last - burst.start)
                 <= (n - (size.count + One(burst.active))) * BurstGap
      BY DEF RInv, BurstsOK, BurstsKeepTheGap
    <2>2. CASE burst.active
      <3>1. One(burst.active) = 1 BY <2>2 DEF One
      <3> QED BY <2>1, <2>2, <3>1
    <2>3. CASE ~burst.active
      <3>1. One(burst.active) = 0 BY <2>3 DEF One
      <3>2. n - (size.count + 0) = 0 - size.count /\ burst.last - burst.start = 0
        BY <1>1, <1>3, <2>3 DEF NoBurst
      <3> QED BY <1>1, <2>1, <2>3, <3>1, <3>2
    <2> QED BY <2>2, <2>3
  <1>7. /\ samples'["burst_size"] = after["burst_size"]
        /\ samples'["burst_duration"] = after["burst_duration"]
        /\ samples'["burst_idle_gap"] = after["burst_idle_gap"]
        /\ samples'["incoming_request"] = after["incoming_request"]
        /\ after["incoming_request"] = before["incoming_request"]
        /\ before["burst_size"] = size /\ before["burst_duration"] = duration
        /\ before["burst_idle_gap"] = idle
    BY <1>2, BurstAdds, SeriesNames DEF RInv, BurstSeries, Streams
  <1> DEFINE size1 == after["burst_size"]
             duration1 == after["burst_duration"]
             idle1 == after["burst_idle_gap"]
             gaps1 == after["incoming_request"].total
  <1>8. size1.count \in Nat /\ duration1.total \in Nat /\ idle1.count \in Nat /\ idle1.total \in Nat
    BY BurstAdds, SeriesNames DEF RInv, BurstsOK, SampleType
  <1>9. ASSUME burst'.active,
               burst'.start \in Nat, burst'.last = clock, burst'.start <= clock,
               burst'.size >= 1,
               size1.total + burst'.size = n + 1,
               duration1.total + idle1.total + (clock - burst'.start) = gaps1,
               size1.count = duration1.count, idle1.count = size1.count,
               idle1.total >= idle1.count * (BurstGap + 1),
               duration1.total + (clock - burst'.start)
                   <= (n + 1 - (size1.count + 1)) * BurstGap
        PROVE  BurstsOK'
    <2>1. One(n + 1 > 0) = 1 /\ One(burst'.active) = 1
      BY <1>1, <1>9 DEF One
    <2>2. BurstsPartition'
      BY <1>7, <1>9, <2>1 DEF BurstsPartition
    <2>3. BurstsKeepTheGap'
      <3>1. /\ samples'["burst_idle_gap"] = idle1 /\ samples'["burst_duration"] = duration1
            /\ samples'["burst_size"] = size1 /\ number'["incoming_request"] = n + 1
        BY <1>7
      <3> HIDE DEF idle1, duration1, size1, n
      <3>2. samples'["burst_idle_gap"].total
                >= samples'["burst_idle_gap"].count * (BurstGap + 1)
        BY <1>9, <3>1
      <3>3. samples'["burst_duration"].total + (burst'.last - burst'.start)
                <= (number'["incoming_request"]
                        - (samples'["burst_size"].count + One(burst'.active))) * BurstGap
        <4>1. number'["incoming_request"] - (samples'["burst_size"].count + One(burst'.active))
                  = n + 1 - (size1.count + 1)
          BY <1>1, <1>8, <2>1, <3>1
        <4> QED BY <1>9, <3>1, <4>1
      <3> QED BY <3>2, <3>3 DEF BurstsKeepTheGap
    <2> QED BY <1>1, <1>9, <2>2, <2>3 DEF BurstsOK
  <1> HIDE DEF n, l, size, duration, idle, gaps
  <1>10. CASE burst.active /\ Continues
    <2>1. /\ after = before /\ clock - burst.last <= BurstGap
          /\ burst' = [burst EXCEPT !.size = burst.size + 1, !.last = clock]
      BY <1>2, <1>7, <1>10, BurstAdds DEF Continues, note_incoming_request_burst, RInv
    <2>2. /\ burst'.active /\ burst'.size = burst.size + 1 /\ burst'.last = clock
          /\ burst'.start = burst.start
      BY <1>10, <2>1 DEF RInv, NumbersOK
    <2>3. l # Never
      <3>1. n > 0 BY <1>1, <1>2, <1>3, <1>10
      <3>2. /\ connected + delay["incoming_request"] + gaps = l
            /\ connected \in Nat \ {0} /\ delay["incoming_request"] \in Nat
        BY <3>1 DEF RInv, StreamsOK, StreamTelescopes, n, l, gaps, Streams, NumbersOK
      <3> QED BY <1>1, <3>2 DEF Never
    <2>4. gaps1 = gaps + (clock - l)
      BY <1>7, <2>3 DEF gaps, l
    <2>5. size1 = size /\ duration1 = duration /\ idle1 = idle
      BY <1>7, <2>1
    <2>6. (n + 1 - (size.count + 1)) * BurstGap
              = (n - (size.count + 1)) * BurstGap + BurstGap
      BY <1>1
    <2> HIDE DEF size1, duration1, idle1, gaps1
    <2>9. duration.total + (clock - burst.start) <= (n + 1 - (size.count + 1)) * BurstGap
      <3> DEFINE x == (n - (size.count + 1)) * BurstGap
                 y == (n + 1 - (size.count + 1)) * BurstGap
      <3>1. x \in Int /\ y = x + BurstGap /\ duration.total + (burst.last - burst.start) <= x
        BY <1>1, <1>6, <1>10, <2>6
      <3> HIDE DEF x, y
      <3>2. duration.total + (clock - burst.start) <= y
        BY <1>1, <2>1, <3>1
      <3> QED BY <3>2 DEF y
    <2>10. duration.total + idle.total + (clock - burst.start) = gaps + (clock - l)
      <3>1. burst.last = l BY <1>3, <1>10
      <3>2. duration.total + idle.total + (l - burst.start) = gaps
        BY <1>2, <3>1
      <3>3. /\ duration.total \in Nat /\ idle.total \in Nat /\ gaps \in Nat
            /\ burst.start \in Nat /\ l \in Nat /\ clock \in Nat
            /\ burst.start <= l /\ l <= clock
        BY <1>1, <1>2, <3>1
      <3> QED BY <3>2, <3>3, GoesOn
    <2>11. /\ burst'.start \in Nat /\ burst'.start <= clock /\ burst'.size >= 1
           /\ size.total + burst'.size = n + 1
      BY <1>1, <1>2, <2>2
    <2>12. idle.total >= idle.count * (BurstGap + 1) /\ idle.count = size.count
      BY <1>4, <1>6, <1>10
    <2> QED
      BY <1>2, <1>9, <2>2, <2>4, <2>5, <2>9, <2>10, <2>11, <2>12
  <1>11. CASE burst.active /\ ~Continues
    <2>1. /\ clock - burst.last > BurstGap
          /\ size1.count = size.count + 1 /\ size1.total = size.total + burst.size
          /\ duration1.count = duration.count + 1
          /\ duration1.total = duration.total + (burst.last - burst.start)
          /\ idle1.count = idle.count + 1
          /\ idle1.total = idle.total + (clock - burst.last)
      BY <1>2, <1>7, <1>11, BurstAdds DEF RInv
    <2>2. burst' = NewBurst
      BY <1>11 DEF note_incoming_request_burst
    <2>3. l # Never
      <3>1. n > 0 BY <1>1, <1>2, <1>3, <1>11
      <3>2. /\ connected + delay["incoming_request"] + gaps = l
            /\ connected \in Nat \ {0} /\ delay["incoming_request"] \in Nat
        BY <3>1 DEF RInv, StreamsOK, StreamTelescopes, n, l, gaps, Streams, NumbersOK
      <3> QED BY <1>1, <3>2 DEF Never
    <2>4. gaps1 = gaps + (clock - l) /\ burst.last = l
      BY <1>7, <1>3, <1>11, <2>3 DEF gaps, l
    <2> HIDE DEF size1, duration1, idle1, gaps1
    <2>5. /\ size1.total + 1 = n + 1
          /\ size1.count = duration1.count /\ idle1.count = size1.count
      BY <1>1, <1>2, <1>4, <1>8, <1>11, <2>1
    <2>6. duration1.total + idle1.total + (clock - clock) = gaps1
      BY <1>1, <1>2, <1>8, <2>1, <2>4
    <2>7. idle1.total >= idle1.count * (BurstGap + 1)
      <3> DEFINE x == idle.count * (BurstGap + 1)
      <3>1. x \in Nat /\ (idle.count + 1) * (BurstGap + 1) = x + (BurstGap + 1)
        BY <1>1, OneMore
      <3> HIDE DEF x
      <3>2. idle.total >= x BY <1>6 DEF x
      <3> QED BY <1>1, <2>1, <3>1, <3>2
    <2>8. duration1.total + (clock - clock) <= (n + 1 - (size1.count + 1)) * BurstGap
      <3>1. n + 1 - (size1.count + 1) = n - (size.count + 1)
        BY <1>1, <2>1
      <3>2. duration1.total <= (n - (size.count + 1)) * BurstGap
        BY <1>6, <1>11, <2>1
      <3> QED BY <1>1, <1>8, <3>1, <3>2
    <2> QED BY <1>1, <1>9, <2>2, <2>5, <2>6, <2>7, <2>8 DEF NewBurst
  <1>12. CASE ~burst.active
    <2>1. after = before
      BY <1>2, <1>12, BurstAdds DEF RInv
    <2>2. burst' = NewBurst
      BY <1>12 DEF note_incoming_request_burst, Continues
    <2>3. n = 0 /\ burst.size = 0 /\ burst.last = 0 /\ burst.start = 0
      BY <1>3, <1>12 DEF NoBurst
    <2>4. l = Never
      BY <2>3 DEF RInv, StreamsOK, StreamTelescopes, Streams, n, l
    <2>5. gaps1 = gaps
      BY <1>7, <2>4 DEF gaps, l
    <2>6. size1 = size /\ duration1 = duration /\ idle1 = idle
      BY <1>7, <2>1
    <2> HIDE DEF size1, duration1, idle1, gaps1
    <2>7. /\ size1.total + 1 = n + 1
          /\ size1.count = duration1.count /\ idle1.count = size1.count
          /\ duration1.total + idle1.total + (clock - clock) = gaps1
      BY <1>1, <1>2, <1>5, <1>12, <2>3, <2>5, <2>6
    <2>8. duration1.total + (clock - clock) <= (n + 1 - (size1.count + 1)) * BurstGap
      <3>1. n + 1 - (size1.count + 1) = 0 - size.count
        BY <1>1, <2>3, <2>6
      <3> QED BY <1>1, <1>6, <1>12, <2>6, <3>1
    <2> QED BY <1>1, <1>9, <1>6, <2>2, <2>6, <2>7, <2>8 DEF NewBurst
  <1> QED BY <1>10, <1>11, <1>12

\* peer_stats.cpp:609-614: with the connection the burst ends, if there is one.
LEMMA BurstsEnd ==
  ASSUME RInv, burst' = NoBurst, samples' = FlushSamples(samples),
         active_connection' = FALSE,
         number'["incoming_request"] = number["incoming_request"]
  PROVE  BurstsOK'
  <1> DEFINE n == number["incoming_request"]
             size == samples["burst_size"]
             duration == samples["burst_duration"]
             idle == samples["burst_idle_gap"]
             gaps == samples["incoming_request"].total
  <1>1. /\ n \in Nat /\ gaps \in Nat
        /\ size.count \in Nat /\ size.total \in Nat
        /\ duration.count \in Nat /\ duration.total \in Nat
        /\ idle.count \in Nat /\ idle.total \in Nat
        /\ burst.start \in Nat /\ burst.last \in Nat /\ burst.size \in Nat
        /\ BurstGap \in Nat /\ samples \in SampleType
    BY SeriesNames, RecordAssumption DEF RInv, NumbersOK, SampleType, Streams
  <1>2. CASE ~burst.active
    <2>1. burst' = burst /\ samples' = samples
      BY <1>2 DEF RInv, BurstsOK, FlushSamples
    <2> QED BY <1>2, <2>1 DEF RInv, BurstsOK, BurstsPartition, BurstsKeepTheGap
  <1>3. CASE burst.active
    <2> DEFINE size1 == samples'["burst_size"]
               duration1 == samples'["burst_duration"]
    <2>1. /\ samples' \in SampleType
          /\ size1.count = size.count + 1 /\ size1.total = size.total + burst.size
          /\ duration1.count = duration.count + 1
          /\ duration1.total = duration.total + (burst.last - burst.start)
          /\ samples'["burst_idle_gap"] = idle
          /\ samples'["incoming_request"].total = gaps
      BY <1>1, <1>3, FlushAdds, SeriesNames DEF RInv, BurstsOK, Streams
    <2>2. /\ size.total + burst.size = n
          /\ duration.total + idle.total + (burst.last - burst.start) = gaps
          /\ size.count = duration.count /\ burst.start <= burst.last
      BY DEF RInv, BurstsOK, BurstsPartition
    <2>3. idle.count + One(n > 0) = size.count + 1
      BY <1>3 DEF RInv, BurstsOK, BurstsPartition, One
    <2>4. /\ idle.total >= idle.count * (BurstGap + 1)
          /\ duration.total + (burst.last - burst.start) <= (n - (size.count + 1)) * BurstGap
      BY <1>3 DEF RInv, BurstsOK, BurstsKeepTheGap, One
    <2>5. /\ burst'.active = FALSE /\ burst'.size = 0
          /\ burst'.start = 0 /\ burst'.last = 0 /\ One(burst'.active) = 0
      BY DEF NoBurst, One
    <2> HIDE DEF n, size, duration, idle, gaps, size1, duration1
    <2>6. BurstsPartition'
      <3>1. One(n > 0) \in Nat
        BY DEF One
      <3>2. /\ size1.total + 0 = n
            /\ duration1.total + idle.total + (0 - 0) = gaps
            /\ size1.count = duration1.count
            /\ idle.count + One(n > 0) = size1.count + 0
        BY <1>1, <2>1, <2>2, <2>3, <3>1
      <3> QED BY <2>1, <2>5, <3>2 DEF BurstsPartition, n, size1, duration1
    <2>7. BurstsKeepTheGap'
      <3>1. size1.count + 0 = size.count + 1 /\ duration1.total + (0 - 0) = duration1.total
        BY <1>1, <2>1
      <3>2. duration1.total + (0 - 0) <= (n - (size1.count + 0)) * BurstGap
        BY <1>1, <2>1, <2>4, <3>1
      <3> QED BY <2>1, <2>4, <2>5, <3>2 DEF BurstsKeepTheGap, n, size1, duration1
    <2> QED BY <2>5, <2>6, <2>7 DEF BurstsOK, NoBurst
  <1> QED BY <1>2, <1>3

-----------------------------------------------------------------------------
(* The time of a connection and the transitions.                            *)

\* The actions that leave all of this alone.
LEMMA TimeFrame ==
  ASSUME \/ \E b \in Blocks :
               \/ note_request_sent(b) \/ note_block_response(b) \/ note_timeout(b)
               \/ Cancel(b) \/ note_block_uploaded(b) \/ PeerCancel(b)
         \/ \E r \in PeerRequests : note_incoming_request(r)
         \/ note_snubbed \/ ChokeChanges \/ note_alert_loss
  PROVE  UNCHANGED <<clock, life, activity, flags>>
  BY DEF note_request_sent, note_block_response, note_timeout, Cancel,
         note_incoming_request, note_block_uploaded, PeerCancel, note_snubbed,
         ChokeChanges, note_alert_loss, flags, life, activity

\* peer_stats.cpp:164-175, 418-429, 621-636.
LEMMA WindowStep ==
  ASSUME RInv, Next
  PROVE  WindowOK'
  <1>1. /\ clock \in Nat /\ connected \in 1..clock /\ disconnected \in 0..clock
        /\ window \in [since : 1..clock, active : BOOLEAN]
        /\ active_time \in Nat /\ idle_time \in Nat
        /\ connected + active_time + idle_time = window.since
        /\ final => window.since = clock
        /\ active_connection => disconnected = Never /\ ~final
        /\ ~active_connection =>
               /\ disconnected # Never /\ ~window.active
               /\ connected + active_time <= disconnected
    BY DEF RInv, NumbersOK, WindowOK, WindowsTile
  <1>2. CASE Tick
    BY <1>1, <1>2 DEF Tick, life, activity, WindowOK, WindowsTile
  <1>3. ASSUME NEW active_now \in BOOLEAN, update_from_snapshot(active_now)
        PROVE  WindowOK'
    BY <1>1, <1>3
    DEF update_from_snapshot, Open, advance_activity_window, life, WindowOK, WindowsTile
  <1>4. CASE Disconnect
    BY <1>1, <1>4
    DEF Disconnect, note_disconnect, Open, advance_activity_window, WindowOK, WindowsTile, Never
  \* A record that is closed gets the time since then as idle time only.
  <1>5. CASE finalize
    <2>1. CASE active_connection
      BY <1>1, <1>5, <2>1
      DEF finalize, note_disconnect, advance_activity_window, WindowOK, WindowsTile, Never
    <2>2. CASE ~active_connection
      BY <1>1, <1>5, <2>2
      DEF finalize, advance_activity_window, WindowOK, WindowsTile, Never
    <2> QED BY <2>1, <2>2
  <1>6. CASE UNCHANGED <<clock, life, activity>>
    BY <1>6 DEF RInv, life, activity, WindowOK, WindowsTile
  <1> QED BY <1>2, <1>3, <1>4, <1>5, <1>6, TimeFrame DEF Next

\* peer_stats.cpp:382-394.
LEMMA TransitionsStep ==
  ASSUME RInv, Next
  PROVE  TransitionsAlternate'
  <1>1. CASE UNCHANGED flags
    BY <1>1 DEF RInv, flags, TransitionsAlternate
  <1>2. ASSUME NEW active_now \in BOOLEAN, update_from_snapshot(active_now)
        PROVE  TransitionsAlternate'
    BY <1>2
    DEF RInv, NumbersOK, TransitionsAlternate, update_from_snapshot, Choke, One
  <1>3. CASE Tick \/ Disconnect \/ finalize
    BY <1>1, <1>3 DEF Tick, Disconnect, finalize
  <1> QED BY <1>1, <1>2, <1>3, TimeFrame DEF Next

-----------------------------------------------------------------------------
(* The handlers.                                                            *)

AccountsOK == NumbersOK /\ InteractionsOK /\ StreamsOK /\ BurstsOK /\ LatencyOK

\* A step that leaves the streams alone.
LEMMA StreamsFrame ==
  ASSUME StreamsOK, UNCHANGED pace, connected' = connected,
         \A s \in Streams : samples'[s] = samples[s]
  PROVE  StreamsOK'
  BY DEF StreamsOK, StreamTelescopes, pace

\* A step that adds to one stream.
LEMMA StreamsStep ==
  ASSUME RInv, NEW s \in Streams, note_pace(s), connected' = connected,
         number'[s] = number[s] + 1,
         samples'[s].count + 1 = number'[s],
         connected + delay'[s] + samples'[s].total = last'[s],
         \A other \in Streams \ {s} : samples'[other] = samples[other]
  PROVE  StreamsOK'
  <1>1. number[s] \in Nat
    BY DEF RInv, NumbersOK
  <1>2. number'[s] # 0
    BY <1>1
  <1>3. \A other \in Streams \ {s} :
            /\ number'[other] = number[other] /\ last'[other] = last[other]
            /\ delay'[other] = delay[other]
    BY PaceOfOthers DEF RInv
  <1> QED BY <1>2, <1>3 DEF RInv, StreamsOK, StreamTelescopes

\* A step that is an interaction.
LEMMA InteractionStep ==
  ASSUME RInv, note_interaction, clock' = clock,
         samples'["interaction"] = InteractionSamples(samples)["interaction"]
  PROVE  /\ InteractionsOK'
         /\ first_interaction' \in 0..clock /\ last_interaction' \in 0..clock
  <1>1. /\ first_interaction' + samples'["interaction"].total = last_interaction'
        /\ first_interaction' \in 1..clock /\ last_interaction' \in 1..clock
        /\ clock \in Nat
    BY InteractionAdds DEF RInv, NumbersOK
  <1> QED BY <1>1 DEF InteractionsOK, InteractionsTelescope, Never

\* peer_stats.cpp:187-208.
LEMMA RequestSentKeeps ==
  ASSUME RInv, NEW b \in Blocks, note_request_sent(b)
  PROVE  AccountsOK'
  <1> DEFINE r == "request"
             before == InteractionSamples(samples)
  <1>1. /\ note_interaction /\ note_pace(r) /\ r \in Streams
        /\ samples' = GapSamples(r, before)
        /\ outstanding_requests' = [outstanding_requests EXCEPT ![b] = clock]
        /\ asked' = [asked EXCEPT ![b] = clock]
        /\ UNCHANGED <<clock, choking, life, answered, burst, activity, flags>>
    BY DEF note_request_sent, Outstanding, Streams
  <1>2. /\ before \in SampleType
        /\ \A other \in Series \ {"interaction"} : before[other] = samples[other]
    BY <1>1, InteractionAdds DEF RInv
  <1> HIDE DEF before
  <1>3. /\ samples' \in SampleType
        /\ \A other \in Series \ {r} : samples'[other] = before[other]
        /\ number'[r] = number[r] + 1 /\ samples'[r].count + 1 = number'[r]
        /\ connected + delay'[r] + samples'[r].total = last'[r]
    <2>1. StreamTelescopes(r) /\ before[r] = samples[r]
      BY <1>1, <1>2, SeriesNames DEF RInv, StreamsOK
    <2> QED BY <1>1, <1>2, <2>1, GapAdds DEF RInv
  <1>4. /\ number' \in [Streams -> Nat] /\ last' \in [Streams -> 0..clock]
        /\ delay' \in [Streams -> 0..clock]
        /\ number'["incoming_request"] = number["incoming_request"]
        /\ last'["incoming_request"] = last["incoming_request"]
    BY <1>1, PaceOfOthers DEF RInv, Streams
  <1>5. InteractionsOK' /\ first_interaction' \in 0..clock /\ last_interaction' \in 0..clock
    BY <1>1, <1>3, InteractionStep, SeriesNames DEF before
  <1>6. StreamsOK'
    BY <1>1, <1>2, <1>3, StreamsStep, SeriesNames DEF life
  <1>7. BurstsOK'
    BY <1>1, <1>2, <1>3, <1>4, BurstsFrame, SeriesNames
    DEF RInv, life, BurstSeries, Streams
  <1>8. NumbersOK'
    BY <1>1, <1>3, <1>4, <1>5 DEF RInv, NumbersOK, life, activity, flags
  <1>9. LatencyOK'
    <2>1. samples'["block_latency"] = samples["block_latency"]
      BY <1>2, <1>3, SeriesNames DEF Streams
    <2> QED BY <1>1, <2>1 DEF RInv, LatencyOK, LatencyOfLastRequest, NumbersOK
  <1> QED BY <1>5, <1>6, <1>7, <1>8, <1>9 DEF AccountsOK

\* peer_stats.cpp:210-243, 303-317: what only interacts, and may measure a latency.
LEMMA InteractionOnly ==
  ASSUME RInv, note_interaction, UNCHANGED <<pace, burst>>,
         connected' = connected, active_connection' = active_connection, clock' = clock,
         samples' \in SampleType,
         \A other \in Series \ {"block_latency"} :
             samples'[other] = InteractionSamples(samples)[other]
  PROVE  /\ InteractionsOK' /\ StreamsOK' /\ BurstsOK'
         /\ first_interaction' \in 0..clock /\ last_interaction' \in 0..clock
  <1>1. \A other \in Series \ {"interaction", "block_latency"} : samples'[other] = samples[other]
    BY InteractionAdds DEF RInv
  <1>2. InteractionsOK' /\ first_interaction' \in 0..clock /\ last_interaction' \in 0..clock
    BY InteractionStep, SeriesNames
  <1>3. StreamsOK'
    BY <1>1, StreamsFrame, SeriesNames DEF RInv
  <1>4. BurstsOK'
    BY <1>1, BurstsFrame, SeriesNames DEF RInv, pace, BurstSeries, Streams
  <1> QED BY <1>2, <1>3, <1>4

\* peer_stats.cpp:210-225.
LEMMA BlockResponseKeeps ==
  ASSUME RInv, NEW b \in Blocks, note_block_response(b)
  PROVE  AccountsOK'
  <1> DEFINE before == InteractionSamples(samples)
             sent == outstanding_requests[b]
             latency == clock - sent
  <1>1. /\ note_interaction /\ asked[b] # Never
        /\ samples' = IF sent # Never THEN Push(before, "block_latency", latency) ELSE before
        /\ answered' = IF sent # Never THEN Add(answered, clock - asked[b]) ELSE answered
        /\ outstanding_requests' = [outstanding_requests EXCEPT ![b] = Never]
        /\ asked' \in {asked, [asked EXCEPT ![b] = Never]}
        /\ UNCHANGED <<clock, choking, life, pace, burst, activity, flags>>
    BY DEF note_block_response, Erase
  <1>2. /\ before \in SampleType
        /\ \A other \in Series \ {"interaction"} : before[other] = samples[other]
    BY <1>1, InteractionAdds DEF RInv
  <1>3. /\ clock \in Nat /\ sent \in 0..clock /\ asked[b] \in 0..clock
        /\ sent # Never => asked[b] = sent
        /\ samples["block_latency"] = answered
        /\ answered \in [count : Nat, total : Nat]
    BY <1>1 DEF RInv, NumbersOK, LatencyOK, LatencyOfLastRequest
  <1>4. latency \in Nat
    BY <1>3
  <1> HIDE DEF before, latency
  <1>5. /\ samples' \in SampleType
        /\ \A other \in Series \ {"block_latency"} : samples'[other] = before[other]
        /\ samples'["block_latency"]
               = IF sent # Never THEN Add(before["block_latency"], latency)
                 ELSE before["block_latency"]
    <2>1. CASE sent # Never
      <3>1. samples' = Push(before, "block_latency", latency)
        BY <1>1, <2>1
      <3>2. samples' \in SampleType
            /\ \A other \in Series \ {"block_latency"} : samples'[other] = before[other]
        <4>1. before \in SampleType /\ "block_latency" \in Series
          BY <1>2, SeriesNames
        <4> QED BY <1>4, <3>1, <4>1, PushAdds
      <3>3. samples'["block_latency"] = Add(before["block_latency"], latency)
        BY <1>2, <3>1, SeriesNames DEF Push, SampleType
      <3> QED BY <2>1, <3>2, <3>3
    <2>2. CASE sent = Never
      BY <1>1, <1>2, <2>2
    <2> QED BY <2>1, <2>2
  <1>6. /\ InteractionsOK' /\ StreamsOK' /\ BurstsOK'
        /\ first_interaction' \in 0..clock /\ last_interaction' \in 0..clock
    BY <1>1, <1>5, InteractionOnly DEF before, life
  <1>7. samples'["block_latency"] = answered'
    BY <1>1, <1>2, <1>3, <1>5, SeriesNames DEF latency, Streams
  <1>8. answered' \in [count : Nat, total : Nat]
    BY <1>1, <1>3 DEF Add
  <1>9. LatencyOK'
    BY <1>1, <1>7 DEF RInv, NumbersOK, LatencyOK, LatencyOfLastRequest
  <1>10. NumbersOK'
    <2>1. /\ asked' \in [Blocks -> 0..clock]
          /\ outstanding_requests' \in [Blocks -> 0..clock]
      BY <1>1, <1>3 DEF RInv, NumbersOK, Never
    <2> QED
      BY <1>1, <1>5, <1>6, <1>8, <2>1 DEF RInv, NumbersOK, life, activity, flags, pace
  <1> QED BY <1>6, <1>9, <1>10 DEF AccountsOK

\* peer_stats.cpp:227-243.
LEMMA TimeoutKeeps ==
  ASSUME RInv, NEW b \in Blocks, note_timeout(b)
  PROVE  AccountsOK'
  <1>1. /\ note_interaction
        /\ samples' = InteractionSamples(samples)
        /\ outstanding_requests' = [outstanding_requests EXCEPT ![b] = Never]
        /\ asked' \in {asked, [asked EXCEPT ![b] = Never]}
        /\ UNCHANGED <<clock, choking, life, pace, answered, burst, activity, flags>>
    BY DEF note_timeout, Erase
  <1>2. /\ samples' \in SampleType /\ samples'["block_latency"] = samples["block_latency"]
    BY <1>1, InteractionAdds, SeriesNames DEF RInv, Streams
  <1>3. /\ InteractionsOK' /\ StreamsOK' /\ BurstsOK'
        /\ first_interaction' \in 0..clock /\ last_interaction' \in 0..clock
    BY <1>1, <1>2, InteractionOnly DEF life
  <1>4. LatencyOK'
    BY <1>1, <1>2 DEF RInv, NumbersOK, LatencyOK, LatencyOfLastRequest
  <1>5. NumbersOK'
    <2>1. /\ asked' \in [Blocks -> 0..clock]
          /\ outstanding_requests' \in [Blocks -> 0..clock]
      BY <1>1 DEF RInv, NumbersOK, Never
    <2> QED
      BY <1>1, <1>2, <1>3, <2>1 DEF RInv, NumbersOK, life, activity, flags, pace
  <1> QED BY <1>3, <1>4, <1>5 DEF AccountsOK

\* peer_stats.cpp:303-317.
LEMMA SnubbedKeeps ==
  ASSUME RInv, note_snubbed
  PROVE  AccountsOK'
  <1>1. /\ note_interaction
        /\ samples' = InteractionSamples(samples)
        /\ UNCHANGED <<clock, asked, choking, life, pace, requests, burst, activity, flags>>
    BY DEF note_snubbed, peer
  <1>2. /\ samples' \in SampleType /\ samples'["block_latency"] = samples["block_latency"]
    BY <1>1, InteractionAdds, SeriesNames DEF RInv, Streams
  <1>3. /\ InteractionsOK' /\ StreamsOK' /\ BurstsOK'
        /\ first_interaction' \in 0..clock /\ last_interaction' \in 0..clock
    BY <1>1, <1>2, InteractionOnly DEF life
  <1>4. LatencyOK'
    BY <1>1, <1>2 DEF RInv, LatencyOK, LatencyOfLastRequest, requests
  <1>5. NumbersOK'
    BY <1>1, <1>2, <1>3 DEF RInv, NumbersOK, life, activity, flags, pace, requests
  <1> QED BY <1>3, <1>4, <1>5 DEF AccountsOK

\* peer_stats.cpp:319-416.
LEMMA SnapshotKeeps ==
  ASSUME RInv, NEW active_now \in BOOLEAN, update_from_snapshot(active_now)
  PROVE  AccountsOK'
  <1>1. /\ UNCHANGED <<clock, asked, choking, life, pace, requests, burst>>
        /\ choke' = Choke
        /\ initially' = IF choke.initialized THEN initially ELSE choking
        /\ advance_activity_window(active_now)
        /\ \/ note_interaction /\ samples' = InteractionSamples(samples)
           \/ UNCHANGED <<interaction, samples>>
    BY DEF update_from_snapshot, peer
  <1>2. /\ samples' \in SampleType /\ samples'["block_latency"] = samples["block_latency"]
    BY <1>1, InteractionAdds, SeriesNames DEF RInv, Streams, NumbersOK
  <1>3. /\ InteractionsOK' /\ StreamsOK' /\ BurstsOK'
        /\ first_interaction' \in 0..clock /\ last_interaction' \in 0..clock
    <2>1. CASE note_interaction /\ samples' = InteractionSamples(samples)
      BY <1>1, <1>2, <2>1, InteractionOnly DEF life
    <2>2. CASE UNCHANGED <<interaction, samples>>
      <3>1. InteractionsOK' /\ StreamsOK'
        BY <1>1, <2>2, StreamsFrame
        DEF RInv, InteractionsOK, InteractionsTelescope, interaction, life
      <3>2. BurstsOK'
        BY <1>1, <2>2, BurstsFrame DEF RInv, life, pace
      <3> QED BY <2>2, <3>1, <3>2 DEF RInv, NumbersOK, interaction
    <2> QED BY <1>1, <2>1, <2>2
  <1>4. LatencyOK'
    BY <1>1, <1>2 DEF RInv, LatencyOK, LatencyOfLastRequest, requests
  <1>5. NumbersOK'
    <2>1. choke' \in [initialized : BOOLEAN, flag : BOOLEAN, choked : Nat, unchoked : Nat]
      BY <1>1 DEF RInv, NumbersOK, Choke
    <2>2. initially' \in BOOLEAN
      BY <1>1 DEF RInv, NumbersOK
    <2>3. /\ window' \in [since : 1..clock, active : BOOLEAN]
          /\ active_time' \in Nat /\ idle_time' \in Nat
      BY <1>1 DEF RInv, NumbersOK, advance_activity_window
    <2> QED
      BY <1>1, <1>2, <1>3, <2>1, <2>2, <2>3 DEF RInv, NumbersOK, life, pace, requests
  <1> QED BY <1>3, <1>4, <1>5 DEF AccountsOK

LEMMA BurstType ==
  ASSUME NEW T, NEW t \in T, NEW r \in [active : BOOLEAN, size : Nat, start : T, last : T]
  PROVE  [r EXCEPT !.size = r.size + 1, !.last = t]
             \in [active : BOOLEAN, size : Nat, start : T, last : T]
  <1> DEFINE n == r.size + 1
             longer == [r EXCEPT !.size = n]
  <1>1. n \in Nat
    OBVIOUS
  <1> HIDE DEF n
  <1>2. longer \in [active : BOOLEAN, size : Nat, start : T, last : T]
    BY <1>1
  <1>3. [longer EXCEPT !.last = t] \in [active : BOOLEAN, size : Nat, start : T, last : T]
    <2> HIDE DEF longer
    <2> QED BY <1>2
  <1>4. [r EXCEPT !.size = n, !.last = t] = [longer EXCEPT !.last = t]
    OBVIOUS
  <1> QED BY <1>3, <1>4 DEF n

\* peer_stats.cpp:245-265.
LEMMA IncomingRequestKeeps ==
  ASSUME RInv, NEW req \in PeerRequests, note_incoming_request(req)
  PROVE  AccountsOK'
  <1> DEFINE r == "incoming_request"
             first == InteractionSamples(samples)
             second == GapSamples(r, first)
  <1>1. /\ note_interaction /\ note_pace(r) /\ note_incoming_request_burst
        /\ active_connection
        /\ samples' = BurstSamples(second)
        /\ UNCHANGED <<clock, asked, choking, life, requests, activity, flags>>
    BY DEF note_incoming_request, Open
  <1>2. /\ first \in SampleType
        /\ \A other \in Series \ {"interaction"} : first[other] = samples[other]
    BY <1>1, InteractionAdds DEF RInv
  <1>3. r \in Streams /\ StreamTelescopes(r) /\ first[r] = samples[r]
    BY <1>2, SeriesNames DEF RInv, StreamsOK, Streams
  <1> HIDE DEF first
  <1>4. /\ second \in SampleType
        /\ \A other \in Series \ {r} : second[other] = first[other]
        /\ number'[r] = number[r] + 1 /\ second[r].count + 1 = number'[r]
        /\ connected + delay'[r] + second[r].total = last'[r]
        /\ last[r] # Never => second[r].total = samples[r].total + (clock - last[r])
        /\ last[r] = Never => number[r] = 0 /\ second[r].total = 0 /\ samples[r].total = 0
    BY <1>1, <1>2, <1>3, GapAdds DEF RInv
  <1> HIDE DEF second
  <1>5. /\ samples' \in SampleType
        /\ \A other \in Series \ BurstSeries : samples'[other] = second[other]
    BY <1>1, <1>4, BurstAdds DEF RInv, BurstsOK
  <1>6. InteractionsOK' /\ first_interaction' \in 0..clock /\ last_interaction' \in 0..clock
    <2>1. samples'["interaction"] = first["interaction"]
      BY <1>4, <1>5, SeriesNames DEF BurstSeries
    <2> QED BY <1>1, <2>1, InteractionStep DEF first
  <1>7. StreamsOK'
    <2>1. \A s \in Streams : samples'[s] = second[s]
      BY <1>5, SeriesNames DEF BurstSeries, Streams
    <2>2. \A s \in Streams \ {r} : samples'[s] = samples[s]
      BY <1>2, <1>4, <2>1, SeriesNames
    <2> QED BY <1>1, <1>3, <1>4, <2>1, <2>2, StreamsStep DEF life
  <1>8. last'[r] = clock
    BY <1>1, <1>3 DEF note_pace, RInv, NumbersOK
  <1>9. BurstsOK'
    <2>1. \A s \in BurstSeries : second[s] = samples[s]
      BY <1>2, <1>4, SeriesNames DEF BurstSeries
    <2>2. active_connection' = active_connection
      BY <1>1 DEF life
    <2> QED BY <1>1, <1>4, <1>8, <2>1, <2>2, BurstsRequest
  <1>10. NumbersOK'
    <2>1. /\ number' \in [Streams -> Nat] /\ last' \in [Streams -> 0..clock]
          /\ delay' \in [Streams -> 0..clock]
      BY <1>1, <1>3, PaceOfOthers DEF RInv
    <2>2. burst' \in [active : BOOLEAN, size : Nat, start : 0..clock, last : 0..clock]
      <3>1. clock \in 0..clock
        BY DEF RInv, NumbersOK
      <3>2. NewBurst \in [active : BOOLEAN, size : Nat, start : 0..clock, last : 0..clock]
        BY <3>1 DEF NewBurst
      <3>3. [burst EXCEPT !.size = burst.size + 1, !.last = clock]
                \in [active : BOOLEAN, size : Nat, start : 0..clock, last : 0..clock]
        BY <3>1, BurstType DEF RInv, NumbersOK
      <3> QED BY <1>1, <3>2, <3>3 DEF note_incoming_request_burst
    <2> QED
      BY <1>1, <1>5, <1>6, <2>1, <2>2 DEF RInv, NumbersOK, life, activity, flags, requests
  <1>11. LatencyOK'
    <2>1. samples'["block_latency"] = samples["block_latency"]
      BY <1>2, <1>4, <1>5, SeriesNames DEF BurstSeries, Streams
    <2> QED BY <1>1, <2>1 DEF RInv, LatencyOK, LatencyOfLastRequest, requests
  <1> QED BY <1>6, <1>7, <1>9, <1>10, <1>11 DEF AccountsOK

\* peer_stats.cpp:267-301.
LEMMA BlockUploadedKeeps ==
  ASSUME RInv, NEW b \in Blocks, note_block_uploaded(b),
         Pending(b) # <<>> => clock - Serve(b).from \in Nat
  PROVE  AccountsOK'
  <1> DEFINE r == "block_upload"
             first == InteractionSamples(samples)
             second == GapSamples(r, first)
  <1>1. /\ note_interaction /\ note_pace(r)
        /\ samples' = IF Pending(b) # <<>>
                      THEN Push(second, "upload_latency", clock - Serve(b).from) ELSE second
        /\ UNCHANGED <<clock, asked, choking, life, requests, burst, activity, flags>>
    BY DEF note_block_uploaded
  <1>2. /\ first \in SampleType
        /\ \A other \in Series \ {"interaction"} : first[other] = samples[other]
    BY <1>1, InteractionAdds DEF RInv
  <1>3. r \in Streams /\ StreamTelescopes(r) /\ first[r] = samples[r]
    BY <1>2, SeriesNames DEF RInv, StreamsOK, Streams
  <1> HIDE DEF first
  <1>4. /\ second \in SampleType
        /\ \A other \in Series \ {r} : second[other] = first[other]
        /\ number'[r] = number[r] + 1 /\ second[r].count + 1 = number'[r]
        /\ connected + delay'[r] + second[r].total = last'[r]
    BY <1>1, <1>2, <1>3, GapAdds DEF RInv
  <1> HIDE DEF second
  <1>5. /\ samples' \in SampleType
        /\ \A other \in Series \ {"upload_latency"} : samples'[other] = second[other]
    <2> DEFINE latency == clock - Serve(b).from
    <2>1. "upload_latency" \in Series
      BY SeriesNames
    <2>2. CASE Pending(b) # <<>>
      <3>1. latency \in Nat /\ samples' = Push(second, "upload_latency", latency)
        BY <1>1, <2>2
      <3> HIDE DEF latency
      <3>2. second \in SampleType
        BY <1>4
      <3> QED BY ONLY <2>1, <3>1, <3>2, PushAdds
    <2>3. CASE Pending(b) = <<>>
      BY <1>1, <1>4, <2>3
    <2> QED BY <2>2, <2>3
  <1>6. InteractionsOK' /\ first_interaction' \in 0..clock /\ last_interaction' \in 0..clock
    <2>1. samples'["interaction"] = first["interaction"]
      BY <1>4, <1>5, SeriesNames
    <2> QED BY <1>1, <2>1, InteractionStep DEF first
  <1>7. StreamsOK'
    <2>1. \A s \in Streams : samples'[s] = second[s]
      BY <1>5, SeriesNames
    <2>2. \A s \in Streams \ {r} : samples'[s] = samples[s]
      BY <1>2, <1>4, <2>1, SeriesNames
    <2> QED BY <1>1, <1>3, <1>4, <2>1, <2>2, StreamsStep DEF life
  <1>8. /\ number' \in [Streams -> Nat] /\ last' \in [Streams -> 0..clock]
        /\ delay' \in [Streams -> 0..clock]
        /\ number'["incoming_request"] = number["incoming_request"]
        /\ last'["incoming_request"] = last["incoming_request"]
    BY <1>1, <1>3, PaceOfOthers DEF RInv, Streams
  <1>9. BurstsOK'
    <2>1. \A s \in BurstSeries \cup {"incoming_request"} : samples'[s] = samples[s]
      BY <1>2, <1>4, <1>5, SeriesNames DEF BurstSeries, Streams
    <2> QED BY <1>1, <1>8, <2>1, BurstsFrame DEF RInv, life
  <1>10. NumbersOK'
    BY <1>1, <1>5, <1>6, <1>8 DEF RInv, NumbersOK, life, activity, flags, requests
  <1>11. LatencyOK'
    <2>1. samples'["block_latency"] = samples["block_latency"]
      BY <1>2, <1>4, <1>5, SeriesNames DEF Streams
    <2> QED BY <1>1, <2>1 DEF RInv, LatencyOK, LatencyOfLastRequest, requests
  <1> QED BY <1>6, <1>7, <1>9, <1>10, <1>11 DEF AccountsOK

\* peer_stats.cpp:164-175, 418-436: the end of a connection, or of the session.
LEMMA EndKeeps ==
  ASSUME RInv, Disconnect \/ finalize
  PROVE  AccountsOK'
  <1>1. /\ UNCHANGED <<clock, choking, connected, pace, answered, interaction, flags>>
        /\ burst' = NoBurst /\ samples' = FlushSamples(samples)
        /\ advance_activity_window(FALSE)
        /\ active_connection' = FALSE
        /\ final' \in BOOLEAN
        /\ disconnected' \in {disconnected, clock}
        /\ outstanding_requests' \in {outstanding_requests, [x \in Blocks |-> Never]}
        /\ asked' \in {asked, [x \in Blocks |-> Never]}
    <2>1. CASE Disconnect
      BY <2>1 DEF Disconnect, note_disconnect, NothingPending, RInv, NumbersOK
    <2>2. CASE finalize
      <3>1. CASE active_connection
        BY <2>2, <3>1 DEF finalize, note_disconnect, NothingPending, peer
      <3>2. CASE ~active_connection
        BY <2>2, <3>2 DEF finalize, peer, RInv, NumbersOK
      <3> QED BY <3>1, <3>2
    <2> QED BY <2>1, <2>2
  <1>2. /\ samples' \in SampleType
        /\ \A s \in Series \ {"burst_size", "burst_duration"} : samples'[s] = samples[s]
    BY <1>1, FlushAdds DEF RInv, NumbersOK, BurstsOK
  <1>3. InteractionsOK'
    BY <1>1, <1>2, SeriesNames DEF RInv, InteractionsOK, InteractionsTelescope, interaction
  <1>4. StreamsOK'
    BY <1>1, <1>2, StreamsFrame, SeriesNames DEF RInv
  <1>5. BurstsOK'
    BY <1>1, BurstsEnd DEF pace
  <1>6. NumbersOK'
    <2>1. NoBurst \in [active : BOOLEAN, size : Nat, start : 0..clock, last : 0..clock]
          /\ clock \in 0..clock /\ Never \in 0..clock
      BY DEF NoBurst, RInv, NumbersOK, Never
    <2>2. /\ window' \in [since : 1..clock, active : BOOLEAN]
          /\ active_time' \in Nat /\ idle_time' \in Nat
      BY <1>1 DEF RInv, NumbersOK, advance_activity_window
    <2>3. /\ asked' \in [Blocks -> 0..clock] /\ outstanding_requests' \in [Blocks -> 0..clock]
      BY <1>1, <2>1 DEF RInv, NumbersOK
    <2> QED
      BY <1>1, <1>2, <2>1, <2>2, <2>3 DEF RInv, NumbersOK, pace, interaction, flags
  <1>7. LatencyOK'
    <2>1. samples'["block_latency"] = samples["block_latency"]
      BY <1>2, SeriesNames
    <2> QED BY <1>1, <2>1 DEF RInv, LatencyOK, LatencyOfLastRequest
  <1> QED BY <1>3, <1>4, <1>5, <1>6, <1>7 DEF AccountsOK

\* The steps of libtorrent and of time, and the loss of alerts.
LEMMA QuietKeeps ==
  ASSUME RInv,
         Tick \/ ChokeChanges \/ note_alert_loss \/ \E b \in Blocks : Cancel(b) \/ PeerCancel(b)
  PROVE  AccountsOK'
  <1>1. /\ UNCHANGED <<life, pace, answered, interaction, burst, activity, flags, samples>>
        /\ clock' \in {clock, clock + 1} /\ choking' \in BOOLEAN
        /\ asked' \in [Blocks -> 0..clock]
        /\ outstanding_requests' \in {outstanding_requests, [x \in Blocks |-> Never]}
        /\ outstanding_requests' = outstanding_requests =>
              \A b \in Blocks : asked'[b] \in {asked[b], Never}
                  \/ outstanding_requests'[b] = Never
    <2>1. /\ clock \in Nat \ {0} /\ Never \in 0..clock /\ clock \in 0..clock
          /\ asked \in [Blocks -> 0..clock] /\ choking \in BOOLEAN
      BY DEF RInv, NumbersOK, Never
    <2>2. CASE Tick
      BY <2>1, <2>2 DEF Tick, peer, requests
    <2>3. CASE ChokeChanges
      BY <2>1, <2>3 DEF ChokeChanges, requests
    <2>4. CASE note_alert_loss
      <3>1. asked' \in [Blocks -> 0..clock]
        BY <2>1, <2>4 DEF note_alert_loss, Unseen
      <3> QED BY <2>1, <2>4, <3>1 DEF note_alert_loss, NothingPending
    <2>5. CASE \E b \in Blocks : Cancel(b) \/ PeerCancel(b)
      BY <2>1, <2>5 DEF Cancel, PeerCancel, requests
    <2> QED BY <2>2, <2>3, <2>4, <2>5
  <1>2. InteractionsOK' /\ StreamsOK' /\ BurstsOK'
    <2>1. InteractionsOK'
      BY <1>1 DEF RInv, InteractionsOK, InteractionsTelescope, interaction
    <2>2. StreamsOK'
      BY <1>1, StreamsFrame DEF RInv, life
    <2>3. BurstsOK'
      BY <1>1, BurstsFrame DEF RInv, life, pace
    <2> QED BY <2>1, <2>2, <2>3
  <1>3. NumbersOK'
    BY <1>1 DEF RInv, NumbersOK, life, pace, interaction, activity, flags, Never
  <1>4. LatencyOK'
    BY <1>1 DEF RInv, LatencyOK, LatencyOfLastRequest
  <1> QED BY <1>2, <1>3, <1>4 DEF AccountsOK

-----------------------------------------------------------------------------
(* The requests of the peer.                                                *)

LEMMA Quotient ==
  ASSUME NEW a \in Nat, NEW n \in Nat \ {0}
  PROVE  a \div n \in Nat /\ (a \div n) * n <= a /\ a < (a \div n + 1) * n
  OBVIOUS

LEMMA LessOrEqual ==
  ASSUME NEW a \in Nat, NEW b \in Nat, NEW c \in Nat
  PROVE  /\ a <= b => a * c <= b * c
         /\ a * c < b * c => a < b
  OBVIOUS

\* A request is for bytes of one block, and is queued under a key of its own.
LEMMA RequestTypes ==
  ASSUME NEW req \in PeerRequests
  PROVE  BlockOf(req) \in Blocks /\ Key(req) \in Keys /\ Key(req) \in 0..(PieceLength - 1)
  <1>1. PICK size, long, start, length :
            size = BlockSize /\ long = PieceLength /\ start = req.start /\ length = req.length
    OBVIOUS
  <1>2. /\ size \in Nat \ {0} /\ long \in Nat \ {0}
        /\ start \in 0..(long - 1) /\ length \in 1..size
    BY <1>1, RecordAssumption DEF PeerRequests
  <1>3. PICK b, k : b = start \div size /\ k = start \div length
    OBVIOUS
  <1>4. /\ b \in Nat /\ b * size <= start /\ k \in Nat /\ k * length <= start
    BY <1>2, <1>3, Quotient
  <1>5. b \in 0..(long - 1) /\ k \in 0..(long - 1) /\ b * size < long
    <2>1. 1 * b <= size * b /\ size * b = b * size
      BY <1>2, <1>4, LessOrEqual
    <2>2. 1 * k <= length * k /\ length * k = k * length
      BY <1>2, <1>4, LessOrEqual
    <2>3. b <= start /\ k <= start /\ b * size < long
      BY <1>2, <1>4, <2>1, <2>2
    <2> QED BY <1>2, <1>4, <2>3
  <1>6. BlockOf(req) = b /\ Key(req) = k
    BY <1>1, <1>3 DEF BlockOf, Key, block_index_from_request
  <1> QED BY <1>1, <1>5, <1>6 DEF Blocks, Keys

\* The rest of TypeOK: nothing that is queued is of the future.
QueuesOK ==
    /\ due \in [Blocks -> Seq(1..clock)]
    /\ pending_upload_requests \in [Keys -> Seq(1..clock)]
    /\ served \in [count : Nat, total : Nat]
    /\ strays \in [count : Nat, total : Nat]
    /\ mixed \subseteq Blocks
    /\ faults \subseteq {"cancel", "peer_cancel", "part", "loss"}

LEMMA TypeOKSplit == TypeOK <=> NumbersOK /\ QueuesOK
  BY DEF TypeOK, NumbersOK, QueuesOK, SampleType

LEMMA InitQueuesOK == Init => QueuesOK
  BY DEF Init, QueuesOK, NoSamples

LEMMA AddIsSum ==
  ASSUME NEW sum \in [count : Nat, total : Nat], NEW value \in Nat
  PROVE  Add(sum, value) \in [count : Nat, total : Nat]
  BY DEF Add

LEMMA WithoutIsSeq ==
  ASSUME NEW T, NEW s \in Seq(T), NEW i \in 1..Len(s)
  PROVE  Without(s, i) \in Seq(T)
  <1>1. SubSeq(s, 1, i - 1) \in Seq(T) /\ SubSeq(s, i + 1, Len(s)) \in Seq(T)
    BY SubSeqProperties
  <1> QED BY <1>1, ConcatProperties DEF Without

\* peer_stats.cpp:285-300: what is taken for the request served has been made.
LEMMA ServedIsPast ==
  ASSUME RInv, QueuesOK, NEW b \in Blocks, Pending(b) # <<>>
  PROVE  /\ b \in Keys /\ clock - Serve(b).from \in Nat
         /\ Serve(b).left \in Seq(1..clock)
  <1>1. b \in Keys /\ Pending(b) \in Seq(1..clock) /\ clock \in Nat
    BY DEF Pending, QueuesOK, RInv, NumbersOK
  <1>2. Head(Pending(b)) \in 1..clock /\ Tail(Pending(b)) \in Seq(1..clock)
    BY <1>1, HeadTailProperties
  <1> QED BY <1>1, <1>2 DEF Serve

LEMMA QueuesStep ==
  ASSUME RInv, QueuesOK, Next
  PROVE  QueuesOK'
  <1>1. /\ clock \in Nat \ {0} /\ clock \in 1..clock
        /\ due \in [Blocks -> Seq(1..clock)]
        /\ pending_upload_requests \in [Keys -> Seq(1..clock)]
        /\ served \in [count : Nat, total : Nat] /\ strays \in [count : Nat, total : Nat]
        /\ mixed \subseteq Blocks
        /\ faults \subseteq {"cancel", "peer_cancel", "part", "loss"}
    BY DEF RInv, NumbersOK, QueuesOK
  <1>2. CASE Tick
    <2>1. 1..clock \subseteq 1..(clock + 1)
      BY <1>1
    <2>2. Seq(1..clock) \subseteq Seq(1..(clock + 1))
      BY <2>1, SeqMonotonic
    <2> QED BY <1>1, <1>2, <2>2 DEF Tick, peer, uploads, uploaded, QueuesOK
  <1>3. ASSUME NEW req \in PeerRequests, note_incoming_request(req)
        PROVE  QueuesOK'
    <2>1. PICK b, k : b = BlockOf(req) /\ k = Key(req)
      OBVIOUS
    <2>2. b \in Blocks /\ k \in Keys
      BY <2>1, RequestTypes
    <2>3. /\ Append(pending_upload_requests[k], clock) \in Seq(1..clock)
          /\ Append(due[b], clock) \in Seq(1..clock)
      BY <1>1, <2>2
    <2>4. /\ pending_upload_requests' = [pending_upload_requests EXCEPT ![k] = Append(@, clock)]
          /\ due' = [due EXCEPT ![b] = Append(@, clock)]
          /\ mixed' \in {mixed, mixed \cup ({k, b} \cap Blocks)}
          /\ faults' \in {faults, faults \cup {"part"}}
          /\ UNCHANGED <<clock, served, strays>>
      BY <1>3, <2>1 DEF note_incoming_request
    <2>5. pending_upload_requests' \in [Keys -> Seq(1..clock)] /\ due' \in [Blocks -> Seq(1..clock)]
      BY <1>1, <2>3, <2>4
    <2> QED BY <1>1, <2>4, <2>5 DEF QueuesOK
  <1>4. ASSUME NEW b \in Blocks, note_block_uploaded(b)
        PROVE  QueuesOK'
    <2>1. due[b] \in Seq(1..clock) /\ due[b] # <<>>
      BY <1>1, <1>4 DEF note_block_uploaded
    <2>2. Head(due[b]) \in 1..clock /\ Tail(due[b]) \in Seq(1..clock)
      BY <2>1, HeadTailProperties
    <2>3. pending_upload_requests' \in [Keys -> Seq(1..clock)]
      BY <1>1, <1>4, ServedIsPast DEF note_block_uploaded
    <2>4. {served', strays'} \subseteq [count : Nat, total : Nat]
      <3>1. clock - Head(due[b]) \in Nat
        BY <1>1, <2>2
      <3>2. Add(served, clock - Head(due[b])) \in [count : Nat, total : Nat]
        BY <1>1, <3>1, AddIsSum
      <3>3. Pending(b) # <<>> => Add(strays, clock - Serve(b).from) \in [count : Nat, total : Nat]
        BY <1>1, ServedIsPast, AddIsSum
      <3> QED BY <1>1, <1>4, <3>2, <3>3 DEF note_block_uploaded
    <2>5. due' \in [Blocks -> Seq(1..clock)]
      BY <1>1, <1>4, <2>2 DEF note_block_uploaded
    <2> QED BY <1>1, <1>4, <2>3, <2>4, <2>5 DEF note_block_uploaded, QueuesOK
  <1>5. ASSUME NEW b \in Blocks, PeerCancel(b)
        PROVE  QueuesOK'
    <2>1. PICK i \in 1..Len(due[b]) : due' = [due EXCEPT ![b] = Without(@, i)]
      BY <1>5 DEF PeerCancel
    <2>2. Without(due[b], i) \in Seq(1..clock)
      BY <1>1, <2>1, WithoutIsSeq
    <2> QED BY <1>1, <1>5, <2>1, <2>2 DEF PeerCancel, uploads, uploaded, QueuesOK
  <1>6. CASE note_alert_loss
    <2>1. PICK b \in Blocks : \E k \in 1..(Len(due[b]) + 1) :
              due' = [due EXCEPT ![b] = SubSeq(@, k, Len(@))]
      BY <1>6 DEF note_alert_loss, Unseen
    <2>2. PICK k \in 1..(Len(due[b]) + 1) : due' = [due EXCEPT ![b] = SubSeq(@, k, Len(@))]
      BY <2>1
    <2>3. due[b] \in Seq(1..clock)
      BY <1>1
    <2>4. SubSeq(due[b], k, Len(due[b])) \in Seq(1..clock)
      <3>1. k \in Int /\ Len(due[b]) \in Int /\ 1 <= k
        BY <2>3, LenProperties
      <3>2. ASSUME NEW i \in k..Len(due[b])
            PROVE  due[b][i] \in 1..clock
        <4>1. i \in 1..Len(due[b])
          BY <3>1
        <4> QED BY <2>3, <4>1, ElementOfSeq
      <3> QED BY <3>1, <3>2, SubSeqProperties
    <2>5. due' \in [Blocks -> Seq(1..clock)]
      BY <1>1, <2>2, <2>4
    <2> QED BY <1>1, <1>6, <2>5 DEF note_alert_loss, NothingPending, uploaded, QueuesOK
  <1>7. CASE Disconnect
    BY <1>1, <1>7 DEF Disconnect, note_disconnect, NothingPending, uploaded, QueuesOK
  <1>8. CASE finalize
    <2>1. CASE active_connection
      <3>1. pending_upload_requests' = [k \in Keys |-> <<>>]
        BY <1>8, <2>1 DEF finalize, note_disconnect, NothingPending
      <3>2. pending_upload_requests' \in [Keys -> Seq(1..clock)]
        BY <3>1
      <3>3. UNCHANGED <<clock, due, served, strays, mixed, faults>>
        BY <1>8 DEF finalize, peer, uploaded
      <3> QED BY <1>1, <3>2, <3>3 DEF QueuesOK
    <2>2. CASE ~active_connection
      BY <1>1, <1>8, <2>2 DEF finalize, QueuesOK, peer, uploaded
    <2> QED BY <2>1, <2>2
  <1>9. CASE UNCHANGED <<clock, due, pending_upload_requests, served, strays, mixed, faults>>
    BY <1>9 DEF QueuesOK
  <1>10. ASSUME NEW b \in Blocks,
                \/ note_request_sent(b) \/ note_block_response(b) \/ note_timeout(b)
                \/ Cancel(b)
         PROVE  QueuesOK'
    BY <1>1, <1>9, <1>10
    DEF note_request_sent, note_block_response, note_timeout, Cancel, uploads, uploaded, QueuesOK
  <1>11. CASE \/ note_snubbed \/ ChokeChanges
              \/ \E active_now \in BOOLEAN : update_from_snapshot(active_now)
    BY <1>9, <1>11
    DEF note_snubbed, ChokeChanges, update_from_snapshot, peer, uploads, uploaded
  <1> QED
    BY <1>2, <1>3, <1>4, <1>5, <1>6, <1>7, <1>8, <1>10, <1>11 DEF Next

-----------------------------------------------------------------------------
(* The theorems.                                                            *)

Inv == RInv /\ QueuesOK

LEMMA InitInv == Init => Inv
  BY InitRInv, InitQueuesOK DEF Inv

LEMMA NextInv ==
  ASSUME Inv, Next
  PROVE  Inv'
  <1> USE DEF Inv
  <1>1. ASSUME NEW b \in Blocks, note_block_uploaded(b)
        PROVE  AccountsOK'
    <2>1. Pending(b) # <<>> => clock - Serve(b).from \in Nat
      BY ServedIsPast
    <2> QED BY <1>1, <2>1, BlockUploadedKeeps
  <1>2. AccountsOK'
    BY <1>1, RequestSentKeeps, BlockResponseKeeps, TimeoutKeeps, SnubbedKeeps, SnapshotKeeps,
       IncomingRequestKeeps, EndKeeps, QuietKeeps DEF Next
  <1> QED BY <1>2, WindowStep, TransitionsStep, QueuesStep DEF RInv, AccountsOK

LEMMA StutterInv ==
  ASSUME Inv, UNCHANGED vars
  PROVE  Inv'
  BY DEF Inv, RInv, NumbersOK, InteractionsOK, InteractionsTelescope, StreamsOK,
     StreamTelescopes, BurstsOK, BurstsPartition, BurstsKeepTheGap, WindowOK, WindowsTile,
     TransitionsAlternate, LatencyOK, LatencyOfLastRequest, QueuesOK, vars, peer, life, pace,
     requests, uploads, uploaded, interaction, activity, flags

\* The invariant holds of every connection.
THEOREM RecordInvariant == Spec => []Inv
  <1>1. Inv /\ [Next]_vars => Inv'
    BY NextInv, StutterInv
  <1> QED BY <1>1, InitInv, PTL DEF Spec

\* Every variable keeps its type, and no time is of the future (PeerRecord!TypeOK).
THEOREM RecordTypeCorrect == Spec => []TypeOK
  <1>1. Inv => TypeOK
    BY TypeOKSplit DEF Inv, RInv
  <1> QED BY <1>1, RecordInvariant, PTL

\* Gaps and delays make up the time to the last event (PeerRecord!GapsTelescope).
THEOREM GapsAddUp == Spec => []GapsTelescope
  <1>1. Inv => GapsTelescope
    BY DEF Inv, RInv, StreamsOK, InteractionsOK, GapsTelescope
  <1> QED BY <1>1, RecordInvariant, PTL

\* Bursts partition the requests of the peer (PeerRecord!BurstsPartition).
THEOREM BurstsArePartition == Spec => []BurstsPartition
  <1>1. Inv => BurstsPartition
    BY DEF Inv, RInv, BurstsOK
  <1> QED BY <1>1, RecordInvariant, PTL

\* A gap ends a burst if and only if it is over the limit (PeerRecord!BurstsKeepTheGap).
THEOREM BurstsRespectTheGap == Spec => []BurstsKeepTheGap
  <1>1. Inv => BurstsKeepTheGap
    BY DEF Inv, RInv, BurstsOK
  <1> QED BY <1>1, RecordInvariant, PTL

\* Active and idle time tile the life of a record (PeerRecord!WindowsTile).
THEOREM WindowsAreTiles == Spec => []WindowsTile
  <1>1. Inv => WindowsTile
    BY DEF Inv, RInv, WindowOK
  <1> QED BY <1>1, RecordInvariant, PTL

\* No peer is active for longer than it was connected (PeerRecord!ActiveWhileConnected).
THEOREM ActiveOnlyConnected == Spec => []ActiveWhileConnected
  <1>1. ASSUME Inv PROVE ActiveWhileConnected
    <2>1. /\ clock \in Nat /\ connected \in 1..clock /\ disconnected \in 0..clock
          /\ window.since \in 1..clock /\ active_time \in Nat /\ idle_time \in Nat
          /\ active_connection \in BOOLEAN
      BY <1>1 DEF Inv, RInv, NumbersOK
    <2> QED BY <1>1, <2>1 DEF Inv, RInv, WindowOK, WindowsTile, ActiveWhileConnected,
            connected_duration, Never
  <1> QED BY <1>1, RecordInvariant, PTL

\* Chokes and unchokes alternate (PeerRecord!TransitionsAlternate).
THEOREM TransitionsDoAlternate == Spec => []TransitionsAlternate
  <1>1. Inv => TransitionsAlternate
    BY DEF Inv, RInv
  <1> QED BY <1>1, RecordInvariant, PTL

\* A latency is that of the last request of its block
\* (PeerRecord!LatencyOfLastRequest).
THEOREM LatenciesAreTrue == Spec => []LatencyOfLastRequest
  <1>1. Inv => LatencyOfLastRequest
    BY DEF Inv, RInv, LatencyOK
  <1> QED BY <1>1, RecordInvariant, PTL

-----------------------------------------------------------------------------
(* Latencies are measured once, and never too short. What is outstanding is *)
(* counted, and the requests of the peer for a block are set against those  *)
(* it still waits for.                                                      *)

\* peer_stats.cpp:67-71: a last block that is short may be taken for one that is not
\* there, but never for another one.
LEMMA KeyIsOwn ==
  ASSUME NEW b \in Blocks, Key(Whole(b)) \in Blocks
  PROVE  Key(Whole(b)) = b
  <1>1. PICK size, long : size = BlockSize /\ long = PieceLength
    OBVIOUS
  <1>2. /\ size \in Nat \ {0} /\ b \in Nat /\ b * size < long /\ long \in Nat
        /\ Key(Whole(b)) \in Nat /\ Key(Whole(b)) * size < long /\ b * size \in Nat
        /\ (b + 1) * size \in Nat /\ (b + 1) * size = b * size + size
    BY <1>1, RecordAssumption DEF Blocks
  <1>3. PICK n : n = LengthOf(b)
    OBVIOUS
  <1>4. n \in Nat \ {0} /\ n <= size
    BY <1>1, <1>2, <1>3 DEF LengthOf
  <1>5. Key(Whole(b)) = (b * size) \div n
    BY <1>1, <1>3 DEF Key, block_index_from_request, Whole
  <1>6. PICK k : k = Key(Whole(b))
    OBVIOUS
  <1>7. k \in Nat /\ k * n <= b * size /\ b * size < (k + 1) * n /\ k * size < long
    BY <1>2, <1>4, <1>5, <1>6, Quotient
  <1>8. ~(k < b)
    <2> SUFFICES ASSUME k < b PROVE FALSE
      OBVIOUS
    <2>1. k + 1 \in Nat /\ k + 1 <= b
      BY <1>2, <1>7
    <2>2. (k + 1) * n <= b * n
      BY <1>2, <1>4, <2>1, LessOrEqual
    <2>3. n * b <= size * b
      BY <1>2, <1>4, LessOrEqual
    <2>4. n * b = b * n /\ size * b = b * size /\ b * n \in Nat /\ (k + 1) * n \in Nat
      BY <1>2, <1>4, <1>7
    <2> QED BY <1>2, <1>7, <2>2, <2>3, <2>4
  <1>9. ~(k > b)
    <2> SUFFICES ASSUME k > b PROVE FALSE
      OBVIOUS
    <2>1. (b + 1) * size <= k * size
      <3>1. b + 1 \in Nat /\ b + 1 <= k
        BY <1>2, <1>7
      <3> QED BY <1>2, <1>7, <3>1, LessOrEqual
    <2>2. k * size \in Nat
      BY <1>2, <1>7
    <2>3. (b + 1) * size <= long
      BY <1>2, <1>7, <2>1, <2>2
    <2>4. n = size
      BY <1>1, <1>3, <2>3 DEF LengthOf
    <2>5. k * size <= b * size
      BY <1>7, <2>4
    <2> QED BY <1>2, <2>1, <2>2, <2>5
  <1> QED BY <1>2, <1>6, <1>7, <1>8, <1>9

\* The series of latencies, and what the handlers add to others first.
SameLatencies(s) ==
    s["block_latency"] = samples["block_latency"] /\ s["upload_latency"] = samples["upload_latency"]

LEMMA LatencyNames ==
  /\ "block_latency" \in Series \ Streams /\ "upload_latency" \in Series \ Streams
  /\ "block_latency" \notin BurstSeries /\ "upload_latency" \notin BurstSeries
  /\ "request" \in Streams /\ "incoming_request" \in Streams
  /\ "block_upload" \in Streams
  /\ "block_latency" # "interaction" /\ "upload_latency" # "interaction"
  BY SeriesNames DEF BurstSeries, Streams

LEMMA FirstSamples ==
  ASSUME Inv, note_interaction
  PROVE  LET first == InteractionSamples(samples) IN
         /\ first \in SampleType /\ SameLatencies(first)
         /\ \A s \in Streams :
                note_pace(s) => /\ GapSamples(s, first) \in SampleType
                                /\ SameLatencies(GapSamples(s, first))
  <1> DEFINE first == InteractionSamples(samples)
  <1>1. /\ NumbersOK /\ InteractionsOK /\ samples \in SampleType
        /\ \A s \in Streams : StreamTelescopes(s)
    BY DEF Inv, RInv, NumbersOK, StreamsOK
  <1>2. /\ first \in SampleType
        /\ \A other \in Series \ {"interaction"} : first[other] = samples[other]
    BY <1>1, InteractionAdds
  <1>3. SameLatencies(first) /\ \A s \in Streams : first[s] = samples[s]
    BY <1>2, LatencyNames, SeriesNames DEF SameLatencies
  <1> HIDE DEF first
  <1>4. ASSUME NEW s \in Streams, note_pace(s)
        PROVE  GapSamples(s, first) \in SampleType /\ SameLatencies(GapSamples(s, first))
    <2>1. PICK after : after = GapSamples(s, first)
      OBVIOUS
    <2>2. after \in SampleType /\ \A other \in Series \ {s} : after[other] = first[other]
      BY <1>1, <1>2, <1>3, <1>4, <2>1, GapAdds
    <2>3. after["block_latency"] = first["block_latency"]
          /\ after["upload_latency"] = first["upload_latency"]
      BY <2>2, LatencyNames
    <2> QED BY <1>3, <2>1, <2>2, <2>3 DEF SameLatencies
  <1> QED BY <1>2, <1>3, <1>4 DEF first

\* What a request of the peer adds to the latencies.
LEMMA IncomingSamples ==
  ASSUME Inv, NEW req \in PeerRequests, note_incoming_request(req)
  PROVE  SameLatencies(samples')
  <1>1. PICK series : series = GapSamples("incoming_request", InteractionSamples(samples))
    OBVIOUS
  <1>2. /\ note_interaction /\ note_pace("incoming_request") /\ "incoming_request" \in Streams
        /\ samples' = BurstSamples(series)
    BY <1>1, LatencyNames DEF note_incoming_request
  <1>3. series \in SampleType /\ SameLatencies(series)
    BY <1>1, <1>2, FirstSamples
  <1>4. burst.start <= burst.last /\ NumbersOK
    BY DEF Inv, RInv, BurstsOK
  <1>5. \A other \in Series \ BurstSeries : samples'[other] = series[other]
    BY <1>2, <1>3, <1>4, BurstAdds
  <1> QED BY <1>3, <1>5, LatencyNames DEF SameLatencies

\* What another step adds to the latencies.
LEMMA BlockSamples ==
  ASSUME Inv, NEW b \in Blocks
  PROVE  LET Block(s) == s["block_latency"]
             Upload(s) == s["upload_latency"]
         IN
         /\ note_request_sent(b) \/ note_timeout(b)
                => Block(samples') = Block(samples) /\ Upload(samples') = Upload(samples)
         /\ note_block_response(b) =>
                /\ Upload(samples') = Upload(samples)
                /\ Block(samples').count = Block(samples).count
                                               + One(outstanding_requests[b] # Never)
         /\ note_block_uploaded(b) =>
                /\ Block(samples') = Block(samples)
                /\ Upload(samples') = IF Pending(b) # <<>>
                                      THEN Add(Upload(samples), clock - Serve(b).from)
                                      ELSE Upload(samples)
  <1> DEFINE Block(s) == s["block_latency"]
             Upload(s) == s["upload_latency"]
             Same(s) == Block(s) = Block(samples) /\ Upload(s) = Upload(samples)
             first == InteractionSamples(samples)
  <1>1. samples \in SampleType
    BY DEF Inv, RInv, NumbersOK
  <1>2. /\ "block_latency" \in Series \ Streams /\ "upload_latency" \in Series \ Streams
        /\ "request" \in Streams /\ "block_upload" \in Streams
    BY LatencyNames
  <1>3. ASSUME note_interaction PROVE first \in SampleType /\ Same(first)
    BY <1>3, FirstSamples DEF SameLatencies
  <1>4. ASSUME note_interaction, NEW s \in Streams, note_pace(s)
        PROVE  GapSamples(s, first) \in SampleType /\ Same(GapSamples(s, first))
    BY <1>4, FirstSamples DEF SameLatencies
  <1> HIDE DEF first
  <1>5. ASSUME note_request_sent(b) PROVE Same(samples')
    BY <1>2, <1>4, <1>5 DEF note_request_sent, first
  <1>6. ASSUME note_timeout(b) PROVE Same(samples')
    BY <1>3, <1>6 DEF note_timeout, first
  <1>8. ASSUME note_block_response(b)
        PROVE  /\ Upload(samples') = Upload(samples)
               /\ Block(samples').count = Block(samples).count
                                              + One(outstanding_requests[b] # Never)
    <2>1. PICK sent : sent = outstanding_requests[b]
      OBVIOUS
    <2>2. /\ note_interaction
          /\ samples' = IF sent # Never THEN Push(first, "block_latency", clock - sent) ELSE first
      BY <1>8, <2>1 DEF note_block_response, first
    <2>3. first \in SampleType /\ Same(first) /\ Block(samples).count \in Nat
      BY <1>1, <1>2, <1>3, <2>2 DEF SampleType
    <2>4. CASE sent = Never
      BY <2>1, <2>2, <2>3, <2>4 DEF One
    <2>5. CASE sent # Never
      <3>1. samples' = [first EXCEPT !["block_latency"] = Add(@, clock - sent)]
        BY <2>2, <2>5 DEF Push
      <3>2. /\ Block(samples') = Add(Block(first), clock - sent)
            /\ Upload(samples') = Upload(first)
        BY <1>2, <2>3, <3>1 DEF SampleType
      <3> QED BY <2>1, <2>3, <2>5, <3>2 DEF Add, One
    <2> QED BY <2>4, <2>5
  <1>9. ASSUME note_block_uploaded(b)
        PROVE  /\ Block(samples') = Block(samples)
               /\ Upload(samples') = IF Pending(b) # <<>>
                                     THEN Add(Upload(samples), clock - Serve(b).from)
                                     ELSE Upload(samples)
    <2>1. PICK series, from : series = GapSamples("block_upload", first) /\ from = Serve(b).from
      OBVIOUS
    <2>2. /\ series \in SampleType /\ Same(series)
          /\ samples' = IF Pending(b) # <<>> THEN Push(series, "upload_latency", clock - from)
                                             ELSE series
      BY <1>2, <1>4, <1>9, <2>1 DEF note_block_uploaded, first
    <2>3. CASE Pending(b) = <<>>
      BY <2>2, <2>3
    <2>4. CASE Pending(b) # <<>>
      <3>1. samples' = [series EXCEPT !["upload_latency"] = Add(@, clock - from)]
        BY <2>2, <2>4 DEF Push
      <3>2. /\ Upload(samples') = Add(Upload(series), clock - from)
            /\ Block(samples') = Block(series)
        BY <1>2, <2>2, <3>1 DEF SampleType
      <3> QED BY <2>1, <2>2, <2>4, <3>2
    <2> QED BY <2>3, <2>4
  <1> QED BY <1>5, <1>6, <1>8, <1>9

Quiet ==
  \/ Tick \/ note_snubbed \/ ChokeChanges
  \/ \E active_now \in BOOLEAN : update_from_snapshot(active_now)
  \/ note_alert_loss \/ Disconnect \/ finalize
  \/ \E b \in Blocks : Cancel(b) \/ PeerCancel(b)
  \/ UNCHANGED vars

\* A step that is about no request measures none.
LEMMA QuietSamples ==
  ASSUME Inv, Quiet
  PROVE  /\ samples'["block_latency"] = samples["block_latency"]
         /\ samples'["upload_latency"] = samples["upload_latency"]
         /\ UNCHANGED <<number, served, strays, mixed>>
  <1>1. /\ NumbersOK /\ InteractionsOK /\ samples \in SampleType
        /\ burst.start <= burst.last
    BY DEF Inv, RInv, NumbersOK, BurstsOK
  <1>2. /\ {"block_latency", "upload_latency"} \subseteq
               Series \ {"interaction", "burst_size", "burst_duration"}
    BY SeriesNames
  <1>3. UNCHANGED <<number, served, strays, mixed>>
    BY DEF Quiet, Tick, note_snubbed, ChokeChanges, update_from_snapshot, note_alert_loss,
       Disconnect, finalize, Cancel, PeerCancel, vars, pace, uploads, uploaded
  <1>4. CASE samples' = samples
    BY <1>3, <1>4
  <1>5. CASE note_interaction /\ samples' = InteractionSamples(samples)
    <2>1. \A other \in Series \ {"interaction"} : samples'[other] = samples[other]
      BY <1>1, <1>5, InteractionAdds
    <2> QED BY <1>2, <1>3, <2>1
  <1>6. CASE samples' = FlushSamples(samples)
    <2>1. \A other \in Series \ {"burst_size", "burst_duration"} : samples'[other] = samples[other]
      BY <1>1, <1>6, FlushAdds
    <2> QED BY <1>2, <1>3, <2>1
  <1>7. CASE Disconnect \/ finalize
    BY <1>6, <1>7 DEF Disconnect, finalize, note_disconnect
  <1>8. CASE note_snubbed \/ \E active_now \in BOOLEAN : update_from_snapshot(active_now)
    BY <1>4, <1>5, <1>8 DEF note_snubbed, update_from_snapshot
  <1>9. CASE \/ Tick \/ ChokeChanges \/ note_alert_loss \/ UNCHANGED vars
             \/ \E b \in Blocks : Cancel(b) \/ PeerCancel(b)
    BY <1>4, <1>9 DEF Tick, ChokeChanges, note_alert_loss, Cancel, PeerCancel, vars
  <1> QED BY <1>7, <1>8, <1>9 DEF Quiet

-----------------------------------------------------------------------------
(* A request is measured once.                                              *)

OnceInv ==
    /\ MeasuredOnce
    /\ \A k \in Keys : Len(pending_upload_requests[k]) <= number["incoming_request"]
    /\ number["incoming_request"] <= MaxEvents

LEMMA KeysAreFinite == IsFiniteSet(Blocks) /\ IsFiniteSet(Keys)
  <1>1. PICK S : S = 0..(PieceLength - 1)
    OBVIOUS
  <1>2. IsFiniteSet(S)
    BY <1>1, RecordAssumption, FS_Interval
  <1>3. Blocks \subseteq S /\ Keys \subseteq S
    BY <1>1, RequestTypes DEF Blocks, Keys
  <1> QED BY <1>2, <1>3, FS_Subset

LEMMA OnceTypes ==
  ASSUME Inv
  PROVE  /\ IsFiniteSet(OutstandingBlocks) /\ Cardinality(OutstandingBlocks) \in Nat
         /\ IsFiniteSet(Requested) /\ Cardinality(Requested) \in Nat
         /\ number["request"] \in Nat /\ number["incoming_request"] \in Nat
         /\ samples["block_latency"].count \in Nat /\ samples["upload_latency"].count \in Nat
         /\ \A k \in Keys : /\ pending_upload_requests[k] \in Seq(1..clock)
                            /\ Len(pending_upload_requests[k]) \in Nat
         /\ \A req \in PeerRequests : Key(req) \in Keys
  <1>1. IsFiniteSet(Blocks) /\ IsFiniteSet(Keys)
    BY KeysAreFinite
  <1>3. IsFiniteSet(OutstandingBlocks)
    <2>1. OutstandingBlocks \subseteq Blocks
      BY DEF OutstandingBlocks
    <2> QED BY <1>1, <2>1, FS_Subset
  <1>4. IsFiniteSet(Requested)
    <2>1. IsFiniteSet(1..MaxEvents)
      BY RecordAssumption, FS_Interval
    <2>2. IsFiniteSet(Keys \X (1..MaxEvents))
      BY <1>1, <2>1, FS_Product
    <2>3. Requested \subseteq Keys \X (1..MaxEvents)
      BY DEF Requested
    <2> QED BY <2>2, <2>3, FS_Subset
  <1>5. /\ number["request"] \in Nat /\ number["incoming_request"] \in Nat
        /\ samples["block_latency"].count \in Nat /\ samples["upload_latency"].count \in Nat
    BY SeriesNames DEF Inv, RInv, NumbersOK, Streams, SampleType
  <1>6. \A k \in Keys : /\ pending_upload_requests[k] \in Seq(1..clock)
                        /\ Len(pending_upload_requests[k]) \in Nat
    BY LenProperties DEF Inv, QueuesOK
  <1> QED BY <1>3, <1>4, <1>5, <1>6, FS_CardinalityType, RequestTypes

\* peer_stats.cpp:189-243.
LEMMA OutstandingCounts ==
  ASSUME Inv, NEW b \in Blocks
  PROVE  LET n == Cardinality(OutstandingBlocks) IN
         /\ outstanding_requests' = Outstanding(b) => Cardinality(OutstandingBlocks') <= n + 1
         /\ outstanding_requests' = Erase(b) =>
                Cardinality(OutstandingBlocks') + One(outstanding_requests[b] # Never) = n
         /\ outstanding_requests' \in {outstanding_requests, [x \in Blocks |-> Never]} =>
                Cardinality(OutstandingBlocks') <= n
  <1> DEFINE S == OutstandingBlocks
  <1>1. /\ IsFiniteSet(S) /\ Cardinality(S) \in Nat
        /\ outstanding_requests \in [Blocks -> 0..clock] /\ clock \in Nat \ {0}
    BY OnceTypes DEF Inv, RInv, NumbersOK
  <1>2. S = {x \in Blocks : outstanding_requests[x] # Never}
        /\ OutstandingBlocks' = {x \in Blocks : outstanding_requests'[x] # Never}
    BY DEF OutstandingBlocks
  <1>3. ASSUME outstanding_requests' = Outstanding(b)
        PROVE  Cardinality(OutstandingBlocks') <= Cardinality(S) + 1
    <2>1. OutstandingBlocks' = S \cup {b}
      BY <1>1, <1>2, <1>3 DEF Outstanding, Never
    <2>2. Cardinality(S \cup {b}) = IF b \in S THEN Cardinality(S) ELSE Cardinality(S) + 1
      BY <1>1, FS_AddElement
    <2> QED BY <1>1, <2>1, <2>2
  <1>4. ASSUME outstanding_requests' = Erase(b)
        PROVE  Cardinality(OutstandingBlocks') + One(outstanding_requests[b] # Never)
                   = Cardinality(S)
    <2>1. OutstandingBlocks' = S \ {b}
      BY <1>1, <1>2, <1>4 DEF Erase
    <2>2. Cardinality(S \ {b}) = IF b \in S THEN Cardinality(S) - 1 ELSE Cardinality(S)
      BY <1>1, FS_RemoveElement
    <2>3. b \in S <=> outstanding_requests[b] # Never
      BY <1>2
    <2> QED BY <1>1, <2>1, <2>2, <2>3 DEF One
  <1>5. ASSUME outstanding_requests' \in {outstanding_requests, [x \in Blocks |-> Never]}
        PROVE  Cardinality(OutstandingBlocks') <= Cardinality(S)
    <2>1. OutstandingBlocks' \subseteq S
      BY <1>2, <1>5
    <2> QED BY <1>1, <2>1, FS_Subset
  <1> QED BY <1>3, <1>4, <1>5

\* peer_stats.cpp:245-300.
LEMMA RequestedCounts ==
  ASSUME Inv, OnceInv
  PROVE  LET n == Cardinality(Requested) IN
         /\ \A k \in Keys :
                /\ pending_upload_requests' = [pending_upload_requests EXCEPT
                                                  ![k] = Append(@, clock)]
                       => Cardinality(Requested') <= n + 1
                /\ pending_upload_requests[k] # <<>>
                     /\ pending_upload_requests' = [pending_upload_requests EXCEPT
                                                       ![k] = Tail(@)]
                       => Cardinality(Requested') + 1 <= n
         /\ pending_upload_requests' \in {pending_upload_requests, [k \in Keys |-> <<>>]}
                => Cardinality(Requested') <= n
  <1> DEFINE R == Requested
             p == pending_upload_requests
  <1>1. /\ IsFiniteSet(R) /\ Cardinality(R) \in Nat
        /\ p \in [Keys -> Seq(1..clock)] /\ clock \in Nat \ {0}
        /\ \A k \in Keys : p[k] \in Seq(1..clock) /\ Len(p[k]) \in Nat
    BY OnceTypes DEF Inv, RInv, NumbersOK, QueuesOK
  <1>2. /\ R = {x \in Keys \X (1..MaxEvents) : x[2] <= Len(p[x[1]])}
        /\ Requested' = {x \in Keys \X (1..MaxEvents) : x[2] <= Len(p'[x[1]])}
    BY DEF Requested
  <1>3. ASSUME NEW k \in Keys, p' = [p EXCEPT ![k] = Append(@, clock)]
        PROVE  Cardinality(Requested') <= Cardinality(R) + 1
    <2>1. PICK x : x = <<k, Len(p[k]) + 1>>
      OBVIOUS
    <2>2. Len(Append(p[k], clock)) = Len(p[k]) + 1
      BY <1>1, AppendProperties
    <2>3. Requested' \subseteq R \cup {x}
      <3> SUFFICES ASSUME NEW y \in Requested', y \notin R PROVE y = x
        OBVIOUS
      <3>1. /\ y \in Keys \X (1..MaxEvents) /\ y[2] <= Len(p'[y[1]])
            /\ ~(y[2] <= Len(p[y[1]]))
        BY <1>2
      <3>2. y[1] = k /\ Len(p'[k]) = Len(p[k]) + 1
        BY <1>1, <1>3, <2>2, <3>1
      <3>3. y[2] = Len(p[k]) + 1
        BY <1>1, <3>1, <3>2
      <3> QED BY <2>1, <3>1, <3>2, <3>3
    <2>4. /\ Cardinality(R \cup {x}) <= Cardinality(R) + 1
          /\ Cardinality(R \cup {x}) \in Nat
          /\ IsFiniteSet(R \cup {x})
      <3>1. /\ IsFiniteSet(R \cup {x})
            /\ Cardinality(R \cup {x}) = IF x \in R THEN Cardinality(R) ELSE Cardinality(R) + 1
        BY <1>1, FS_AddElement
      <3>2. Cardinality(R) \in Nat
        BY <1>1
      <3> HIDE DEF R
      <3> QED BY <3>1, <3>2
    <2>5. Cardinality(Requested') <= Cardinality(R \cup {x}) /\ Cardinality(Requested') \in Nat
      BY <2>3, <2>4, FS_Subset, FS_CardinalityType
    <2> QED BY <1>1, <2>4, <2>5
  <1>4. ASSUME NEW k \in Keys, p[k] # <<>>, p' = [p EXCEPT ![k] = Tail(@)]
        PROVE  Cardinality(Requested') + 1 <= Cardinality(R)
    <2>1. PICK x : x = <<k, Len(p[k])>>
      OBVIOUS
    <2>2. Len(p[k]) # 0 /\ Len(Tail(p[k])) = Len(p[k]) - 1
      BY <1>1, <1>4, EmptySeq, HeadTailProperties
    <2>3. Len(p'[k]) = Len(p[k]) - 1 /\ \A j \in Keys : j # k => p'[j] = p[j]
      BY <1>1, <1>4, <2>2
    <2>4. x \in R
      <3>1. number["incoming_request"] \in Nat /\ MaxEvents \in Nat
        BY OnceTypes, RecordAssumption
      <3>2. Len(p[k]) \in 1..MaxEvents
        BY <1>1, <2>2, <3>1 DEF OnceInv
      <3> QED BY <1>1, <1>2, <2>1, <3>2
    <2>5. Requested' \subseteq R \ {x}
      <3> SUFFICES ASSUME NEW y \in Requested' PROVE y \in R /\ y # x
        OBVIOUS
      <3>1. y \in Keys \X (1..MaxEvents) /\ y[2] <= Len(p'[y[1]])
        BY <1>2
      <3>2. y[2] <= Len(p[y[1]])
        <4>1. PICK j \in Keys, i \in 1..MaxEvents : j = y[1] /\ i = y[2]
          BY <3>1
        <4>2. i \in Nat /\ i <= Len(p'[j]) /\ Len(p[j]) \in Nat /\ Len(p[k]) \in Nat
          BY <1>1, <3>1, <4>1, RecordAssumption
        <4>3. CASE j = k
          BY <2>3, <4>1, <4>2, <4>3
        <4>4. CASE j # k
          BY <2>3, <4>1, <4>2, <4>4
        <4> QED BY <4>3, <4>4
      <3>3. y # x
        BY <1>1, <2>1, <2>3, <3>1
      <3> QED BY <1>2, <3>1, <3>2, <3>3
    <2>6. Cardinality(R \ {x}) = Cardinality(R) - 1 /\ IsFiniteSet(R \ {x})
      BY <1>1, <2>4, FS_RemoveElement
    <2>7. Cardinality(Requested') <= Cardinality(R \ {x}) /\ Cardinality(Requested') \in Nat
      BY <2>5, <2>6, FS_Subset, FS_CardinalityType
    <2> QED BY <1>1, <2>6, <2>7
  <1>5. ASSUME p' \in {p, [k \in Keys |-> <<>>]} PROVE Cardinality(Requested') <= Cardinality(R)
    <2>1. Requested' \subseteq R
      <3> SUFFICES ASSUME NEW y \in Requested' PROVE y \in R
        OBVIOUS
      <3>1. y \in Keys \X (1..MaxEvents) /\ y[2] <= Len(p'[y[1]])
        BY <1>2
      <3>2. p'[y[1]] = p[y[1]] \/ p'[y[1]] = <<>>
        BY <1>5, <3>1
      <3>3. Len(p'[y[1]]) <= Len(p[y[1]])
        BY <1>1, <3>1, <3>2
      <3> QED BY <1>1, <1>2, <3>1, <3>2, <3>3
    <2> QED BY <1>1, <2>1, FS_Subset
  <1>6. \A k \in Keys : p' = [p EXCEPT ![k] = Append(@, clock)]
                            => Cardinality(Requested') <= Cardinality(R) + 1
    BY <1>3
  <1>7. \A k \in Keys : p[k] # <<>> /\ p' = [p EXCEPT ![k] = Tail(@)]
                            => Cardinality(Requested') + 1 <= Cardinality(R)
    BY <1>4
  <1> QED BY <1>5, <1>6, <1>7

LEMMA OnceStep ==
  ASSUME Inv, Inv', OnceInv, [Next]_vars
  PROVE  OnceInv'
  <1>0. PICK block, upload, O, R, sent, received :
            /\ block = samples["block_latency"].count
            /\ upload = samples["upload_latency"].count
            /\ O = Cardinality(OutstandingBlocks) /\ R = Cardinality(Requested)
            /\ sent = number["request"] /\ received = number["incoming_request"]
    OBVIOUS
  <1>00. PICK block_2, upload_2, O_2, R_2, sent_2, received_2 :
            /\ block_2 = samples'["block_latency"].count
            /\ upload_2 = samples'["upload_latency"].count
            /\ O_2 = Cardinality(OutstandingBlocks') /\ R_2 = Cardinality(Requested')
            /\ sent_2 = number'["request"] /\ received_2 = number'["incoming_request"]
    OBVIOUS
  <1>1. /\ block \in Nat /\ upload \in Nat /\ O \in Nat /\ R \in Nat
        /\ sent \in Nat /\ received \in Nat
        /\ \A k \in Keys : /\ pending_upload_requests[k] \in Seq(1..clock)
                           /\ Len(pending_upload_requests[k]) \in Nat
        /\ \A req \in PeerRequests : Key(req) \in Keys
    BY <1>0, OnceTypes
  <1>2. /\ block_2 \in Nat /\ upload_2 \in Nat /\ O_2 \in Nat /\ R_2 \in Nat
        /\ sent_2 \in Nat /\ received_2 \in Nat
    <2>1. /\ IsFiniteSet(OutstandingBlocks) /\ IsFiniteSet(Requested)
      BY OnceTypes
    <2>2. /\ number' \in [Streams -> Nat] /\ samples' \in SampleType
      BY DEF Inv, RInv, NumbersOK
    <2>3. /\ sent_2 \in Nat /\ received_2 \in Nat /\ block_2 \in Nat /\ upload_2 \in Nat
      BY <1>00, <2>2, SeriesNames DEF Streams, SampleType
    <2>4. IsFiniteSet(OutstandingBlocks') /\ IsFiniteSet(Requested')
      <3>1. IsFiniteSet(Blocks) /\ IsFiniteSet(Keys \X (1..MaxEvents))
        <4>1. IsFiniteSet(1..MaxEvents)
          BY FS_Interval, RecordAssumption
        <4> QED BY <4>1, KeysAreFinite, FS_Product
      <3>2. OutstandingBlocks' \subseteq Blocks /\ Requested' \subseteq Keys \X (1..MaxEvents)
        BY DEF OutstandingBlocks, Requested
      <3> QED BY <3>1, <3>2, FS_Subset
    <2> QED BY <1>00, <2>3, <2>4, FS_CardinalityType
  <1>3. /\ block + O <= sent /\ upload + R <= received /\ received <= MaxEvents
        /\ \A k \in Keys : Len(pending_upload_requests[k]) <= received
    BY <1>0 DEF OnceInv, MeasuredOnce
  <1>4. SUFFICES /\ block_2 + O_2 <= sent_2 /\ upload_2 + R_2 <= received_2 /\ received_2 <= MaxEvents
                 /\ \A k \in Keys : Len(pending_upload_requests'[k]) <= received_2
    BY <1>0, <1>00 DEF OnceInv, MeasuredOnce
  \* What a handler counts.
  <1>5. ASSUME NEW s \in Streams, note_pace(s)
        PROVE  /\ sent_2 = sent + One(s = "request")
               /\ received_2 = received + One(s = "incoming_request")
    <2>1. /\ number'[s] = number[s] + 1
          /\ \A other \in Streams \ {s} : number'[other] = number[other]
      BY <1>5 DEF note_pace, Inv, RInv, NumbersOK
    <2>2. "request" \in Streams /\ "incoming_request" \in Streams
      BY DEF Streams
    <2> QED BY <1>0, <1>00, <1>1, <2>1, <2>2 DEF One
  <1>6. ASSUME UNCHANGED <<pending_upload_requests, samples>>, received_2 = received
        PROVE  upload_2 + R_2 <= received_2
    <2>1. upload_2 = upload /\ R_2 = R
      BY <1>0, <1>00, <1>6 DEF Requested
    <2> QED BY <1>3, <1>6, <2>1
  <1>7. \A b \in Blocks :
            /\ outstanding_requests' = Outstanding(b) => O_2 <= O + 1
            /\ outstanding_requests' = Erase(b) => O_2 + One(outstanding_requests[b] # Never) = O
            /\ outstanding_requests' = outstanding_requests => O_2 <= O
    BY <1>0, <1>00, OutstandingCounts
  <1>8. /\ \A k \in Keys :
               /\ pending_upload_requests' = [pending_upload_requests EXCEPT
                                                  ![k] = Append(@, clock)] => R_2 <= R + 1
               /\ pending_upload_requests[k] # <<>>
                    /\ pending_upload_requests' = [pending_upload_requests EXCEPT ![k] = Tail(@)]
                      => R_2 + 1 <= R
        /\ pending_upload_requests' = pending_upload_requests => R_2 <= R
        /\ pending_upload_requests' = [k \in Keys |-> <<>>] => R_2 <= R
    BY <1>0, <1>00, RequestedCounts
  <1>9. \A c : One(c) \in {0, 1}
    BY DEF One
  <1>10. ASSUME NEW b \in Blocks, note_request_sent(b)
         PROVE  /\ block_2 + O_2 <= sent_2 /\ upload_2 + R_2 <= received_2 /\ received_2 <= MaxEvents
                /\ \A k \in Keys : Len(pending_upload_requests'[k]) <= received_2
    <2>1. /\ note_pace("request") /\ "request" \in Streams
          /\ outstanding_requests' = Outstanding(b) /\ UNCHANGED pending_upload_requests
      BY <1>10 DEF note_request_sent, uploads, Streams
    <2>2. sent_2 = sent + 1 /\ received_2 = received
      BY <1>1, <1>5, <2>1 DEF One
    <2>3. block_2 = block /\ upload_2 = upload
      BY <1>0, <1>00, <1>10, BlockSamples
    <2>4. O_2 <= O + 1 /\ R_2 <= R
      BY <1>7, <1>8, <2>1
    <2>5. block_2 + O_2 <= sent_2
      BY <1>1, <1>2, <1>3, <2>2, <2>3, <2>4
    <2>6. upload_2 + R_2 <= received_2
      BY <1>1, <1>2, <1>3, <2>2, <2>3, <2>4
    <2>7. received_2 <= MaxEvents /\ \A k \in Keys : Len(pending_upload_requests'[k]) <= received_2
      BY <1>3, <2>1, <2>2
    <2> QED BY <2>5, <2>6, <2>7
  <1>11. ASSUME NEW b \in Blocks, note_block_response(b) \/ note_timeout(b)
         PROVE  /\ block_2 + O_2 <= sent_2 /\ upload_2 + R_2 <= received_2 /\ received_2 <= MaxEvents
                /\ \A k \in Keys : Len(pending_upload_requests'[k]) <= received_2
    <2>1. /\ outstanding_requests' = Erase(b)
          /\ UNCHANGED <<pending_upload_requests, number>>
      BY <1>11 DEF note_block_response, note_timeout, uploads, pace
    <2>2. sent_2 = sent /\ received_2 = received
      BY <1>0, <1>00, <2>1
    <2>3. /\ upload_2 = upload
          /\ block_2 = block + One(outstanding_requests[b] # Never) \/ block_2 = block
      BY <1>0, <1>00, <1>11, BlockSamples
    <2>4. /\ O_2 + One(outstanding_requests[b] # Never) = O /\ R_2 <= R
      BY <1>7, <1>8, <2>1
    <2>5. One(outstanding_requests[b] # Never) \in {0, 1}
      BY <1>9
    <2>6. block_2 + O_2 <= block + O
      BY <1>1, <1>2, <2>3, <2>4, <2>5
    <2> QED BY <1>1, <1>2, <1>3, <2>1, <2>2, <2>3, <2>4, <2>6
  <1>12. ASSUME NEW req \in PeerRequests, note_incoming_request(req)
         PROVE  /\ block_2 + O_2 <= sent_2 /\ upload_2 + R_2 <= received_2 /\ received_2 <= MaxEvents
                /\ \A k \in Keys : Len(pending_upload_requests'[k]) <= received_2
    <2>1. /\ note_pace("incoming_request") /\ "incoming_request" \in Streams
          /\ outstanding_requests' = outstanding_requests
          /\ pending_upload_requests' =
                 [pending_upload_requests EXCEPT ![Key(req)] = Append(@, clock)]
          /\ received < MaxEvents
      BY <1>0, <1>00, <1>12 DEF note_incoming_request, requests, Streams
    <2>2. sent_2 = sent /\ received_2 = received + 1
      BY <1>1, <1>5, <2>1 DEF One
    <2>10. BlockOf(req) \in Blocks /\ Key(req) \in Keys
      BY RequestTypes
    <2>3. block_2 = block /\ upload_2 = upload
      BY <1>0, <1>00, <1>12, IncomingSamples DEF SameLatencies
    <2>4. O_2 <= O /\ R_2 <= R + 1
      BY <1>7, <1>8, <2>10, <2>1
    <2>5. \A k \in Keys : Len(pending_upload_requests'[k]) <= received + 1
      <3>1. clock \in 1..clock
        BY DEF Inv, RInv, NumbersOK
      <3>2. \A s \in Seq(1..clock) : Len(Append(s, clock)) = Len(s) + 1
        BY <3>1, AppendProperties
      <3>3. DOMAIN pending_upload_requests = Keys
        BY DEF Inv, QueuesOK
      <3> QED BY <1>1, <1>3, <2>1, <3>2, <3>3
    <2>6. MaxEvents \in Nat
      BY RecordAssumption
    <2>7. block_2 + O_2 <= sent_2
      BY <1>1, <1>2, <1>3, <2>2, <2>3, <2>4
    <2>8. upload_2 + R_2 <= received_2
      BY <1>1, <1>2, <1>3, <2>2, <2>3, <2>4
    <2>9. received_2 <= MaxEvents
      BY <1>1, <2>1, <2>2, <2>6
    <2> QED BY <2>2, <2>5, <2>7, <2>8, <2>9
  <1>13. ASSUME NEW b \in Blocks, note_block_uploaded(b)
         PROVE  /\ block_2 + O_2 <= sent_2 /\ upload_2 + R_2 <= received_2 /\ received_2 <= MaxEvents
                /\ \A k \in Keys : Len(pending_upload_requests'[k]) <= received_2
    <2>1. /\ note_pace("block_upload") /\ "block_upload" \in Streams
          /\ outstanding_requests' = outstanding_requests
          /\ IF Pending(b) # <<>>
             THEN pending_upload_requests' = [pending_upload_requests EXCEPT ![b] = Serve(b).left]
             ELSE UNCHANGED pending_upload_requests
      BY <1>13 DEF note_block_uploaded, requests, Streams
    <2>2. sent_2 = sent /\ received_2 = received
      BY <1>1, <1>5, <2>1 DEF One
    <2>3. O_2 <= O
      BY <1>7, <2>1
    <2>4. block_2 = block
      BY <1>0, <1>00, <1>13, BlockSamples
    <2>5. CASE Pending(b) = <<>>
      <3>1. UNCHANGED pending_upload_requests /\ R_2 <= R
        BY <1>8, <2>1, <2>5
      <3>2. upload_2 = upload
        BY <1>0, <1>00, <1>13, <2>5, BlockSamples
      <3> QED BY <1>1, <1>2, <1>3, <2>2, <2>3, <2>4, <3>1, <3>2
    <2>6. CASE Pending(b) # <<>>
      <3>1. b \in Keys /\ Pending(b) = pending_upload_requests[b]
        BY <2>6 DEF Pending
      <3>2. pending_upload_requests' = [pending_upload_requests EXCEPT ![b] = Tail(@)]
        BY <2>1, <2>6, <3>1 DEF Serve
      <3>3. R_2 + 1 <= R
        BY <1>8, <2>6, <3>1, <3>2
      <3>4. upload_2 = upload + 1
        <4>1. samples'["upload_latency"] = Add(samples["upload_latency"], clock - Serve(b).from)
          BY <1>13, <2>6, BlockSamples
        <4> QED BY <1>0, <1>00, <4>1 DEF Add
      <3>5. \A k \in Keys : Len(pending_upload_requests'[k]) <= received
        <4>1. Len(Tail(pending_upload_requests[b])) = Len(pending_upload_requests[b]) - 1
          BY <1>1, <2>6, <3>1, HeadTailProperties
        <4>2. DOMAIN pending_upload_requests = Keys
          BY DEF Inv, QueuesOK
        <4> QED BY <1>1, <1>3, <3>1, <3>2, <4>1, <4>2
      <3> QED BY <1>1, <1>2, <1>3, <2>2, <2>3, <2>4, <3>3, <3>4, <3>5
    <2> QED BY <2>5, <2>6
  <1>14. ASSUME Quiet
         PROVE  /\ block_2 + O_2 <= sent_2 /\ upload_2 + R_2 <= received_2 /\ received_2 <= MaxEvents
                /\ \A k \in Keys : Len(pending_upload_requests'[k]) <= received_2
    <2>1. block_2 = block /\ upload_2 = upload /\ sent_2 = sent /\ received_2 = received
      BY <1>0, <1>00, <1>14, QuietSamples
    <2>2. /\ pending_upload_requests' \in {pending_upload_requests, [k \in Keys |-> <<>>]}
          /\ outstanding_requests' \in {outstanding_requests, [x \in Blocks |-> Never]}
      BY <1>14 DEF Quiet, Tick, note_snubbed, ChokeChanges, update_from_snapshot,
         note_alert_loss, Disconnect, finalize, note_disconnect, NothingPending, Cancel,
         PeerCancel, vars, requests, uploads
    <2>3. R_2 <= R
      BY <1>8, <2>2
    <2>4. O_2 <= O
      <3>1. CASE Blocks = {}
        <4>1. OutstandingBlocks' = OutstandingBlocks
          BY <3>1 DEF OutstandingBlocks
        <4> QED BY <1>0, <1>00, <1>1, <4>1
      <3>2. ASSUME NEW b \in Blocks PROVE O_2 <= O
        BY <1>0, <1>00, <2>2, OutstandingCounts
      <3> QED BY <3>1, <3>2
    <2>5. \A k \in Keys : Len(pending_upload_requests'[k]) <= received
      <3>1. \A k \in Keys : pending_upload_requests'[k] \in {pending_upload_requests[k], <<>>}
        BY <2>2
      <3>2. Len(<<>>) = 0
        OBVIOUS
      <3> QED BY <1>1, <1>3, <3>1, <3>2
    <2> QED BY <1>1, <1>2, <1>3, <2>1, <2>3, <2>4, <2>5
  <1> QED BY <1>10, <1>11, <1>12, <1>13, <1>14 DEF Next, Quiet

LEMMA OnceInit == Init => OnceInv
  <1> SUFFICES ASSUME Init PROVE OnceInv
    OBVIOUS
  <1>1. /\ samples["block_latency"].count = 0 /\ samples["upload_latency"].count = 0
        /\ number["request"] = 0 /\ number["incoming_request"] = 0
    BY SeriesNames DEF Init, NoSamples, Streams
  <1>2. OutstandingBlocks = {}
    BY DEF Init, OutstandingBlocks
  <1>3. Requested = {} /\ \A k \in Keys : Len(pending_upload_requests[k]) = 0
    BY RecordAssumption DEF Init, Requested
  <1> QED BY <1>1, <1>2, <1>3, FS_EmptySet, RecordAssumption DEF OnceInv, MeasuredOnce

\* peer_stats.cpp:217-222, 286-300: for pieces of any size and any number of events, a
\* request is measured at most once, and not while it is outstanding or pending.
THEOREM RequestsAreMeasuredOnce == Spec => []MeasuredOnce
  <1>1. Inv /\ Inv' /\ OnceInv /\ [Next]_vars => OnceInv'
    BY OnceStep
  <1>2. OnceInv => MeasuredOnce
    BY DEF OnceInv
  <1> QED BY <1>1, <1>2, OnceInit, RecordInvariant, PTL DEF Spec


-----------------------------------------------------------------------------
(* A latency of an upload is never too short.                               *)

\* The times of a queue p and of what is still due: requests that the peer took back
\* only leave older times in the place of younger ones.
Ordered(p) == \A i, j \in 1..Len(p) : i <= j => p[i] <= p[j]
NoneYounger(p, d) == Len(d) <= Len(p) /\ \A i \in 1..Len(d) : p[i] <= d[i]

LEMMA QueueAppends ==
  ASSUME NEW p \in Seq(Nat), NEW d \in Seq(Nat), NEW now \in Nat,
         Ordered(p), NoneYounger(p, d), \A i \in 1..Len(p) : p[i] <= now
  PROVE  Ordered(Append(p, now)) /\ NoneYounger(Append(p, now), Append(d, now))
  <1> DEFINE q == Append(p, now)
             e == Append(d, now)
  <1>1. /\ Len(p) \in Nat /\ Len(d) \in Nat /\ Len(d) <= Len(p)
        /\ Len(q) = Len(p) + 1 /\ Len(e) = Len(d) + 1
        /\ \A i \in 1..Len(p) : q[i] = p[i]
        /\ \A i \in 1..Len(d) : e[i] = d[i]
        /\ q[Len(p) + 1] = now /\ e[Len(d) + 1] = now
    BY AppendProperties, LenProperties DEF NoneYounger
  <1> HIDE DEF q, e
  <1>2. ASSUME NEW i \in 1..Len(q) PROVE q[i] <= now
    <2>1. i \in 1..Len(p) \/ i = Len(p) + 1
      BY <1>1
    <2>2. CASE i \in 1..Len(p)
      BY <1>1, <2>2
    <2>3. CASE i = Len(p) + 1
      BY <1>1, <2>3
    <2> QED BY <2>1, <2>2, <2>3
  <1>3. Ordered(q)
    <2> SUFFICES ASSUME NEW i \in 1..Len(q), NEW j \in 1..Len(q), i <= j PROVE q[i] <= q[j]
      BY DEF Ordered
    <2>1. CASE j = Len(p) + 1
      BY <1>1, <1>2, <2>1
    <2>2. CASE j # Len(p) + 1
      <3>1. i \in 1..Len(p) /\ j \in 1..Len(p)
        BY <1>1, <2>2
      <3>2. p[i] <= p[j]
        BY <3>1 DEF Ordered
      <3> QED BY <1>1, <3>1, <3>2
    <2> QED BY <2>1, <2>2
  <1>4. NoneYounger(q, e)
    <2>1. Len(e) <= Len(q)
      BY <1>1
    <2>2. ASSUME NEW i \in 1..Len(e) PROVE q[i] <= e[i]
      <3>1. CASE i = Len(d) + 1
        BY <1>1, <1>2, <3>1
      <3>2. CASE i # Len(d) + 1
        BY <1>1, <3>2 DEF NoneYounger
      <3> QED BY <3>1, <3>2
    <2> QED BY <2>1, <2>2 DEF NoneYounger
  <1> QED BY <1>3, <1>4 DEF q, e

LEMMA QueueServes ==
  ASSUME NEW p \in Seq(Nat), NEW d \in Seq(Nat), Ordered(p), NoneYounger(p, d), d # <<>>
  PROVE  /\ p # <<>> /\ Head(p) \in Nat /\ Head(d) \in Nat /\ Head(p) <= Head(d)
         /\ Ordered(Tail(p)) /\ NoneYounger(Tail(p), Tail(d))
  <1>1. Len(p) \in Nat /\ Len(d) \in Nat /\ Len(d) # 0 /\ Len(d) <= Len(p)
    BY LenProperties, EmptySeq DEF NoneYounger
  <1>2. p # <<>>
    BY <1>1, EmptySeq
  <1>3. /\ Head(p) \in Nat /\ Head(d) \in Nat
        /\ Len(Tail(p)) = Len(p) - 1 /\ Len(Tail(d)) = Len(d) - 1
        /\ \A i \in 1..Len(Tail(p)) : Tail(p)[i] = p[i + 1]
        /\ \A i \in 1..Len(Tail(d)) : Tail(d)[i] = d[i + 1]
    BY <1>2, HeadTailProperties
  <1>4. Head(p) = p[1] /\ Head(d) = d[1]
    BY <1>2
  <1>5. Head(p) <= Head(d)
    BY <1>1, <1>4 DEF NoneYounger
  <1>6. Ordered(Tail(p))
    <2> SUFFICES ASSUME NEW i \in 1..Len(Tail(p)), NEW j \in 1..Len(Tail(p)), i <= j
                 PROVE  Tail(p)[i] <= Tail(p)[j]
      BY DEF Ordered
    <2>1. i + 1 \in 1..Len(p) /\ j + 1 \in 1..Len(p) /\ i + 1 <= j + 1
      BY <1>1, <1>3
    <2>2. p[i + 1] <= p[j + 1]
      BY <2>1 DEF Ordered
    <2> QED BY <1>3, <2>2
  <1>7. NoneYounger(Tail(p), Tail(d))
    <2>1. Len(Tail(d)) <= Len(Tail(p))
      BY <1>1, <1>3
    <2>2. ASSUME NEW i \in 1..Len(Tail(d)) PROVE Tail(p)[i] <= Tail(d)[i]
      <3>1. i + 1 \in 1..Len(d) /\ i \in 1..Len(Tail(p))
        BY <1>1, <1>3
      <3>2. p[i + 1] <= d[i + 1]
        BY <3>1 DEF NoneYounger
      <3> QED BY <1>3, <3>1, <3>2
    <2> QED BY <2>1, <2>2 DEF NoneYounger
  <1> QED BY <1>2, <1>3, <1>5, <1>6, <1>7

LEMMA QueueForgets ==
  ASSUME NEW p \in Seq(Nat), NEW d \in Seq(Nat), Ordered(p), NoneYounger(p, d),
         NEW k \in 1..Len(d)
  PROVE  NoneYounger(p, Without(d, k))
  <1> DEFINE before == SubSeq(d, 1, k - 1)
             after == SubSeq(d, k + 1, Len(d))
  <1>1. Len(p) \in Nat /\ Len(d) \in Nat /\ k \in 1..Len(d) /\ Len(d) <= Len(p)
    BY LenProperties DEF NoneYounger
  <1>2. /\ before \in Seq(Nat) /\ Len(before) = k - 1
        /\ \A i \in 1..(k - 1) : before[i] = d[i]
    <2>1. 1 \in Int /\ k - 1 \in Int /\ \A i \in 1..(k - 1) : d[i] \in Nat
      BY <1>1
    <2>2. /\ before \in Seq(Nat)
          /\ Len(before) = IF 1 <= k - 1 THEN (k - 1) - 1 + 1 ELSE 0
          /\ \A i \in 1..((k - 1) - 1 + 1) : before[i] = d[1 + i - 1]
      BY <2>1, SubSeqProperties
    <2> HIDE DEF before
    <2>3. \A i \in 1..(k - 1) : before[i] = d[i]
      <3> TAKE i \in 1..(k - 1)
      <3>1. i \in 1..((k - 1) - 1 + 1) /\ 1 + i - 1 = i
        BY <1>1
      <3> QED BY <2>2, <3>1
    <2> QED BY <1>1, <2>2, <2>3
  <1>3. /\ after \in Seq(Nat) /\ Len(after) = Len(d) - k
        /\ \A i \in 1..(Len(d) - k) : after[i] = d[k + i]
    <2>1. k + 1 \in Int /\ Len(d) \in Int /\ \A i \in (k + 1)..Len(d) : d[i] \in Nat
      BY <1>1
    <2>2. /\ after \in Seq(Nat)
          /\ Len(after) = IF k + 1 <= Len(d) THEN Len(d) - (k + 1) + 1 ELSE 0
          /\ \A i \in 1..(Len(d) - (k + 1) + 1) : after[i] = d[(k + 1) + i - 1]
      BY <2>1, SubSeqProperties
    <2> HIDE DEF after
    <2>3. \A i \in 1..(Len(d) - k) : after[i] = d[k + i]
      <3> TAKE i \in 1..(Len(d) - k)
      <3>1. i \in 1..(Len(d) - (k + 1) + 1) /\ (k + 1) + i - 1 = k + i
        BY <1>1
      <3> QED BY <2>2, <3>1
    <2> QED BY <1>1, <2>2, <2>3
  <1>4. PICK e : e = before \o after
    OBVIOUS
  <1> HIDE DEF before, after
  <1>5. /\ Len(e) = Len(before) + Len(after)
        /\ \A i \in 1..(Len(before) + Len(after)) :
               e[i] = IF i <= Len(before) THEN before[i] ELSE after[i - Len(before)]
    BY <1>2, <1>3, <1>4, ConcatProperties
  <1>6. Len(e) = Len(d) - 1
    BY <1>1, <1>2, <1>3, <1>5
  <1>7. ASSUME NEW i \in 1..Len(e) PROVE p[i] <= e[i]
    <2>1. CASE i <= k - 1
      <3>1. e[i] = d[i] /\ i \in 1..Len(d)
        <4>1. i \in 1..(k - 1) /\ i \in 1..(Len(before) + Len(after)) /\ i <= Len(before)
          BY <1>1, <1>2, <1>5, <2>1
        <4>2. e[i] = before[i] /\ before[i] = d[i]
          BY <1>2, <1>5, <4>1
        <4>3. i \in 1..Len(d)
          BY <1>1, <4>1
        <4> QED BY <4>2, <4>3
      <3> QED BY <3>1 DEF NoneYounger
    <2>2. CASE ~(i <= k - 1)
      <3>1. i \in 1..(Len(before) + Len(after)) /\ ~(i <= Len(before))
        BY <1>1, <1>2, <1>5, <2>2
      <3>2. e[i] = after[i - Len(before)]
        BY <1>5, <3>1
      <3>3. PICK m : m = i - Len(before)
        OBVIOUS
      <3>4. m \in 1..(Len(d) - k) /\ k + m = i + 1 /\ i + 1 \in 1..Len(d)
        BY <1>1, <1>2, <1>3, <3>1, <3>3
      <3>5. e[i] = d[i + 1]
        BY <1>3, <3>2, <3>3, <3>4
      <3>6. p[i + 1] <= d[i + 1]
        BY <3>4 DEF NoneYounger
      <3>7. i \in 1..Len(p) /\ i + 1 \in 1..Len(p) /\ i <= i + 1
        BY <1>1, <3>4
      <3>8. p[i] <= p[i + 1]
        BY <3>7 DEF Ordered
      <3>9. p[i] \in Nat /\ p[i + 1] \in Nat /\ d[i + 1] \in Nat
        BY <3>4, <3>7, ElementOfSeq
      <3> QED BY <3>5, <3>6, <3>8, <3>9
    <2> QED BY <2>1, <2>2
  <1>8. Without(d, k) = e
    BY <1>4 DEF Without, before, after
  <1>9. Len(e) <= Len(p)
    BY <1>1, <1>6
  <1> QED BY <1>7, <1>8, <1>9 DEF NoneYounger


\* What the code has pending for a block against what the peer still waits for.
Matched(b) ==
    /\ Ordered(Pending(b))
    /\ NoneYounger(Pending(b), due[b])
    /\ "peer_cancel" \notin faults => Pending(b) = due[b]

\* As long as the peer asks for whole blocks, nothing is pending for one that is not regular.
OnlyWhole ==
    "part" \notin faults =>
        /\ Regular \cap mixed = {}
        /\ \A b \in Blocks \ Regular : Pending(b) = <<>>

LateInv ==
    /\ UploadLatencyNeverShort
    /\ OnlyWhole
    /\ "loss" \notin faults /\ active_connection => \A b \in Blocks \ mixed : Matched(b)

Counts(sum) ==
    sum.count \in Nat /\ sum.total \in Nat /\ sum = [count |-> sum.count, total |-> sum.total]

LEMMA LateTypes ==
  ASSUME Inv
  PROVE  /\ clock \in Nat
         /\ Counts(served) /\ Counts(strays) /\ Counts(samples["upload_latency"])
         /\ \A b \in Blocks :
                /\ due[b] \in Seq(1..clock) /\ due[b] \in Seq(Nat) /\ Pending(b) \in Seq(Nat)
                /\ \A i \in 1..Len(due[b]) : due[b][i] <= clock
                /\ \A i \in 1..Len(Pending(b)) : Pending(b)[i] <= clock
         /\ DOMAIN pending_upload_requests = Keys /\ DOMAIN due = Blocks
  <1>1. /\ clock \in Nat \ {0} /\ samples \in SampleType
        /\ served \in [count : Nat, total : Nat] /\ strays \in [count : Nat, total : Nat]
        /\ due \in [Blocks -> Seq(1..clock)]
        /\ pending_upload_requests \in [Keys -> Seq(1..clock)]
    BY DEF Inv, RInv, NumbersOK, QueuesOK
  <1>2. samples["upload_latency"] \in [count : Nat, total : Nat]
    BY <1>1, SeriesNames DEF SampleType
  <1>3. \A c \in [count : Nat, total : Nat] : Counts(c)
    BY DEF Counts
  <1>4. ASSUME NEW b \in Blocks PROVE due[b] \in Seq(1..clock) /\ Pending(b) \in Seq(1..clock)
    <2>1. due[b] \in Seq(1..clock)
      BY <1>1
    <2>2. b \in Keys => Pending(b) \in Seq(1..clock)
      BY <1>1 DEF Pending
    <2>3. b \notin Keys => Pending(b) = <<>>
      BY DEF Pending
    <2>4. <<>> \in Seq(1..clock)
      OBVIOUS
    <2> QED BY <2>1, <2>2, <2>3, <2>4
  <1>5. 1..clock \subseteq Nat /\ Seq(1..clock) \subseteq Seq(Nat)
    <2>1. 1..clock \subseteq Nat
      BY <1>1
    <2> QED BY <2>1, SeqMonotonic
  <1>6. \A q \in Seq(1..clock) : \A i \in 1..Len(q) : q[i] <= clock
    <2> TAKE q \in Seq(1..clock)
    <2> TAKE i \in 1..Len(q)
    <2>1. q[i] \in 1..clock
      BY ElementOfSeq
    <2> QED BY <1>1, <2>1
  <1> QED BY <1>1, <1>2, <1>3, <1>4, <1>5, <1>6

\* peer_stats.cpp:245-265: a request whose key is that of its block joins both queues; one
\* of another key mixes up the blocks it is in the queues of.
LEMMA LateRequest ==
  ASSUME Inv, LateInv, "loss" \notin faults, active_connection,
         NEW req \in PeerRequests, note_incoming_request(req)
  PROVE  \A c \in Blocks \ mixed' : Matched(c)'
  <1> SUFFICES ASSUME NEW c \in Blocks \ mixed' PROVE Matched(c)'
    OBVIOUS
  <1>1. PICK b, k : b = BlockOf(req) /\ k = Key(req)
    OBVIOUS
  <1>2. /\ pending_upload_requests' = [pending_upload_requests EXCEPT ![k] = Append(@, clock)]
        /\ due' = [due EXCEPT ![b] = Append(@, clock)]
        /\ mixed' = IF k = b THEN mixed ELSE mixed \cup ({k, b} \cap Blocks)
        /\ "peer_cancel" \in faults' <=> "peer_cancel" \in faults
    BY <1>1 DEF note_incoming_request
  <1>3. b \in Blocks /\ k \in Keys
    BY <1>1, RequestTypes
  <1>4. c \in Blocks /\ c \notin mixed /\ (k # b => c # k /\ c # b)
    BY <1>2
  <1>5. PICK p, d : p = Pending(c) /\ d = due[c]
    OBVIOUS
  <1>6. /\ p \in Seq(Nat) /\ d \in Seq(Nat) /\ clock \in Nat
        /\ \A i \in 1..Len(p) : p[i] <= clock
        /\ DOMAIN pending_upload_requests = Keys /\ DOMAIN due = Blocks
    BY <1>4, <1>5, LateTypes
  <1>7. Ordered(p) /\ NoneYounger(p, d) /\ ("peer_cancel" \notin faults => p = d)
    BY <1>4, <1>5 DEF Matched, LateInv
  <1>8. CASE b = c
    <2>1. k = c /\ c \in Keys
      BY <1>3, <1>4, <1>8
    <2>2. Pending(c)' = Append(p, clock) /\ due'[c] = Append(d, clock)
      BY <1>2, <1>4, <1>5, <1>6, <1>8, <2>1 DEF Pending
    <2>3. Ordered(Append(p, clock)) /\ NoneYounger(Append(p, clock), Append(d, clock))
      BY <1>6, <1>7, QueueAppends
    <2> QED BY <1>2, <1>7, <2>2, <2>3 DEF Matched
  <1>9. CASE b # c
    <2>1. k # c
      BY <1>4, <1>9
    <2>2. Pending(c)' = p /\ due'[c] = d
      BY <1>2, <1>4, <1>5, <1>6, <1>9, <2>1 DEF Pending
    <2> QED BY <1>2, <1>7, <2>2 DEF Matched
  <1> QED BY <1>8, <1>9

\* peer_stats.cpp:67-71: the key of a whole block is its number, or that of no block.
LEMMA WholeRequest ==
  ASSUME Inv, OnlyWhole, NEW req \in PeerRequests, note_incoming_request(req)
  PROVE  OnlyWhole'
  <1> SUFFICES ASSUME "part" \notin faults' PROVE OnlyWhole'
    BY DEF OnlyWhole
  <1>1. PICK b, k : b = BlockOf(req) /\ k = Key(req)
    OBVIOUS
  <1>2. /\ pending_upload_requests' = [pending_upload_requests EXCEPT ![k] = Append(@, clock)]
        /\ mixed' = IF k = b THEN mixed ELSE mixed \cup ({k, b} \cap Blocks)
        /\ "part" \notin faults /\ req = Whole(b)
    BY <1>1 DEF note_incoming_request, IsWhole
  <1>3. /\ b \in Blocks /\ k \in Keys /\ k = Key(Whole(b))
        /\ DOMAIN pending_upload_requests = Keys
    BY <1>1, <1>2, RequestTypes, LateTypes
  <1>4. /\ k \in Blocks => k = b /\ k \in Regular
        /\ k # b => b \notin Regular
    BY <1>3, KeyIsOwn DEF Regular
  <1>5. Regular \cap mixed' = {}
    BY <1>2, <1>4 DEF OnlyWhole, Regular
  <1>6. ASSUME NEW c \in Blocks \ Regular PROVE Pending(c)' = <<>>
    <2>1. c # k /\ Pending(c) = <<>>
      BY <1>2, <1>4 DEF OnlyWhole
    <2> QED BY <1>2, <1>3, <2>1 DEF Pending
  <1> QED BY <1>5, <1>6 DEF OnlyWhole

\* peer_stats.cpp:267-300: the oldest request is taken for the one served.
LEMMA LateUpload ==
  ASSUME Inv, LateInv, NEW b \in Blocks, note_block_uploaded(b)
  PROVE  LateInv'
  <1> DEFINE total == samples["upload_latency"].total
             count == samples["upload_latency"].count
  <1>1. PICK p, d : p = Pending(b) /\ d = due[b]
    OBVIOUS
  <1>2. /\ faults' = faults /\ mixed' = mixed /\ active_connection /\ d # <<>>
        /\ due' = [due EXCEPT ![b] = Tail(@)]
        /\ p # <<>> => pending_upload_requests' = [pending_upload_requests EXCEPT ![b] = Tail(p)]
        /\ p = <<>> => pending_upload_requests' = pending_upload_requests
        /\ b \in mixed => served' = served
        /\ b \notin mixed => served' = Add(served, clock - Head(d)) /\ strays' = strays
        /\ b \in mixed /\ p # <<>> => strays' = Add(strays, clock - Head(p))
        /\ b \in mixed /\ p = <<>> => strays' = strays
    BY <1>1 DEF note_block_uploaded, Open, Serve
  <1>3. samples'["upload_latency"] = IF p # <<>>
                                     THEN Add(samples["upload_latency"], clock - Head(p))
                                     ELSE samples["upload_latency"]
    BY <1>1, BlockSamples DEF Serve
  <1>4. /\ p \in Seq(Nat) /\ d \in Seq(Nat) /\ clock \in Nat
        /\ \A i \in 1..Len(p) : p[i] <= clock
        /\ \A i \in 1..Len(d) : d[i] <= clock
        /\ p # <<>> => b \in Keys
        /\ DOMAIN pending_upload_requests = Keys /\ DOMAIN due = Blocks
        /\ Counts(served) /\ Counts(strays) /\ Counts(samples["upload_latency"])
    BY <1>1, LateTypes DEF Pending
  <1>5. Pending(b)' = (IF p = <<>> THEN <<>> ELSE Tail(p)) /\ due'[b] = Tail(d)
    BY <1>1, <1>2, <1>4 DEF Pending
  <1>6. \A c \in Blocks : c # b => Pending(c)' = Pending(c) /\ due'[c] = due[c]
    BY <1>1, <1>2, <1>4 DEF Pending
  <1>7. OnlyWhole'
    <2> SUFFICES ASSUME "part" \notin faults' PROVE OnlyWhole'
      BY DEF OnlyWhole
    <2>1. \A c \in Blocks \ Regular : Pending(c) = <<>>
      BY <1>2 DEF LateInv, OnlyWhole
    <2>2. ASSUME NEW c \in Blocks \ Regular PROVE Pending(c)' = <<>>
      BY <1>1, <1>5, <1>6, <2>1
    <2> QED BY <1>2, <2>2 DEF LateInv, OnlyWhole
  <1>8. ASSUME "loss" \notin faults, NEW c \in Blocks \ mixed, c # b PROVE Matched(c)'
    <2>1. Matched(c)
      BY <1>2, <1>8 DEF LateInv
    <2> QED BY <1>2, <1>6, <1>8, <2>1 DEF Matched
  <1>9. p # <<>> => Head(p) \in Nat /\ Head(p) <= clock
    <2> HAVE p # <<>>
    <2>1. Len(p) \in Nat /\ Len(p) # 0 /\ Head(p) = p[1] /\ Head(p) \in Nat
      BY <1>4, LenProperties, EmptySeq, HeadTailProperties
    <2> QED BY <1>4, <2>1
  <1>10. /\ Head(d) \in Nat /\ Head(d) <= clock
    <2>1. Len(d) \in Nat /\ Len(d) # 0 /\ Head(d) = d[1] /\ Head(d) \in Nat
      BY <1>2, <1>4, LenProperties, EmptySeq, HeadTailProperties
    <2> QED BY <1>4, <2>1
  <1>11. ASSUME "loss" \notin faults, b \notin mixed
         PROVE  /\ p # <<>> /\ Head(p) <= Head(d)
                /\ "peer_cancel" \notin faults => Head(p) = Head(d)
                /\ Matched(b)'
    <2>1. Ordered(p) /\ NoneYounger(p, d) /\ ("peer_cancel" \notin faults => p = d)
      BY <1>1, <1>2, <1>11 DEF LateInv, Matched
    <2>2. /\ p # <<>> /\ Head(p) <= Head(d)
          /\ Ordered(Tail(p)) /\ NoneYounger(Tail(p), Tail(d))
      BY <1>2, <1>4, <2>1, QueueServes
    <2> QED BY <1>2, <1>5, <2>1, <2>2 DEF Matched
  <1>12. UploadLatencyNeverShort'
    <2> SUFFICES ASSUME "loss" \notin faults PROVE UploadLatencyNeverShort'
      BY <1>2 DEF UploadLatencyNeverShort
    <2>1. PICK n, t, s_n, s_t, r_n, r_t :
              /\ n = count /\ t = total /\ s_n = served.count /\ s_t = served.total
              /\ r_n = strays.count /\ r_t = strays.total
      OBVIOUS
    <2>2. /\ n \in Nat /\ t \in Nat /\ s_n \in Nat /\ s_t \in Nat /\ r_n \in Nat /\ r_t \in Nat
          /\ n = s_n + r_n /\ t >= s_t + r_t
          /\ "peer_cancel" \notin faults => t = s_t + r_t
          /\ "part" \notin faults => Regular \cap mixed = {} /\ strays = NoSamples
      BY <1>4, <2>1 DEF Counts, LateInv, UploadLatencyNeverShort
    <2>3. PICK n_2, t_2, s_n_2, s_t_2, r_n_2, r_t_2 :
              /\ n_2 = samples'["upload_latency"].count /\ t_2 = samples'["upload_latency"].total
              /\ s_n_2 = served'.count /\ s_t_2 = served'.total
              /\ r_n_2 = strays'.count /\ r_t_2 = strays'.total
      OBVIOUS
    <2>4. /\ n_2 = s_n_2 + r_n_2 /\ t_2 >= s_t_2 + r_t_2
          /\ "peer_cancel" \notin faults => t_2 = s_t_2 + r_t_2
      <3>1. CASE p = <<>>
        <4>1. b \in mixed
          BY <1>11, <3>1
        <4>2. /\ n_2 = n /\ t_2 = t /\ s_n_2 = s_n /\ s_t_2 = s_t /\ r_n_2 = r_n /\ r_t_2 = r_t
          BY <1>2, <1>3, <2>1, <2>3, <3>1, <4>1
        <4> QED BY <2>2, <4>2
      <3>2. CASE p # <<>> /\ b \in mixed
        <4>1. PICK long \in Nat : long = clock - Head(p)
          BY <1>4, <1>9, <3>2
        <4>2. /\ n_2 = n + 1 /\ t_2 = t + long /\ s_n_2 = s_n /\ s_t_2 = s_t
              /\ r_n_2 = r_n + 1 /\ r_t_2 = r_t + long
          BY <1>2, <1>3, <2>1, <2>3, <3>2, <4>1 DEF Add
        <4> QED BY <2>2, <4>1, <4>2
      <3>3. CASE p # <<>> /\ b \notin mixed
        <4>1. PICK long, short \in Nat :
                  /\ long = clock - Head(p) /\ short = clock - Head(d) /\ short <= long
                  /\ "peer_cancel" \notin faults => short = long
          BY <1>4, <1>9, <1>10, <1>11, <3>3
        <4>2. /\ n_2 = n + 1 /\ t_2 = t + long /\ s_n_2 = s_n + 1 /\ s_t_2 = s_t + short
              /\ r_n_2 = r_n /\ r_t_2 = r_t
          BY <1>2, <1>3, <2>1, <2>3, <3>3, <4>1 DEF Add
        <4> QED BY <2>2, <4>1, <4>2
      <3> QED BY <3>1, <3>2, <3>3
    <2>5. "part" \notin faults => Regular \cap mixed = {} /\ strays' = NoSamples
      <3> HAVE "part" \notin faults
      <3>1. Regular \cap mixed = {} /\ strays = NoSamples
        BY <2>2
      <3>2. b \in mixed => p = <<>>
        BY <1>1, <3>1 DEF LateInv, OnlyWhole
      <3> QED BY <1>2, <3>1, <3>2
    <2> QED BY <1>2, <2>3, <2>4, <2>5 DEF UploadLatencyNeverShort
  <1>13. "loss" \notin faults => \A c \in Blocks \ mixed : Matched(c)'
    BY <1>8, <1>11
  <1> QED BY <1>2, <1>7, <1>12, <1>13 DEF LateInv

\* A peer that takes a request back, or is choked, leaves it pending.
LEMMA LateCancel ==
  ASSUME Inv, LateInv, "loss" \notin faults, active_connection,
         NEW b \in Blocks, PeerCancel(b)
  PROVE  \A c \in Blocks \ mixed : Matched(c)'
  <1>1. PICK i \in 1..Len(due[b]) : due' = [due EXCEPT ![b] = Without(@, i)]
    BY DEF PeerCancel
  <1>2. /\ pending_upload_requests' = pending_upload_requests
        /\ faults' = faults \cup {"peer_cancel"}
    BY DEF PeerCancel, uploads
  <1> SUFFICES ASSUME NEW c \in Blocks \ mixed PROVE Matched(c)'
    OBVIOUS
  <1>3. c \in Blocks /\ Matched(c) /\ DOMAIN due = Blocks
    BY LateTypes DEF LateInv
  <1>4. PICK p, d : p = Pending(c) /\ d = due[c]
    OBVIOUS
  <1>5. p \in Seq(Nat) /\ d \in Seq(Nat) /\ Pending(c)' = p
    BY <1>2, <1>3, <1>4, LateTypes DEF Pending
  <1>6. Ordered(p) /\ NoneYounger(p, d)
    BY <1>3, <1>4 DEF Matched
  <1>7. due'[c] = IF c = b THEN Without(d, i) ELSE d
    BY <1>1, <1>3, <1>4
  <1>8. c = b => NoneYounger(p, Without(d, i))
    BY <1>1, <1>4, <1>5, <1>6, QueueForgets
  <1>9. NoneYounger(p, due'[c])
    BY <1>6, <1>7, <1>8
  <1> QED BY <1>2, <1>5, <1>6, <1>9 DEF Matched

LEMMA LateStep ==
  ASSUME Inv, LateInv, [Next]_vars
  PROVE  LateInv'
  <1>1. faults \subseteq faults'
    BY DEF Next, Tick, note_request_sent, note_block_response, note_timeout, Cancel,
       note_incoming_request, note_block_uploaded, PeerCancel, note_snubbed, ChokeChanges,
       update_from_snapshot, note_alert_loss, Disconnect, finalize, vars
  <1>2. ASSUME NEW req \in PeerRequests, note_incoming_request(req)
        PROVE  LateInv'
    <2>1. /\ active_connection /\ UNCHANGED <<served, strays>>
          /\ "loss" \in faults' <=> "loss" \in faults
          /\ "peer_cancel" \in faults' <=> "peer_cancel" \in faults
      BY <1>2 DEF note_incoming_request, Open
    <2>2. samples'["upload_latency"] = samples["upload_latency"]
      BY <1>2, IncomingSamples DEF SameLatencies
    <2>3. OnlyWhole'
      BY <1>2, WholeRequest DEF LateInv
    <2>4. "loss" \notin faults => \A c \in Blocks \ mixed' : Matched(c)'
      BY <1>2, <2>1, LateRequest
    <2>5. UploadLatencyNeverShort'
      BY <1>1, <2>1, <2>2, <2>3 DEF LateInv, UploadLatencyNeverShort, OnlyWhole
    <2> QED BY <2>1, <2>3, <2>4, <2>5 DEF LateInv
  \* What else leaves what is measured of uploads as it is.
  <1>3. ASSUME UNCHANGED <<served, strays, mixed>>,
               samples'["upload_latency"] = samples["upload_latency"],
               pending_upload_requests' \in {pending_upload_requests, [k \in Keys |-> <<>>]},
               \/ "loss" \in faults' \/ ~active_connection' \/ \A c \in Blocks \ mixed : Matched(c)'
        PROVE  LateInv'
    <2>1. UploadLatencyNeverShort'
      BY <1>1, <1>3 DEF LateInv, UploadLatencyNeverShort
    <2>2. \A c \in Blocks : Pending(c)' \in {Pending(c), <<>>}
      BY <1>3 DEF Pending
    <2>3. OnlyWhole'
      <3> SUFFICES ASSUME "part" \notin faults' PROVE OnlyWhole'
        BY DEF OnlyWhole
      <3>1. Regular \cap mixed = {} /\ \A c \in Blocks \ Regular : Pending(c) = <<>>
        BY <1>1 DEF LateInv, OnlyWhole
      <3>2. \A c \in Blocks \ Regular : Pending(c)' = <<>>
        BY <2>2, <3>1
      <3> QED BY <1>3, <3>1, <3>2 DEF OnlyWhole
    <2> QED BY <1>3, <2>1, <2>3 DEF LateInv
  <1>4. ASSUME UNCHANGED <<due, pending_upload_requests, mixed>>,
               \/ "loss" \in faults \/ ~active_connection
               \/ "peer_cancel" \in faults' <=> "peer_cancel" \in faults
        PROVE  \/ "loss" \in faults \/ ~active_connection
               \/ \A c \in Blocks \ mixed : Matched(c)'
    BY <1>4 DEF LateInv, Matched, Pending
  <1>5. ASSUME NEW b \in Blocks,
               note_request_sent(b) \/ note_block_response(b) \/ note_timeout(b)
        PROVE  LateInv'
    <2>1. UNCHANGED <<due, pending_upload_requests, faults, active_connection, served, strays, mixed>>
      BY <1>5 DEF note_request_sent, note_block_response, note_timeout, uploads, uploaded, life
    <2>2. samples'["upload_latency"] = samples["upload_latency"]
      BY <1>5, BlockSamples
    <2> QED BY <1>3, <1>4, <2>1, <2>2
  <1>6. ASSUME Quiet
        PROVE  LateInv'
    <2>1. /\ samples'["upload_latency"] = samples["upload_latency"]
          /\ UNCHANGED <<served, strays, mixed>>
      BY <1>6, QuietSamples
    <2>2. pending_upload_requests' \in {pending_upload_requests, [k \in Keys |-> <<>>]}
      BY <1>6 DEF Quiet, Tick, note_snubbed, ChokeChanges, update_from_snapshot,
         note_alert_loss, Disconnect, finalize, note_disconnect, NothingPending, Cancel,
         PeerCancel, vars, uploads
    <2> DEFINE Right == \/ "loss" \in faults' \/ ~active_connection'
                        \/ \A c \in Blocks \ mixed : Matched(c)'
    <2>3. ASSUME NEW b \in Blocks, PeerCancel(b) PROVE Right
      <3>1. active_connection
        BY <2>3 DEF PeerCancel, Open
      <3> QED BY <1>1, <2>3, <3>1, LateCancel
    <2>4. ASSUME Disconnect \/ finalize PROVE Right
      BY <2>4 DEF Disconnect, finalize, note_disconnect
    <2>5. ASSUME note_alert_loss PROVE Right
      BY <2>5 DEF note_alert_loss
    <2>6. ASSUME \/ Tick \/ note_snubbed \/ ChokeChanges \/ UNCHANGED vars
                 \/ \E active_now \in BOOLEAN : update_from_snapshot(active_now)
                 \/ \E b \in Blocks : Cancel(b)
          PROVE  Right
      <3>1. /\ UNCHANGED <<due, pending_upload_requests, active_connection>>
            /\ "peer_cancel" \in faults' <=> "peer_cancel" \in faults
        BY <2>6 DEF Tick, note_snubbed, ChokeChanges, update_from_snapshot, vars, peer,
           uploads, life, Cancel
      <3> QED BY <1>1, <1>4, <2>1, <3>1
    <2>7. Right
      BY <1>6, <2>3, <2>4, <2>5, <2>6 DEF Quiet
    <2> QED BY <1>3, <2>1, <2>2, <2>7
  <1> QED BY <1>2, <1>5, <1>6, LateUpload DEF Next, Quiet

LEMMA LateInit == Init => LateInv
  <1> SUFFICES ASSUME Init PROVE LateInv
    OBVIOUS
  <1>1. /\ samples["upload_latency"] = NoSamples /\ served = NoSamples /\ strays = NoSamples
        /\ mixed = {} /\ faults = {}
        /\ NoSamples.count = 0 /\ NoSamples.total = 0
    BY SeriesNames DEF Init, NoSamples
  <1>2. UploadLatencyNeverShort
    BY <1>1 DEF UploadLatencyNeverShort
  <1>3. ASSUME NEW b \in Blocks PROVE Pending(b) = <<>> /\ Matched(b)
    <2>1. Pending(b) = <<>> /\ due[b] = <<>>
      BY DEF Init, Pending
    <2>2. Ordered(<<>>) /\ NoneYounger(<<>>, <<>>)
      BY DEF Ordered, NoneYounger
    <2> QED BY <2>1, <2>2 DEF Matched
  <1> QED BY <1>1, <1>2, <1>3 DEF LateInv, OnlyWhole

\* peer_stats.cpp:67-71, 285-300: for pieces and blocks of any size, as long as no alert is
\* lost, every upload of a block that no request was mixed up with is measured, and its
\* latency is not shorter than its own; what is measured besides is of blocks mixed up by
\* requests for parts of blocks (PeerRecord!UploadLatencyNeverShort).
THEOREM UploadsNeverTooShort == Spec => []UploadLatencyNeverShort
  <1>1. Inv /\ LateInv /\ [Next]_vars => LateInv'
    BY LateStep
  <1>2. LateInv => UploadLatencyNeverShort
    BY DEF LateInv
  <1> QED BY <1>1, <1>2, LateInit, RecordInvariant, PTL DEF Spec
=============================================================================
