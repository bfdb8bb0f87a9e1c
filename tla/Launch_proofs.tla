----------------------------- MODULE Launch_proofs -----------------------------
(***************************************************************************)
(* Theorems about Launch, whatever the environments are and wherever a      *)
(* container is killed: a seeder starts with the whole payload, unless the  *)
(* payload is a directory and a part of it was left by an earlier container; *)
(* a container runs with what its environment says; and it is refused only   *)
(* for what is invalid or for a command that failed.                        *)
(***************************************************************************)
EXTENDS Launch, SequenceTheorems, TLAPS

\* What a seeder starts with, and what may be there before the copy: a part of the
\* payload is in the way only of a copy of a directory.
Whole == target = "complete" \/ (payload = "directory" /\ spoiled)
Preseeded ==
    /\ at \in {"exec", "parse", "run"} /\ ByContainer /\ Adversary => Whole
    /\ at = "nest" => Whole
    /\ at \notin {"copy", "run", "exit_1"} /\ target = "partial" => spoiled
    /\ payload \in {"file", "directory"} /\ target \in {"none", "partial", "complete"}

LEMMA InitPreseeded ==
  ASSUME Init
  PROVE  Preseeded
  BY DEF Init, Preseeded

LEMMA NextPreseeded ==
  ASSUME Preseeded, Next
  PROVE  Preseeded'
  <1> USE DEF Preseeded, Whole, volume
  <1>1. ASSUME NEW e \in Environments, Start(e)
        PROVE  Preseeded'
    BY <1>1 DEF Start
  <1>2. CASE Refuse
    BY <1>2 DEF Refuse
  <1>3. CASE SkipPreseed
    BY <1>3 DEF SkipPreseed, Adversary
  <1>4. CASE CopyBegins
    BY <1>4 DEF CopyBegins
  <1>5. CASE CopyEnds
    BY <1>5 DEF CopyEnds
  <1>6. CASE Exec
    BY <1>6 DEF Exec, ByContainer, Adversary
  <1>7. ASSUME NEW typed \in Typed, Type(typed)
        PROVE  Preseeded'
    BY <1>7 DEF Type, ByContainer
  <1>8. CASE ParseOption
    <2>1. /\ at = "parse" /\ UNCHANGED <<env, volume>>
          /\ at' \in {"parse", "exit_2"}
      BY <1>8 DEF ParseOption, Exit
    <2> QED BY <2>1 DEF ByContainer, Adversary
  <1>9. CASE ParseFlag
    BY <1>9 DEF ParseFlag, ByContainer, Adversary
  <1>10. CASE ParseOther
    BY <1>10 DEF ParseOther, Exit
  <1>11. CASE Validate
    BY <1>11 DEF Validate, Exit, ByContainer, Adversary
  <1>12. CASE Download
    BY <1>12 DEF Download, ByContainer, Adversary
  <1>13. CASE Stop
    BY <1>13 DEF Stop
  <1>14. CASE CommandFails
    BY <1>14 DEF CommandFails
  <1> QED
    BY <1>1, <1>2, <1>3, <1>4, <1>5, <1>6, <1>7, <1>8, <1>9, <1>10, <1>11, <1>12, <1>13,
       <1>14
    DEF Next

\* A seeder has the whole payload before btclient reads its arguments
\* (Launch!SeedersHavePayload).
THEOREM SeedersAreSeeded == Spec => []SeedersHavePayload
  <1>1. Preseeded /\ [Next]_vars => Preseeded'
    <2>1. CASE UNCHANGED vars
      BY <2>1 DEF vars, program, volume, Preseeded, Whole, ByContainer, Adversary
    <2> QED BY <2>1, NextPreseeded
  <1>2. Preseeded => SeedersHavePayload
    BY DEF Preseeded, Whole, SeedersHavePayload
  <1> QED BY <1>1, <1>2, InitPreseeded, PTL DEF Spec

-----------------------------------------------------------------------------
(* The arguments of a container: pairs of an option and its value, and the    *)
(* flag behind them. The argument loop reads a pair a step.                   *)

EnvType == \A option \in Options : env.options[option] \in Values(option) \cup {"default"}

Odd(n) == n % 2 = 1

\* a consists of pairs, among them one for every option of S that has a value.
Laid(a, S) ==
    /\ a \in Seq(Words) /\ ~Odd(Len(a))
    /\ \A n \in 1..Len(a) : Odd(n) =>
           n < Len(a) /\ a[n] \in Options /\ a[n + 1] = Filled(a[n])
    /\ \A option \in S : Filled(option) # "empty" =>
           \E n \in 1..Len(a) : Odd(n) /\ a[n] = option

Pairs ==
    Given("-f") \o Given("-t") \o Given("-p") \o Given("--node-role")
    \o Given("--artifacts-dir") \o Given("--save-path") \o Given("--snapshot-interval-ms")
    \o Given("-i") \o Given("--run-id") \o Given("--session-id")
    \o Given("--destination-url") \o Given("--client-label") \o Given("--profile-id")

Flag == IF env.console = "0" THEN <<"--no-console-status">> ELSE <<>>

LEMMA FilledType ==
  ASSUME EnvType, NEW option \in Options
  PROVE  /\ Filled(option) \in Values(option) \cup {"default"}
         /\ option \in Required => Filled(option) # "empty"
         /\ Filled(option) \in Words /\ option \in Words
  <1>1. Filled(option) \in Values(option) \cup {"default"}
    BY DEF EnvType, Filled
  <1>2. option \in Required => Filled(option) # "empty"
    BY DEF Filled
  <1>3. Values(option) \subseteq UNION {Values(o) : o \in Options}
    BY Zenon
  <1>4. option \in Words /\ Filled(option) \in Words
    <2> DEFINE U == UNION {Values(o) : o \in Options}
    <2>1. Words = Options \cup {"default", "--no-console-status"} \cup U
      BY DEF Words
    <2>2. Values(option) \subseteq U
      BY <1>3
    <2> HIDE DEF U
    <2> QED BY <1>1, <2>1, <2>2
  <1> QED BY <1>1, <1>2, <1>4

\* u is t behind s.
Behind(S, s, t, u) ==
    /\ u \in Seq(S) /\ Len(s) \in Nat /\ Len(t) \in Nat
    /\ Len(u) = Len(s) + Len(t)
    /\ \A n \in 1..Len(s) : u[n] = s[n]
    /\ \A n \in 1..Len(t) : u[Len(s) + n] = t[n]

LEMMA Joined ==
  ASSUME NEW S, NEW s \in Seq(S), NEW t \in Seq(S)
  PROVE  Behind(S, s, t, s \o t)
  <1>1. Len(s) \in Nat /\ Len(t) \in Nat
    BY LenProperties
  <1>2. /\ s \o t \in Seq(S) /\ Len(s \o t) = Len(s) + Len(t)
        /\ \A n \in 1..(Len(s) + Len(t)) :
             (s \o t)[n] = IF n <= Len(s) THEN s[n] ELSE t[n - Len(s)]
    BY ConcatProperties, Zenon
  <1>3. ASSUME NEW n \in 1..Len(t) PROVE (s \o t)[Len(s) + n] = t[n]
    <2>1. Len(s) + n \in 1..(Len(s) + Len(t)) /\ ~(Len(s) + n <= Len(s))
          /\ (Len(s) + n) - Len(s) = n
      BY <1>1
    <2> QED BY <1>2, <2>1, Zenon
  <1>4. ASSUME NEW n \in 1..Len(s) PROVE (s \o t)[n] = s[n]
    <2>1. n \in 1..(Len(s) + Len(t)) /\ n <= Len(s)
      BY <1>1
    <2> QED BY <1>2, <2>1, Zenon
  <1> QED BY <1>1, <1>2, <1>3, <1>4, Zenon DEF Behind

LEMMA GivenLaid ==
  ASSUME EnvType, NEW a, NEW S, Laid(a, S), NEW option \in Options
  PROVE  Laid(a \o Given(option), S \cup {option})
  <1>1. CASE Filled(option) = "empty"
    <2>1. a \o Given(option) = a
      BY <1>1, ConcatEmptySeq DEF Given, Laid
    <2> QED BY <1>1, <2>1 DEF Laid
  <1>2. CASE Filled(option) # "empty"
    <2> DEFINE g == <<option, Filled(option)>>
    <2>1. PICK b : b = a \o g
      OBVIOUS
    <2>2. a \in Seq(Words) /\ g \in Seq(Words) /\ Len(g) = 2
          /\ g[1] = option /\ g[2] = Filled(option)
      BY FilledType DEF Laid
    <2> HIDE DEF g
    <2>3. /\ b \in Seq(Words) /\ Len(b) = Len(a) + 2 /\ Len(a) \in Nat
          /\ \A n \in 1..Len(a) : b[n] = a[n]
          /\ b[Len(a) + 1] = option /\ b[Len(a) + 2] = Filled(option)
      <3>1. Behind(Words, a, g, b)
        BY <2>1, <2>2, Joined, Zenon
      <3>2. 1 \in 1..Len(g) /\ 2 \in 1..Len(g)
        BY <2>2
      <3>3. b[Len(a) + 1] = g[1] /\ b[Len(a) + 2] = g[2]
        BY <3>1, <3>2, Zenon DEF Behind
      <3> QED BY <2>2, <3>1, <3>3, Zenon DEF Behind
    <2>5. ~Odd(Len(a)) /\ ~Odd(Len(b)) /\ Odd(Len(a) + 1) /\ ~Odd(Len(a) + 2)
      BY <2>3 DEF Laid, Odd
    <2>6. ASSUME NEW n \in 1..Len(b), Odd(n)
          PROVE  n < Len(b) /\ b[n] \in Options /\ b[n + 1] = Filled(b[n])
      <3>1. n \in 1..Len(a) \/ n = Len(a) + 1
        BY <2>3, <2>5, <2>6
      <3>2. CASE n \in 1..Len(a)
        <4>1. n < Len(a) /\ a[n] \in Options /\ a[n + 1] = Filled(a[n])
          BY <2>6, <3>2 DEF Laid
        <4> QED BY <2>3, <3>2, <4>1
      <3>3. CASE n = Len(a) + 1
        BY <2>3, <3>3
      <3> QED BY <3>1, <3>2, <3>3
    <2>7. ASSUME NEW o \in S \cup {option}, Filled(o) # "empty"
          PROVE  \E n \in 1..Len(b) : Odd(n) /\ b[n] = o
      <3>1. CASE o = option
        BY <2>3, <2>5, <3>1
      <3>2. CASE o \in S
        <4>1. PICK n \in 1..Len(a) : Odd(n) /\ a[n] = o
          BY <2>7, <3>2 DEF Laid
        <4> QED BY <2>3, <4>1
      <3> QED BY <3>1, <3>2
    <2>8. Laid(b, S \cup {option})
      BY <2>3, <2>5, <2>6, <2>7 DEF Laid
    <2> QED BY <1>2, <2>1, <2>8 DEF Given, g
  <1> QED BY <1>1, <1>2

LEMMA PairsLaid ==
  ASSUME EnvType
  PROVE  Laid(Pairs, Options)
  <1> DEFINE a1 == Given("-f")
             a2 == a1 \o Given("-t")
             a3 == a2 \o Given("-p")
             a4 == a3 \o Given("--node-role")
             a5 == a4 \o Given("--artifacts-dir")
             a6 == a5 \o Given("--save-path")
             a7 == a6 \o Given("--snapshot-interval-ms")
             a8 == a7 \o Given("-i")
             a9 == a8 \o Given("--run-id")
             a10 == a9 \o Given("--session-id")
             a11 == a10 \o Given("--destination-url")
             a12 == a11 \o Given("--client-label")
             a13 == a12 \o Given("--profile-id")
             S1 == {"-f"}
             S2 == S1 \cup {"-t"}
             S3 == S2 \cup {"-p"}
             S4 == S3 \cup {"--node-role"}
             S5 == S4 \cup {"--artifacts-dir"}
             S6 == S5 \cup {"--save-path"}
             S7 == S6 \cup {"--snapshot-interval-ms"}
             S8 == S7 \cup {"-i"}
             S9 == S8 \cup {"--run-id"}
             S10 == S9 \cup {"--session-id"}
             S11 == S10 \cup {"--destination-url"}
             S12 == S11 \cup {"--client-label"}
             S13 == S12 \cup {"--profile-id"}
  <1>1. Pairs = a13 /\ Options = S13
    BY DEF Pairs, Options, Required, Optional
  <1>2. Laid(a1, S1)
    <2>1. Laid(<<>>, {})
      BY EmptySeq DEF Laid, Odd
    <2>2. Laid(<<>> \o a1, {} \cup {"-f"})
      BY <2>1, GivenLaid DEF Options, Required
    <2>3. a1 \in Seq(Words)
      BY FilledType DEF Given, Options, Required
    <2>4. <<>> \o a1 = a1
      BY <2>3, ConcatEmptySeq
    <2> QED BY <2>2, <2>4
  <1> HIDE DEF a1, a2, a3, a4, a5, a6, a7, a8, a9, a10, a11, a12,
               S1, S2, S3, S4, S5, S6, S7, S8, S9, S10, S11, S12
  <1>3. \A option \in {"-t", "-p", "--node-role", "--artifacts-dir", "--save-path",
          "--snapshot-interval-ms", "-i", "--run-id", "--session-id",
          "--destination-url", "--client-label", "--profile-id"} : option \in Options
    BY DEF Options, Required, Optional
  <1>4. Laid(a2, S2) BY <1>2, <1>3, GivenLaid DEF a2, S2
  <1>5. Laid(a3, S3) BY <1>3, <1>4, GivenLaid DEF a3, S3
  <1>6. Laid(a4, S4) BY <1>3, <1>5, GivenLaid DEF a4, S4
  <1>7. Laid(a5, S5) BY <1>3, <1>6, GivenLaid DEF a5, S5
  <1>8. Laid(a6, S6) BY <1>3, <1>7, GivenLaid DEF a6, S6
  <1>9. Laid(a7, S7) BY <1>3, <1>8, GivenLaid DEF a7, S7
  <1>10. Laid(a8, S8) BY <1>3, <1>9, GivenLaid DEF a8, S8
  <1>11. Laid(a9, S9) BY <1>3, <1>10, GivenLaid DEF a9, S9
  <1>12. Laid(a10, S10) BY <1>3, <1>11, GivenLaid DEF a10, S10
  <1>13. Laid(a11, S11) BY <1>3, <1>12, GivenLaid DEF a11, S11
  <1>14. Laid(a12, S12) BY <1>3, <1>13, GivenLaid DEF a12, S12
  <1>15. Laid(a13, S13) BY <1>3, <1>14, GivenLaid
  <1> QED BY <1>1, <1>15

\* Where the pairs and the flag are in the arguments.
LEMMA ArgumentsLaid ==
  ASSUME EnvType
  PROVE  /\ Laid(Pairs, Options) /\ Len(Pairs) \in Nat
         /\ Arguments \in Seq(Words)
         /\ Len(Arguments) = Len(Pairs) + (IF env.console = "0" THEN 1 ELSE 0)
         /\ \A n \in 1..Len(Pairs) : Arguments[n] = Pairs[n]
         /\ env.console = "0" => Arguments[Len(Pairs) + 1] = "--no-console-status"
  <1>1. Laid(Pairs, Options) /\ Pairs \in Seq(Words)
    BY PairsLaid DEF Laid
  <1>2. Flag \in Seq(Words)
    <2>1. "--no-console-status" \in Words
      BY Zenon DEF Words
    <2> QED BY <2>1 DEF Flag
  <1>3. Arguments = Pairs \o Flag
    BY DEF Arguments, Pairs, Flag
  <1>4. Behind(Words, Pairs, Flag, Arguments)
    BY <1>1, <1>2, <1>3, Joined, Zenon
  <1>5. /\ Arguments \in Seq(Words) /\ Len(Pairs) \in Nat
        /\ Len(Arguments) = Len(Pairs) + Len(Flag)
        /\ \A n \in 1..Len(Pairs) : Arguments[n] = Pairs[n]
    BY <1>4 DEF Behind
  <1>6. CASE env.console = "0"
    <2>1. Len(Flag) = 1 /\ Flag[1] = "--no-console-status" /\ 1 \in 1..Len(Flag)
      BY <1>6 DEF Flag
    <2>2. Arguments[Len(Pairs) + 1] = Flag[1]
      BY <1>4, <2>1, Zenon DEF Behind
    <2>3. Len(Arguments) = Len(Pairs) + 1
      BY <1>5, <2>1, Zenon
    <2> QED BY <1>1, <1>5, <1>6, <2>1, <2>2, <2>3
  <1>7. CASE env.console # "0"
    <2>1. Len(Flag) = 0
      BY <1>7 DEF Flag
    <2>2. Len(Arguments) = Len(Pairs) + 0
      BY <1>5, <2>1, Zenon
    <2> QED BY <1>1, <1>5, <1>7, <2>2
  <1> QED BY <1>6, <1>7

-----------------------------------------------------------------------------
(* Types.                                                                    *)

Configs == [options : [Options -> Words], console_status : BOOLEAN]

Typing ==
    /\ at \in {"off", "script", "copy", "nest", "exec", "parse", "run", "exit_0", "exit_1",
               "exit_2"}
    /\ EnvType
    /\ args \in Seq(Words) /\ i \in 1..(Len(args) + 1) /\ config \in Configs
    /\ payload \in {"file", "directory"} /\ target \in {"none", "partial", "complete"}
    /\ spoiled \in BOOLEAN
    /\ failed \in BOOLEAN /\ (failed => at = "exit_1")
    /\ at \in {"script", "copy", "nest", "exec"} => i = 1 /\ config = NoConfig

LEMMA NoConfigType == NoConfig \in Configs /\ NoConfig.options = Defaults
  <1>1. "default" \in Words /\ "empty" \in Words
    <2>1. "default" \in Words
      BY Zenon DEF Words
    <2>2. "-i" \in Options /\ "empty" \in Values("-i")
      BY DEF Options, Optional, Values, Numbers
    <2>3. "empty" \in Words
      BY <2>2, Zenon DEF Words
    <2> QED BY <2>1, <2>3
  <1>2. Defaults \in [Options -> Words]
    BY <1>1 DEF Defaults
  <1> QED BY <1>2 DEF NoConfig, Configs

\* What TakeValue does to a configuration.
Valued(option, value) == IF option \in Numbers THEN ToNumber(value) ELSE value
Taken(c, option, value) == [c EXCEPT !.options[option] = Valued(option, value)]

\* d is c but for the option.
Differs(c, option, value, d) ==
    /\ d \in Configs /\ d.console_status = c.console_status
    /\ d.options[option] = Valued(option, value)
    /\ \A o \in Options : o # option => d.options[o] = c.options[o]

LEMMA ValueTaken ==
  ASSUME NEW c \in Configs, NEW option \in Options, NEW value \in Words
  PROVE  Differs(c, option, value, Taken(c, option, value))
  <1>1. Valued(option, value) \in Words
    <2>1. "-t" \in Options /\ "number" \in Values("-t")
      BY DEF Options, Required, Values, Numbers
    <2>2. "number" \in Words
      BY <2>1, Zenon DEF Words
    <2> QED BY <2>2 DEF Valued, ToNumber
  <1>2. PICK w : w = Valued(option, value)
    OBVIOUS
  <1> QED BY <1>1, <1>2 DEF Taken, Configs, Differs

LEMMA EnvironmentType ==
  ASSUME NEW e \in Environments
  PROVE  \A option \in Options : e.options[option] \in Values(option) \cup {"default"}
  <1>1. e.options \in Settings
    BY DEF Environments
  <1>2. PICK f \in {g \in [Varied -> UNION {Values(option) : option \in Varied}] :
                       \A option \in Varied : g[option] \in Values(option)} :
          e.options = [option \in Options |->
                          IF option \in Varied THEN f[option] ELSE "empty"]
    BY <1>1, Zenon DEF Settings
  <1>3. \A option \in Varied : f[option] \in Values(option)
    BY <1>2, Zenon
  <1>4. ASSUME NEW option \in Options
        PROVE  e.options[option] \in Values(option) \cup {"default"}
    <2>1. "empty" \in Values(option)
      BY DEF Values
    <2>2. e.options[option] = IF option \in Varied THEN f[option] ELSE "empty"
      BY <1>2, Zenon
    <2> QED BY <1>3, <2>1, <2>2
  <1> QED BY <1>4

LEMMA NoEnvironmentType ==
  \A option \in Options : NoEnvironment.options[option] \in Values(option) \cup {"default"}
  BY DEF NoEnvironment, Defaults, Values, Numbers

LEMMA InitTyping ==
  ASSUME Init
  PROVE  Typing
  <1>1. EnvType
    BY NoEnvironmentType DEF Init, EnvType
  <1>2. args \in Seq(Words) /\ Len(args) = 0 /\ i = 1
    BY EmptySeq DEF Init
  <1>3. config \in Configs /\ config = NoConfig
    BY NoConfigType DEF Init
  <1>4. /\ at = "off" /\ payload \in {"file", "directory"} /\ target = "none"
        /\ spoiled = FALSE /\ failed = FALSE
    BY DEF Init
  <1>5. i \in 1..(Len(args) + 1)
    BY <1>2
  <1> QED BY <1>1, <1>2, <1>3, <1>4, <1>5 DEF Typing

LEMMA NextTyping ==
  ASSUME Typing, Next
  PROVE  Typing'
  <1> USE DEF Typing
  <1>1. ASSUME NEW e \in Environments, Start(e)
        PROVE  Typing'
    <2>1. /\ at' = "script" /\ env' = e /\ args' = <<>> /\ i' = 1 /\ config' = NoConfig
          /\ failed' = FALSE /\ UNCHANGED <<payload, target, spoiled>>
      BY <1>1 DEF Start, volume
    <2>2. EnvType' /\ config' \in Configs
      BY <2>1, EnvironmentType, NoConfigType DEF EnvType
    <2>3. args' \in Seq(Words) /\ Len(args') = 0
      BY <2>1, EmptySeq
    <2>4. i' \in 1..(Len(args') + 1)
      BY <2>1, <2>3
    <2> QED BY <2>1, <2>2, <2>3, <2>4
  <1>2. CASE Refuse
    BY <1>2 DEF Refuse, EnvType, program, volume
  <1>3. CASE SkipPreseed
    BY <1>3 DEF SkipPreseed, EnvType, program, volume
  <1>4. CASE CopyBegins
    BY <1>4 DEF CopyBegins, EnvType, program
  <1>5. CASE CopyEnds
    BY <1>5 DEF CopyEnds, EnvType, program
  <1>6. CASE Exec
    <2>1. Arguments \in Seq(Words)
      BY ArgumentsLaid
    <2>2. Len(Arguments) \in Nat
      BY <2>1, LenProperties
    <2>3. /\ at' = "parse" /\ args' = Arguments /\ ~failed
          /\ UNCHANGED <<env, i, config, failed, payload, target, spoiled>> /\ i = 1
      BY <1>6 DEF Exec, volume
    <2>4. EnvType'
      BY <2>3 DEF EnvType
    <2>5. 1 \in 1..(Len(Arguments) + 1)
      BY <2>2
    <2> QED BY <2>1, <2>3, <2>4, <2>5
  <1>7. ASSUME NEW typed \in Typed, Type(typed)
        PROVE  Typing'
    <2>1. typed \in Seq(Words) /\ Len(typed) \in Nat
      BY LaunchAssumption, LenProperties
    <2>2. /\ at' = "parse" /\ env' = NoEnvironment /\ args' = typed /\ i' = 1
          /\ config' = NoConfig /\ failed' = FALSE /\ UNCHANGED <<payload, target, spoiled>>
      BY <1>7 DEF Type, volume
    <2>3. EnvType' /\ config' \in Configs
      BY <2>2, NoEnvironmentType, NoConfigType DEF EnvType
    <2>4. 1 \in 1..(Len(typed) + 1)
      BY <2>1
    <2> QED BY <2>1, <2>2, <2>3, <2>4
  <1>8. CASE ParseOption
    <2>1. CASE at' = "exit_2" /\ UNCHANGED <<env, program, volume>>
      <3>1. at = "parse"
        BY <1>8 DEF ParseOption
      <3> QED BY <2>1, <3>1 DEF EnvType, program, volume
    <2>2. CASE i < Len(args) /\ TakeValue(args[i], args[i + 1])
               /\ UNCHANGED <<at, env, args, failed, volume>>
      <3>1. Len(args) \in Nat /\ i \in 1..Len(args) /\ i + 1 \in 1..Len(args)
        BY <2>2, LenProperties
      <3>2. args[i + 1] \in Words /\ args[i] \in Options
        BY <1>8, <3>1, ElementOfSeq DEF ParseOption
      <3>3. config' = Taken(config, args[i], args[i + 1])
        BY <2>2 DEF TakeValue, Taken, Valued
      <3>4. config' \in Configs
        BY <3>2, <3>3, ValueTaken DEF Differs
      <3>5. /\ i' = i + 2 /\ at = "parse"
            /\ UNCHANGED <<at, env, args, failed, payload, target, spoiled>>
        BY <1>8, <2>2 DEF ParseOption, TakeValue, volume
      <3>6. EnvType'
        BY <3>5 DEF EnvType
      <3>7. i' \in 1..(Len(args') + 1)
        BY <3>1, <3>5
      <3>8. /\ args' \in Seq(Words) /\ payload' \in {"file", "directory"}
            /\ target' \in {"none", "partial", "complete"} /\ spoiled' \in BOOLEAN
            /\ failed' \in BOOLEAN /\ ~failed' /\ at' = "parse"
        BY <3>5
      <3> QED BY <3>4, <3>6, <3>7, <3>8
    <2> QED BY <1>8, <2>1, <2>2 DEF ParseOption, Exit
  <1>9. CASE ParseFlag
    <2>1. config' \in Configs
      BY <1>9 DEF ParseFlag, Configs
    <2> QED BY <1>9, <2>1, LenProperties DEF ParseFlag, EnvType, volume
  <1>10. CASE ParseOther
    BY <1>10 DEF ParseOther, Exit, EnvType, program, volume
  <1>11. CASE Validate
    BY <1>11 DEF Validate, Exit, EnvType, program, volume
  <1>12. CASE Download
    BY <1>12 DEF Download, EnvType, program
  <1>13. CASE Stop
    <2>1. /\ at' = "off" /\ env' = NoEnvironment /\ args' = <<>> /\ i' = 1
          /\ config' = NoConfig /\ failed' = FALSE /\ UNCHANGED <<payload, target>>
          /\ spoiled' \in BOOLEAN
      BY <1>13 DEF Stop
    <2>2. EnvType' /\ config' \in Configs
      BY <2>1, NoEnvironmentType, NoConfigType DEF EnvType
    <2>3. args' \in Seq(Words) /\ Len(args') = 0
      BY <2>1, EmptySeq
    <2>4. i' \in 1..(Len(args') + 1)
      BY <2>1, <2>3
    <2> QED BY <2>1, <2>2, <2>3, <2>4
  <1>14. CASE CommandFails
    BY <1>14 DEF CommandFails, EnvType, volume
  <1> QED
    BY <1>1, <1>2, <1>3, <1>4, <1>5, <1>6, <1>7, <1>8, <1>9, <1>10, <1>11, <1>12, <1>13,
       <1>14
    DEF Next

LEMMA TypingInvariant == Spec => []Typing
  <1>1. Typing /\ [Next]_vars => Typing'
    <2>1. CASE UNCHANGED vars
      BY <2>1 DEF vars, program, volume, Typing, EnvType
    <2> QED BY <2>1, NextTyping
  <1> QED BY <1>1, InitTyping, PTL DEF Spec

\* Every variable stays within its type, whatever is typed and whatever the
\* environments are: the argument loop never reads behind the arguments
\* (main.cpp:564-645).
THEOREM LaunchTypes == Spec => []TypeOK
  <1>1. Typing => TypeOK
    BY DEF Typing, TypeOK, EnvType, Configs
  <1> QED BY <1>1, TypingInvariant, PTL

-----------------------------------------------------------------------------
(* What the argument loop has read.                                          *)

\* What RefusedOnlyIfInvalid calls wrong.
Wrong ==
    \/ \E option \in Numbers : Filled(option) \in {"below", "word"}
    \/ Filled("--node-role") = "seeder"

AllMeant == [option \in Options |-> Meant(option)]

\* The arguments before n have been read into c: p are the pairs, m is what is meant.
ReadTo(n, c, p, m, flag) ==
    /\ \/ Odd(n) /\ n <= Len(p) + 1 /\ c.console_status = TRUE
       \/ n = Len(p) + 2 /\ flag /\ c.console_status = FALSE
    /\ \A option \in Options : c.options[option] \in {m[option], Defaults[option]}
    /\ \A k \in 1..Len(p) : Odd(k) /\ k < n =>
           /\ c.options[p[k]] = m[p[k]]
           /\ p[k] \in Numbers => IsNumber(p[k + 1])

Reading ==
    ByContainer =>
        /\ at \in {"copy", "nest", "exec", "parse", "run"} =>
               (Adversary => env.preseed = "given")
        /\ at = "exit_1" => failed \/ (Adversary /\ env.preseed = "empty")
        /\ at = "exit_2" => Wrong
        /\ at # "exit_0"
        /\ at = "parse" =>
               args = Arguments /\ ReadTo(i, config, Pairs, AllMeant, env.console = "0")
        /\ at = "run" =>
               /\ ~Wrong /\ \A option \in Options : config.options[option] = AllMeant[option]
               /\ config.console_status = (env.console # "0")

\* All of it depends on the environment alone.
LEMMA SameEnvironment ==
  ASSUME env' = env
  PROVE  /\ Pairs' = Pairs /\ Arguments' = Arguments /\ AllMeant' = AllMeant
         /\ Wrong' = Wrong /\ Adversary' = Adversary /\ ByContainer' = ByContainer
  <1>1. Pairs' = Pairs
    BY DEF Pairs, Given, Filled
  <1>2. Arguments' = Arguments
    BY DEF Arguments, Given, Filled
  <1>3. AllMeant' = AllMeant
    BY DEF AllMeant, Meant, Filled
  <1>4. Wrong' = Wrong
    BY DEF Wrong, Filled
  <1> QED BY <1>1, <1>2, <1>3, <1>4 DEF Adversary, ByContainer

\* A step of the argument loop, or none, and the pair it reads.
LEMMA OptionRead ==
  ASSUME Typing, at = "parse", args = Arguments, i <= Len(args), args[i] \in Options,
         ReadTo(i, config, Pairs, AllMeant, env.console = "0")
  PROVE  /\ Odd(i) /\ i \in 1..Len(Pairs) /\ i + 1 <= Len(Pairs)
         /\ config.console_status = TRUE
         /\ Pairs \in Seq(Words) /\ args[i] = Pairs[i] /\ args[i + 1] = Pairs[i + 1]
         /\ i < Len(args) /\ args[i + 1] = Filled(args[i])
  <1>1. /\ Laid(Pairs, Options) /\ Len(Pairs) \in Nat
        /\ Len(args) = Len(Pairs) + (IF env.console = "0" THEN 1 ELSE 0)
        /\ \A n \in 1..Len(Pairs) : args[n] = Pairs[n]
        /\ env.console = "0" => args[Len(Pairs) + 1] = "--no-console-status"
    BY ArgumentsLaid DEF Typing
  <1>2. i \in Nat /\ i >= 1
    BY DEF Typing
  <1>3. i # Len(Pairs) + 1
    <2>1. "--no-console-status" \notin Options
      BY DEF Options, Required, Optional
    <2> QED BY <1>1, <2>1
  <1>4. i \in 1..Len(Pairs)
    BY <1>1, <1>2, <1>3
  <1>5. Odd(i) /\ config.console_status = TRUE
    BY <1>1, <1>4 DEF ReadTo
  <1>6. i < Len(Pairs) /\ Pairs[i + 1] = Filled(Pairs[i]) /\ Pairs \in Seq(Words)
    BY <1>1, <1>4, <1>5 DEF Laid
  <1>7. i + 1 \in 1..Len(Pairs)
    BY <1>1, <1>2, <1>6
  <1> QED BY <1>1, <1>4, <1>5, <1>6, <1>7

\* The flag is behind the pairs, and nothing else is.
LEMMA NotAnOption ==
  ASSUME Typing, at = "parse", args = Arguments, i <= Len(args), args[i] \notin Options,
         ReadTo(i, config, Pairs, AllMeant, env.console = "0")
  PROVE  i = Len(Pairs) + 1 /\ env.console = "0" /\ args[i] = "--no-console-status"
  <1>1. /\ Laid(Pairs, Options) /\ Len(Pairs) \in Nat
        /\ Len(args) = Len(Pairs) + (IF env.console = "0" THEN 1 ELSE 0)
        /\ \A n \in 1..Len(Pairs) : args[n] = Pairs[n]
        /\ env.console = "0" => args[Len(Pairs) + 1] = "--no-console-status"
    BY ArgumentsLaid DEF Typing
  <1>2. i \in Nat /\ i >= 1
    BY DEF Typing
  <1>3. i \notin 1..Len(Pairs)
    <2>1. ASSUME i \in 1..Len(Pairs)
          PROVE  FALSE
      <3>1. Odd(i)
        BY <1>1, <2>1 DEF ReadTo
      <3> QED BY <1>1, <2>1, <3>1 DEF Laid
    <2> QED BY <2>1
  <1>4. i = Len(Pairs) + 1 /\ env.console = "0"
    BY <1>1, <1>2, <1>3
  <1> QED BY <1>1, <1>4

\* A value is taken: where it belongs, and as a number if it is to be one.
LEMMA ValueRead ==
  ASSUME Typing, NEW d, NEW p, NEW m, NEW flag, NEW n \in 1..Len(p), p \in Seq(Words),
         ReadTo(n, config, p, m, flag), Odd(n), n + 1 <= Len(p),
         \A k \in 1..Len(p) : Odd(k) => p[k] \in Options,
         config.console_status = TRUE,
         d = Taken(config, p[n], p[n + 1]),
         m[p[n]] = Valued(p[n], p[n + 1]),
         p[n] \in Numbers => IsNumber(p[n + 1])
  PROVE  ReadTo(n + 2, d, p, m, flag)
  <1>1. Len(p) \in Nat /\ n + 1 \in 1..Len(p)
    BY LenProperties
  <1>2. p[n + 1] \in Words
    BY <1>1, ElementOfSeq
  <1>3. /\ d.console_status = config.console_status
        /\ d.options[p[n]] = m[p[n]]
        /\ \A o \in Options : o # p[n] => d.options[o] = config.options[o]
    <2>1. p[n] \in Options /\ config \in Configs
      BY DEF Typing
    <2>2. Differs(config, p[n], p[n + 1], d)
      BY <1>2, <2>1, ValueTaken, Zenon
    <2> QED BY <2>2 DEF Differs
  <1>4. Odd(n + 2) /\ n + 2 <= Len(p) + 1
    BY <1>1 DEF Odd
  <1>5. \A option \in Options : d.options[option] \in {m[option], Defaults[option]}
    <2>1. ASSUME NEW o \in Options
          PROVE  d.options[o] \in {m[o], Defaults[o]}
      BY <1>3 DEF ReadTo
    <2> QED BY <2>1, Zenon
  <1>6. ASSUME NEW k \in 1..Len(p), Odd(k), k < n + 2
        PROVE  /\ d.options[p[k]] = m[p[k]]
               /\ p[k] \in Numbers => IsNumber(p[k + 1])
    <2>1. k = n \/ k < n
      <3>1. k # n + 1
        BY <1>6 DEF Odd
      <3> QED BY <1>6, <3>1
    <2>2. CASE k = n
      BY <1>3, <2>2
    <2>3. CASE k < n
      <3>1. /\ config.options[p[k]] = m[p[k]]
            /\ p[k] \in Numbers => IsNumber(p[k + 1])
        BY <1>6, <2>3 DEF ReadTo
      <3>2. CASE p[k] = p[n]
        BY <1>3, <3>1, <3>2
      <3>3. CASE p[k] # p[n]
        <4>1. p[k] \in Options
          BY <1>6
        <4>2. d.options[p[k]] = config.options[p[k]]
          BY <1>3, <3>3, <4>1, Zenon
        <4> QED BY <3>1, <4>2, Zenon
      <3> QED BY <3>1, <3>2, <3>3
    <2> QED BY <2>1, <2>2, <2>3
  <1> QED BY <1>3, <1>4, <1>5, <1>6 DEF ReadTo

\* The values that are no number.
LEMMA NoNumber ==
  ASSUME EnvType, NEW option \in Numbers, ~IsNumber(Filled(option))
  PROVE  Wrong
  <1>1. option \in Options /\ option \in Required
    BY DEF Numbers, Options, Required
  <1>2. Filled(option) \in Values(option) \cup {"default"} /\ Filled(option) # "empty"
    BY <1>1, FilledType
  <1>3. Filled(option) = "word"
    BY <1>2 DEF Values, IsNumber
  <1> QED BY <1>3 DEF Wrong

\* With all arguments read, every option is what it is meant to be, those without a
\* value included.
LEMMA AllRead ==
  ASSUME Typing, args = Arguments, i > Len(args),
         ReadTo(i, config, Pairs, AllMeant, env.console = "0")
  PROVE  /\ \A option \in Options : config.options[option] = AllMeant[option]
         /\ \A option \in Numbers : IsNumber(Filled(option))
         /\ config.console_status = (env.console # "0")
  <1>1. /\ Laid(Pairs, Options) /\ Len(Pairs) \in Nat
        /\ Len(args) = Len(Pairs) + (IF env.console = "0" THEN 1 ELSE 0)
    BY ArgumentsLaid DEF Typing
  <1>2. i \in Nat
    BY DEF Typing
  <1>3. config.console_status = (env.console # "0")
    <2>1. CASE env.console = "0"
      <3>1. ~(i <= Len(Pairs) + 1)
        BY <1>1, <1>2, <2>1
      <3>2. config.console_status = FALSE
        BY <3>1 DEF ReadTo
      <3> QED BY <2>1, <3>2
    <2>2. CASE env.console # "0"
      BY <1>1, <1>2, <2>2 DEF ReadTo
    <2> QED BY <2>1, <2>2
  <1>4. ASSUME NEW option \in Options, Filled(option) # "empty"
        PROVE  /\ config.options[option] = AllMeant[option]
               /\ option \in Numbers => IsNumber(Filled(option))
    <2>1. PICK k \in 1..Len(Pairs) : Odd(k) /\ Pairs[k] = option
      BY <1>1, <1>4 DEF Laid
    <2>2. Pairs[k + 1] = Filled(option)
      BY <1>1, <2>1 DEF Laid
    <2>3. k < i
      BY <1>1, <1>2
    <2>4. /\ config.options[Pairs[k]] = AllMeant[Pairs[k]]
          /\ Pairs[k] \in Numbers => IsNumber(Pairs[k + 1])
      BY <2>1, <2>3 DEF ReadTo
    <2> QED BY <2>1, <2>2, <2>4
  <1>5. ASSUME NEW option \in Options, Filled(option) = "empty"
        PROVE  config.options[option] = AllMeant[option] /\ option \notin Numbers
    <2>1. option \in Optional /\ option \notin Required
      BY <1>5, FilledType DEF Typing, Options
    <2>2. option \notin Numbers /\ Defaults[option] = "empty"
      BY <2>1 DEF Optional, Required, Numbers, Defaults, Options
    <2>3. AllMeant[option] = "empty"
      BY <1>5, <2>2 DEF AllMeant, Meant
    <2>4. config.options[option] \in {AllMeant[option], Defaults[option]}
      BY DEF ReadTo
    <2> QED BY <2>2, <2>3, <2>4
  <1>6. Numbers \subseteq Options
    BY DEF Numbers, Options, Required
  <1> QED BY <1>3, <1>4, <1>5, <1>6

\* main() accepts a configuration exactly if nothing in the environment is wrong.
LEMMA ValidIfRight ==
  ASSUME EnvType, NEW c, \A option \in Options : c.options[option] = AllMeant[option],
         \A option \in Numbers : IsNumber(Filled(option))
  PROVE  Valid(c) <=> ~Wrong
  <1>1. "--node-role" \in Options /\ "--node-role" \in Required
        /\ "--node-role" \notin Numbers /\ Numbers \subseteq Options
    BY DEF Numbers, Options, Required
  <1>2. \A option \in Options : AllMeant[option] = Meant(option)
    BY DEF AllMeant
  <1>3. c.options["--node-role"] = Filled("--node-role")
    BY <1>1, <1>2 DEF Meant
  <1>4. Filled("--node-role") \in {"victim", "adversary", "seeder", "default"}
    <2>1. Filled("--node-role") \in Values("--node-role") \cup {"default"}
          /\ Filled("--node-role") # "empty"
      BY <1>1, FilledType
    <2> QED BY <1>1, <2>1 DEF Values
  <1>5. ASSUME NEW option \in Numbers
        PROVE  c.options[option] = "below" <=> Filled(option) \in {"below", "word"}
    <2>1. c.options[option] = ToNumber(Filled(option))
      BY <1>1, <1>2 DEF Meant
    <2>2. IsNumber(Filled(option))
      OBVIOUS
    <2> QED BY <2>1, <2>2 DEF IsNumber, ToNumber
  <1> QED BY <1>3, <1>4, <1>5 DEF Valid, Wrong

LEMMA InitReading ==
  ASSUME Init
  PROVE  Reading
  BY DEF Init, Reading, ByContainer

LEMMA NextReading ==
  ASSUME Typing, Reading, Next
  PROVE  Reading'
  <1>1. ASSUME NEW e \in Environments, Start(e)
        PROVE  Reading'
    BY <1>1 DEF Start, Reading
  <1>2. ASSUME NEW typed \in Typed, Type(typed)
        PROVE  Reading'
    BY <1>2 DEF Type, Reading, ByContainer
  <1>3. CASE Stop
    BY <1>3 DEF Stop, Reading, ByContainer
  <1>4. CASE Refuse
    <2>1. env' = env /\ at' = "exit_1" /\ Adversary /\ env.preseed = "empty"
      BY <1>4 DEF Refuse
    <2> QED BY <2>1, SameEnvironment DEF Reading
  <1>5. CASE SkipPreseed
    <2>1. env' = env /\ at' = "exec" /\ ~Adversary
      BY <1>5 DEF SkipPreseed
    <2> QED BY <2>1, SameEnvironment DEF Reading
  <1>6. CASE CopyBegins
    <2>1. env' = env /\ at' \in {"copy", "nest"} /\ env.preseed = "given"
      BY <1>6 DEF CopyBegins
    <2> QED BY <2>1, SameEnvironment DEF Reading
  <1>7. CASE CopyEnds
    <2>1. env' = env /\ at' = "exec" /\ at \in {"copy", "nest"}
      BY <1>7 DEF CopyEnds
    <2> QED BY <2>1, SameEnvironment DEF Reading
  <1>8. CASE Exec
    <2>1. /\ env' = env /\ at = "exec" /\ at' = "parse" /\ args' = Arguments
          /\ i' = i /\ config' = config
      BY <1>8 DEF Exec
    <2>2. i = 1 /\ config = NoConfig
      BY <2>1 DEF Typing
    <2>3. ReadTo(1, NoConfig, Pairs, AllMeant, env.console = "0")
      <3>1. Len(Pairs) \in Nat
        BY ArgumentsLaid DEF Typing
      <3>2. Odd(1)
        BY DEF Odd
      <3>3. NoConfig.console_status = TRUE /\ NoConfig.options = Defaults
        BY DEF NoConfig
      <3>4. \A k \in 1..Len(Pairs) : ~(k < 1)
        BY <3>1
      <3> QED BY <3>1, <3>2, <3>3, <3>4 DEF ReadTo
    <2> QED BY <2>1, <2>2, <2>3, SameEnvironment DEF Reading
  <1>9. CASE ParseOption
    <2> SUFFICES ASSUME ByContainer'
                 PROVE  Reading'
      BY DEF Reading
    <2>1. /\ env' = env /\ at = "parse" /\ args' = args /\ i <= Len(args)
          /\ args[i] \in Options
      BY <1>9 DEF ParseOption, TakeValue, Exit, program
    <2>2. ByContainer /\ Pairs' = Pairs /\ Arguments' = Arguments /\ AllMeant' = AllMeant
          /\ Wrong' = Wrong /\ Adversary' = Adversary
      BY <2>1, SameEnvironment
    <2>3. /\ Adversary => env.preseed = "given"
          /\ args = Arguments /\ ReadTo(i, config, Pairs, AllMeant, env.console = "0")
      BY <2>1, <2>2 DEF Reading
    <2>4. /\ Odd(i) /\ i \in 1..Len(Pairs) /\ i + 1 <= Len(Pairs)
          /\ config.console_status = TRUE
          /\ Pairs \in Seq(Words) /\ args[i] = Pairs[i] /\ args[i + 1] = Pairs[i + 1]
          /\ i < Len(args) /\ args[i + 1] = Filled(args[i])
      BY <2>1, <2>3, OptionRead
    <2>5. CASE args[i] \in Numbers => IsNumber(args[i + 1])
      <3>1. /\ at' = "parse" /\ i' = i + 2
            /\ config' = Taken(config, Pairs[i], Pairs[i + 1])
        BY <1>9, <2>4, <2>5 DEF ParseOption, TakeValue, Taken, Valued
      <3>2. AllMeant[Pairs[i]] = Valued(Pairs[i], Pairs[i + 1])
        BY <2>1, <2>4 DEF AllMeant, Meant, Valued
      <3>3. \A k \in 1..Len(Pairs) : Odd(k) => Pairs[k] \in Options
        BY ArgumentsLaid DEF Typing, Laid
      <3>4. ReadTo(i + 2, config', Pairs, AllMeant, env.console = "0")
        BY <2>3, <2>4, <2>5, <3>1, <3>2, <3>3, ValueRead
      <3> QED BY <2>1, <2>2, <2>3, <3>1, <3>4 DEF Reading
    <2>6. CASE ~(args[i] \in Numbers => IsNumber(args[i + 1]))
      <3>1. at' = "exit_2"
        BY <1>9, <2>6 DEF ParseOption, Exit
      <3>2. Wrong
        BY <2>4, <2>6, NoNumber DEF Typing
      <3> QED BY <2>2, <3>1, <3>2 DEF Reading
    <2> QED BY <2>5, <2>6
  <1>10. CASE ParseFlag
    <2> SUFFICES ASSUME ByContainer'
                 PROVE  Reading'
      BY DEF Reading
    <2>1. /\ env' = env /\ at = "parse" /\ at' = at /\ args' = args /\ i <= Len(args)
          /\ args[i] = "--no-console-status" /\ i' = i + 1
          /\ config' = [config EXCEPT !.console_status = FALSE]
      BY <1>10 DEF ParseFlag
    <2>2. ByContainer /\ Pairs' = Pairs /\ Arguments' = Arguments /\ AllMeant' = AllMeant
          /\ Adversary' = Adversary
      BY <2>1, SameEnvironment
    <2>3. /\ Adversary => env.preseed = "given"
          /\ args = Arguments /\ ReadTo(i, config, Pairs, AllMeant, env.console = "0")
      BY <2>1, <2>2 DEF Reading
    <2>4. i = Len(Pairs) + 1 /\ env.console = "0"
      <3>1. args[i] \notin Options
        BY <2>1 DEF Options, Required, Optional
      <3> QED BY <2>1, <2>3, <3>1, NotAnOption
    <2>5. config'.console_status = FALSE /\ config'.options = config.options
      BY <2>1 DEF Typing, Configs
    <2>6. ReadTo(i + 1, config', Pairs, AllMeant, env.console = "0")
      <3>1. Len(Pairs) \in Nat
        BY ArgumentsLaid DEF Typing
      <3>2. i + 1 = Len(Pairs) + 2 /\ \A k \in 1..Len(Pairs) : k < i
        BY <2>4, <3>1
      <3> QED BY <2>3, <2>4, <2>5, <3>2 DEF ReadTo
    <2> QED BY <2>1, <2>2, <2>3, <2>6 DEF Reading
  <1>11. CASE ParseOther
    <2> SUFFICES ASSUME ByContainer'
                 PROVE  Reading'
      BY DEF Reading
    <2>1. /\ env' = env /\ at = "parse" /\ i <= Len(args)
          /\ args[i] \notin Options \cup {"--no-console-status"}
      BY <1>11 DEF ParseOther, Exit
    <2>2. args = Arguments /\ ReadTo(i, config, Pairs, AllMeant, env.console = "0")
      BY <2>1, SameEnvironment DEF Reading
    <2>3. FALSE
      BY <2>1, <2>2, NotAnOption
    <2> QED BY <2>3
  <1>12. CASE Validate
    <2> SUFFICES ASSUME ByContainer'
                 PROVE  Reading'
      BY DEF Reading
    <2>1. /\ env' = env /\ config' = config /\ at = "parse" /\ i > Len(args)
          /\ at' = IF Valid(config) THEN "run" ELSE "exit_2"
      BY <1>12 DEF Validate, Exit, program
    <2>2. ByContainer /\ AllMeant' = AllMeant /\ Wrong' = Wrong /\ Adversary' = Adversary
      BY <2>1, SameEnvironment
    <2>3. /\ Adversary => env.preseed = "given"
          /\ args = Arguments /\ ReadTo(i, config, Pairs, AllMeant, env.console = "0")
      BY <2>1, <2>2 DEF Reading
    <2>4. /\ \A option \in Options : config.options[option] = AllMeant[option]
          /\ \A option \in Numbers : IsNumber(Filled(option))
          /\ config.console_status = (env.console # "0")
      BY <2>1, <2>3, AllRead
    <2>5. Valid(config) <=> ~Wrong
      BY <2>4, ValidIfRight DEF Typing
    <2> QED BY <2>1, <2>2, <2>3, <2>4, <2>5 DEF Reading
  <1>13. CASE Download
    <2>1. env' = env /\ config' = config /\ at = "run" /\ at' = "run"
      BY <1>13 DEF Download, program
    <2> QED BY <2>1, SameEnvironment DEF Reading
  <1>14. CASE CommandFails
    <2>1. at' = "exit_1" /\ failed' = TRUE
      BY <1>14 DEF CommandFails
    <2> QED BY <2>1 DEF Reading
  <1> QED
    BY <1>1, <1>2, <1>3, <1>4, <1>5, <1>6, <1>7, <1>8, <1>9, <1>10, <1>11, <1>12, <1>13,
       <1>14
    DEF Next

LEMMA ReadingInvariant == Spec => []Reading
  <1>1. Typing /\ Reading /\ [Next]_vars => Reading'
    <2>1. CASE UNCHANGED vars
      BY <2>1, SameEnvironment DEF vars, program, Reading
    <2> QED BY <2>1, NextReading
  <1> QED BY <1>1, InitReading, TypingInvariant, PTL DEF Spec

\* A container runs with what its environment says: each value reaches the option it
\* belongs to, however many others are left out, whatever it looks like, and the flag
\* behind the values is seen (Launch!EnvironmentArrives).
THEOREM EnvironmentReachesMain == Spec => []EnvironmentArrives
  <1>1. Reading => EnvironmentArrives
    BY DEF Reading, EnvironmentArrives, AllMeant
  <1> QED BY <1>1, ReadingInvariant, PTL

\* main() refuses a container for what is invalid and the script for a command that failed
\* or a seeder without a payload, and for nothing else; and one with a number that is none,
\* an unknown role, no payload for a seeder or a failed command never runs
\* (Launch!RefusedOnlyIfInvalid).
THEOREM RefusalsAreRight == Spec => []RefusedOnlyIfInvalid
  <1>1. Typing /\ Reading => RefusedOnlyIfInvalid
    BY DEF Typing, Reading, RefusedOnlyIfInvalid, Wrong
  <1> QED BY <1>1, TypingInvariant, ReadingInvariant, PTL
=============================================================================
