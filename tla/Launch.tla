-------------------------------- MODULE Launch --------------------------------
(***************************************************************************)
(* How a capture is launched: the container's entry point, which fills the  *)
(* save path of a seeder and turns environment variables into arguments     *)
(* (docker-entrypoint.sh), and the loop of main() that reads arguments and  *)
(* refuses some (main.cpp, 564-665). A container may be killed and started  *)
(* again, with another environment, on the same volume.                     *)
(*                                                                         *)
(* A value is what the code tells apart: "empty" is an empty one; "number+" *)
(* a number with more behind it, "below" one out of range; "-h" a text that *)
(* looks like an option. Long and short names of an option are the same.    *)
(***************************************************************************)
EXTENDS Naturals, Sequences

CONSTANTS
    Varied,     \* the options an environment gives different values (narrows a run)
    Typed       \* what an operator may type instead

\* The options of the entry point: those that always get a value, and those that are
\* left out without one.
Required == {"-f", "-t", "-p", "--node-role", "--artifacts-dir", "--save-path",
             "--snapshot-interval-ms"}
Optional == {"-i", "--run-id", "--session-id", "--destination-url", "--client-label",
             "--profile-id"}
Options == Required \cup Optional
Numbers == {"-t", "-p", "--snapshot-interval-ms"}
Values(option) ==
    IF option \in Numbers THEN {"empty", "number", "number+", "below", "word"}
    ELSE IF option = "--node-role" THEN {"empty", "victim", "adversary", "seeder"}
    ELSE {"empty", "text", "-h"}

\* What an argument may be: the name of an option, a value, the flag.
Words ==
    Options \cup {"default", "--no-console-status"}
    \cup (UNION {Values(option) : option \in Options})

ASSUME LaunchAssumption ==
    /\ Varied \subseteq Options
    /\ Typed \subseteq Seq(Words)

VARIABLES
    at,       \* where the container is: "off", in the script, in main(), or ended
    env,      \* the environment; "none" if an operator typed the arguments
    args, i,  \* argv, and which of it is read next
    config,   \* RuntimeConfig
    payload,  \* whether the image's BT_PRESEED_SOURCE is a "file" or a "directory"
    target,   \* the payload at BT_PRESEED_TARGET, where the session looks for it
    \* history
    spoiled,  \* a container was stopped when a part of it was there
    failed    \* a command of the script failed

program == <<args, i, config, failed>>
volume == <<payload, target, spoiled>>
vars == <<at, env, program, volume>>

\* What RuntimeConfig is initialized to.
Defaults == [option \in Options |->
    IF option \in Numbers \cup {"--node-role", "--artifacts-dir", "--save-path"}
    THEN "default" ELSE "empty"]
NoConfig == [options |-> Defaults, console_status |-> TRUE]

Settings ==
    {[option \in Options |-> IF option \in Varied THEN f[option] ELSE "empty"] :
        f \in {g \in [Varied -> UNION {Values(option) : option \in Varied}] :
                  \A option \in Varied : g[option] \in Values(option)}}
Environments ==
    [options : Settings, console : {"empty", "0", "1"},
     preseed : {"empty", "given", "missing"}]

NoEnvironment == [options |-> Defaults, console |-> "none", preseed |-> "none"]
ByContainer == env # NoEnvironment

\* Every variable stays within its type; i points to an argument or behind the last.
TypeOK ==
    /\ at \in {"off", "script", "copy", "nest", "exec", "parse", "run", "exit_0", "exit_1",
               "exit_2"}
    /\ \A option \in Options : env.options[option] \in Values(option) \cup {"default"}
    /\ args \in Seq(Words) /\ i \in 1..(Len(args) + 1)
    /\ DOMAIN config.options = Options /\ config.console_status \in BOOLEAN
    /\ payload \in {"file", "directory"} /\ target \in {"none", "partial", "complete"}
    /\ spoiled \in BOOLEAN /\ failed \in BOOLEAN

-----------------------------------------------------------------------------
(* The entry point.                                                         *)

\* ":=" replaces an empty value too.
Filled(option) ==
    IF env.options[option] = "empty" /\ option \in Required THEN "default"
    ELSE env.options[option]
Adversary == env.options["--node-role"] = "adversary"

Start(e) ==
    /\ at = "off"
    /\ env' = e /\ at' = "script"
    /\ args' = <<>> /\ i' = 1 /\ config' = NoConfig /\ failed' = FALSE
    /\ UNCHANGED volume

\* set -e: a mkdir or cp that fails (the volume is full or read-only, the payload cannot
\* be read) ends the script. What has been copied stays.
CommandFails ==
    /\ at \in {"script", "copy", "nest"}
    /\ at' = "exit_1" /\ failed' = TRUE
    /\ UNCHANGED <<env, args, i, config, volume>>

Refuse ==
    /\ at = "script" /\ Adversary /\ env.preseed = "empty"
    /\ at' = "exit_1"
    /\ UNCHANGED <<env, program, volume>>

SkipPreseed ==
    /\ at = "script" /\ ~Adversary
    /\ at' = "exec"
    /\ UNCHANGED <<env, program, volume>>

\* cp -a writes over a file that is there; if a directory is there, it becomes a
\* directory within that one. Of a payload that is missing it copies nothing.
CopyBegins ==
    /\ at = "script" /\ Adversary /\ env.preseed = "given"
    /\ IF payload = "directory" /\ target # "none"
       THEN at' = "nest" /\ UNCHANGED target
       ELSE at' = "copy" /\ target' = "partial"
    /\ UNCHANGED <<env, program, payload, spoiled>>

\* Mutant: the copy is not waited for.
CopyEnds_Background ==
    /\ at \in {"copy", "nest"}
    /\ at' = "exec"
    /\ UNCHANGED <<env, program, volume>>

CopyEnds ==
    /\ at \in {"copy", "nest"}
    /\ at' = "exec"
    /\ target' = IF at = "copy" THEN "complete" ELSE target
    /\ UNCHANGED <<env, program, payload, spoiled>>

\* Mutant: an option without a value is passed on too, the value unquoted.
Given_Unquoted(option) ==
    IF Filled(option) = "empty" THEN <<option>> ELSE <<option, Filled(option)>>

Given(option) == IF Filled(option) = "empty" THEN <<>> ELSE <<option, Filled(option)>>

Arguments ==
    Given("-f") \o Given("-t") \o Given("-p") \o Given("--node-role")
    \o Given("--artifacts-dir") \o Given("--save-path") \o Given("--snapshot-interval-ms")
    \o Given("-i") \o Given("--run-id") \o Given("--session-id")
    \o Given("--destination-url") \o Given("--client-label") \o Given("--profile-id")
    \o (IF env.console = "0" THEN <<"--no-console-status">> ELSE <<>>)

\* exec: the signals of the container reach btclient.
Exec ==
    /\ at = "exec"
    /\ at' = "parse" /\ args' = Arguments
    /\ UNCHANGED <<env, i, config, failed, volume>>

\* Without a container.
Type(typed) ==
    /\ at = "off"
    /\ at' = "parse" /\ env' = NoEnvironment
    /\ args' = typed /\ i' = 1 /\ config' = NoConfig /\ failed' = FALSE
    /\ UNCHANGED volume

-----------------------------------------------------------------------------
(* main(): the arguments.                                                   *)

Exit(code) == at' = code /\ UNCHANGED <<env, program, volume>>

\* std::stoi reads the number at the start of a value and leaves the rest.
IsNumber(value) == value \in {"number", "number+", "below", "default"}
ToNumber(value) == IF value = "number+" THEN "number" ELSE value

\* Mutant: the value of an option is skipped twice.
TakeValue_Twice(option, value) ==
    /\ config' = [config EXCEPT !.options[option] =
                      IF option \in Numbers THEN ToNumber(value) ELSE value]
    /\ i' = i + 3

\* The argument after an option is its value, whatever it looks like.
TakeValue(option, value) ==
    /\ config' = [config EXCEPT !.options[option] =
                      IF option \in Numbers THEN ToNumber(value) ELSE value]
    /\ i' = i + 2

ParseOption ==
    /\ at = "parse" /\ i <= Len(args) /\ args[i] \in Options
    /\ IF i < Len(args) /\ (args[i] \in Numbers => IsNumber(args[i + 1]))
       THEN TakeValue(args[i], args[i + 1]) /\ UNCHANGED <<at, env, args, failed, volume>>
       ELSE Exit("exit_2")

ParseFlag ==
    /\ at = "parse" /\ i <= Len(args) /\ args[i] = "--no-console-status"
    /\ config' = [config EXCEPT !.console_status = FALSE]
    /\ i' = i + 1
    /\ UNCHANGED <<at, env, args, failed, volume>>

ParseOther ==
    /\ at = "parse" /\ i <= Len(args)
    /\ args[i] \notin Options \cup {"--no-console-status"}
    /\ Exit(IF args[i] = "-h" THEN "exit_0" ELSE "exit_2")

\* Mutant: the role is not looked at.
Valid_AnyRole(c) == \A option \in Numbers : c.options[option] # "below"

Valid(c) ==
    /\ \A option \in Numbers : c.options[option] # "below"
    /\ c.options["--node-role"] \in {"victim", "adversary", "default"}

Validate ==
    /\ at = "parse" /\ i > Len(args)
    /\ Exit(IF Valid(config) THEN "run" ELSE "exit_2")

-----------------------------------------------------------------------------
(* What happens to the container and the volume.                             *)

\* A session downloads what is missing (ArtifactLifecycle has the rest of it).
Download ==
    /\ at = "run" /\ target # "complete"
    /\ target' \in {"partial", "complete"}
    /\ UNCHANGED <<at, env, program, payload, spoiled>>

\* It is killed, or what has ended is started again.
Stop ==
    /\ at # "off"
    /\ at' = "off"
    /\ env' = NoEnvironment /\ args' = <<>> /\ i' = 1 /\ config' = NoConfig
    /\ failed' = FALSE
    /\ spoiled' = (spoiled \/ target = "partial")
    /\ UNCHANGED <<payload, target>>

Init ==
    /\ at = "off" /\ env = NoEnvironment
    /\ args = <<>> /\ i = 1 /\ config = NoConfig
    /\ payload \in {"file", "directory"} /\ target = "none" /\ spoiled = FALSE
    /\ failed = FALSE

Next ==
    \/ \E e \in Environments : Start(e)
    \/ CommandFails \/ Refuse \/ SkipPreseed \/ CopyBegins \/ CopyEnds \/ Exec
    \/ \E typed \in Typed : Type(typed)
    \/ ParseOption \/ ParseFlag \/ ParseOther \/ Validate
    \/ Download \/ Stop

Spec == Init /\ [][Next]_vars

-----------------------------------------------------------------------------
(* Properties.                                                              *)

\* What an option of the environment is meant to be in the end.
Meant(option) == IF option \in Numbers THEN ToNumber(Filled(option)) ELSE Filled(option)

\* docker-entrypoint.sh:41-80, main.cpp:564-648: a container runs with what its
\* environment says, each value in its own place, whatever it looks like and whichever
\* others are empty.
EnvironmentArrives ==
    at = "run" /\ ByContainer =>
        /\ \A option \in Options : config.options[option] = Meant(option)
        /\ config.console_status = (env.console # "0")

\* docker-entrypoint.sh:2, 23-36, main.cpp:646-665: main() refuses a container only for a
\* number that is none or out of range or an unknown role, the script only if a seeder is
\* given no payload or a command has failed. One with any of these does not run: a failed
\* command never goes unnoticed. No environment asks for the usage.
RefusedOnlyIfInvalid ==
    LET wrong == \/ \E option \in Numbers : Filled(option) \in {"below", "word"}
                 \/ Filled("--node-role") = "seeder"
    IN ByContainer =>
        /\ at = "exit_2" => wrong
        /\ at = "exit_1" => failed \/ (Adversary /\ env.preseed = "empty")
        /\ at = "run" => ~wrong /\ ~failed /\ (Adversary => env.preseed = "given")
        /\ at # "exit_0"

\* docker-entrypoint.sh:25-36 ("Seeder runs copy the baked-in payload into the active
\* save path"): a seeder has the whole payload before it starts, also when an earlier
\* copy or download was cut short; only a payload that is a directory is not completed
\* then.
SeedersHavePayload ==
    at = "parse" /\ ByContainer /\ Adversary =>
        target = "complete" \/ (payload = "directory" /\ spoiled)
=============================================================================
