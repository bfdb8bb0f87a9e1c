------------------------- MODULE MCArtifactLifecycle -------------------------
(* Values for the constants of ArtifactLifecycle. *)
EXTENDS ArtifactLifecycle, TLC

\* No run overrides a path, or runs may write their event log elsewhere.
DefaultPaths == {artifact_paths_for_session_dir}
LogOverride ==
    DefaultPaths \cup {[artifact_paths_for_session_dir EXCEPT !["event_log"] = "ext"]}

\* Clients are interchangeable: nothing orders or names them.
ClientSymmetry == Permutations(Clients)

\* All that a step or the properties of `shared` depend on: the other
\* variables only record history.
WithoutCounts == <<disk, received, pc, client, crashes, reused>>
=============================================================================
