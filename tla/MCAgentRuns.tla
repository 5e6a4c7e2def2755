----------------------------- MODULE MCAgentRuns -----------------------------
(* Small instances of AgentRuns for TLC.                                   *)
EXTENDS AgentRuns, TLC

\* Requests are interchangeable, and so are runs: sound for every property that
\* is not a liveness property.
Symmetry == Permutations(Procs) \cup Permutations(Runs)
=============================================================================
