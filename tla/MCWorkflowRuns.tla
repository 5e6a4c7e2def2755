---------------------------- MODULE MCWorkflowRuns ----------------------------
(* Small instances of WorkflowRuns for TLC: the definitions runs follow.   *)
EXTENDS WorkflowRuns, TLC

CONSTANTS k1, k2, k3, k4, k5

\* Sound for every property that is not a liveness property.
Symmetry == Permutations(Procs) \cup Permutations(Runs)

\* A condition, then a gated tool or an approval with a path for a refusal; that leads to
\* an agent, and the agent and the gated tool to a plain one.
FullKinds   == k1 :> "condition" @@ k2 :> "gated" @@ k3 :> "approval" @@ k4 :> "agent"
               @@ k5 :> "tool"
FullSuccess == k1 :> {k2, k3} @@ k2 :> {k5} @@ k3 :> {End} @@ k4 :> {k5} @@ k5 :> {End}
FullReject  == k1 :> End @@ k2 :> End @@ k3 :> k4 @@ k4 :> End @@ k5 :> End

\* An agent, then a plain tool.
AgentKinds   == k1 :> "agent" @@ k2 :> "tool"
AgentSuccess == k1 :> {k2} @@ k2 :> {End}
AgentReject  == k1 :> End @@ k2 :> End

\* A gated tool, an approval that leads on whichever way it goes, another gated tool.
AskKinds   == k1 :> "gated" @@ k2 :> "approval" @@ k3 :> "gated"
AskSuccess == k1 :> {k2} @@ k2 :> {k3} @@ k3 :> {End}
AskReject  == k1 :> End @@ k2 :> k3 @@ k3 :> End

\* No definition leads from a step back to it.
Acyclic ==
  LET Leads == {<<a, b>> \in Keys \X Keys : b \in OnSuccess[a] \cup {OnReject[a]}}
  IN \E rank \in [Keys -> 1..Cardinality(Keys)] : \A e \in Leads : rank[e[1]] < rank[e[2]]

ASSUME AcyclicAssumption == Acyclic
=============================================================================
