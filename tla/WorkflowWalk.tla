----------------------------- MODULE WorkflowWalk -----------------------------
(***************************************************************************)
(* What a workflow run promises about its steps: it walks the definition.  *)
(* It begins at the entry, goes on only from a step that is done and to    *)
(* where that step leads, has at most one step in hand, and never takes a  *)
(* step twice.  A step that is not done stays in hand and the walk stops.  *)
(***************************************************************************)
CONSTANTS
  Runs, Keys, Entry,
  OnSuccess,   \* where a step can lead when it succeeded
  OnReject     \* where a refused approval leads

VARIABLES
  open,        \* the step each run has in hand, if it has one
  done         \* the steps each run has finished

walkVars == <<open, done>>

Leads(k, l) == l \in OnSuccess[k] \cup {OnReject[k]}

WalkInit ==
  /\ open = [r \in Runs |-> {}]
  /\ done = [r \in Runs |-> {}]

Take(r, k) ==
  /\ open[r] = {}
  /\ k \notin done[r]
  /\ \/ k = Entry /\ done[r] = {}
     \/ \E l \in done[r] : Leads(l, k)
  /\ open' = [open EXCEPT ![r] = {k}]
  /\ UNCHANGED done

Complete(r) ==
  /\ open[r] # {}
  /\ open' = [open EXCEPT ![r] = {}]
  /\ done' = [done EXCEPT ![r] = @ \cup open[r]]

WalkNext == \E r \in Runs : Complete(r) \/ \E k \in Keys : Take(r, k)

WalkSpec == WalkInit /\ [][WalkNext]_walkVars
=============================================================================
