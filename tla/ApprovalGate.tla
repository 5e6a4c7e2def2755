---------------------------- MODULE ApprovalGate -----------------------------
(***************************************************************************)
(* What the platform promises about a tool that needs a person, with none  *)
(* of the machinery: a question is asked, exactly one answer is ever given *)
(* (a decision, the clock, or a withdrawal), and the action happens at     *)
(* most once, and only under an approval.                                  *)
(***************************************************************************)
EXTENDS Integers

CONSTANT Actions   \* the gated executions somebody may be asked about

VARIABLES
  answer,    \* what became of each question
  effect     \* how often each action was performed

gateVars == <<answer, effect>>

GateInit ==
  /\ answer = [a \in Actions |-> "none"]
  /\ effect = [a \in Actions |-> 0]

Put(a) ==
  /\ answer[a] = "none"
  /\ answer' = [answer EXCEPT ![a] = "pending"]
  /\ UNCHANGED effect

\* One answer to every question of S, all of them still open.
Settle(S, word) ==
  /\ \A a \in S : answer[a] = "pending"
  /\ answer' = [a \in Actions |-> IF a \in S THEN word ELSE answer[a]]
  /\ UNCHANGED effect

Perform(a) ==
  /\ answer[a] = "approved"
  /\ effect[a] = 0
  /\ effect' = [effect EXCEPT ![a] = 1]
  /\ UNCHANGED answer

GateNext ==
  \/ \E a \in Actions : Put(a) \/ Perform(a)
  \/ \E a \in Actions, word \in {"approved", "rejected"} : Settle({a}, word)
  \/ \E S \in SUBSET Actions, word \in {"expired", "cancelled"} : Settle(S, word)

GateSpec == GateInit /\ [][GateNext]_gateVars
=============================================================================
