--------------------------- MODULE VerifyContract ---------------------------
(***************************************************************************)
(* What VerifierClient.verify promises its callers, without connections,   *)
(* attempts or a lock: a call ends; it returns only a decision that a      *)
(* server took on this very command, or it raises.  It never invents a     *)
(* verdict, so a caller that blocks on an exception fails closed.  A       *)
(* command may be decided more than once, and also after its call ended:   *)
(* a retry is at least once.                                               *)
(***************************************************************************)
EXTENDS Naturals

CONSTANTS
  Tasks,
  MaxCalls,
  NoDecision   \* the decision of a call that did not return one

VARIABLES
  busy,     \* per task: a call is in progress
  callNo,   \* per task: the number of its last call
  answer,   \* per task: what its last finished call gave
  decided   \* the decisions that servers took

contractVars == <<busy, callNo, answer, decided>>

Command(t) == <<t, callNo[t]>>

ContractInit ==
  /\ busy = [t \in Tasks |-> FALSE]
  /\ callNo = [t \in Tasks |-> 0]
  /\ answer = [t \in Tasks |-> [how |-> "none", decision |-> NoDecision]]
  /\ decided = {}

Invoke(t) ==
  /\ ~busy[t]
  /\ callNo[t] < MaxCalls
  /\ busy' = [busy EXCEPT ![t] = TRUE]
  /\ callNo' = [callNo EXCEPT ![t] = @ + 1]
  /\ UNCHANGED <<answer, decided>>

\* A server decides a command that has been submitted, whether or not the
\* caller is still waiting.
Decide ==
  /\ \E decision \in decided', t \in Tasks :
       /\ decision.cmd \in {<<t, n>> : n \in 1 .. callNo[t]}
       /\ decided' = decided \cup {decision}
  /\ UNCHANGED <<busy, callNo, answer>>

\* The call returns a decision on its own command.
Return(t) ==
  /\ busy[t]
  /\ \E decision \in decided :
       /\ decision.cmd = Command(t)
       /\ answer' = [answer EXCEPT ![t] = [how |-> "returned", decision |-> decision]]
  /\ busy' = [busy EXCEPT ![t] = FALSE]
  /\ UNCHANGED <<callNo, decided>>

Raise(t) ==
  /\ busy[t]
  /\ answer' = [answer EXCEPT ![t] = [how |-> "raised", decision |-> NoDecision]]
  /\ busy' = [busy EXCEPT ![t] = FALSE]
  /\ UNCHANGED <<callNo, decided>>

ContractNext ==
  \/ \E t \in Tasks : Invoke(t) \/ Return(t) \/ Raise(t)
  \/ Decide

Contract == ContractInit /\ [][ContractNext]_contractVars

\* Every call ends.
EveryCallEnds == \A t \in Tasks : busy[t] ~> ~busy[t]
=============================================================================
