--------------------------- MODULE RuleEvaluation ---------------------------
(***************************************************************************)
(* What VerifierServer.verify makes of the outcomes of its rules           *)
(* (src/ccs_verifier/server.py), stated without the loop: the rules are    *)
(* 1..NRules, in the order of self.rules, and an evaluation is a function  *)
(* from rules to outcomes.  RuleLoop is the loop itself and is shown to    *)
(* compute these operators.                                                *)
(***************************************************************************)
EXTENDS Integers

CONSTANT NRules

ASSUME NRulesAssumption == NRules \in Nat

Rules == 1 .. NRules

Verdicts == {"allow", "deny", "escalate"}

\* A rule is a plug-in: it returns a RuleResult with a verdict or it raises.
Outcomes == Verdicts \cup {"raise"}

\* The rules that run: those with no denying and no raising rule before them.
Evaluated(outcomes) ==
  {r \in Rules : \A q \in 1 .. r - 1 : outcomes[q] \notin {"deny", "raise"}}

With(outcomes, outcome) == {r \in Evaluated(outcomes) : outcomes[r] = outcome}

\* An exception of a rule leaves verify: no verdict, no receipt, no audit entry.
Raises(outcomes) == With(outcomes, "raise") # {}

FinalVerdict(outcomes) ==
  IF With(outcomes, "deny") # {} THEN "deny"
  ELSE IF With(outcomes, "escalate") # {} THEN "escalate"
  ELSE "allow"

IsLast(r, S) == r \in S /\ \A q \in S : q <= r

\* Whose reason is block_reason: the denying rule's, else the last escalating
\* rule's, else nobody's (0).
IsBlocker(rule, outcomes) ==
  CASE FinalVerdict(outcomes) = "deny"     -> rule \in With(outcomes, "deny")
    [] FinalVerdict(outcomes) = "escalate" -> IsLast(rule, With(outcomes, "escalate"))
    [] OTHER                               -> rule = 0

\* Whose error_code is carried: the denying rule's; every other verdict keeps
\* DimensionError.default() (0 here).
IsErrorSource(rule, outcomes) ==
  IF FinalVerdict(outcomes) = "deny" THEN rule \in With(outcomes, "deny") ELSE rule = 0
=============================================================================
