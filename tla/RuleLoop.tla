------------------------------ MODULE RuleLoop ------------------------------
(***************************************************************************)
(* The rule loop of VerifierServer.verify (src/ccs_verifier/server.py),    *)
(* one step per iteration.  A rule may look at anything, so its outcome is *)
(* unknown until it is called.                                             *)
(***************************************************************************)
EXTENDS RuleEvaluation, Sequences

VARIABLES
  outcomes,     \* what each rule will answer to this command
  results,      \* rule_results, as the verdicts appended so far
  verdict,      \* final_verdict
  blockRule,    \* the rule whose reason is block_reason, 0 for ""
  errorRule,    \* the rule whose error_code is carried, 0 for the default
  state         \* "looping", "done" or "raised"

vars == <<outcomes, results, verdict, blockRule, errorRule, state>>

TypeOK ==
  /\ outcomes \in [Rules -> Outcomes]
  /\ results \in Seq(Verdicts)
  /\ verdict \in Verdicts
  /\ blockRule \in Rules \cup {0}
  /\ errorRule \in Rules \cup {0}
  /\ state \in {"looping", "done", "raised"}

Init ==
  /\ outcomes \in [Rules -> Outcomes]
  /\ results = <<>>
  /\ verdict = "allow"
  /\ blockRule = 0
  /\ errorRule = 0
  /\ state = "looping"

Current == Len(results) + 1

\* rule.evaluate(command) answers "outcome" for the next rule of the list.
NextRuleGives(outcome) ==
  /\ state = "looping"
  /\ Current \in Rules
  /\ outcomes[Current] = outcome

\* Mutant of RuleAllows: an allowing rule sets the verdict, as the others do.
AllowSetsVerdict ==
  /\ NextRuleGives("allow")
  /\ results' = Append(results, "allow")
  /\ verdict' = "allow"
  /\ UNCHANGED <<outcomes, blockRule, errorRule, state>>

RuleAllows ==
  /\ NextRuleGives("allow")
  /\ results' = Append(results, "allow")
  /\ UNCHANGED <<outcomes, verdict, blockRule, errorRule, state>>

\* Mutant of RuleDenies: the loop does not stop at a DENY.
DenyGoesOn ==
  /\ NextRuleGives("deny")
  /\ results' = Append(results, "deny")
  /\ verdict' = "deny"
  /\ blockRule' = Current
  /\ errorRule' = Current
  /\ UNCHANGED <<outcomes, state>>

\* DENY overrides whatever came before and breaks out of the loop.
RuleDenies ==
  /\ NextRuleGives("deny")
  /\ results' = Append(results, "deny")
  /\ verdict' = "deny"
  /\ blockRule' = Current
  /\ errorRule' = Current
  /\ state' = "done"
  /\ UNCHANGED outcomes

\* Mutant of RuleEscalates: the first escalating rule keeps the reason.
FirstEscalationWins ==
  /\ NextRuleGives("escalate")
  /\ results' = Append(results, "escalate")
  /\ verdict' = "escalate"
  /\ blockRule' = IF blockRule = 0 THEN Current ELSE blockRule
  /\ UNCHANGED <<outcomes, errorRule, state>>

\* ESCALATE replaces an earlier reason, keeps the default code and goes on.
RuleEscalates ==
  /\ NextRuleGives("escalate")
  /\ results' = Append(results, "escalate")
  /\ IF verdict # "deny"
       THEN /\ verdict' = "escalate"
            /\ blockRule' = Current
       ELSE UNCHANGED <<verdict, blockRule>>
  /\ UNCHANGED <<outcomes, errorRule, state>>

\* Mutant of RuleRaises: the exception is caught and recorded as a result.
RaiseIsRecorded ==
  /\ NextRuleGives("raise")
  /\ results' = Append(results, "raise")
  /\ UNCHANGED <<outcomes, verdict, blockRule, errorRule, state>>

RuleRaises ==
  /\ NextRuleGives("raise")
  /\ state' = "raised"
  /\ UNCHANGED <<outcomes, results, verdict, blockRule, errorRule>>

RulesExhausted ==
  /\ state = "looping"
  /\ Current \notin Rules
  /\ state' = "done"
  /\ UNCHANGED <<outcomes, results, verdict, blockRule, errorRule>>

Next == RuleAllows \/ RuleDenies \/ RuleEscalates \/ RuleRaises \/ RulesExhausted

Spec == Init /\ [][Next]_vars
-----------------------------------------------------------------------------
\* The loop ends with exactly the verdict, the reason and the error code that
\* the outcomes of the rules call for, and raises exactly when a rule it
\* reaches raises (server.py:133-154): no order of ESCALATE, DENY and ALLOW
\* rules makes the running variables disagree with the whole list.
LoopComputesDecision ==
  /\ state = "done" =>
       /\ ~Raises(outcomes)
       /\ verdict = FinalVerdict(outcomes)
       /\ IsBlocker(blockRule, outcomes)
       /\ IsErrorSource(errorRule, outcomes)
  /\ state = "raised" => Raises(outcomes)

\* The receipt's rule summary (server.py:158-160) tells the whole story: an
\* ALLOW was computed from every rule, and each of them allowed; the summary
\* of a DENY ends with the rule that denied.
SummaryJustifiesVerdict ==
  state = "done" =>
    /\ verdict = "allow" => /\ Len(results) = NRules
                            /\ \A r \in Rules : outcomes[r] = "allow"
    /\ verdict = "deny" => /\ Len(results) = blockRule
                           /\ results[Len(results)] = "deny"
    /\ \A r \in DOMAIN results : results[r] = outcomes[r]

\* A rule's objection is never withdrawn: a step moves the verdict only
\* upwards in allow < escalate < deny, and after a deny nothing moves.
NeverSofter ==
  [][/\ verdict' = "allow" => verdict = "allow"
     /\ verdict = "deny" => verdict' = "deny" /\ results' = results]_vars
=============================================================================
