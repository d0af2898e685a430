--------------------------- MODULE RuleLoopProofs ---------------------------
(***************************************************************************)
(* For every number of rules, the loop of VerifierServer.verify computes   *)
(* the declared decision.  The strengthening says what the running         *)
(* variables mean after the rules appended to results so far.              *)
(* The declared verdict itself is the strictest answer, in any order.      *)
(***************************************************************************)
EXTENDS RuleLoop, TLAPS, WellFoundedInduction

\* What holds while the loop runs: no rule so far denied or raised, and the
\* verdict and the reason are those of the last escalation, if any.
Running ==
  /\ \A r \in DOMAIN results : outcomes[r] \in {"allow", "escalate"}
  /\ verdict = IF \E r \in DOMAIN results : outcomes[r] = "escalate"
                 THEN "escalate" ELSE "allow"
  /\ IF verdict = "allow" THEN blockRule = 0
     ELSE IsLast(blockRule, {r \in DOMAIN results : outcomes[r] = "escalate"})
  /\ errorRule = 0

Denied ==
  /\ verdict = "deny"
  /\ Len(results) \in Rules
  /\ outcomes[Len(results)] = "deny"
  /\ blockRule = Len(results)
  /\ errorRule = Len(results)
  /\ \A r \in 1 .. Len(results) - 1 : outcomes[r] \in {"allow", "escalate"}

IInv ==
  /\ TypeOK
  /\ Len(results) <= NRules
  /\ \A r \in DOMAIN results : results[r] = outcomes[r]
  /\ state = "looping" => Running
  /\ state = "raised" => Running /\ Current \in Rules /\ outcomes[Current] = "raise"
  /\ state = "done" => (Running /\ Len(results) = NRules) \/ Denied

LEMMA TypeInductive == TypeOK /\ [Next]_vars => TypeOK'
<1> SUFFICES ASSUME TypeOK, [Next]_vars PROVE TypeOK'
  OBVIOUS
<1> USE NRulesAssumption DEF TypeOK, Current, Verdicts, Rules
<1>1. CASE RuleAllows
  BY <1>1 DEF RuleAllows, NextRuleGives
<1>2. CASE RuleDenies
  BY <1>2 DEF RuleDenies, NextRuleGives
<1>3. CASE RuleEscalates
  BY <1>3 DEF RuleEscalates, NextRuleGives
<1>4. CASE RuleRaises \/ RulesExhausted \/ UNCHANGED vars
  BY <1>4 DEF RuleRaises, RulesExhausted, vars
<1> QED BY <1>1, <1>2, <1>3, <1>4 DEF Next

\* The variables keep their types, whatever the rules answer.
THEOREM TypeCorrect == Spec => []TypeOK
<1>1. Init => TypeOK
  BY NRulesAssumption DEF Init, TypeOK, Verdicts, Rules
<1>. QED  BY <1>1, TypeInductive, PTL DEF Spec

LEMMA InitInductive == Init => IInv
  BY NRulesAssumption DEF Init, IInv, TypeOK, Running, Verdicts, Rules

LEMMA NextInductive == IInv /\ [Next]_vars => IInv'
<1>. SUFFICES ASSUME IInv, [Next]_vars PROVE IInv'
  OBVIOUS
<1>0. TypeOK'
  BY TypeInductive DEF IInv
<1>. USE NRulesAssumption DEF IInv, TypeOK, Rules, Verdicts, Outcomes
<1>1. CASE RuleAllows
  <2>1. Running /\ Current \in Rules /\ outcomes[Current] = "allow"
    BY <1>1 DEF RuleAllows, NextRuleGives
  <2>2. /\ results' = Append(results, "allow")
        /\ UNCHANGED <<outcomes, verdict, blockRule, errorRule, state>>
        /\ state = "looping"
    BY <1>1 DEF RuleAllows, NextRuleGives
  <2>3. /\ Len(results') = Current
        /\ DOMAIN results' = DOMAIN results \cup {Current}
        /\ \A r \in DOMAIN results : results'[r] = results[r]
        /\ results'[Current] = "allow"
    BY <2>2 DEF Current
  <2>4. {r \in DOMAIN results' : outcomes'[r] = "escalate"}
          = {r \in DOMAIN results : outcomes[r] = "escalate"}
    BY <2>1, <2>2, <2>3
  <2>5. Running'
    BY <2>1, <2>2, <2>3, <2>4 DEF Running
  <2>. QED  BY <1>0, <2>1, <2>2, <2>3, <2>5
<1>2. CASE RuleDenies
  <2>1. /\ Running /\ Current \in Rules /\ outcomes[Current] = "deny"
        /\ results' = Append(results, "deny") /\ outcomes' = outcomes
        /\ verdict' = "deny" /\ blockRule' = Current /\ errorRule' = Current
        /\ state' = "done"
    BY <1>2 DEF RuleDenies, NextRuleGives
  <2>2. /\ Len(results') = Current
        /\ DOMAIN results' = DOMAIN results \cup {Current}
        /\ \A r \in DOMAIN results : results'[r] = results[r]
        /\ results'[Current] = "deny"
    BY <2>1 DEF Current
  <2>3. Denied'
    BY <2>1, <2>2 DEF Denied, Running, Current
  <2>. QED  BY <1>0, <2>1, <2>2, <2>3
<1>3. CASE RuleEscalates
  <2>1. /\ Running /\ Current \in Rules /\ outcomes[Current] = "escalate"
        /\ state = "looping"
    BY <1>3 DEF RuleEscalates, NextRuleGives
  <2>2. /\ results' = Append(results, "escalate")
        /\ verdict' = "escalate" /\ blockRule' = Current
        /\ UNCHANGED <<outcomes, errorRule, state>>
    BY <1>3, <2>1 DEF RuleEscalates, Running
  <2>3. /\ Len(results') = Current
        /\ DOMAIN results' = DOMAIN results \cup {Current}
        /\ \A r \in DOMAIN results : results'[r] = results[r] /\ r <= Current
        /\ results'[Current] = "escalate"
    BY <2>2 DEF Current
  <2>4. Running'
    BY <2>1, <2>2, <2>3 DEF Running, IsLast
  <2>. QED  BY <1>0, <2>1, <2>2, <2>3, <2>4
<1>4. CASE RuleRaises
  BY <1>0, <1>4 DEF RuleRaises, NextRuleGives, Running, Current
<1>5. CASE RulesExhausted
  BY <1>0, <1>5 DEF RulesExhausted, Running, Current
<1>6. CASE UNCHANGED vars
  BY <1>6 DEF vars, Running, Denied, Current
<1>. QED  BY <1>1, <1>2, <1>3, <1>4, <1>5, <1>6 DEF Next

\* The rules that ran, while no verdict has stopped the loop, are those
\* appended to results and the one that is next.
LEMMA EvaluatedWhileRunning ==
  ASSUME IInv, Running
  PROVE  Evaluated(outcomes) \cap (1 .. Current) = Rules \cap (1 .. Current)
BY NRulesAssumption DEF IInv, TypeOK, Running, Evaluated, Rules, Current

LEMMA DecisionFollows == IInv => LoopComputesDecision
<1>. SUFFICES ASSUME IInv PROVE LoopComputesDecision
  OBVIOUS
<1>. USE NRulesAssumption DEF IInv, TypeOK, Rules
<1>1. CASE state = "raised"
  <2>1. Current \in Evaluated(outcomes) /\ outcomes[Current] = "raise"
    BY <1>1, EvaluatedWhileRunning
  <2>. QED  BY <1>1, <2>1 DEF LoopComputesDecision, Raises, With
<1>2. CASE state = "done" /\ Running /\ Len(results) = NRules
  <2>1. DOMAIN results = Rules /\ Evaluated(outcomes) = Rules
    BY <1>2 DEF Running, Evaluated
  <2>2. With(outcomes, "raise") = {} /\ With(outcomes, "deny") = {}
    BY <1>2, <2>1 DEF Running, With
  <2>3. With(outcomes, "escalate") = {r \in DOMAIN results : outcomes[r] = "escalate"}
    BY <2>1 DEF With
  <2>4. verdict = FinalVerdict(outcomes)
    BY <1>2, <2>2, <2>3 DEF Running, FinalVerdict
  <2>5. IsBlocker(blockRule, outcomes)
    BY <1>2, <2>3, <2>4 DEF Running, IsBlocker, FinalVerdict
  <2>6. IsErrorSource(errorRule, outcomes)
    BY <1>2, <2>2 DEF Running, IsErrorSource, FinalVerdict
  <2>. QED  BY <1>2, <2>2, <2>4, <2>5, <2>6 DEF LoopComputesDecision, Raises
<1>3. CASE state = "done" /\ Denied
  <2>1. Evaluated(outcomes) = 1 .. Len(results)
    BY <1>3 DEF Denied, Evaluated
  <2>2. With(outcomes, "raise") = {} /\ With(outcomes, "deny") = {Len(results)}
    BY <1>3, <2>1 DEF Denied, With
  <2>3. FinalVerdict(outcomes) = "deny"
    BY <2>2 DEF FinalVerdict
  <2>. QED  BY <1>3, <2>2, <2>3 DEF Denied, LoopComputesDecision, Raises, IsBlocker, IsErrorSource
<1>. QED  BY <1>1, <1>2, <1>3 DEF LoopComputesDecision

\* For every list of rules and every answer of theirs, the loop ends with the
\* declared verdict, reason and error code, or raises when a rule does.
THEOREM LoopDecides == Spec => []LoopComputesDecision
<1>. QED  BY InitInductive, NextInductive, DecisionFollows, PTL DEF Spec

\* For every list of rules, an ALLOW was answered by all of them, and a DENY
\* by the last rule that the receipt's summary names.
THEOREM SummaryHolds == Spec => []SummaryJustifiesVerdict
<1>1. IInv => SummaryJustifiesVerdict
  BY NRulesAssumption DEF IInv, TypeOK, Running, Denied, SummaryJustifiesVerdict, Rules, IsLast
<1>. QED  BY <1>1, InitInductive, NextInductive, PTL DEF Spec

\* No step of the loop softens a verdict, and none follows a deny.
THEOREM VerdictNeverSofter == Spec => NeverSofter
<1>1. IInv /\ [Next]_vars => [/\ verdict' = "allow" => verdict = "allow"
                              /\ verdict = "deny" => verdict' = "deny" /\ results' = results]_vars
  BY DEF IInv, Running, Next, vars, RuleAllows, RuleDenies, RuleEscalates, RuleRaises,
     RulesExhausted, NextRuleGives
<1>. QED  BY <1>1, InitInductive, NextInductive, PTL DEF Spec, NeverSofter
\* How many steps the loop can still take.
StepsLeft == IF state = "looping" THEN NRules - Len(results) + 1 ELSE 0

\* The loop ends, with a decision or an exception: each of its steps uses up one
\* of at most NRules + 1 (server.py:133-154; verify has no await).
THEOREM LoopRunsOut ==
  Spec => [][/\ StepsLeft \in 1 .. NRules + 1
             /\ StepsLeft' \in 0 .. StepsLeft - 1]_vars
<1>1. IInv /\ IInv' /\ [Next]_vars =>
        [/\ StepsLeft \in 1 .. NRules + 1
         /\ StepsLeft' \in 0 .. StepsLeft - 1]_vars
  <2> SUFFICES ASSUME IInv, IInv', Next
               PROVE  StepsLeft \in 1 .. NRules + 1 /\ StepsLeft' \in 0 .. StepsLeft - 1
    OBVIOUS
  <2>1. /\ NRules \in Nat /\ results \in Seq(Verdicts)
        /\ Len(results) \in 0 .. NRules /\ Len(results') \in 0 .. NRules
    BY NRulesAssumption DEF IInv, TypeOK
  <2>2. /\ state = "looping"
        /\ \/ state' \in {"done", "raised"}
           \/ \E answer \in Verdicts : state' = state /\ results' = Append(results, answer)
    BY DEF Next, RuleAllows, RuleDenies, RuleEscalates, RuleRaises, RulesExhausted, NextRuleGives,
           Verdicts
  <2>3. state' = state => Len(results') = Len(results) + 1
    BY <2>1, <2>2
  <2>4. state' # state => StepsLeft' = 0
    BY <2>2 DEF StepsLeft
  <2>5. StepsLeft = NRules - Len(results) + 1
    BY <2>2 DEF StepsLeft
  <2>6. state' = state => StepsLeft' = NRules - Len(results') + 1
    BY <2>2 DEF StepsLeft
  <2> QED BY <2>1, <2>3, <2>4, <2>5, <2>6
<1> QED BY <1>1, InitInductive, NextInductive, PTL DEF Spec

-----------------------------------------------------------------------------
(* The order of the rules.                                                 *)

\* Of the rules that would stop the loop, the first one is reached.
LEMMA FirstStopRuns ==
  ASSUME NEW answers, NEW s \in Rules, answers[s] \in {"deny", "raise"}
  PROVE  \E r \in Evaluated(answers) : answers[r] \in {"deny", "raise"}
<1> DEFINE Stopping == {r \in Rules : answers[r] \in {"deny", "raise"}}
<1>1. Stopping \subseteq Nat /\ Stopping # {}
  BY NRulesAssumption DEF Rules
<1>2. \E r \in Stopping : \A q \in Stopping : ~(<<q, r>> \in OpToRel(<, Nat))
  <2> HIDE DEF Stopping
  <2> QED BY <1>1, NatLessThanWellFounded, WFMin, Zenon
<1>3. PICK r \in Stopping : \A q \in Stopping : ~(<<q, r>> \in OpToRel(<, Nat))
  BY <1>2
<1>4. ASSUME NEW q \in 1 .. r - 1 PROVE answers[q] \notin {"deny", "raise"}
  <2>0. r \in Rules
    BY <1>3, Zenon
  <2>1. r \in Rules /\ q \in Rules /\ q \in Nat /\ r \in Nat /\ q < r
    <3> HIDE DEF Stopping
    <3> QED BY <2>0, NRulesAssumption DEF Rules
  <2>2. <<q, r>> \in OpToRel(<, Nat)
    BY <2>1 DEF OpToRel
  <2>3. q \notin Stopping
    BY <1>3, <2>2, Zenon
  <2> QED BY <2>1, <2>3
<1> QED BY <1>3, <1>4 DEF Evaluated

\* Unless a rule that is reached raises, the verdict is the strictest answer of
\* all the rules, also of those that a DENY kept from running: no order of the
\* rules gives another verdict (server.py:133-154).
THEOREM StrictestAnswerWins ==
  ASSUME NEW answers \in [Rules -> Outcomes], ~Raises(answers)
  PROVE  FinalVerdict(answers) =
           IF \E r \in Rules : answers[r] = "deny" THEN "deny"
           ELSE IF \E r \in Rules : answers[r] = "escalate" THEN "escalate"
           ELSE "allow"
<1>1. CASE \E r \in Rules : answers[r] = "deny"
  <2>1. \E r \in Evaluated(answers) : answers[r] \in {"deny", "raise"}
    BY <1>1, FirstStopRuns
  <2>2. With(answers, "deny") # {}
    BY <2>1 DEF Raises, With
  <2> QED BY <1>1, <2>2 DEF FinalVerdict
<1>2. CASE ~\E r \in Rules : answers[r] = "deny"
  <2>1. \A r \in Rules : answers[r] \notin {"deny", "raise"}
    <3>1. ~\E r \in Evaluated(answers) : answers[r] \in {"deny", "raise"}
      BY <1>2 DEF Raises, With, Evaluated
    <3> QED BY <3>1, FirstStopRuns
  <2>2. Evaluated(answers) = Rules
    BY <2>1, NRulesAssumption DEF Evaluated, Rules
  <2> QED BY <1>2, <2>2 DEF FinalVerdict, With
<1> QED BY <1>1, <1>2

\* An objection can only make a verdict stricter: when some rules answer more
\* strictly, in the same places, the verdict is at least as strict, or the
\* evaluation raises and lets nothing through.
THEOREM ObjectionsNeverSoften ==
  ASSUME NEW before \in [Rules -> Outcomes], NEW after \in [Rules -> Outcomes],
         ~Raises(before),
         \A r \in Rules : /\ before[r] = "deny" => after[r] = "deny"
                          /\ before[r] = "escalate" => after[r] # "allow"
  PROVE  \/ Raises(after)
         \/ /\ FinalVerdict(before) = "deny" => FinalVerdict(after) = "deny"
            /\ FinalVerdict(after) = "allow" => FinalVerdict(before) = "allow"
<1> SUFFICES ASSUME ~Raises(after)
             PROVE  /\ FinalVerdict(before) = "deny" => FinalVerdict(after) = "deny"
                    /\ FinalVerdict(after) = "allow" => FinalVerdict(before) = "allow"
  OBVIOUS
<1>1. FinalVerdict(before) = "deny" => FinalVerdict(after) = "deny"
  BY StrictestAnswerWins
<1>2. ASSUME FinalVerdict(after) = "allow" PROVE FinalVerdict(before) = "allow"
  <2>1. \A r \in Rules : after[r] \notin {"deny", "escalate"}
    BY <1>2, StrictestAnswerWins
  <2>2. \A r \in Rules : after[r] # "raise"
    <3>1. ASSUME NEW r \in Rules, after[r] = "raise" PROVE FALSE
      <4>1. \E q \in Evaluated(after) : after[q] \in {"deny", "raise"}
        BY <3>1, FirstStopRuns
      <4> QED BY <2>1, <4>1 DEF Raises, With, Evaluated
    <3> QED BY <3>1
  <2>3. \A r \in Rules : before[r] \notin {"deny", "escalate"}
    BY <2>1, <2>2 DEF Outcomes, Verdicts
  <2> QED BY <2>3, StrictestAnswerWins
<1> QED BY <1>1, <1>2
=============================================================================
