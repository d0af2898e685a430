\* Every list of four rules with every outcome.
CONSTANT NRules = 4
SPECIFICATION Spec
INVARIANTS
  TypeOK
  LoopComputesDecision
  SummaryJustifiesVerdict
PROPERTIES
  NeverSofter
CHECK_DEADLOCK FALSE
