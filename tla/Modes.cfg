\* Verifiers of every mode, inside and outside of loops, while the server comes and goes.
CONSTANTS
  Programs <- MCPrograms
  MaxLoops = 2
  MaxCalls = 4
  MaxFailures = 3
SPECIFICATION Spec
CHECK_DEADLOCK FALSE
INVARIANTS TypeOK OneEvaluator NeverFallsBack AnswersThisCall
PROPERTY ModeIsSettled
