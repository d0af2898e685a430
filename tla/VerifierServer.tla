--------------------------- MODULE VerifierServer ---------------------------
(***************************************************************************)
(* The state a VerifierServer keeps and what VerifierServer.verify does to *)
(* it (src/ccs_verifier/server.py).  verify has no await, so under asyncio *)
(* it is one step whatever the number of connections; it ends in one of    *)
(* four ways, each an action here.  A process may die and be started again *)
(* with the same issuer and the same signing key: nothing is persisted.    *)
(***************************************************************************)
EXTENDS RuleEvaluation, Sequences, FiniteSets

CONSTANTS
  Commands,      \* the commands that clients send
  Unhashable,    \* those whose params json.dumps refuses (in-process use only)
  Unsignable,    \* those the L1 builder refuses: integers beyond 2^53, NaN, an
                 \* empty agent_id when the server has no audience of its own
  L1Enabled,     \* whether the server was given an Ed25519 key
  MaxAuditLog,   \* max_audit_log
  MaxRequests,   \* bound: verify calls that get as far as a sequence number, those of
                 \* all processes together
  MaxLives       \* bound: processes started one after the other

ASSUME ServerAssumption ==
  /\ Unhashable \subseteq Commands
  /\ Unsignable \subseteq Commands
  /\ L1Enabled \in BOOLEAN
  /\ MaxAuditLog \in Nat
  /\ MaxRequests \in Nat
  /\ MaxLives \in Nat \ {0}

VARIABLES
  sequence,      \* _sequence
  auditLog,      \* _audit_log
  requestCount,  \* _request_count
  denyCount,     \* _deny_count
  rejected,      \* ghost: builds of this process that raised
  history,       \* ghost: every VerificationResult ever produced, oldest first
  booted,        \* ghost: Len(history) when this process was started
  life           \* ghost: which process this is

counters == <<sequence, auditLog, requestCount, denyCount>>
ghosts == <<rejected, history, booted, life>>
serverVars == <<sequence, auditLog, requestCount, denyCount, rejected, history, booted, life>>

Results == [cmd : Commands, verdict : Verdicts, seq : Nat, life : Nat \ {0}]

ServerTypeOK ==
  /\ sequence \in Nat
  /\ auditLog \in Seq(Results)
  /\ requestCount \in Nat
  /\ denyCount \in Nat
  /\ rejected \in Nat
  /\ history \in Seq(Results)
  /\ booted \in 0 .. Len(history)
  /\ life \in 1 .. MaxLives

\* VerifierServer.__init__: everything is in memory and starts from nothing.
ServerInit ==
  /\ sequence = 0
  /\ auditLog = <<>>
  /\ requestCount = 0
  /\ denyCount = 0
  /\ rejected = 0
  /\ history = <<>>
  /\ booted = 0
  /\ life = 1

\* Python's log[-k:]: the last k elements, and all of them when k is 0.
LastOf(log, k) ==
  IF k = 0 \/ k >= Len(log) THEN log ELSE SubSeq(log, Len(log) - k + 1, Len(log))

\* Mutant of Trimmed: a full log is cut to its last entry.
TrimmedInBulk(log) == IF Len(log) > MaxAuditLog THEN LastOf(log, 1) ELSE log

\* Mutant of Trimmed: the oldest entries are kept.
TrimmedFromTheEnd(log) ==
  IF Len(log) > MaxAuditLog THEN SubSeq(log, 1, MaxAuditLog) ELSE log

Trimmed(log) == IF Len(log) > MaxAuditLog THEN LastOf(log, MaxAuditLog) ELSE log

\* The sequence number the next receipt takes; an L0 server has none.
NextSequence == IF L1Enabled THEN sequence + 1 ELSE 0

Result(cmd, outcomes) ==
  [cmd |-> cmd, verdict |-> FinalVerdict(outcomes), seq |-> NextSequence, life |-> life]

Signs(cmd, outcomes) ==
  /\ ~Raises(outcomes)
  /\ cmd \notin Unhashable
  /\ Len(history) + rejected < MaxRequests

\* Mutant of Completes: a receipt is numbered by its place in the audit log.
CompletesNumberingTheLog(cmd, outcomes) ==
  LET result == [Result(cmd, outcomes) EXCEPT !.seq = Len(auditLog) + 1]
  IN  /\ Signs(cmd, outcomes)
      /\ L1Enabled => cmd \notin Unsignable
      /\ sequence' = Len(auditLog) + 1
      /\ history' = Append(history, result)
      /\ auditLog' = Trimmed(Append(auditLog, result))
      /\ requestCount' = requestCount + 1
      /\ denyCount' = IF FinalVerdict(outcomes) = "deny" THEN denyCount + 1 ELSE denyCount
      /\ UNCHANGED <<rejected, booted, life>>

\* Mutant of Completes: every objection of a rule is counted as a DENY.
CompletesCountingEscalations(cmd, outcomes) ==
  /\ Signs(cmd, outcomes)
  /\ L1Enabled => cmd \notin Unsignable
  /\ sequence' = NextSequence
  /\ history' = Append(history, Result(cmd, outcomes))
  /\ auditLog' = Trimmed(Append(auditLog, Result(cmd, outcomes)))
  /\ requestCount' = requestCount + 1
  /\ denyCount' = IF FinalVerdict(outcomes) # "allow" THEN denyCount + 1 ELSE denyCount
  /\ UNCHANGED <<rejected, booted, life>>

\* verify returns: the receipt is built, the result is appended to the audit
\* log, the log is trimmed and the counters move, in one step.
Completes(cmd, outcomes) ==
  /\ Signs(cmd, outcomes)
  /\ L1Enabled => cmd \notin Unsignable
  /\ sequence' = NextSequence
  /\ history' = Append(history, Result(cmd, outcomes))
  /\ auditLog' = Trimmed(Append(auditLog, Result(cmd, outcomes)))
  /\ requestCount' = requestCount + 1
  /\ denyCount' = IF FinalVerdict(outcomes) = "deny" THEN denyCount + 1 ELSE denyCount
  /\ UNCHANGED <<rejected, booted, life>>

\* Mutant of BuildRejects: an exception handler gives the number back, twice.
BuildRejectsGivingBack(cmd, outcomes) ==
  /\ L1Enabled
  /\ Signs(cmd, outcomes)
  /\ sequence' = sequence - 1
  /\ rejected' = rejected + 1
  /\ UNCHANGED <<auditLog, requestCount, denyCount, history, booted, life>>

\* The sequence number is spent before the receipt is built: a builder that
\* raises (a refused command, or a wall clock that stepped back by more than
\* clock_skew_bound and a second between two readings) leaves a number that no
\* receipt carries, no audit entry and no count.
BuildRejects(cmd, outcomes) ==
  /\ L1Enabled
  /\ Signs(cmd, outcomes)
  /\ sequence' = NextSequence
  /\ rejected' = rejected + 1
  /\ UNCHANGED <<auditLog, requestCount, denyCount, history, booted, life>>

\* A rule raised, or the params cannot be hashed: verify had changed nothing.
LeavesNothing(cmd, outcomes) ==
  /\ Raises(outcomes) \/ cmd \in Unhashable
  /\ UNCHANGED serverVars

\* The process ends and another one is started: __init__ again.
Restarts ==
  /\ life < MaxLives
  /\ life' = life + 1
  /\ sequence' = 0
  /\ auditLog' = <<>>
  /\ requestCount' = 0
  /\ denyCount' = 0
  /\ rejected' = 0
  /\ booted' = Len(history)
  /\ UNCHANGED history

ServerNext ==
  \/ \E cmd \in Commands, outcomes \in [Rules -> Outcomes] :
       \/ Completes(cmd, outcomes)
       \/ BuildRejects(cmd, outcomes)
       \/ LeavesNothing(cmd, outcomes)
  \/ Restarts

ServerSpec == ServerInit /\ [][ServerNext]_serverVars
-----------------------------------------------------------------------------
OfThisLife == booted + 1 .. Len(history)

\* The audit log is the most recent part of what this process has decided, in
\* order and without holes: all of it until max_audit_log is reached, the last
\* max_audit_log results from then on (server.py:250-253).
AuditIsRecentHistory ==
  /\ Len(auditLog) <= requestCount
  /\ auditLog = SubSeq(history, Len(history) - Len(auditLog) + 1, Len(history))
  /\ MaxAuditLog > 0 =>
       Len(auditLog) = IF requestCount < MaxAuditLog THEN requestCount ELSE MaxAuditLog

\* The health counters tell what this process really did: one request per
\* decision and one deny per DENY, whatever was refused in between
\* (server.py:255-257, 320-321).
CountersAgree ==
  /\ requestCount = Len(history) - booted
  /\ denyCount = Cardinality({i \in OfThisLife : history[i].verdict = "deny"})

\* The numbers on the receipts of one process strictly increase in the order
\* of the decisions; the only numbers missing are those of refused builds
\* (server.py:176, 230).
SequencesIncrease ==
  L1Enabled =>
    /\ \A i, j \in OfThisLife : i < j => history[i].seq < history[j].seq
    /\ \A i \in OfThisLife : history[i].seq \in 1 .. sequence
    /\ sequence = requestCount + rejected

\* A decision leaves the audit log only with its process, or as the oldest
\* entry of a full log, pushed out by exactly one newer decision.
AuditOnlyGrows ==
  [][life' = life => \A i \in DOMAIN auditLog :
       \/ auditLog[i] \in {auditLog'[k] : k \in DOMAIN auditLog'}
       \/ i = 1 /\ Len(auditLog) = MaxAuditLog /\ Len(auditLog') = MaxAuditLog]_serverVars
=============================================================================
