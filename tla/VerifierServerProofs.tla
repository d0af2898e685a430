------------------------ MODULE VerifierServerProofs ------------------------
(***************************************************************************)
(* Theorems of VerifierServer for every set of commands, every rule list   *)
(* and every max_audit_log.  The three safety invariants are proved        *)
(* together: each is inductive once the types are known, except that the   *)
(* cut of the audit log needs the count of requests.                       *)
(***************************************************************************)
EXTENDS VerifierServer, TLAPS, SequenceTheorems, FiniteSetTheorems

\* AuditIsRecentHistory, entry by entry.
AuditEntries ==
  /\ Len(auditLog) <= requestCount
  /\ \A i \in 1 .. Len(auditLog) : auditLog[i] = history[Len(history) - Len(auditLog) + i]
  /\ MaxAuditLog > 0 =>
       Len(auditLog) = IF requestCount < MaxAuditLog THEN requestCount ELSE MaxAuditLog

RequestsCounted == requestCount = Len(history) - booted

LEMMA VerdictType ==
  ASSUME NEW outcomes PROVE FinalVerdict(outcomes) \in Verdicts
BY DEF FinalVerdict, Verdicts

LEMMA ResultType ==
  ASSUME ServerTypeOK, NEW cmd \in Commands, NEW outcomes
  PROVE  Result(cmd, outcomes) \in Results
BY VerdictType, ServerAssumption DEF ServerTypeOK, Result, Results, NextSequence

\* How many of the entries are left when a log that grew by one is trimmed.
Kept(log) == IF MaxAuditLog > 0 /\ Len(log) = MaxAuditLog THEN Len(log) ELSE Len(log) + 1

\* Trimming keeps the most recent entries: all of them, or all but the oldest.
LEMMA TrimKeepsRecent ==
  ASSUME NEW log \in Seq(Results), NEW r \in Results,
         MaxAuditLog > 0 => Len(log) <= MaxAuditLog
  PROVE  /\ Trimmed(Append(log, r)) \in Seq(Results)
         /\ Len(Trimmed(Append(log, r))) = Kept(log)
         /\ \A i \in 1 .. Kept(log) :
              Trimmed(Append(log, r))[i] = Append(log, r)[Len(log) + 1 - Kept(log) + i]
<1>. DEFINE longer == Append(log, r)
<1>. USE ServerAssumption
<1>1. /\ longer \in Seq(Results) /\ Len(longer) = Len(log) + 1
      /\ Len(log) \in Nat
  BY AppendProperties, LenProperties
<1>. HIDE DEF longer
<1>2. \A i \in 1 .. Len(longer) : longer[i] \in Results
  BY <1>1, ElementOfSeq
<1>3. CASE MaxAuditLog > 0 /\ Len(log) = MaxAuditLog
  <2>. DEFINE m == 2
              n == Len(log) + 1
  <2>1. m \in Int /\ n \in Int /\ m <= n /\ n - m + 1 = Len(log)
    BY <1>1, <1>3
  <2>2. \A i \in m .. n : longer[i] \in Results
    BY <1>1, <1>2
  <2>3. Trimmed(longer) = SubSeq(longer, m, n)
    BY <1>1, <1>3 DEF Trimmed, LastOf
  <2>. HIDE DEF m, n
  <2>4. /\ SubSeq(longer, m, n) \in Seq(Results)
        /\ Len(SubSeq(longer, m, n)) = IF m <= n THEN n - m + 1 ELSE 0
        /\ \A i \in 1 .. n - m + 1 : SubSeq(longer, m, n)[i] = longer[m + i - 1]
    BY <2>1, <2>2, SubSeqProperties
  <2>5. Kept(log) = Len(log)
    BY <1>3 DEF Kept
  <2>6. /\ Trimmed(longer) \in Seq(Results)
        /\ Len(Trimmed(longer)) = Kept(log)
    BY <2>1, <2>3, <2>4, <2>5
  <2>7. \A i \in 1 .. Kept(log) : Trimmed(longer)[i] = longer[Len(log) + 1 - Kept(log) + i]
    BY <1>1, <2>1, <2>3, <2>4, <2>5 DEF m
  <2>. QED  BY <2>6, <2>7 DEF longer
<1>4. CASE ~(MaxAuditLog > 0 /\ Len(log) = MaxAuditLog)
  <2>1. Trimmed(longer) = longer
    BY <1>1, <1>4 DEF Trimmed, LastOf
  <2>2. Kept(log) = Len(log) + 1
    BY <1>4 DEF Kept
  <2>3. /\ Trimmed(longer) \in Seq(Results)
        /\ Len(Trimmed(longer)) = Kept(log)
        /\ \A i \in 1 .. Kept(log) : Trimmed(longer)[i] = longer[Len(log) + 1 - Kept(log) + i]
    BY <1>1, <2>1, <2>2
  <2>. QED  BY <2>3 DEF longer
<1>. QED  BY <1>3, <1>4

\* A log within its bound before a request is a log that can be trimmed.
LEMMA LogIsBounded ==
  ASSUME ServerTypeOK, AuditEntries
  PROVE  MaxAuditLog > 0 => Len(auditLog) <= MaxAuditLog
BY ServerAssumption DEF ServerTypeOK, AuditEntries

LEMMA TypeInductive ==
  ServerTypeOK /\ AuditEntries /\ [ServerNext]_serverVars => ServerTypeOK'
<1>. SUFFICES ASSUME ServerTypeOK, AuditEntries, [ServerNext]_serverVars PROVE ServerTypeOK'
  OBVIOUS
<1>. USE ServerAssumption
<1>1. ASSUME NEW cmd \in Commands, NEW outcomes, Completes(cmd, outcomes)
      PROVE  ServerTypeOK'
  <2>1. /\ history' = Append(history, Result(cmd, outcomes))
        /\ auditLog' = Trimmed(Append(auditLog, Result(cmd, outcomes)))
        /\ Result(cmd, outcomes) \in Results
    BY <1>1, ResultType DEF Completes
  <2>2. history' \in Seq(Results) /\ Len(history') = Len(history) + 1
    BY <2>1, AppendProperties DEF ServerTypeOK
  <2>3. auditLog' \in Seq(Results)
    <3>1. auditLog \in Seq(Results)
      BY DEF ServerTypeOK
    <3>. QED  BY <2>1, <3>1, TrimKeepsRecent, LogIsBounded
  <2>4. /\ sequence' \in Nat /\ requestCount' \in Nat /\ denyCount' \in Nat
        /\ UNCHANGED <<rejected, booted, life>>
    BY <1>1 DEF Completes, ServerTypeOK, NextSequence
  <2>. QED  BY <2>2, <2>3, <2>4, LenProperties DEF ServerTypeOK
<1>2. ASSUME NEW cmd \in Commands, NEW outcomes, BuildRejects(cmd, outcomes)
      PROVE  ServerTypeOK'
  BY <1>2 DEF BuildRejects, ServerTypeOK, NextSequence
<1>3. CASE Restarts
  BY <1>3, LenProperties DEF Restarts, ServerTypeOK
<1>4. CASE UNCHANGED serverVars
  BY <1>4 DEF serverVars, ServerTypeOK
<1>. QED  BY <1>1, <1>2, <1>3, <1>4 DEF ServerNext, LeavesNothing

LEMMA AuditInductive ==
  ServerTypeOK /\ AuditEntries /\ RequestsCounted /\ [ServerNext]_serverVars
    => AuditEntries' /\ RequestsCounted'
<1>. SUFFICES ASSUME ServerTypeOK, AuditEntries, RequestsCounted, [ServerNext]_serverVars
              PROVE  AuditEntries' /\ RequestsCounted'
  OBVIOUS
<1>. USE ServerAssumption
<1>0. Len(history) \in Nat /\ Len(auditLog) \in Nat /\ Len(auditLog) <= Len(history)
  BY LenProperties DEF ServerTypeOK, AuditEntries, RequestsCounted
<1>1. ASSUME NEW cmd \in Commands, NEW outcomes, Completes(cmd, outcomes)
      PROVE  AuditEntries' /\ RequestsCounted'
  <2>. DEFINE r == Result(cmd, outcomes)
              old == Len(auditLog)
              n == Kept(auditLog)
  <2>1. /\ history' = Append(history, r)
        /\ auditLog' = Trimmed(Append(auditLog, r))
        /\ requestCount' = requestCount + 1
        /\ booted' = booted
        /\ r \in Results
    BY <1>1, ResultType DEF Completes
  <2>. HIDE DEF r
  <2>2. /\ Len(history') = Len(history) + 1
        /\ \A i \in 1 .. Len(history) : history'[i] = history[i]
        /\ history'[Len(history) + 1] = r
    BY <2>1, AppendProperties DEF ServerTypeOK
  <2>3. /\ \A i \in 1 .. old : Append(auditLog, r)[i] = auditLog[i]
        /\ Append(auditLog, r)[old + 1] = r
    BY <2>1, AppendProperties DEF ServerTypeOK
  <2>4. /\ Len(auditLog') = n
        /\ \A i \in 1 .. n : auditLog'[i] = Append(auditLog, r)[old + 1 - n + i]
    <3>1. auditLog \in Seq(Results)
      BY DEF ServerTypeOK
    <3>. QED  BY <2>1, <3>1, TrimKeepsRecent, LogIsBounded
  <2>4a. n \in Nat /\ n <= old + 1
    BY <1>0 DEF Kept
  <2>. HIDE DEF n
  <2>5. ASSUME NEW i \in 1 .. n
        PROVE  auditLog'[i] = history'[Len(history') - n + i]
    <3>. DEFINE j == old + 1 - n + i
    <3>1. j \in 1 .. old + 1 /\ Len(history') - n + i = Len(history) - old + j
      BY <1>0, <2>2, <2>4a
    <3>. HIDE DEF j
    <3>2. CASE j = old + 1
      <4>1. auditLog'[i] = r
        BY <3>2, <2>3, <2>4 DEF j
      <4>2. Len(history) - old + j = Len(history) + 1
        BY <3>2, <1>0
      <4>. QED  BY <4>1, <4>2, <3>1, <2>2
    <3>3. CASE j \in 1 .. old
      <4>1. auditLog'[i] = auditLog[j]
        BY <3>3, <2>3, <2>4 DEF j
      <4>2. auditLog[j] = history[Len(history) - old + j]
        BY <3>3 DEF AuditEntries
      <4>3. Len(history) - old + j \in 1 .. Len(history)
        BY <3>3, <1>0
      <4>. QED  BY <4>1, <4>2, <4>3, <3>1, <2>2
    <3>4. j = old + 1 \/ j \in 1 .. old
      BY <3>1, <1>0
    <3>. QED  BY <3>2, <3>3, <3>4
  <2>6. RequestsCounted'
    BY <2>1, <2>2, <1>0 DEF RequestsCounted, ServerTypeOK
  <2>7. /\ n <= requestCount + 1
        /\ MaxAuditLog > 0 =>
             n = IF requestCount + 1 < MaxAuditLog THEN requestCount + 1 ELSE MaxAuditLog
    BY <1>0 DEF AuditEntries, ServerTypeOK, Kept, n
  <2>. QED  BY <2>1, <2>4, <2>5, <2>6, <2>7 DEF AuditEntries
<1>2. ASSUME NEW cmd \in Commands, NEW outcomes, BuildRejects(cmd, outcomes)
      PROVE  AuditEntries' /\ RequestsCounted'
  BY <1>2 DEF BuildRejects, AuditEntries, RequestsCounted
<1>3. CASE Restarts
  BY <1>0, <1>3 DEF Restarts, AuditEntries, RequestsCounted, ServerTypeOK
<1>4. CASE UNCHANGED serverVars
  BY <1>4 DEF serverVars, AuditEntries, RequestsCounted
<1>. QED  BY <1>1, <1>2, <1>3, <1>4 DEF ServerNext, LeavesNothing

IInv == ServerTypeOK /\ AuditEntries /\ RequestsCounted

LEMMA InitIInv == ServerInit => IInv
<1>. SUFFICES ASSUME ServerInit PROVE IInv
  OBVIOUS
<1>1. auditLog = <<>> /\ history = <<>> /\ Len(<<>>) = 0 /\ <<>> \in Seq(Results)
  BY EmptySeq DEF ServerInit
<1>. QED  BY <1>1, ServerAssumption
          DEF ServerInit, IInv, ServerTypeOK, AuditEntries, RequestsCounted

LEMMA InvIInv == ServerSpec => []IInv
BY InitIInv, TypeInductive, AuditInductive, PTL DEF ServerSpec, IInv

\* The server's state keeps its types whatever the commands and the rules do.
THEOREM ServerTypes == ServerSpec => []ServerTypeOK
BY InvIInv, PTL DEF IInv

LEMMA EntriesAreSuffix == IInv => AuditIsRecentHistory
<1>. SUFFICES ASSUME IInv PROVE AuditIsRecentHistory
  OBVIOUS
<1>. DEFINE m == Len(history) - Len(auditLog) + 1
            n == Len(history)
<1>1. /\ m \in Int /\ n \in Int /\ m >= 1 /\ n - m + 1 = Len(auditLog)
      /\ Len(auditLog) \in Nat /\ auditLog \in Seq(Results)
  BY LenProperties DEF IInv, ServerTypeOK, AuditEntries, RequestsCounted
<1>2. \A i \in m .. n : history[i] \in Results
  BY <1>1, ElementOfSeq DEF IInv, ServerTypeOK
<1>3. \A i \in 1 .. Len(auditLog) : auditLog[i] = history[m + i - 1]
  BY <1>1 DEF IInv, AuditEntries
<1>. HIDE DEF m, n
<1>4. /\ SubSeq(history, m, n) \in Seq(Results)
      /\ Len(SubSeq(history, m, n)) = IF m <= n THEN n - m + 1 ELSE 0
      /\ \A i \in 1 .. n - m + 1 : SubSeq(history, m, n)[i] = history[m + i - 1]
  BY <1>1, <1>2, SubSeqProperties
<1>5. auditLog = SubSeq(history, m, n)
  <2>1. Len(SubSeq(history, m, n)) = Len(auditLog)
    BY <1>1, <1>4
  <2>2. \A i \in 1 .. Len(auditLog) : auditLog[i] = SubSeq(history, m, n)[i]
    BY <1>1, <1>3, <1>4
  <2>. QED  BY <1>1, <1>4, <2>1, <2>2, SeqEqual
<1>. QED  BY <1>5 DEF IInv, AuditEntries, AuditIsRecentHistory, m, n

\* For every max_audit_log, the audit log is the tail of what the process has
\* decided, and exactly as long as max_audit_log allows when that is not 0.
THEOREM AuditLogIsTail == ServerSpec => []AuditIsRecentHistory
BY InvIInv, EntriesAreSuffix, PTL

LEMMA SequencesInductive ==
  IInv /\ SequencesIncrease /\ [ServerNext]_serverVars => SequencesIncrease'
<1>. SUFFICES ASSUME IInv, SequencesIncrease, [ServerNext]_serverVars, L1Enabled
              PROVE  SequencesIncrease'
  BY DEF SequencesIncrease
<1>. USE ServerAssumption
<1>0. Len(history) \in Nat /\ booted \in Nat /\ sequence \in Nat
  BY LenProperties DEF IInv, ServerTypeOK
<1>1. ASSUME NEW cmd \in Commands, NEW outcomes, Completes(cmd, outcomes)
      PROVE  SequencesIncrease'
  <2>. DEFINE r == Result(cmd, outcomes)
  <2>1. /\ history' = Append(history, r) /\ r \in Results /\ r.seq = sequence + 1
        /\ sequence' = sequence + 1 /\ requestCount' = requestCount + 1
        /\ rejected' = rejected /\ booted' = booted
    BY <1>1, ResultType DEF Completes, IInv, NextSequence, Result
  <2>. HIDE DEF r
  <2>2. /\ Len(history') = Len(history) + 1
        /\ \A i \in 1 .. Len(history) : history'[i] = history[i]
        /\ history'[Len(history) + 1] = r
    BY <2>1, AppendProperties DEF IInv, ServerTypeOK
  <2>3. OfThisLife' = OfThisLife \cup {Len(history) + 1}
    BY <2>1, <2>2, <1>0 DEF OfThisLife, IInv, ServerTypeOK
  <2>4. \A i \in OfThisLife : i \in 1 .. Len(history) /\ history'[i] = history[i]
    BY <2>2, <1>0 DEF OfThisLife
  <2>. QED  BY <2>1, <2>2, <2>3, <2>4, <1>0
            DEF SequencesIncrease, IInv, ServerTypeOK
<1>2. ASSUME NEW cmd \in Commands, NEW outcomes, BuildRejects(cmd, outcomes)
      PROVE  SequencesIncrease'
  BY <1>2, <1>0 DEF BuildRejects, SequencesIncrease, OfThisLife, NextSequence, IInv, ServerTypeOK
<1>3. CASE Restarts
  BY <1>3, <1>0 DEF Restarts, SequencesIncrease, OfThisLife
<1>4. CASE UNCHANGED serverVars
  BY <1>4 DEF serverVars, SequencesIncrease, OfThisLife
<1>. QED  BY <1>1, <1>2, <1>3, <1>4 DEF ServerNext, LeavesNothing

\* For every history of requests, refused builds and restarts, the receipts of
\* one process carry strictly increasing numbers, and the numbers that are
\* missing are exactly those of the builds that were refused.
THEOREM ReceiptsAreOrdered == ServerSpec => []SequencesIncrease
<1>1. ServerInit => SequencesIncrease
  BY EmptySeq DEF ServerInit, SequencesIncrease, OfThisLife
<1>. QED  BY <1>1, InvIInv, SequencesInductive, PTL DEF ServerSpec

Denials == {i \in OfThisLife : history[i].verdict = "deny"}

LEMMA CountsInductive ==
  IInv /\ CountersAgree /\ [ServerNext]_serverVars => CountersAgree'
<1>. SUFFICES ASSUME IInv, CountersAgree, [ServerNext]_serverVars
              PROVE  CountersAgree'
  OBVIOUS
<1>0. Len(history) \in Nat /\ booted \in Nat
  BY LenProperties DEF IInv, ServerTypeOK
<1>1. RequestsCounted'
  BY AuditInductive DEF IInv
<1>2. IsFiniteSet(OfThisLife) /\ IsFiniteSet(Denials)
  <2>1. IsFiniteSet(OfThisLife)
    <3>. DEFINE a == booted + 1
                b == Len(history)
    <3>1. a \in Int /\ b \in Int
      BY <1>0
    <3>. HIDE DEF a, b
    <3>2. IsFiniteSet(a .. b)
      BY <3>1, FS_Interval
    <3>. QED  BY <3>2 DEF OfThisLife, a, b
  <2>2. Denials \in SUBSET OfThisLife
    BY DEF Denials
  <2>. QED  BY <2>1, <2>2, FS_Subset
<1>3. ASSUME NEW cmd \in Commands, NEW outcomes, Completes(cmd, outcomes)
      PROVE  denyCount' = Cardinality(Denials')
  <2>. DEFINE r == Result(cmd, outcomes)
  <2>1. /\ history' = Append(history, r) /\ r \in Results
        /\ r.verdict = FinalVerdict(outcomes) /\ booted' = booted
        /\ denyCount' = IF FinalVerdict(outcomes) = "deny" THEN denyCount + 1 ELSE denyCount
    BY <1>3, ResultType DEF Completes, IInv, Result
  <2>. HIDE DEF r
  <2>2. /\ Len(history') = Len(history) + 1
        /\ \A i \in 1 .. Len(history) : history'[i] = history[i]
        /\ history'[Len(history) + 1] = r
    BY <2>1, AppendProperties DEF IInv, ServerTypeOK
  <2>3. OfThisLife' = OfThisLife \cup {Len(history) + 1}
    BY <2>1, <2>2, <1>0 DEF OfThisLife, IInv, ServerTypeOK
  <2>4. \A i \in OfThisLife : history'[i] = history[i]
    BY <2>2, <1>0 DEF OfThisLife
  <2>5. Len(history) + 1 \notin Denials
    BY <1>0 DEF Denials, OfThisLife
  <2>6. CASE r.verdict = "deny"
    <3>1. Denials' = Denials \cup {Len(history) + 1}
      BY <2>2, <2>3, <2>4, <2>6 DEF Denials
    <3>. QED  BY <3>1, <2>1, <2>5, <2>6, <1>2, FS_AddElement DEF CountersAgree, Denials
  <2>7. CASE r.verdict # "deny"
    <3>1. Denials' = Denials
      BY <2>2, <2>3, <2>4, <2>7 DEF Denials
    <3>. QED  BY <3>1, <2>1, <2>7 DEF CountersAgree, Denials
  <2>. QED  BY <2>6, <2>7
<1>4. ASSUME NEW cmd \in Commands, NEW outcomes, BuildRejects(cmd, outcomes)
      PROVE  denyCount' = Cardinality(Denials')
  BY <1>4 DEF BuildRejects, CountersAgree, Denials, OfThisLife
<1>5. CASE Restarts
  <2>1. Denials' = {} /\ denyCount' = 0
    BY <1>5, <1>0 DEF Restarts, Denials, OfThisLife
  <2>. QED  BY <2>1, FS_EmptySet, <1>1 DEF CountersAgree, RequestsCounted, Denials
<1>6. CASE UNCHANGED serverVars
  BY <1>6 DEF serverVars, CountersAgree, OfThisLife
<1>. QED  BY <1>1, <1>3, <1>4, <1>5, <1>6
          DEF ServerNext, LeavesNothing, CountersAgree, RequestsCounted, Denials

\* For every history, the counters that a health check reports are the number
\* of decisions and of denials of the running process.
THEOREM HealthCountersAgree == ServerSpec => []CountersAgree
<1>1. ServerInit => CountersAgree
  <2>. SUFFICES ASSUME ServerInit PROVE CountersAgree
    OBVIOUS
  <2>1. Len(history) = 0 /\ booted = 0
    BY EmptySeq DEF ServerInit
  <2>2. Denials = {}
    BY <2>1 DEF Denials, OfThisLife
  <2>. QED  BY <2>1, <2>2, FS_EmptySet DEF ServerInit, CountersAgree, Denials
<1>. QED  BY <1>1, InvIInv, CountsInductive, PTL DEF ServerSpec

LEMMA LogGrows ==
  ASSUME IInv, [ServerNext]_serverVars, life' = life, NEW i \in DOMAIN auditLog
  PROVE  \/ auditLog[i] \in {auditLog'[k] : k \in DOMAIN auditLog'}
         \/ i = 1 /\ Len(auditLog) = MaxAuditLog /\ Len(auditLog') = MaxAuditLog
<1>. USE ServerAssumption
<1>0. auditLog \in Seq(Results) /\ Len(auditLog) \in Nat /\ i \in 1 .. Len(auditLog)
  BY LenProperties DEF IInv, ServerTypeOK
<1>1. ASSUME NEW cmd \in Commands, NEW outcomes, Completes(cmd, outcomes)
      PROVE  \/ auditLog[i] \in {auditLog'[k] : k \in DOMAIN auditLog'}
             \/ i = 1 /\ Len(auditLog) = MaxAuditLog /\ Len(auditLog') = MaxAuditLog
  <2>. DEFINE r == Result(cmd, outcomes)
              n == Kept(auditLog)
              k == i - (Len(auditLog) + 1 - n)
  <2>1. auditLog' = Trimmed(Append(auditLog, r)) /\ r \in Results
    BY <1>1, ResultType DEF Completes, IInv
  <2>. HIDE DEF r
  <2>2. MaxAuditLog > 0 => Len(auditLog) <= MaxAuditLog
    BY LogIsBounded DEF IInv
  <2>3. /\ auditLog' \in Seq(Results)
        /\ Len(auditLog') = n
        /\ \A j \in 1 .. n : auditLog'[j] = Append(auditLog, r)[Len(auditLog) + 1 - n + j]
    BY <1>0, <2>1, <2>2, TrimKeepsRecent
  <2>4. Append(auditLog, r)[i] = auditLog[i]
    BY <1>0, <2>1, AppendProperties
  <2>5a. n \in Nat /\ n <= Len(auditLog) + 1
    BY <1>0 DEF Kept
  <2>5b. n # Len(auditLog) + 1 => Len(auditLog) = MaxAuditLog /\ n = Len(auditLog)
    BY DEF Kept
  <2>. HIDE DEF n
  <2>5. k \in Int /\ k <= n /\ Len(auditLog) + 1 - n + k = i
    BY <1>0, <2>5a
  <2>6. CASE k >= 1
    <3>1. k \in 1 .. n
      BY <2>5, <2>5a, <2>6
    <3>. HIDE DEF k
    <3>2. auditLog'[k] = auditLog[i] /\ k \in DOMAIN auditLog'
      BY <2>3, <2>4, <2>5, <3>1, LenProperties
    <3>. QED  BY <3>2
  <2>7. CASE ~(k >= 1)
    BY <1>0, <2>3, <2>5a, <2>5b, <2>7
  <2>. QED  BY <2>6, <2>7
<1>2. ASSUME UNCHANGED auditLog
      PROVE  auditLog[i] \in {auditLog'[k] : k \in DOMAIN auditLog'}
  BY <1>2
<1>3. ~Restarts
  BY DEF Restarts, IInv, ServerTypeOK
<1>. QED  BY <1>1, <1>2, <1>3 DEF ServerNext, BuildRejects, LeavesNothing, serverVars

\* For every max_audit_log, 0 included, a decision is never dropped from the log
\* of a running process except as the oldest one of a full log.
THEOREM DecisionsStayLogged == ServerSpec => AuditOnlyGrows
<1>1. ASSUME IInv, [ServerNext]_serverVars
      PROVE  [life' = life => \A i \in DOMAIN auditLog :
                \/ auditLog[i] \in {auditLog'[k] : k \in DOMAIN auditLog'}
                \/ i = 1 /\ Len(auditLog) = MaxAuditLog /\ Len(auditLog') = MaxAuditLog]_serverVars
  BY <1>1, LogGrows
<1>. QED  BY <1>1, InvIInv, PTL DEF ServerSpec, AuditOnlyGrows
=============================================================================
