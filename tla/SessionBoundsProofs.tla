------------------------ MODULE SessionBoundsProofs ------------------------
(***************************************************************************)
(* How much one call may cost, for any number of tasks, calls, retries and *)
(* connections and for every method: decisions and requests left behind,   *)
(* and connections.                                                        *)
(***************************************************************************)
EXTENDS VerifierSessionProofs, Functions

\* The decisions on a command, and the requests for it that a server may still
\* read, as sets of places.
Taken(cmd) == {i \in DOMAIN history : history[i].cmd = cmd}
Underway(cmd) ==
  {p \in Conns \X (Nat \ {0}) :
     p[2] \in DOMAIN toServer[p[1]] /\ toServer[p[1]][p[2]].cmd = cmd}

Load(cmd) == Cardinality(Taken(cmd)) + Cardinality(Underway(cmd))

Finite == \A cmd \in Commands : IsFiniteSet(Taken(cmd)) /\ IsFiniteSet(Underway(cmd))

LEMMA UnderwayIsUnserved ==
  ASSUME NetTypes, NEW cmd
  PROVE  Unserved(cmd) = Cardinality(Underway(cmd))
<1> DEFINE On(c) == {i \in DOMAIN toServer[c] : toServer[c][i].cmd = cmd}
           all == UNION {{c} \X On(c) : c \in Conns}
<1>1. \A c \in Conns : DOMAIN toServer[c] \subseteq Nat \ {0}
  BY LenProperties DEF NetTypes
<1>2. ASSUME NEW p \in Underway(cmd) PROVE p \in all
  <2>1. p[1] \in Conns /\ p \in {p[1]} \X On(p[1])
    BY DEF Underway
  <2> QED BY <2>1
<1>3. ASSUME NEW p \in all PROVE p \in Underway(cmd)
  <2>1. PICK c \in Conns : p \in {c} \X On(c)
    BY DEF all
  <2> QED BY <1>1, <2>1 DEF Underway
<1>4. all = Underway(cmd)
  BY <1>2, <1>3
<1> QED BY <1>4 DEF Unserved
-----------------------------------------------------------------------------
(* What a step does to the requests on the way.                            *)

\* A request that is written is one more of its command.
LEMMA WritingAdds ==
  ASSUME NetTypes, NEW c \in Conns, NEW r \in Requests, NEW cmd, IsFiniteSet(Underway(cmd)),
         toServer' = [toServer EXCEPT ![c] = Append(@, r)]
  PROVE  /\ IsFiniteSet(Underway(cmd)')
         /\ Cardinality(Underway(cmd)') =
              Cardinality(Underway(cmd)) + IF r.cmd = cmd THEN 1 ELSE 0
<1> DEFINE n == Len(toServer[c]) + 1
<1>1. /\ toServer[c] \in Seq(Requests) /\ n \in Nat \ {0} /\ DOMAIN toServer[c] = 1 .. n - 1
  BY LenProperties DEF NetTypes
<1>2. /\ toServer'[c] = Append(toServer[c], r)
      /\ \A d \in Conns \ {c} : toServer'[d] = toServer[d]
  BY DEF NetTypes
<1>3. /\ DOMAIN toServer'[c] = 1 .. n
      /\ toServer'[c][n] = r
      /\ \A i \in 1 .. n - 1 : toServer'[c][i] = toServer[c][i]
  BY <1>1, <1>2, AppendProperties
<1> HIDE DEF n
<1>4. <<c, n>> \notin Underway(cmd)
  BY <1>1 DEF Underway
<1>5. Underway(cmd)' = IF r.cmd = cmd THEN Underway(cmd) \cup {<<c, n>>} ELSE Underway(cmd)
  <2>1. ASSUME NEW p \in Conns \X (Nat \ {0})
        PROVE  p \in Underway(cmd)' <=> p \in Underway(cmd) \/ (p = <<c, n>> /\ r.cmd = cmd)
    <3>1. CASE p[1] # c
      BY <1>2, <3>1 DEF Underway
    <3>2. CASE p[1] = c /\ p[2] = n
      BY <1>1, <1>3, <3>2 DEF Underway
    <3>3. CASE p[1] = c /\ p[2] # n
      <4>1. p[2] \in 1 .. n <=> p[2] \in 1 .. n - 1
        BY <1>1, <3>3
      <4> QED BY <1>1, <1>3, <3>3, <4>1 DEF Underway
    <3> QED BY <3>1, <3>2, <3>3
  <2>2. Underway(cmd)' \subseteq Conns \X (Nat \ {0}) /\ Underway(cmd) \subseteq Conns \X (Nat \ {0})
    BY DEF Underway
  <2>3. <<c, n>> \in Conns \X (Nat \ {0})
    BY <1>1
  <2> QED BY <2>1, <2>2, <2>3
<1>6. CASE r.cmd = cmd
  <2> DEFINE one == <<c, n>>
  <2>1. Underway(cmd)' = Underway(cmd) \cup {one} /\ one \notin Underway(cmd)
    BY <1>4, <1>5, <1>6
  <2> HIDE DEF one
  <2>2. /\ IsFiniteSet(Underway(cmd) \cup {one})
        /\ Cardinality(Underway(cmd) \cup {one}) = Cardinality(Underway(cmd)) + 1
    BY <2>1, FS_AddElement
  <2> QED BY <1>6, <2>1, <2>2
<1>7. CASE r.cmd # cmd
  BY <1>5, <1>7, FS_CardinalityType
<1> QED BY <1>6, <1>7

\* A request that is read is one less of its command: the others move up.
LEMMA ReadingRemoves ==
  ASSUME NetTypes, NEW c \in Conns, toServer[c] # <<>>, NEW cmd, IsFiniteSet(Underway(cmd)),
         toServer' = [toServer EXCEPT ![c] = Tail(@)]
  PROVE  /\ IsFiniteSet(Underway(cmd)')
         /\ Cardinality(Underway(cmd)') <=
              Cardinality(Underway(cmd)) - IF Head(toServer[c]).cmd = cmd THEN 1 ELSE 0
<1> DEFINE first == <<c, 1>>
           rest == Underway(cmd) \ {first}
           f == [p \in Underway(cmd)' |-> IF p[1] = c THEN <<c, p[2] + 1>> ELSE p]
<1>1. /\ toServer[c] \in Seq(Requests) /\ Len(toServer[c]) \in Nat \ {0}
      /\ DOMAIN toServer[c] = 1 .. Len(toServer[c])
      /\ Head(toServer[c]) = toServer[c][1]
  BY LenProperties, EmptySeq, HeadIsFirst DEF NetTypes
<1>2. /\ toServer'[c] = Tail(toServer[c])
      /\ \A d \in Conns \ {c} : toServer'[d] = toServer[d]
  BY DEF NetTypes
<1>3. /\ DOMAIN toServer'[c] = 1 .. Len(toServer[c]) - 1
      /\ \A i \in 1 .. Len(toServer[c]) - 1 : toServer'[c][i] = toServer[c][i + 1]
  <2> DEFINE tail == Tail(toServer[c])
  <2>1. /\ tail \in Seq(Requests) /\ Len(tail) = Len(toServer[c]) - 1
        /\ \A i \in 1 .. Len(tail) : tail[i] = toServer[c][i + 1]
    BY <1>1, HeadTailProperties
  <2>2. DOMAIN tail = 1 .. Len(tail)
    BY <2>1, LenProperties
  <2> HIDE DEF tail
  <2>3. toServer'[c] = tail
    BY <1>2 DEF tail
  <2> QED BY <2>1, <2>2, <2>3
<1>4. first \in Underway(cmd) <=> Head(toServer[c]).cmd = cmd
  BY <1>1 DEF Underway
<1>5. ASSUME NEW p \in Underway(cmd)' PROVE f[p] \in rest /\ p[1] \in Conns /\ p[2] \in Nat \ {0}
                                            /\ p = <<p[1], p[2]>>
  <2>1. p \in Conns \X (Nat \ {0}) /\ p[2] \in DOMAIN toServer'[p[1]]
        /\ toServer'[p[1]][p[2]].cmd = cmd
    BY DEF Underway
  <2>2. CASE p[1] = c
    <3>1. p[2] + 1 \in 1 .. Len(toServer[c]) /\ p[2] + 1 # 1 /\ toServer[c][p[2] + 1].cmd = cmd
      BY <1>1, <1>3, <2>1, <2>2
    <3>2. <<c, p[2] + 1>> \in Underway(cmd) /\ <<c, p[2] + 1>> # first
      BY <1>1, <3>1 DEF Underway
    <3> QED BY <2>1, <2>2, <3>2
  <2>3. CASE p[1] # c
    <3>1. p \in Underway(cmd) /\ p # first
      BY <1>2, <2>1, <2>3 DEF Underway
    <3> QED BY <2>1, <2>3, <3>1
  <2> QED BY <2>2, <2>3
<1>6. ASSUME NEW p \in Underway(cmd)', NEW q \in Underway(cmd)', f[p] = f[q] PROVE p = q
  <2>1. f[p][1] = p[1] /\ f[q][1] = q[1]
    BY <1>5
  <2>2. p[1] = q[1]
    BY <1>6, <2>1
  <2>3. p[2] = q[2]
    <3>1. CASE p[1] = c
      <4>1. f[p][2] = p[2] + 1 /\ f[q][2] = q[2] + 1
        BY <2>2, <3>1
      <4> QED BY <1>5, <1>6, <4>1
    <3>2. CASE p[1] # c
      BY <1>6, <2>2, <3>2
    <3> QED BY <3>1, <3>2
  <2> QED BY <1>5, <2>2, <2>3
<1>7. f \in Injection(Underway(cmd)', rest)
  <2>1. f \in [Underway(cmd)' -> rest]
    BY <1>5
  <2> QED BY <1>6, <2>1 DEF Injection, IsInjective
<1>8. /\ IsFiniteSet(rest)
      /\ Cardinality(rest) = IF first \in Underway(cmd) THEN Cardinality(Underway(cmd)) - 1
                             ELSE Cardinality(Underway(cmd))
  BY FS_RemoveElement
<1> HIDE DEF rest, f
<1>9. IsFiniteSet(Underway(cmd)') /\ Cardinality(Underway(cmd)') <= Cardinality(rest)
  BY <1>7, <1>8, FS_Injection
<1> QED BY <1>4, <1>8, <1>9, FS_CardinalityType

\* A connection that is closed takes its requests along.
LEMMA ClosingRemoves ==
  ASSUME NetTypes, NEW c \in Conns, toServer[c] # <<>>, NEW cmd, IsFiniteSet(Underway(cmd)),
         toServer' = [toServer EXCEPT ![c] = <<>>]
  PROVE  /\ IsFiniteSet(Underway(cmd)')
         /\ Cardinality(Underway(cmd)') <=
              Cardinality(Underway(cmd)) - IF Head(toServer[c]).cmd = cmd THEN 1 ELSE 0
<1> DEFINE rest == Underway(cmd) \ {<<c, 1>>}
<1>1. /\ toServer[c] \in Seq(Requests) /\ Len(toServer[c]) \in Nat \ {0}
      /\ DOMAIN toServer[c] = 1 .. Len(toServer[c])
      /\ Head(toServer[c]) = toServer[c][1]
  BY LenProperties, EmptySeq, HeadIsFirst DEF NetTypes
<1>2. toServer'[c] = <<>> /\ \A d \in Conns \ {c} : toServer'[d] = toServer[d]
  BY DEF NetTypes
<1>3. Underway(cmd)' \in SUBSET rest
  <2>1. DOMAIN toServer'[c] = {}
    BY <1>2
  <2> QED BY <1>2, <2>1 DEF Underway
<1>4. <<c, 1>> \in Underway(cmd) <=> Head(toServer[c]).cmd = cmd
  BY <1>1 DEF Underway
<1>5. /\ IsFiniteSet(rest)
      /\ Cardinality(rest) = IF <<c, 1>> \in Underway(cmd) THEN Cardinality(Underway(cmd)) - 1
                             ELSE Cardinality(Underway(cmd))
  BY FS_RemoveElement
<1> HIDE DEF rest
<1>6. IsFiniteSet(Underway(cmd)') /\ Cardinality(Underway(cmd)') <= Cardinality(rest)
  BY <1>3, <1>5, FS_Subset
<1> QED BY <1>4, <1>5, <1>6, FS_CardinalityType

\* A decision is one more on its command.
LEMMA DecidingAdds ==
  ASSUME ServerTypeOK, NEW r \in Results, NEW cmd, IsFiniteSet(Taken(cmd)),
         history' = Append(history, r)
  PROVE  /\ IsFiniteSet(Taken(cmd)')
         /\ Cardinality(Taken(cmd)') = Cardinality(Taken(cmd)) + IF r.cmd = cmd THEN 1 ELSE 0
<1> DEFINE n == Len(history) + 1
<1>1. history \in Seq(Results) /\ n \in Nat /\ DOMAIN history = 1 .. n - 1
  BY LenProperties DEF ServerTypeOK
<1>2. /\ DOMAIN history' = 1 .. n /\ history'[n] = r
      /\ \A i \in 1 .. n - 1 : history'[i] = history[i]
  BY <1>1, AppendProperties
<1> HIDE DEF n
<1>3. n \notin Taken(cmd) /\ DOMAIN history' = DOMAIN history \cup {n} /\ n \notin DOMAIN history
  <2>1. n \notin DOMAIN history
    BY <1>1
  <2>2. 1 .. n = (1 .. n - 1) \cup {n}
    <3>1. n >= 1
      BY <1>1, LenProperties DEF n
    <3> QED BY <1>1, <3>1
  <2> QED BY <1>1, <1>2, <2>1, <2>2 DEF Taken
<1>4. Taken(cmd)' = IF r.cmd = cmd THEN Taken(cmd) \cup {n} ELSE Taken(cmd)
  BY <1>1, <1>2, <1>3 DEF Taken
<1>5. CASE r.cmd = cmd
  <2>1. Taken(cmd)' = Taken(cmd) \cup {n} /\ n \notin Taken(cmd)
    BY <1>3, <1>4, <1>5
  <2>2. /\ IsFiniteSet(Taken(cmd) \cup {n})
        /\ Cardinality(Taken(cmd) \cup {n}) = Cardinality(Taken(cmd)) + 1
    BY <2>1, FS_AddElement
  <2> QED BY <1>5, <2>1, <2>2
<1>6. CASE r.cmd # cmd
  BY <1>4, <1>6, FS_CardinalityType
<1> QED BY <1>5, <1>6
-----------------------------------------------------------------------------
(* What the steps do to the load of each command.                          *)

LoadIsNat == \A cmd \in Commands : Load(cmd) \in Nat

LEMMA FiniteIsNat == Finite => LoadIsNat
BY FS_CardinalityType DEF Finite, LoadIsNat, Load

LEMMA LoadUnchanged ==
  ASSUME Finite, UNCHANGED <<toServer, history>>
  PROVE  Finite' /\ \A cmd \in Commands : Load(cmd)' = Load(cmd)
BY DEF Finite, Load, Taken, Underway

\* No step of a server adds to a load: a decision takes the place of a request.
LEMMA ServerKeepsLoad ==
  ASSUME NetTypes, ServerTypeOK, Finite, ServerStep
  PROVE  Finite' /\ \A cmd \in Commands : Load(cmd)' <= Load(cmd)
<1> SUFFICES ASSUME NEW cmd \in Commands
             PROVE  /\ IsFiniteSet(Taken(cmd)') /\ IsFiniteSet(Underway(cmd)')
                    /\ Load(cmd)' <= Load(cmd)
  BY DEF Finite
<1>0. /\ IsFiniteSet(Taken(cmd)) /\ IsFiniteSet(Underway(cmd))
      /\ Cardinality(Taken(cmd)) \in Nat /\ Cardinality(Underway(cmd)) \in Nat
  BY FS_CardinalityType DEF Finite
<1>1. ASSUME NEW c \in Conns, HandlerReads(c),
             HandlerCloses(c) \/ \E reply : HandlerAnswers(c, reply)
      PROVE  /\ IsFiniteSet(Underway(cmd)') /\ Cardinality(Underway(cmd)') \in Nat
             /\ Cardinality(Underway(cmd)') <=
                  Cardinality(Underway(cmd)) - IF Head(toServer[c]).cmd = cmd THEN 1 ELSE 0
  <2>1. toServer[c] # <<>>
    BY <1>1 DEF HandlerReads
  <2>2. CASE HandlerCloses(c)
    BY <1>0, <2>1, <2>2, ClosingRemoves, FS_CardinalityType DEF HandlerCloses
  <2>3. CASE \E reply : HandlerAnswers(c, reply)
    BY <1>0, <2>1, <2>3, ReadingRemoves, FS_CardinalityType DEF HandlerAnswers
  <2> QED BY <1>1, <2>2, <2>3
<1>2. ASSUME NEW c \in Conns, NEW outcomes \in [Rules -> Outcomes], ServesVerify(c, outcomes)
      PROVE  /\ IsFiniteSet(Taken(cmd)') /\ IsFiniteSet(Underway(cmd)')
             /\ Load(cmd)' <= Load(cmd)
  <2> DEFINE taken == Head(toServer[c]).cmd
             r == Result(taken, outcomes)
  <2>1. /\ HandlerReads(c) /\ history' = Append(history, r)
        /\ HandlerCloses(c) \/ \E reply : HandlerAnswers(c, reply)
    BY <1>2 DEF ServesVerify, Completes
  <2>2. taken \in Commands
    BY <2>1, HandlerTakesRequest DEF Requests
  <2>3. r \in Results /\ r.cmd = taken
    BY <2>2, ResultType DEF Result
  <2> HIDE DEF r, taken
  <2>4. /\ IsFiniteSet(Taken(cmd)')
        /\ Cardinality(Taken(cmd)') = Cardinality(Taken(cmd)) + IF taken = cmd THEN 1 ELSE 0
    BY <1>0, <2>1, <2>3, DecidingAdds
  <2>5. /\ IsFiniteSet(Underway(cmd)') /\ Cardinality(Underway(cmd)') \in Nat
        /\ Cardinality(Underway(cmd)') <=
             Cardinality(Underway(cmd)) - IF taken = cmd THEN 1 ELSE 0
    BY <1>1, <2>1 DEF taken
  <2> QED BY <1>0, <2>4, <2>5 DEF Load
<1>3. ASSUME NEW c \in Conns, HandlerReads(c), UNCHANGED history,
             HandlerCloses(c) \/ \E reply : HandlerAnswers(c, reply)
      PROVE  /\ IsFiniteSet(Taken(cmd)') /\ IsFiniteSet(Underway(cmd)')
             /\ Load(cmd)' <= Load(cmd)
  <2>1. Taken(cmd)' = Taken(cmd)
    BY <1>3 DEF Taken
  <2>2. /\ IsFiniteSet(Underway(cmd)') /\ Cardinality(Underway(cmd)') \in Nat
        /\ Cardinality(Underway(cmd)') <= Cardinality(Underway(cmd))
    BY <1>0, <1>1, <1>3
  <2> QED BY <1>0, <2>1, <2>2 DEF Load
<1>4. ASSUME NEW c \in Conns, NEW outcomes \in [Rules -> Outcomes], VerifyFails(c, outcomes)
      PROVE  HandlerReads(c) /\ UNCHANGED history /\ HandlerCloses(c)
  BY <1>4 DEF VerifyFails, LeavesNothing, BuildRejects, serverVars
<1>5. ASSUME NEW c \in Conns, ServesQuery(c)
      PROVE  HandlerReads(c) /\ UNCHANGED history /\ \E reply : HandlerAnswers(c, reply)
  BY <1>5 DEF ServesQuery, serverVars
<1>6. CASE Crashes
  <2>1. Taken(cmd)' = Taken(cmd) /\ Underway(cmd)' = {}
    BY <1>6 DEF Crashes, serverVars, Taken, Underway
  <2> QED BY <1>0, <2>1, FS_EmptySet DEF Load
<1>7. CASE StartsAgain
  <2>1. UNCHANGED <<toServer, history>>
    BY <1>7 DEF StartsAgain, Restarts, netVars
  <2>2. Load(cmd)' = Load(cmd)
    BY <2>1, LoadUnchanged
  <2>3. Load(cmd) \in Nat
    BY FiniteIsNat DEF LoadIsNat
  <2> QED BY <2>1, <2>2, <2>3, LoadUnchanged DEF Finite
<1>8. CASE \E c \in Conns, outcomes \in [Rules -> Outcomes] : ServesVerify(c, outcomes)
  BY <1>2, <1>8
<1>9. CASE \E c \in Conns, outcomes \in [Rules -> Outcomes] : VerifyFails(c, outcomes)
  BY <1>3, <1>4, <1>9
<1>10. CASE \E c \in Conns : ServesQuery(c)
  BY <1>3, <1>5, <1>10
<1> QED BY <1>6, <1>7, <1>8, <1>9, <1>10 DEF ServerStep

\* A request that is written adds one to the load of its command at most, and
\* nothing to any other.
LEMMA WritesLoad ==
  ASSUME Typed, Finite, NEW t \in Tasks, Writes(t)
  PROVE  /\ Finite'
         /\ \A cmd \in Commands : Load(cmd)' <= Load(cmd) + IF cmd = Trace(t) THEN 1 ELSE 0
<1>1. Request(t) \in Requests /\ Request(t).cmd = Trace(t)
  BY SessionAssumption DEF Typed, TaskTypes, TaskDiscipline, Writes, At, Request, Requests, Trace
<1>2. stream \in Conns /\ NetTypes
  BY DEF Typed, NetDiscipline, Writes, At, Using
<1>3. history' = history
  BY DEF Writes, serverVars
<1>4. CASE toServer' = toServer
  BY <1>3, <1>4, LoadUnchanged, FiniteIsNat DEF LoadIsNat
<1>5. CASE toServer' = [toServer EXCEPT ![stream] = Append(@, Request(t))]
  <2> SUFFICES ASSUME NEW cmd \in Commands
               PROVE  /\ IsFiniteSet(Taken(cmd)') /\ IsFiniteSet(Underway(cmd)')
                      /\ Load(cmd)' <= Load(cmd) + IF cmd = Trace(t) THEN 1 ELSE 0
    BY DEF Finite
  <2>1. /\ IsFiniteSet(Taken(cmd)) /\ IsFiniteSet(Underway(cmd))
        /\ Cardinality(Taken(cmd)) \in Nat /\ Cardinality(Underway(cmd)) \in Nat
    BY FS_CardinalityType DEF Finite
  <2>2. Taken(cmd)' = Taken(cmd)
    BY <1>3 DEF Taken
  <2>3. /\ IsFiniteSet(Underway(cmd)')
        /\ Cardinality(Underway(cmd)') =
             Cardinality(Underway(cmd)) + IF Trace(t) = cmd THEN 1 ELSE 0
    BY <1>1, <1>2, <1>5, <2>1, WritingAdds
  <2> QED BY <2>1, <2>2, <2>3 DEF Load
<1> QED BY <1>4, <1>5 DEF Writes
-----------------------------------------------------------------------------
(* The client's steps, by what they do to an attempt.                      *)

\* The method ends, or pauses with the connection marked as gone.
Stops(t) ==
  /\ Holds(t) /\ pc[t] \in Labels \ {"idle", "sleep"}
  /\ (\E how : Ends(t, how)) \/ (Pauses(t) /\ ~connected')
  /\ connected' => connected
  /\ UNCHANGED <<meddled, connects, nextConn, toServer>>

\* The method goes on, within its attempt and without writing.
Advances(t) ==
  /\ Holds(t)
  /\ \E label \in Labels :
       /\ Moves(t, label)
       /\ <<pc[t], label>> \in {<<"ensure", "send">>, <<"ensure", "connect">>,
                                <<"drain", "header">>, <<"header", "body">>}
       /\ label = "send" => connected
       /\ label = "connect" => reconnect
  /\ UNCHANGED <<meddled, connects, nextConn, toServer>>

Writing(t) == Writes(t) /\ \E label \in {"header", "drain"} : Moves(t, label)

LEMMA FailsStops ==
  ASSUME Typed, NEW t \in Tasks, NEW error, Holds(t), pc[t] \in Labels \ {"idle", "sleep"},
         Fails(t, error) \/ Escapes(t, error), UNCHANGED <<meddled, connects, nextConn, toServer>>
  PROVE  Stops(t)
<1>1. CASE kind[t] = "verify" /\ Fails(t, error)
  BY <1>1 DEF Fails, Stops
<1>2. CASE ~(kind[t] = "verify" /\ Fails(t, error))
  BY <1>2 DEF Fails, Escapes, Stops
<1> QED BY <1>1, <1>2

LEMMA StepShape ==
  ASSUME Typed, NEW t \in Tasks, ClientStep(t) \/ Drained(t)
  PROVE  Stops(t) \/ Advances(t) \/ Writing(t) \/ Connects(t) \/ Wakes(t)
<1>1. CASE EnsureReuses(t)
  BY <1>1 DEF EnsureReuses, At, MayReuse, Advances, connVars, netVars, Labels
<1>2. CASE EnsureReconnects(t)
  BY <1>2 DEF EnsureReconnects, At, Advances, connVars, netVars, Labels
<1>3. CASE EnsureRefuses(t) \/ ConnectFails(t) \/ RequestTooLarge(t) \/ ReadsGarbage(t)
           \/ ReadsEof(t) \/ TimesOut(t)
  <2>1. /\ Holds(t) /\ pc[t] \in Labels \ {"idle", "sleep"}
        /\ UNCHANGED <<meddled, connects, nextConn, toServer>>
        /\ \E error : Fails(t, error) \/ Escapes(t, error)
    BY <1>3 DEF EnsureRefuses, ConnectFails, RequestTooLarge, ReadsGarbage, ReadsEof, TimesOut,
                At, connVars, netVars, Labels
  <2> QED BY <2>1, FailsStops
<1>4. CASE SendFails(t) \/ ReadsReset(t)
  <2>1. /\ Holds(t) /\ pc[t] \in Labels \ {"idle", "sleep"}
        /\ UNCHANGED <<meddled, connects, nextConn, toServer>>
        /\ \E error : Fails(t, error)
    BY <1>4 DEF SendFails, ReadsReset, At, connVars, Labels
  <2> QED BY <2>1, FailsStops
<1>5. CASE Sends(t) \/ SendsSlowly(t)
  BY <1>5 DEF Sends, SendsSlowly, Writing
<1>6. CASE Drained(t)
  <2>1. CASE Moves(t, "header")
    BY <1>6, <2>1 DEF Drained, At, Advances, connVars, netVars, Labels
  <2>2. CASE Escapes(t, "AttributeError")
    BY <1>6, <2>2, FailsStops DEF Drained, At, connVars, netVars, Labels
  <2> QED BY <1>6, <2>1, <2>2 DEF Drained
<1>7. CASE ReadsHeader(t)
  BY <1>7 DEF ReadsHeader, At, Advances, connVars, Labels
<1>8. CASE ReadsBody(t)
  <2>1. /\ Holds(t) /\ pc[t] \in Labels \ {"idle", "sleep"}
        /\ UNCHANGED <<meddled, connects, nextConn, toServer>>
    BY <1>8 DEF ReadsBody, At, connVars, Labels
  <2>2. \/ \E how : Ends(t, how) /\ UNCHANGED connected
        \/ \E error : Fails(t, error) \/ Escapes(t, error)
    BY <1>8 DEF ReadsBody, ResponseTaken
  <2>3. CASE \E how : Ends(t, how) /\ UNCHANGED connected
    BY <2>1, <2>3 DEF Stops
  <2> QED BY <2>1, <2>2, <2>3, FailsStops
<1> QED BY <1>1, <1>2, <1>3, <1>4, <1>5, <1>6, <1>7, <1>8 DEF ClientStep

\* Everything a client's step but a write leaves as it was.
LEMMA OnlyWritingWrites ==
  ASSUME NEW t \in Tasks,
         Stops(t) \/ Advances(t) \/ Connects(t) \/ Wakes(t) \/ Call(t) \/ Cancelled(t)
  PROVE  toServer' = toServer
BY DEF Stops, Advances, Connects, Wakes, Call, Cancelled, netVars
-----------------------------------------------------------------------------
(* Decisions per call.                                                     *)

\* How many requests for a command may have been written so far.
Late == {"drain", "header", "body", "sleep"}
Spent(cmd) ==
  LET t == cmd[1]
  IN  IF cmd[2] > calls[t] THEN 0
      ELSE IF cmd[2] < calls[t] \/ pc[t] = "idle" THEN MaxRetries + 1
      ELSE attempt[t] + IF pc[t] \in Late THEN 1 ELSE 0

Counted == Finite /\ \A cmd \in Commands : Load(cmd) <= Spent(cmd)

SpentGrows == \A cmd \in Commands : Spent(cmd)' >= Spent(cmd) /\ Spent(cmd) \in Nat

LEMMA CommandShape ==
  ASSUME NEW cmd \in Commands
  PROVE  cmd[1] \in Tasks /\ cmd[2] \in 1 .. MaxCalls /\ cmd = <<cmd[1], cmd[2]>>
BY SessionAssumption

LEMMA SpentKept ==
  ASSUME Typed, UNCHANGED taskVars
  PROVE  SpentGrows
<1> SUFFICES ASSUME NEW cmd \in Commands
             PROVE  Spent(cmd)' >= Spent(cmd) /\ Spent(cmd) \in Nat
  BY DEF SpentGrows
<1>1. cmd[1] \in Tasks /\ cmd[2] \in Nat
  BY CommandShape
<1>2. calls[cmd[1]] \in Nat /\ attempt[cmd[1]] \in Nat /\ MaxRetries \in Nat
  BY <1>1, SessionAssumption DEF Typed, TaskTypes
<1>3. Spent(cmd)' = Spent(cmd)
  BY DEF Spent, taskVars
<1> QED BY <1>1, <1>2, <1>3 DEF Spent

LEMMA TaskSpends ==
  ASSUME Typed, NEW t \in Tasks,
         Stops(t) \/ Advances(t) \/ Writing(t) \/ Connects(t) \/ Wakes(t) \/ Call(t) \/ Cancelled(t)
  PROVE  /\ SpentGrows
         /\ \A cmd \in Commands : Writing(t) /\ cmd = Trace(t) => Spent(cmd)' >= Spent(cmd) + 1
<1> USE SessionAssumption
<1>0. /\ pc \in [Tasks -> Labels] /\ calls \in [Tasks -> 0 .. MaxCalls]
      /\ attempt \in [Tasks -> 0 .. MaxRetries]
  BY DEF Typed, TaskTypes
<1>1. /\ pc' = [pc EXCEPT ![t] = pc'[t]]
      /\ \A u \in Tasks \ {t} : pc'[u] = pc[u] /\ calls'[u] = calls[u] /\ attempt'[u] = attempt[u]
  BY <1>0 DEF Stops, Ends, Pauses, Advances, Moves, Writing, Connects, Wakes, Call, Cancelled
<1>2. \/ calls'[t] = calls[t] /\ pc'[t] = "idle" /\ attempt'[t] = attempt[t]
      \/ calls'[t] = calls[t] /\ pc'[t] = "sleep" /\ pc[t] # "idle" /\ attempt'[t] = attempt[t]
      \/ /\ calls'[t] = calls[t] /\ attempt'[t] = attempt[t] /\ pc[t] # "idle"
         /\ pc[t] \in Late => pc'[t] \in Late
         /\ pc'[t] # "idle"
         /\ Writing(t) => pc[t] = "send" /\ pc'[t] \in Late
      \/ /\ calls'[t] = calls[t] /\ attempt'[t] = attempt[t] + 1 /\ pc[t] = "sleep"
         /\ pc'[t] = "ensure"
      \/ /\ calls'[t] = calls[t] + 1 /\ attempt'[t] = 0 /\ pc[t] = "idle"
         /\ pc'[t] = "ensure"
  <2>1. CASE Stops(t)
    BY <1>0, <2>1 DEF Stops, Ends, Pauses
  <2>2. CASE Advances(t)
    BY <1>0, <2>2 DEF Advances, Moves, Late, Writing, Writes, At
  <2>3. CASE Writing(t)
    BY <1>0, <2>3 DEF Writing, Writes, At, Moves, Late
  <2>4. CASE Connects(t)
    BY <1>0, <2>4 DEF Connects, At, Late, Writing, Writes
  <2>5. CASE Wakes(t)
    BY <1>0, <2>5 DEF Wakes, At
  <2>6. CASE Call(t)
    BY <1>0, <2>6 DEF Call
  <2>7. CASE Cancelled(t)
    BY <1>0, <2>7 DEF Cancelled
  <2> QED BY <2>1, <2>2, <2>3, <2>4, <2>5, <2>6, <2>7
<1>3. ASSUME NEW cmd \in Commands
      PROVE  Spent(cmd)' >= Spent(cmd) /\ Spent(cmd) \in Nat
  <2>1. cmd[1] \in Tasks /\ cmd[2] \in Nat
    BY CommandShape
  <2>2. /\ calls[cmd[1]] \in Nat /\ attempt[cmd[1]] \in Nat /\ attempt[cmd[1]] <= MaxRetries
    BY <1>0, <2>1
  <2>3. Spent(cmd) \in Nat
    BY <2>1, <2>2 DEF Spent
  <2>4. CASE cmd[1] # t
    BY <1>1, <2>1, <2>3, <2>4 DEF Spent
  <2>5. CASE cmd[1] = t
    <3>1. attempt[t] \in Nat /\ attempt[t] <= MaxRetries /\ calls[t] \in Nat
      BY <1>0
    <3> QED BY <1>2, <2>1, <2>3, <2>5, <3>1 DEF Spent, Late
  <2> QED BY <2>4, <2>5
<1>4. ASSUME NEW cmd \in Commands, Writing(t), cmd = Trace(t)
      PROVE  Spent(cmd)' >= Spent(cmd) + 1
  <2>1. pc[t] = "send" /\ pc'[t] \in {"header", "drain"} /\ calls' = calls /\ attempt' = attempt
    BY <1>0, <1>4 DEF Writing, Writes, At, Moves
  <2>2. calls[t] \in 1 .. MaxCalls /\ attempt[t] \in Nat
    BY <1>0, <2>1 DEF Typed, TaskDiscipline
  <2>3. cmd[1] = t /\ cmd[2] = calls[t]
    BY <1>4 DEF Trace
  <2>4. Spent(cmd) = attempt[t] /\ Spent(cmd)' = attempt[t] + 1
    BY <2>1, <2>2, <2>3 DEF Spent, Late
  <2> QED BY <2>2, <2>4
<1> QED BY <1>3, <1>4 DEF SpentGrows

LEMMA CountedFirst == Init => Counted
<1> SUFFICES ASSUME Init, NEW cmd \in Commands
             PROVE  /\ IsFiniteSet(Taken(cmd)) /\ IsFiniteSet(Underway(cmd))
                    /\ Load(cmd) <= Spent(cmd)
  BY DEF Counted, Finite
<1>1. Taken(cmd) = {} /\ Underway(cmd) = {}
  BY DEF Init, ServerInit, Taken, Underway
<1>2. Load(cmd) = 0
  BY <1>1, FS_EmptySet DEF Load
<1>3. Spent(cmd) = 0
  BY CommandShape DEF Init, Spent
<1> QED BY <1>1, <1>2, <1>3, FS_EmptySet

\* A step of a server, of a meddler or none: the calls stay where they are.
LEMMA OthersKeepLoad ==
  ASSUME Typed, IInv, Finite, ServerStep \/ Meddling \/ UNCHANGED vars
  PROVE  /\ Finite' /\ UNCHANGED taskVars
         /\ \A cmd \in Commands : Load(cmd)' <= Load(cmd) /\ Load(cmd)' \in Nat
<1>1. CASE ServerStep
  <2>1. UNCHANGED taskVars
    BY <1>1, ServerKeepsNet DEF Typed, IInv
  <2>2. Finite' /\ \A cmd \in Commands : Load(cmd)' <= Load(cmd)
    BY <1>1, ServerKeepsLoad DEF Typed, IInv
  <2>3. \A cmd \in Commands : Load(cmd)' \in Nat
    BY <2>2, FS_CardinalityType DEF Finite, Load
  <2> QED BY <2>1, <2>2, <2>3
<1>2. CASE Meddling \/ UNCHANGED vars
  <2>1. UNCHANGED <<toServer, history>> /\ UNCHANGED taskVars
    BY <1>2 DEF Meddling, CloseBegins, CloseEnds, CloseCancelled, ConnectsAnew, vars, netVars,
                serverVars
  <2> QED BY <2>1, LoadUnchanged, FiniteIsNat DEF LoadIsNat
<1> QED BY <1>1, <1>2

\* A step of a task: what it adds to the load of its command, if anything.
LEMMA TaskKeepsLoad ==
  ASSUME Typed, Finite, NEW t \in Tasks,
         Stops(t) \/ Advances(t) \/ Writing(t) \/ Connects(t) \/ Wakes(t) \/ Call(t) \/ Cancelled(t),
         UNCHANGED serverVars
  PROVE  /\ Finite'
         /\ \A cmd \in Commands :
              /\ Load(cmd) \in Nat /\ Load(cmd)' \in Nat
              /\ Load(cmd)' <= Load(cmd) + IF Writing(t) /\ cmd = Trace(t) THEN 1 ELSE 0
<1>0. \A cmd \in Commands : Load(cmd) \in Nat
  BY FiniteIsNat DEF LoadIsNat
<1>1. CASE Writing(t)
  <2>1. /\ Finite'
        /\ \A cmd \in Commands : Load(cmd)' <= Load(cmd) + IF cmd = Trace(t) THEN 1 ELSE 0
    BY <1>1, WritesLoad DEF Writing
  <2>2. \A cmd \in Commands : Load(cmd)' \in Nat
    BY <2>1, FS_CardinalityType DEF Finite, Load
  <2> QED BY <1>0, <1>1, <2>1, <2>2
<1>2. CASE ~Writing(t)
  <2>1. UNCHANGED <<toServer, history>>
    BY <1>2, OnlyWritingWrites DEF serverVars
  <2> QED BY <1>0, <1>2, <2>1, LoadUnchanged
<1> QED BY <1>1, <1>2

LEMMA TaskStep ==
  ASSUME Typed, NEW t \in Tasks, Call(t) \/ ClientStep(t) \/ Drained(t) \/ Cancelled(t)
  PROVE  /\ Stops(t) \/ Advances(t) \/ Writing(t) \/ Connects(t) \/ Wakes(t) \/ Call(t) \/ Cancelled(t)
         /\ UNCHANGED serverVars
BY StepShape, ClientLeavesServer

LEMMA SpentIsNat ==
  ASSUME Typed'
  PROVE  \A cmd \in Commands : Spent(cmd)' \in Nat
<1> SUFFICES ASSUME NEW cmd \in Commands PROVE Spent(cmd)' \in Nat
  OBVIOUS
<1>1. cmd[1] \in Tasks /\ cmd[2] \in Nat
  BY CommandShape
<1>2. calls'[cmd[1]] \in Nat /\ attempt'[cmd[1]] \in Nat /\ MaxRetries \in Nat
  BY <1>1, SessionAssumption DEF Typed, TaskTypes
<1> QED BY <1>1, <1>2 DEF Spent

LEMMA CountedNext ==
  ASSUME Typed, IInv, Typed', Counted, [Next]_vars
  PROVE  Counted'
<1>0. \A cmd \in Commands : Spent(cmd)' \in Nat
  BY SpentIsNat
<1>1. ASSUME NEW t \in Tasks, Call(t) \/ ClientStep(t) \/ Drained(t) \/ Cancelled(t)
      PROVE  Counted'
  <2>1. /\ Finite'
        /\ \A cmd \in Commands :
             /\ Load(cmd) \in Nat /\ Load(cmd)' \in Nat
             /\ Load(cmd)' <= Load(cmd) + IF Writing(t) /\ cmd = Trace(t) THEN 1 ELSE 0
    BY <1>1, TaskStep, TaskKeepsLoad DEF Counted
  <2>2. /\ SpentGrows
        /\ \A cmd \in Commands : Writing(t) /\ cmd = Trace(t) => Spent(cmd)' >= Spent(cmd) + 1
    BY <1>1, TaskStep, TaskSpends
  <2>3. ASSUME NEW cmd \in Commands PROVE Load(cmd)' <= Spent(cmd)'
    <3>1. /\ Spent(cmd) \in Nat /\ Spent(cmd)' \in Nat /\ Spent(cmd)' >= Spent(cmd)
          /\ Load(cmd) \in Nat /\ Load(cmd)' \in Nat /\ Load(cmd) <= Spent(cmd)
      BY <1>0, <2>1, <2>2 DEF SpentGrows, Counted
    <3>2. CASE Writing(t) /\ cmd = Trace(t)
      <4>1. Load(cmd)' <= Load(cmd) + 1
        BY <2>1, <3>2
      <4>2. Spent(cmd)' >= Spent(cmd) + 1
        BY <2>2, <3>2
      <4> QED BY <3>1, <4>1, <4>2
    <3>3. CASE ~(Writing(t) /\ cmd = Trace(t))
      <4>1. Load(cmd)' <= Load(cmd)
        BY <2>1, <3>1, <3>3
      <4> QED BY <3>1, <4>1
    <3> QED BY <3>2, <3>3
  <2> QED BY <2>1, <2>3 DEF Counted
<1>2. CASE ServerStep \/ Meddling \/ UNCHANGED vars
  <2>1. /\ Finite' /\ SpentGrows
        /\ \A cmd \in Commands : Load(cmd)' <= Load(cmd) /\ Load(cmd)' \in Nat
    BY <1>2, OthersKeepLoad, SpentKept DEF Counted
  <2>2. ASSUME NEW cmd \in Commands PROVE Load(cmd)' <= Spent(cmd)'
    <3>1. /\ Spent(cmd) \in Nat /\ Spent(cmd)' \in Nat /\ Spent(cmd)' >= Spent(cmd)
          /\ Load(cmd) \in Nat /\ Load(cmd)' \in Nat /\ Load(cmd) <= Spent(cmd)
          /\ Load(cmd)' <= Load(cmd)
      BY <1>0, <2>1, FiniteIsNat DEF SpentGrows, Counted, LoadIsNat
    <3> QED BY <3>1
  <2> QED BY <2>1, <2>2 DEF Counted
<1> QED BY <1>1, <1>2 DEF Next

LEMMA CountedAlways == Spec => [](Typed /\ IInv /\ Counted)
<1>1. TypedSession /\ TypedSession' /\ Counted /\ [Next]_vars => Counted'
  BY CountedNext DEF TypedSession
<1>2. TypedSession => Typed /\ IInv
  BY DEF TypedSession
<1> QED BY <1>1, <1>2, CountedFirst, TypedAlways, PTL DEF Spec

\* Whatever is lost, late or tried again, a command is decided at most once per
\* attempt, those requests included that a server may read after the call ended.
THEOREM DecisionsStayBounded == Spec => []DecisionsBounded
<1>1. ASSUME Typed, Counted, NEW cmd \in Commands
      PROVE  Decisions(cmd) + Unserved(cmd) <= MaxRetries + 1
  <2>1. Decisions(cmd) + Unserved(cmd) = Load(cmd)
    BY <1>1, UnderwayIsUnserved DEF Typed, Decisions, Load, Taken
  <2>2. cmd[1] \in Tasks /\ cmd[2] \in Nat
    BY CommandShape
  <2>3. /\ calls[cmd[1]] \in Nat /\ attempt[cmd[1]] \in Nat /\ attempt[cmd[1]] <= MaxRetries
        /\ MaxRetries \in Nat
    BY <1>1, <2>2, SessionAssumption DEF Typed, TaskTypes
  <2>4. Spent(cmd) \in Nat /\ (pc[cmd[1]] = "sleep" => attempt[cmd[1]] < MaxRetries)
    BY <1>1, <2>2, <2>3 DEF Spent, Typed, TaskDiscipline
  <2>5. Spent(cmd) <= MaxRetries + 1
    BY <2>2, <2>3 DEF Spent
  <2>6. Load(cmd) \in Nat /\ Load(cmd) <= Spent(cmd)
    BY <1>1, FiniteIsNat DEF Counted, LoadIsNat
  <2> QED BY <2>1, <2>3, <2>4, <2>5, <2>6
<1>2. Typed /\ Counted => DecisionsBounded
  BY <1>1 DEF DecisionsBounded
<1> QED BY <1>2, CountedAlways, PTL
-----------------------------------------------------------------------------
(* A client that does not reconnect.                                       *)

\* The command of a call that has not written in this attempt.
Unwritten(cmd) == cmd[2] = calls[cmd[1]] /\ pc[cmd[1]] \in {"ensure", "send", "sleep"}

\* One request may be written on each connection that connect() made; a call
\* that has not written in this attempt has one left if the client believes that
\* it is connected.
Once ==
  ~reconnect =>
    /\ \A cmd \in Commands :
         /\ Load(cmd) <= connects
         /\ Unwritten(cmd) /\ connected => Load(cmd) + 1 <= connects
    /\ connected => 1 <= connects
    /\ nextConn - 1 = connects
    /\ \A t \in Tasks : pc[t] # "connect" /\ (pc[t] = "send" => connected)

LEMMA OnceFirst == Init /\ Counted => Once
<1> SUFFICES ASSUME Init, Counted PROVE Once
  OBVIOUS
<1>1. ASSUME NEW cmd \in Commands PROVE Load(cmd) <= 0
  <2>1. Spent(cmd) = 0
    BY CommandShape DEF Init, Spent
  <2>2. Load(cmd) \in Nat /\ Load(cmd) <= Spent(cmd)
    BY FiniteIsNat DEF Counted, LoadIsNat
  <2> QED BY <2>1, <2>2
<1>2. \A cmd \in Commands : Load(cmd) \in Nat
  BY FiniteIsNat DEF Counted, LoadIsNat
<1>3. \A t \in Tasks : pc[t] = "idle"
  BY DEF Init
<1>4. ASSUME ~reconnect
      PROVE  nextConn - 1 = connects /\ connects \in Nat /\ (connected => 1 <= connects)
  BY <1>4 DEF Init
<1>5. ASSUME NEW cmd \in Commands PROVE ~Unwritten(cmd)
  BY <1>3, CommandShape DEF Unwritten
<1> QED BY <1>1, <1>2, <1>3, <1>4, <1>5 DEF Once

LEMMA OnceTask ==
  ASSUME Typed, Counted, Once, ~reconnect, NEW t \in Tasks,
         Call(t) \/ ClientStep(t) \/ Drained(t) \/ Cancelled(t)
  PROVE  Once'
<1>1. /\ Stops(t) \/ Advances(t) \/ Writing(t) \/ Wakes(t) \/ Call(t) \/ Cancelled(t)
      /\ UNCHANGED serverVars
  BY TaskStep DEF Once, Connects, At
<1>2. \A cmd \in Commands :
        /\ Load(cmd) \in Nat /\ Load(cmd)' \in Nat
        /\ Load(cmd)' <= Load(cmd) + IF Writing(t) /\ cmd = Trace(t) THEN 1 ELSE 0
  BY <1>1, TaskKeepsLoad DEF Counted
<1>3. /\ pc \in [Tasks -> Labels] /\ calls \in [Tasks -> 0 .. MaxCalls] /\ connects \in Nat
  BY SessionAssumption DEF Typed, TaskTypes, NetTypes
<1>4. connects' = connects /\ nextConn' = nextConn /\ (connected' => connected)
  BY <1>1 DEF Stops, Advances, Moves, Writing, Writes, Wakes, Call, Cancelled, connVars, clientVars
<1>5. \A u \in Tasks \ {t} : pc'[u] = pc[u] /\ calls'[u] = calls[u]
  BY <1>1, <1>3 DEF Stops, Ends, Pauses, Advances, Moves, Writing, Wakes, Call, Cancelled
<1>6. ASSUME Writing(t)
      PROVE  /\ pc[t] = "send" /\ pc'[t] \in {"header", "drain"} /\ connected
             /\ calls' = calls /\ Trace(t) \in Commands /\ Unwritten(Trace(t))
  <2>1. pc[t] = "send" /\ pc'[t] \in {"header", "drain"} /\ calls' = calls
    BY <1>3, <1>6 DEF Writing, Writes, At, Moves
  <2>2. calls[t] \in 1 .. MaxCalls /\ connected
    BY <2>1 DEF Typed, TaskDiscipline, Once
  <2>3. Trace(t) \in Commands
    BY <2>2, SessionAssumption DEF Trace
  <2>4. Unwritten(Trace(t))
    BY <2>1 DEF Unwritten, Trace
  <2> QED BY <2>1, <2>2, <2>3, <2>4
<1>7. ASSUME NEW cmd \in Commands
      PROVE  /\ Load(cmd)' <= connects'
             /\ Unwritten(cmd)' /\ connected' => Load(cmd)' + 1 <= connects'
  <2>0. cmd[1] \in Tasks /\ cmd[2] \in Nat \ {0} /\ cmd = <<cmd[1], cmd[2]>>
    BY CommandShape
  <2>1. Load(cmd) \in Nat /\ Load(cmd)' \in Nat /\ Load(cmd) <= connects
    BY <1>2 DEF Once
  <2>2. CASE Writing(t) /\ cmd = Trace(t)
    <3>1. Load(cmd) + 1 <= connects
      BY <1>6, <2>2 DEF Once
    <3>2. Load(cmd)' <= Load(cmd) + 1
      BY <1>2, <2>2
    <3>3. ~Unwritten(cmd)'
      BY <1>6, <2>2 DEF Unwritten, Trace
    <3> QED BY <1>3, <1>4, <2>1, <3>1, <3>2, <3>3
  <2>3. CASE ~(Writing(t) /\ cmd = Trace(t))
    <3>1. Load(cmd)' <= Load(cmd)
      BY <1>2, <2>1, <2>3
    <3>2. ASSUME Unwritten(cmd)', connected' PROVE Load(cmd)' + 1 <= connects'
      <4>1. CASE Unwritten(cmd)
        <5>1. Load(cmd) + 1 <= connects
          BY <1>4, <3>2, <4>1 DEF Once
        <5> QED BY <1>3, <1>4, <2>1, <3>1, <5>1
      <4>2. CASE ~Unwritten(cmd)
        <5>1. cmd[1] = t
          BY <1>5, <2>0, <3>2, <4>2 DEF Unwritten
        <5>2. Call(t)
          <6>1. ~Stops(t)
            BY <1>3, <3>2, <4>2, <5>1 DEF Unwritten, Stops, Ends, Pauses
          <6>2. ~Advances(t)
            BY <1>3, <3>2, <4>2, <5>1 DEF Unwritten, Advances, Moves
          <6>3. ~Writing(t)
            BY <1>3, <1>6, <3>2, <4>2, <5>1 DEF Unwritten
          <6>4. ~Wakes(t)
            BY <1>3, <3>2, <4>2, <5>1 DEF Unwritten, Wakes, At
          <6>5. ~Cancelled(t)
            BY <1>3, <3>2, <4>2, <5>1 DEF Unwritten, Cancelled
          <6> QED BY <1>1, <6>1, <6>2, <6>3, <6>4, <6>5
        <5>3. calls'[t] = calls[t] + 1
          BY <1>3, <5>2 DEF Call
        <5>4. cmd[2] > calls[t]
          BY <1>3, <3>2, <5>1, <5>3 DEF Unwritten
        <5>5. Load(cmd) <= 0
          BY <5>1, <5>4 DEF Counted, Spent
        <5>6. 1 <= connects
          BY <1>4, <3>2 DEF Once
        <5> QED BY <1>3, <1>4, <2>1, <3>1, <5>5, <5>6
      <4> QED BY <4>1, <4>2
    <3>3. Load(cmd)' <= connects'
      BY <1>3, <1>4, <2>1, <3>1
    <3> QED BY <3>2, <3>3
  <2> QED BY <2>2, <2>3
<1>8. ASSUME NEW u \in Tasks
      PROVE  pc'[u] # "connect" /\ (pc'[u] = "send" => connected')
  <2>1. pc[u] # "connect" /\ (pc[u] = "send" => connected)
    BY DEF Once
  <2>2. CASE u # t
    <3>1. CASE pc[u] = "send"
      <4>1. Holds(u) /\ ~Holds(t)
        BY <2>2, <3>1 DEF Typed, TaskDiscipline, Past, Holds
      <4>2. connected' = connected
        BY <1>1, <4>1 DEF Stops, Advances, Writing, Writes, At, Wakes, Call, Cancelled
      <4> QED BY <1>5, <2>1, <2>2, <4>2
    <3>2. CASE pc[u] # "send"
      BY <1>5, <2>1, <2>2, <3>2
    <3> QED BY <3>1, <3>2
  <2>3. CASE u = t
    <3>1. CASE Advances(t)
      BY <1>3, <2>3, <3>1 DEF Advances, Moves
    <3>2. CASE ~Advances(t)
      <4>1. pc'[t] \in {"idle", "sleep", "header", "drain", "ensure"}
        BY <1>1, <1>3, <1>6, <3>2 DEF Stops, Ends, Pauses, Wakes, Call, Cancelled
      <4> QED BY <2>3, <4>1
    <3> QED BY <3>1, <3>2
  <2> QED BY <2>2, <2>3
<1>9. (connected' => 1 <= connects') /\ nextConn' - 1 = connects'
  BY <1>4 DEF Once
<1> QED BY <1>7, <1>8, <1>9 DEF Once

LEMMA OnceOthers ==
  ASSUME Typed, IInv, Counted, Once, ~reconnect,
         ServerStep \/ Meddling \/ UNCHANGED vars
  PROVE  Once'
<1>1. /\ UNCHANGED taskVars
      /\ \A cmd \in Commands : Load(cmd)' <= Load(cmd) /\ Load(cmd)' \in Nat
  BY OthersKeepLoad DEF Counted
<1>2. \A cmd \in Commands : Load(cmd) \in Nat
  BY FiniteIsNat DEF Counted, LoadIsNat
<1>3. connects \in Nat /\ nextConn \in Nat
  BY SessionAssumption DEF Typed, NetTypes
<1>4. \/ connected' = connected /\ UNCHANGED <<connects, nextConn>>
      \/ connected' /\ connects' = connects + 1 /\ nextConn' = nextConn + 1
      \/ ~connected' /\ UNCHANGED <<connects, nextConn>> /\ \A t \in Tasks : pc[t] # "send"
  <2>1. CASE ServerStep
    <3>1. UNCHANGED clientVars
      BY <2>1, ServerKeepsNet DEF Typed, IInv
    <3> QED BY <3>1 DEF clientVars, connVars
  <2>2. CASE Meddling
    BY <2>2 DEF Meddling, CloseBegins, CloseEnds, CloseCancelled, ConnectsAnew, Meddles, Opens
  <2>3. CASE UNCHANGED vars
    BY <2>3 DEF vars, clientVars, connVars
  <2> QED BY <2>1, <2>2, <2>3
<1>5. \A cmd \in Commands : Unwritten(cmd)' <=> Unwritten(cmd)
  BY <1>1 DEF Unwritten, taskVars
<1>6. ASSUME NEW cmd \in Commands
      PROVE  /\ Load(cmd)' <= connects'
             /\ Unwritten(cmd)' /\ connected' => Load(cmd)' + 1 <= connects'
  <2>1. /\ Load(cmd) \in Nat /\ Load(cmd)' \in Nat /\ Load(cmd)' <= Load(cmd)
        /\ Load(cmd) <= connects
        /\ Unwritten(cmd) /\ connected => Load(cmd) + 1 <= connects
    BY <1>1, <1>2 DEF Once
  <2> QED BY <1>3, <1>4, <1>5, <2>1
<1>7. \A t \in Tasks : pc'[t] # "connect" /\ (pc'[t] = "send" => connected')
  BY <1>1, <1>4 DEF Once, taskVars
<1>8. (connected' => 1 <= connects') /\ nextConn' - 1 = connects'
  BY <1>3, <1>4 DEF Once
<1> QED BY <1>6, <1>7, <1>8 DEF Once

LEMMA OnceAlways == Spec => [](Typed /\ Once)
<1>1. ASSUME Typed, IInv, Counted, Once, [Next]_vars PROVE Once'
  <2>0. reconnect' = reconnect
    BY <1>1 DEF Next, vars, givenVars
  <2>1. CASE reconnect
    BY <2>0, <2>1 DEF Once
  <2>2. CASE ~reconnect
    BY <1>1, <2>2, OnceTask, OnceOthers DEF Next
  <2> QED BY <2>1, <2>2
<1> QED BY <1>1, OnceFirst, CountedAlways, PTL DEF Spec

\* A client that was told not to reconnect has a command decided at most once
\* for each connect() of its user that succeeded, even where it retries, and
\* never once more for a close().
THEOREM NoReconnectNoRepeat == Spec => []AtMostOnce
<1>1. Typed /\ Once => AtMostOnce
  BY UnderwayIsUnserved DEF Typed, Once, AtMostOnce, Decisions, Load, Taken
<1> QED BY <1>1, OnceAlways, PTL
-----------------------------------------------------------------------------
(* Connections per call.                                                   *)

Rounds == MaxRetries + 1

\* The calls made so far.
Made == {cmd \in Commands : cmd[2] <= calls[cmd[1]]}

\* Whoever waits for the lock is in a call, once, and in its first attempt.
InLine ==
  /\ \A i \in 1 .. Len(queue) : pc[queue[i]] # "idle"
  /\ \A i, j \in 1 .. Len(queue) : queue[i] = queue[j] => i = j
  /\ \A t \in Tasks : pc[t] # "idle" /\ ~Holds(t) => attempt[t] = 0

\* The connections that the call of a task may still make, and that those in
\* line may make together: all that wait have their rounds before them.
Remaining(t) == Rounds - attempt[t] - IF pc[t] \in {"ensure", "connect"} THEN 0 ELSE 1
Left == IF queue = <<>> THEN 0 ELSE (Len(queue) - 1) * Rounds + Remaining(Head(queue))

Budgeted ==
  /\ IsFiniteSet(Made)
  /\ nextConn - 1 + Left <= 1 + meddled + Cardinality(Made) * Rounds

LEMMA TimesNext ==
  ASSUME NEW n \in Nat, NEW r \in Nat
  PROVE  n * r \in Nat /\ (n + 1) * r = n * r + r
OBVIOUS

LEMMA LineTypes ==
  ASSUME Typed
  PROVE  /\ queue \in Seq(Tasks) /\ Len(queue) \in Nat /\ DOMAIN queue = 1 .. Len(queue)
         /\ queue # <<>> <=> Len(queue) >= 1
         /\ queue # <<>> => Head(queue) = queue[1]
         /\ \A i \in 1 .. Len(queue) : queue[i] \in Tasks
         /\ Rounds \in Nat
         /\ \A t \in Tasks : attempt[t] \in Nat /\ Remaining(t) \in Nat
         /\ nextConn \in Nat /\ meddled \in Nat
<1>1. queue \in Seq(Tasks)
  BY DEF Typed, TaskTypes
<1>2. queue # <<>> <=> Len(queue) >= 1
  BY <1>1, EmptySeq, LenProperties, NotEmpty
<1>3. \A t \in Tasks : attempt[t] \in Nat /\ attempt[t] <= MaxRetries
  BY SessionAssumption DEF Typed, TaskTypes
<1>4. nextConn \in Nat /\ meddled \in Nat
  BY SessionAssumption DEF Typed, NetTypes
<1>5. Rounds \in Nat /\ Rounds = MaxRetries + 1 /\ MaxRetries \in Nat
  BY SessionAssumption DEF Rounds
<1>6. ASSUME NEW t \in Tasks PROVE Remaining(t) \in Nat
  BY <1>3, <1>5 DEF Remaining
<1> QED BY <1>1, <1>2, <1>3, <1>4, <1>5, <1>6, LenProperties, ElementOfSeq, HeadIsFirst

\* One place of the line is given up.
Removes(i) ==
  /\ queue' \in Seq(Tasks)
  /\ Len(queue') = Len(queue) - 1
  /\ \A k \in 1 .. Len(queue) - 1 : queue'[k] = queue[IF k < i THEN k ELSE k + 1]

LEMMA EndsRemoves ==
  ASSUME Typed, queue # <<>>, queue' = Tail(queue)
  PROVE  Removes(1)
<1>1. queue \in Seq(Tasks) /\ Len(queue) \in Nat
  BY LineTypes
<1>2. /\ queue' \in Seq(Tasks) /\ Len(queue') = Len(queue) - 1
      /\ \A k \in 1 .. Len(queue') : queue'[k] = queue[k + 1]
  BY <1>1, HeadTailProperties
<1> QED BY <1>1, <1>2 DEF Removes

LEMMA CutAt ==
  ASSUME NEW S, NEW q \in Seq(S), NEW i \in 1 .. Len(q)
  PROVE  LET cut == SubSeq(q, 1, i - 1) \o SubSeq(q, i + 1, Len(q))
         IN  /\ cut \in Seq(S)
             /\ Len(cut) = Len(q) - 1
             /\ \A k \in 1 .. Len(q) - 1 : cut[k] = q[IF k < i THEN k ELSE k + 1]
<1>1. Len(q) \in Nat /\ i \in Nat /\ i - 1 \in Nat /\ i + 1 \in Nat /\ 1 \in Nat
  BY LenProperties
<1>2. \A k \in 1 .. Len(q) : q[k] \in S
  BY ElementOfSeq
<1>3. \E before \in Seq(S) :
        /\ before = SubSeq(q, 1, i - 1)
        /\ Len(before) = i - 1
        /\ \A k \in 1 .. i - 1 : before[k] = q[k]
  <2>1. \A k \in 1 .. i - 1 : q[k] \in S
    BY <1>1, <1>2
  <2>2. /\ SubSeq(q, 1, i - 1) \in Seq(S)
        /\ Len(SubSeq(q, 1, i - 1)) = IF 1 <= i - 1 THEN i - 1 - 1 + 1 ELSE 0
        /\ \A k \in 1 .. i - 1 - 1 + 1 : SubSeq(q, 1, i - 1)[k] = q[1 + k - 1]
    BY <1>1, <2>1, SubSeqProperties
  <2> DEFINE before == SubSeq(q, 1, i - 1)
  <2>3. /\ before \in Seq(S)
        /\ Len(before) = IF 1 <= i - 1 THEN i - 1 - 1 + 1 ELSE 0
        /\ \A k \in 1 .. i - 1 - 1 + 1 : before[k] = q[1 + k - 1]
    BY <2>2
  <2> HIDE DEF before
  <2>4. Len(before) = i - 1 /\ \A k \in 1 .. i - 1 : before[k] = q[k]
    BY <1>1, <2>3
  <2> QED BY <2>3, <2>4 DEF before
<1>4. \E after \in Seq(S) :
        /\ after = SubSeq(q, i + 1, Len(q))
        /\ Len(after) = Len(q) - i
        /\ \A k \in 1 .. Len(q) - i : after[k] = q[i + k]
  <2>1. \A k \in i + 1 .. Len(q) : q[k] \in S
    BY <1>1, <1>2
  <2> DEFINE after == SubSeq(q, i + 1, Len(q))
  <2>2. /\ after \in Seq(S)
        /\ Len(after) = IF i + 1 <= Len(q) THEN Len(q) - (i + 1) + 1 ELSE 0
        /\ \A k \in 1 .. Len(q) - (i + 1) + 1 : after[k] = q[i + 1 + k - 1]
    BY <1>1, <2>1, SubSeqProperties
  <2> HIDE DEF after
  <2>3. Len(after) = Len(q) - i /\ \A k \in 1 .. Len(q) - i : after[k] = q[i + k]
    BY <1>1, <2>2
  <2> QED BY <2>2, <2>3 DEF after
<1>5. PICK before \in Seq(S) :
        /\ before = SubSeq(q, 1, i - 1)
        /\ Len(before) = i - 1
        /\ \A k \in 1 .. i - 1 : before[k] = q[k]
  BY <1>3
<1>6. PICK after \in Seq(S) :
        /\ after = SubSeq(q, i + 1, Len(q))
        /\ Len(after) = Len(q) - i
        /\ \A k \in 1 .. Len(q) - i : after[k] = q[i + k]
  BY <1>4
<1> DEFINE cut == before \o after
<1>7. /\ cut \in Seq(S) /\ Len(cut) = Len(before) + Len(after)
      /\ \A k \in 1 .. Len(before) + Len(after) :
           cut[k] = IF k <= Len(before) THEN before[k] ELSE after[k - Len(before)]
  BY ConcatProperties
<1>8. cut = SubSeq(q, 1, i - 1) \o SubSeq(q, i + 1, Len(q))
  BY <1>5, <1>6
<1> HIDE DEF cut
<1>9. ASSUME NEW k \in 1 .. Len(q) - 1
      PROVE  cut[k] = q[IF k < i THEN k ELSE k + 1]
  <2>0. Len(before) + Len(after) = Len(q) - 1
    <3>1. Len(before) = i - 1 /\ Len(after) = Len(q) - i
      BY <1>5, <1>6
    <3> QED BY <1>1, <3>1
  <2>1. k \in 1 .. Len(before) + Len(after) /\ k \in Nat
    BY <1>1, <2>0
  <2>2. CASE k < i
    <3>1. k <= Len(before) /\ k \in 1 .. i - 1
      BY <1>1, <1>5, <2>1, <2>2
    <3>2. cut[k] = before[k] /\ before[k] = q[k]
      BY <1>5, <1>7, <2>1, <3>1
    <3> QED BY <2>2, <3>2
  <2>3. CASE ~(k < i)
    <3>1. ~(k <= Len(before)) /\ k - Len(before) \in 1 .. Len(q) - i
          /\ i + (k - Len(before)) = k + 1
      BY <1>1, <1>5, <2>1, <2>3
    <3>2. cut[k] = after[k - Len(before)] /\ after[k - Len(before)] = q[k + 1]
      BY <1>6, <1>7, <2>1, <3>1
    <3> QED BY <2>3, <3>2
  <2> QED BY <2>2, <2>3
<1>10. Len(cut) = Len(q) - 1
  BY <1>1, <1>5, <1>6, <1>7
<1> QED BY <1>7, <1>8, <1>9, <1>10

LEMMA CutRemoves ==
  ASSUME Typed, NEW i \in 1 .. Len(queue),
         queue' = SubSeq(queue, 1, i - 1) \o SubSeq(queue, i + 1, Len(queue))
  PROVE  Removes(i)
BY CutAt DEF Removes, Typed, TaskTypes

\* A call that ends, or that is cancelled in line, leaves no more to come.
LEMMA LeavesLine ==
  ASSUME Typed, Typed', InLine, NEW i \in 1 .. Len(queue), Removes(i),
         pc' = [pc EXCEPT ![queue[i]] = "idle"], attempt' = attempt
  PROVE  InLine' /\ Left' <= Left /\ Left \in Nat /\ Left' \in Int
<1> DEFINE n == Len(queue)
<1>1. /\ n \in Nat /\ n >= 1 /\ i \in Nat /\ Rounds \in Nat
      /\ \A k \in 1 .. n : queue[k] \in Tasks
      /\ queue # <<>> /\ Head(queue) = queue[1]
      /\ \A t \in Tasks : Remaining(t) \in Nat
      /\ pc \in [Tasks -> Labels]
  <2>1. pc \in [Tasks -> Labels]
    BY DEF Typed, TaskTypes
  <2>2. n \in Nat /\ n >= 1 /\ i \in Nat
    BY LineTypes
  <2>3. queue # <<>> /\ Head(queue) = queue[1]
    BY <2>2, LineTypes
  <2> QED BY <2>1, <2>2, <2>3, LineTypes
<1>2. /\ Len(queue') = n - 1
      /\ \A k \in 1 .. n - 1 : queue'[k] = queue[IF k < i THEN k ELSE k + 1]
  BY DEF Removes
<1>2a. \A k \in 1 .. n - 1 : (IF k < i THEN k ELSE k + 1) \in (1 .. n) \ {i}
  BY <1>1
<1>3. queue' # <<>> <=> n >= 2
  <2>1. queue' \in Seq(Tasks)
    BY DEF Removes
  <2>2. queue' # <<>> <=> Len(queue') >= 1
    BY <2>1, EmptySeq, LenProperties, NotEmpty
  <2> QED BY <1>1, <1>2, <2>2
<1>4. n >= 2 => Head(queue') = queue'[1]
  BY <1>3, HeadIsFirst DEF Removes
<1> HIDE DEF n
<1>5. \A k \in (1 .. n) \ {i} : queue[k] # queue[i] /\ pc'[queue[k]] = pc[queue[k]]
                                /\ pc[queue[k]] # "idle"
  BY <1>1 DEF InLine, n
<1>6. \A k \in 1 .. Len(queue') : pc'[queue'[k]] # "idle"
  BY <1>1, <1>2, <1>2a, <1>5
<1>7. ASSUME NEW j \in 1 .. Len(queue'), NEW k \in 1 .. Len(queue'), queue'[j] = queue'[k]
      PROVE  j = k
  <2> DEFINE a == IF j < i THEN j ELSE j + 1
             b == IF k < i THEN k ELSE k + 1
  <2>1. queue'[j] = queue[a] /\ queue'[k] = queue[b] /\ a \in 1 .. n /\ b \in 1 .. n
    BY <1>2, <1>2a
  <2>2. a = b
    BY <1>7, <2>1 DEF InLine, n
  <2> QED BY <1>1, <1>2, <2>2
<1>8. ASSUME NEW u \in Tasks, pc'[u] # "idle", ~Holds(u)'
      PROVE  attempt'[u] = 0
  <2>1. u # queue[i] /\ pc[u] # "idle"
    BY <1>1, <1>8
  <2>2. ~Holds(u)
    <3> SUFFICES ASSUME Holds(u) PROVE FALSE
      OBVIOUS
    <3>1. u = queue[1] /\ i # 1
      BY <1>1, <2>1 DEF Holds
    <3>2. n >= 2 /\ i > 1
      BY <1>1, <3>1 DEF n
    <3>3. queue'[1] = queue[1]
      BY <1>1, <1>2, <3>2
    <3> QED BY <1>3, <1>4, <1>8, <3>1, <3>2, <3>3 DEF Holds
  <2> QED BY <2>1, <2>2 DEF InLine
<1>9. InLine'
  BY <1>6, <1>7, <1>8 DEF InLine
<1>10. Left = (n - 1) * Rounds + Remaining(queue[1]) /\ Left \in Nat
  <2>1. n - 1 \in Nat /\ queue[1] \in Tasks
    BY <1>1
  <2> QED BY <1>1, <2>1, TimesNext DEF Left, n
<1>11. CASE n = 1
  <2>1. Left' = 0
    BY <1>3, <1>11 DEF Left
  <2> QED BY <1>9, <1>10, <2>1
<1>12. CASE n >= 2
  <2>1. Left' = (n - 2) * Rounds + Remaining(Head(queue))'
    BY <1>1, <1>2, <1>3, <1>12 DEF Left, Rounds
  <2>2. (n - 1) * Rounds = (n - 2) * Rounds + Rounds /\ (n - 2) * Rounds \in Nat
    <3> DEFINE m == n - 2
    <3>1. m \in Nat /\ n - 1 = m + 1
      BY <1>1, <1>12
    <3> HIDE DEF m
    <3>2. m * Rounds \in Nat /\ (m + 1) * Rounds = m * Rounds + Rounds
      BY <1>1, <3>1, TimesNext
    <3> QED BY <3>1, <3>2 DEF m
  <2>3. CASE i = 1
    <3>1. queue'[1] = queue[2] /\ queue[2] \in Tasks /\ pc'[queue[2]] = pc[queue[2]]
          /\ pc[queue[2]] # "idle" /\ queue[2] # queue[1]
      BY <1>1, <1>2, <1>5, <1>12, <2>3
    <3>2. ~Holds(queue[2])
      BY <1>1, <3>1 DEF Holds
    <3>3. attempt[queue[2]] = 0 /\ pc[queue[2]] = "ensure"
      BY <1>1, <3>1, <3>2 DEF InLine, Typed, TaskDiscipline, Past, Labels
    <3>4. Remaining(Head(queue))' = Rounds
      BY <1>1, <1>4, <1>12, <3>1, <3>3 DEF Remaining, Rounds
    <3> QED BY <1>1, <1>9, <1>10, <2>1, <2>2, <3>4
  <2>4. CASE i # 1
    <3>1. queue'[1] = queue[1] /\ queue[1] \in Tasks /\ pc'[queue[1]] = pc[queue[1]]
      BY <1>1, <1>2, <1>5, <1>12, <2>4
    <3>2. Remaining(Head(queue))' = Remaining(queue[1])
      BY <1>4, <1>12, <3>1 DEF Remaining, Rounds
    <3> QED BY <1>1, <1>9, <1>10, <2>1, <2>2, <3>1, <3>2
  <2> QED BY <2>3, <2>4
<1> QED BY <1>1, <1>11, <1>12

\* The holder of the lock moves on: its remaining rounds are what changes.
LEMMA HolderMoves ==
  ASSUME Typed, Typed', InLine, NEW t \in Tasks, Holds(t), queue' = queue,
         NEW label \in Labels \ {"idle"}, pc' = [pc EXCEPT ![t] = label],
         \A u \in Tasks \ {t} : attempt'[u] = attempt[u]
  PROVE  /\ InLine' /\ Left \in Int /\ Left' \in Int
         /\ Left' - Left = Remaining(t)' - Remaining(t)
         /\ Remaining(t) \in Nat /\ Remaining(t)' \in Int
<1>0. /\ Len(queue) \in Nat /\ (queue # <<>> <=> Len(queue) >= 1)
      /\ Rounds \in Nat /\ Remaining(t) \in Nat
      /\ \A i \in 1 .. Len(queue) : queue[i] \in Tasks
  BY LineTypes
<1>1. /\ pc \in [Tasks -> Labels] /\ queue # <<>> /\ Head(queue) = t
      /\ Len(queue) - 1 \in Nat /\ Rounds \in Nat /\ Remaining(t) \in Nat
      /\ \A i \in 1 .. Len(queue) : queue[i] \in Tasks
  <2>1. pc \in [Tasks -> Labels]
    BY DEF Typed, TaskTypes
  <2>2. queue # <<>> /\ Head(queue) = t
    BY DEF Holds
  <2>3. Len(queue) - 1 \in Nat
    BY <1>0, <2>2
  <2> QED BY <1>0, <2>1, <2>2, <2>3
<1>2. \A i \in 1 .. Len(queue) : pc'[queue[i]] # "idle"
  BY <1>1 DEF InLine
<1>3. ASSUME NEW u \in Tasks, pc'[u] # "idle", ~Holds(u)' PROVE attempt'[u] = 0
  BY <1>1, <1>3 DEF InLine, Holds
<1>4. InLine'
  BY <1>2, <1>3 DEF InLine
<1>5. attempt'[t] \in Int
  BY SessionAssumption DEF Typed, TaskTypes
<1>6. Remaining(t)' \in Int
  BY <1>1, <1>5 DEF Remaining, Rounds
<1> DEFINE before == (Len(queue) - 1) * Rounds
<1>7. before \in Nat
  BY <1>1, TimesNext
<1>8. Left = before + Remaining(t) /\ Left' = before + Remaining(t)'
  BY <1>1 DEF Left, Rounds
<1> HIDE DEF before
<1>9. /\ Left \in Int /\ Left' \in Int
      /\ Left' - Left = Remaining(t)' - Remaining(t)
  <2> DEFINE now == Remaining(t)
             then == Remaining(t)'
  <2>1. now \in Nat /\ then \in Int /\ Left = before + now /\ Left' = before + then
    BY <1>1, <1>6, <1>8
  <2> HIDE DEF now, then
  <2>2. Left \in Int /\ Left' \in Int /\ Left' - Left = then - now
    BY <1>7, <2>1
  <2> QED BY <2>2 DEF now, then
<1> QED BY <1>1, <1>4, <1>6, <1>9

LEMMA StopLine ==
  ASSUME Typed, Typed', InLine, NEW t \in Tasks, Stops(t)
  PROVE  InLine' /\ Left \in Int /\ Left' \in Int /\ Left' <= Left
<1>1. Holds(t) /\ queue # <<>> /\ 1 \in 1 .. Len(queue) /\ queue[1] = t
  <2>1. Holds(t) /\ queue # <<>> /\ Head(queue) = t
    BY DEF Stops, Holds
  <2>2. Len(queue) \in Nat /\ Len(queue) >= 1 /\ Head(queue) = queue[1]
    BY <2>1, LineTypes
  <2> QED BY <2>1, <2>2
<1>2. CASE \E how : Ends(t, how)
  <2>1. /\ queue' = Tail(queue) /\ attempt' = attempt
        /\ pc' = [pc EXCEPT ![queue[1]] = "idle"]
    BY <1>1, <1>2 DEF Ends
  <2>2. Removes(1)
    BY <1>1, <2>1, EndsRemoves
  <2>3. InLine' /\ Left' <= Left /\ Left \in Nat /\ Left' \in Int
    BY <1>1, <2>1, <2>2, LeavesLine
  <2>4. Left \in Int
    BY <2>3
  <2> QED BY <2>3, <2>4
<1>3. CASE Pauses(t)
  <2>1. /\ queue' = queue /\ attempt' = attempt
        /\ "sleep" \in Labels \ {"idle"} /\ pc' = [pc EXCEPT ![t] = "sleep"]
    BY <1>3 DEF Pauses, Labels
  <2>2. /\ InLine' /\ Left \in Int /\ Left' \in Int
        /\ Left' - Left = Remaining(t)' - Remaining(t)
        /\ Remaining(t) \in Nat /\ Remaining(t)' \in Int
    BY <1>1, <2>1, HolderMoves
  <2>3. Remaining(t)' <= Remaining(t)
    <3>1. pc'[t] = "sleep" /\ attempt'[t] = attempt[t] /\ attempt[t] \in Nat /\ Rounds \in Nat
      BY <2>1, LineTypes DEF Typed, TaskTypes
    <3> QED BY <3>1 DEF Remaining, Rounds
  <2> QED BY <2>2, <2>3
<1> QED BY <1>2, <1>3 DEF Stops

\* A step within the attempt: making a connection takes one of the rounds left.
LEMMA AdvanceLine ==
  ASSUME Typed, Typed', InLine, NEW t \in Tasks,
         Advances(t) \/ Writing(t) \/ Connects(t) \/ Wakes(t)
  PROVE  /\ InLine' /\ Left \in Int /\ Left' \in Int
         /\ Left' <= Left - IF Connects(t) THEN 1 ELSE 0
<1>1. /\ Holds(t) /\ queue' = queue /\ pc \in [Tasks -> Labels]
      /\ attempt \in [Tasks -> Nat] /\ Rounds \in Nat
  <2>1. Holds(t) /\ queue' = queue
    BY DEF Advances, Moves, Writing, Writes, Connects, Wakes, At
  <2>2. pc \in [Tasks -> Labels] /\ attempt \in [Tasks -> Nat]
    BY SessionAssumption DEF Typed, TaskTypes
  <2> QED BY <2>1, <2>2, LineTypes
<1>2. \E label \in Labels \ {"idle"} : pc' = [pc EXCEPT ![t] = label]
  BY DEF Advances, Moves, Writing, Connects, Wakes, Labels
<1>3. \A u \in Tasks \ {t} : attempt'[u] = attempt[u]
  BY <1>1 DEF Advances, Moves, Writing, Connects, Wakes
<1>4. /\ InLine' /\ Left \in Int /\ Left' \in Int
      /\ Left' - Left = Remaining(t)' - Remaining(t)
      /\ Remaining(t) \in Nat /\ Remaining(t)' \in Int
  BY <1>1, <1>2, <1>3, HolderMoves
<1>5. Remaining(t)' <= Remaining(t) - IF Connects(t) THEN 1 ELSE 0
  <2>1. CASE Connects(t)
    <3>1. pc[t] = "connect" /\ pc'[t] = "send" /\ attempt'[t] = attempt[t]
      BY <1>1, <2>1 DEF Connects, At
    <3> QED BY <1>1, <2>1, <3>1 DEF Remaining, Rounds
  <2>2. CASE Wakes(t)
    <3>1. /\ pc[t] = "sleep" /\ pc'[t] = "ensure" /\ attempt'[t] = attempt[t] + 1
          /\ ~Connects(t)
      BY <1>1, <2>2 DEF Wakes, Connects, At
    <3> QED BY <1>1, <3>1 DEF Remaining, Rounds
  <2>3. CASE Writing(t)
    <3>1. /\ pc[t] = "send" /\ pc'[t] \in {"header", "drain"} /\ attempt'[t] = attempt[t]
          /\ ~Connects(t)
      BY <1>1, <2>3 DEF Writing, Writes, Moves, Connects, At
    <3> QED BY <1>1, <3>1 DEF Remaining, Rounds
  <2>4. CASE Advances(t)
    <3>1. /\ pc'[t] \in {"ensure", "connect"} => pc[t] \in {"ensure", "connect"}
          /\ attempt'[t] = attempt[t]
      BY <1>1, <2>4 DEF Advances, Moves
    <3>2. ~Connects(t)
      BY <1>1, <2>4 DEF Advances, Moves, Connects, At
    <3> QED BY <1>1, <3>1, <3>2 DEF Remaining, Rounds
  <2> QED BY <2>1, <2>2, <2>3, <2>4
<1>6. CASE Connects(t)
  BY <1>4, <1>5, <1>6
<1>7. CASE ~Connects(t)
  BY <1>4, <1>5, <1>7
<1> QED BY <1>4, <1>6, <1>7

LEMMA CancelLine ==
  ASSUME Typed, Typed', InLine, NEW t \in Tasks, Cancelled(t)
  PROVE  InLine' /\ Left \in Int /\ Left' \in Int /\ Left' <= Left
<1>1. PICK i \in DOMAIN queue :
        queue[i] = t /\ queue' = SubSeq(queue, 1, i - 1) \o SubSeq(queue, i + 1, Len(queue))
  BY DEF Cancelled
<1>2. i \in 1 .. Len(queue)
  BY <1>1, LineTypes
<1>3. Removes(i)
  BY <1>1, <1>2, CutRemoves
<1>4. pc' = [pc EXCEPT ![queue[i]] = "idle"] /\ attempt' = attempt
  BY <1>1 DEF Cancelled
<1>5. InLine' /\ Left' <= Left /\ Left \in Nat /\ Left' \in Int
  BY <1>2, <1>3, <1>4, LeavesLine
<1>6. Left \in Int
  BY <1>5
<1> QED BY <1>5, <1>6

\* A call takes its place at the end of the line, with all its rounds to come.
LEMMA CallLine ==
  ASSUME Typed, Typed', InLine, NEW t \in Tasks, Call(t)
  PROVE  InLine' /\ Left \in Int /\ Left' \in Int /\ Left' <= Left + Rounds
<1> DEFINE n == Len(queue)
<1>1. /\ pc[t] = "idle" /\ pc' = [pc EXCEPT ![t] = "ensure"]
      /\ attempt' = [attempt EXCEPT ![t] = 0] /\ queue' = Append(queue, t)
  BY DEF Call
<1>2. /\ queue \in Seq(Tasks) /\ n \in Nat /\ Rounds \in Nat
      /\ pc \in [Tasks -> Labels] /\ attempt \in [Tasks -> Nat]
      /\ \A k \in 1 .. n : queue[k] \in Tasks
  <2>1. pc \in [Tasks -> Labels] /\ attempt \in [Tasks -> Nat]
    BY SessionAssumption DEF Typed, TaskTypes
  <2> QED BY <2>1, LineTypes
<1>3. /\ Len(queue') = n + 1 /\ queue'[n + 1] = t
      /\ \A k \in 1 .. n : queue'[k] = queue[k]
      /\ queue' # <<>> /\ Head(queue') = queue'[1]
  <2>1. /\ Len(Append(queue, t)) = n + 1 /\ Append(queue, t)[n + 1] = t
        /\ \A k \in 1 .. n : Append(queue, t)[k] = queue[k]
        /\ Append(queue, t) \in Seq(Tasks) /\ Append(queue, t) # <<>>
    BY <1>2, AppendProperties
  <2>2. queue' # <<>>
    BY <1>1, <2>1
  <2> QED BY <1>1, <2>1, <2>2, HeadIsFirst
<1>4. queue # <<>> <=> n >= 1
  BY LineTypes
<1>5. queue # <<>> => Head(queue) = queue[1]
  BY LineTypes
<1>6. \A k \in 1 .. n : pc[queue[k]] # "idle" /\ queue[k] # t
  BY <1>1 DEF InLine
<1> HIDE DEF n
<1>7. \A k \in 1 .. n : pc'[queue'[k]] = pc[queue[k]] /\ attempt'[queue'[k]] = attempt[queue[k]]
  BY <1>1, <1>2, <1>3, <1>6
<1>8. \A k \in 1 .. Len(queue') : k \in 1 .. n \/ k = n + 1
  BY <1>2, <1>3
<1>9. \A k \in 1 .. Len(queue') : pc'[queue'[k]] # "idle"
  <2>1. pc'[t] = "ensure"
    BY <1>1, <1>2
  <2> QED BY <1>3, <1>6, <1>7, <1>8, <2>1
<1>10. ASSUME NEW j \in 1 .. Len(queue'), NEW k \in 1 .. Len(queue'), queue'[j] = queue'[k]
       PROVE  j = k
  BY <1>3, <1>6, <1>8, <1>10 DEF InLine, n
<1>11. ASSUME NEW u \in Tasks, pc'[u] # "idle", ~Holds(u)' PROVE attempt'[u] = 0
  <2>1. CASE u = t
    BY <1>1, <1>2, <2>1
  <2>2. CASE u # t
    <3>1. pc[u] # "idle" /\ attempt'[u] = attempt[u]
      BY <1>1, <1>2, <1>11, <2>2
    <3>2. ~Holds(u)
      <4> SUFFICES ASSUME Holds(u) PROVE FALSE
        OBVIOUS
      <4>1. queue[1] = u /\ n >= 1
        BY <1>4, <1>5 DEF Holds
      <4>2. queue'[1] = queue[1]
        BY <1>2, <1>3, <4>1
      <4> QED BY <1>3, <1>11, <4>1, <4>2 DEF Holds
    <3> QED BY <3>1, <3>2 DEF InLine
  <2> QED BY <2>1, <2>2
<1>12. InLine'
  BY <1>9, <1>10, <1>11 DEF InLine
<1>13. Left' = n * Rounds + Remaining(Head(queue))'
  BY <1>2, <1>3 DEF Left, Rounds
<1>14. CASE n = 0
  <2>1. Left = 0
    BY <1>4, <1>14 DEF Left
  <2>2. Remaining(Head(queue))' = Rounds
    <3>1. Head(queue') = t
      BY <1>3, <1>14
    <3>2. pc'[t] = "ensure" /\ attempt'[t] = 0
      BY <1>1, <1>2
    <3> QED BY <1>2, <3>1, <3>2 DEF Remaining, Rounds
  <2>3. n * Rounds = 0
    BY <1>2, <1>14
  <2>4. Left' = Rounds
    BY <1>2, <1>13, <2>2, <2>3
  <2> QED BY <1>2, <1>12, <2>1, <2>4
<1>15. CASE n >= 1
  <2>1. 1 \in 1 .. n /\ queue[1] \in Tasks
    BY <1>2, <1>15
  <2>2. Remaining(Head(queue))' = Remaining(Head(queue))
    BY <1>3, <1>4, <1>5, <1>7, <1>15, <2>1 DEF Remaining, Rounds
  <2>3. Remaining(Head(queue)) \in Nat
    BY <1>4, <1>5, <1>15, <2>1, LineTypes
  <2>4. Left = (n - 1) * Rounds + Remaining(Head(queue))
    BY <1>4, <1>15 DEF Left, n
  <2>5. n * Rounds = (n - 1) * Rounds + Rounds /\ (n - 1) * Rounds \in Nat
    <3> DEFINE m == n - 1
    <3>1. m \in Nat /\ n = m + 1
      BY <1>2, <1>15
    <3> HIDE DEF m
    <3>2. m * Rounds \in Nat /\ (m + 1) * Rounds = m * Rounds + Rounds
      BY <1>2, <3>1, TimesNext
    <3> QED BY <3>1, <3>2 DEF m
  <2> QED BY <1>2, <1>12, <1>13, <2>2, <2>3, <2>4, <2>5
<1> QED BY <1>2, <1>14, <1>15

LEMMA CallMade ==
  ASSUME Typed, Typed', IsFiniteSet(Made), NEW t \in Tasks, Call(t)
  PROVE  IsFiniteSet(Made') /\ Cardinality(Made') = Cardinality(Made) + 1
<1> DEFINE new == <<t, calls[t] + 1>>
<1>1. /\ calls \in [Tasks -> 0 .. MaxCalls] /\ calls[t] < MaxCalls
      /\ calls' = [calls EXCEPT ![t] = calls[t] + 1] /\ MaxCalls \in Nat
  BY SessionAssumption DEF Typed, TaskTypes, Call
<1>2. new \in Commands /\ new \notin Made
  BY <1>1, SessionAssumption DEF Made
<1>3. ASSUME NEW cmd \in Commands
      PROVE  cmd \in Made' <=> cmd \in Made \/ cmd = new
  <2>1. cmd[1] \in Tasks /\ cmd[2] \in 1 .. MaxCalls /\ cmd = <<cmd[1], cmd[2]>>
    BY CommandShape
  <2>2. CASE cmd[1] = t
    <3>1. cmd[2] <= calls[t] + 1 <=> cmd[2] <= calls[t] \/ cmd[2] = calls[t] + 1
      BY <1>1, <2>1
    <3>2. cmd[2] = calls[t] + 1 <=> cmd = new
      BY <2>1, <2>2
    <3> QED BY <1>1, <2>2, <3>1, <3>2 DEF Made
  <2>3. CASE cmd[1] # t
    <3>1. calls'[cmd[1]] = calls[cmd[1]] /\ cmd # new
      BY <1>1, <2>1, <2>3
    <3> QED BY <3>1 DEF Made
  <2> QED BY <2>2, <2>3
<1>4. Made' = Made \cup {new}
  BY <1>2, <1>3 DEF Made
<1> QED BY <1>2, <1>4, FS_AddElement

LEMMA BudgetFirst == Init => InLine /\ Budgeted
<1> SUFFICES ASSUME Init PROVE InLine /\ Budgeted
  OBVIOUS
<1>1. queue = <<>> /\ Len(queue) = 0
  BY EmptySeq DEF Init
<1>2. InLine
  BY <1>1 DEF Init, InLine
<1>3. Made = {}
  BY CommandShape DEF Init, Made
<1>4. Left = 0 /\ nextConn - 1 <= 1 /\ meddled = 0 /\ nextConn \in Nat
  BY <1>1 DEF Init, Left
<1>5. IsFiniteSet(Made) /\ Cardinality(Made) = 0
  BY <1>3, FS_EmptySet
<1>6. Rounds \in Nat
  BY SessionAssumption DEF Rounds
<1>7. 0 * Rounds = 0
  BY <1>6
<1> QED BY <1>2, <1>4, <1>5, <1>7 DEF Budgeted

LEMMA BudgetNext ==
  ASSUME Typed, IInv, Typed', InLine, Budgeted, [Next]_vars
  PROVE  InLine' /\ Budgeted'
<1> DEFINE made == Cardinality(Made) * Rounds
<1>1. /\ nextConn \in Nat /\ meddled \in Nat /\ Rounds \in Nat
      /\ Cardinality(Made) \in Nat /\ IsFiniteSet(Made)
  BY LineTypes, FS_CardinalityType DEF Budgeted
<1>2. made \in Nat
  BY <1>1, TimesNext
<1>3. nextConn - 1 + Left <= 1 + meddled + made
  BY DEF Budgeted
<1> HIDE DEF made
<1>n. nextConn \in Nat /\ meddled \in Nat /\ Rounds \in Nat
  BY <1>1
<1>4. ASSUME NEW t \in Tasks, Call(t) \/ ClientStep(t) \/ Drained(t) \/ Cancelled(t)
      PROVE  InLine' /\ Budgeted'
  <2>1. Stops(t) \/ Advances(t) \/ Writing(t) \/ Connects(t) \/ Wakes(t) \/ Call(t) \/ Cancelled(t)
    BY <1>4, TaskStep
  <2>2. CASE Call(t)
    <3>1. InLine' /\ Left \in Int /\ Left' \in Int /\ Left' <= Left + Rounds
      BY <2>2, CallLine
    <3>2. IsFiniteSet(Made') /\ Cardinality(Made') = Cardinality(Made) + 1
      BY <1>1, <2>2, CallMade
    <3>3. (Cardinality(Made) + 1) * Rounds = made + Rounds
      BY <1>1, TimesNext DEF made
    <3>4. nextConn' = nextConn /\ meddled' = meddled
      BY <2>2 DEF Call, connVars
    <3>5. nextConn' - 1 + Left' <= 1 + meddled' + (made + Rounds)
      <4>1. PICK b \in Int : b = Left
        BY <3>1
      <4>2. PICK a \in Int : a = Left'
        BY <3>1
      <4>3. nextConn - 1 + b <= 1 + meddled + made
        BY <1>3, <4>1
      <4>4. a <= b + Rounds
        BY <3>1, <4>1, <4>2
      <4>5. nextConn - 1 + a <= 1 + meddled + (made + Rounds)
        BY <1>n, <1>2, <4>3, <4>4
      <4> QED BY <3>4, <4>2, <4>5
    <3>6. Cardinality(Made') * Rounds = made + Rounds
      BY <3>2, <3>3
    <3>7. Budgeted' <=> IsFiniteSet(Made')
                        /\ nextConn' - 1 + Left' <= 1 + meddled' + Cardinality(Made') * Rounds
      BY DEF Budgeted, Rounds
    <3> QED BY <3>1, <3>2, <3>5, <3>6, <3>7
  <2>3. ASSUME NEW b \in Int, NEW a \in Int, b = Left, a = Left',
               meddled' = meddled, calls' = calls,
               \/ a <= b /\ nextConn' = nextConn
               \/ a <= b - 1 /\ nextConn' = nextConn + 1
        PROVE  Budgeted'
    <3>1. nextConn - 1 + b <= 1 + meddled + made
      BY <1>3, <2>3
    <3>2. nextConn' - 1 + a <= 1 + meddled + made
      <4>1. CASE a <= b /\ nextConn' = nextConn
        <5>1. nextConn - 1 + a <= 1 + meddled + made
          BY <1>n, <1>2, <3>1, <4>1
        <5> QED BY <4>1, <5>1
      <4>2. CASE a <= b - 1 /\ nextConn' = nextConn + 1
        <5>1. PICK d \in Int : d = nextConn'
          BY <1>n, <4>2
        <5>2. d = nextConn + 1
          BY <4>2, <5>1
        <5>3. d - 1 + a <= 1 + meddled + made
          BY <1>n, <1>2, <3>1, <4>2, <5>2
        <5> QED BY <5>1, <5>3
      <4> QED BY <2>3, <4>1, <4>2
    <3>3. nextConn' - 1 + Left' <= 1 + meddled' + made
      BY <2>3, <3>2
    <3>4. Made' = Made
      BY <2>3 DEF Made
    <3>5. Budgeted' <=> IsFiniteSet(Made')
                        /\ nextConn' - 1 + Left' <= 1 + meddled' + Cardinality(Made') * Rounds
      BY DEF Budgeted, Rounds
    <3> QED BY <1>1, <3>3, <3>4, <3>5 DEF made
  <2>4. CASE Stops(t) \/ Cancelled(t)
    <3>1. InLine' /\ Left \in Int /\ Left' \in Int /\ Left' <= Left
      BY <2>4, StopLine, CancelLine
    <3>2. nextConn' = nextConn /\ meddled' = meddled /\ calls' = calls
      BY <2>4 DEF Stops, Ends, Pauses, Cancelled, connVars
    <3> QED BY <2>3, <3>1, <3>2
  <2>5. CASE Advances(t) \/ Writing(t) \/ Connects(t) \/ Wakes(t)
    <3>1. /\ InLine' /\ Left \in Int /\ Left' \in Int
          /\ Left' <= Left - IF Connects(t) THEN 1 ELSE 0
      BY <2>5, AdvanceLine
    <3>2. meddled' = meddled /\ calls' = calls
      BY <2>5 DEF Advances, Moves, Writing, Writes, Connects, Wakes, connVars, clientVars
    <3>3. CASE Connects(t)
      <4>1. nextConn' = nextConn + 1
        BY <3>3 DEF Connects, Opens
      <4> QED BY <2>3, <3>1, <3>2, <3>3, <4>1
    <3>4. CASE ~Connects(t)
      <4>1. nextConn' = nextConn
        BY <2>5, <3>4 DEF Advances, Writing, Writes, Wakes, connVars, clientVars
      <4>2. Left' <= Left
        BY <3>1, <3>4
      <4> QED BY <2>3, <3>1, <3>2, <4>1, <4>2
    <3> QED BY <3>3, <3>4
  <2> QED BY <2>1, <2>2, <2>4, <2>5
<1>5. ASSUME ServerStep \/ Meddling \/ UNCHANGED vars
      PROVE  InLine' /\ Budgeted'
  <2>1. UNCHANGED <<queue, taskVars>>
        /\ \/ nextConn' = nextConn /\ meddled' \in {meddled, meddled + 1}
           \/ nextConn' = nextConn + 1 /\ meddled' = meddled + 1
    <3>1. CASE ServerStep
      <4>1. UNCHANGED <<clientVars, taskVars>>
        BY <3>1, ServerKeepsNet DEF Typed, IInv
      <4> QED BY <4>1 DEF clientVars, connVars
    <3>2. CASE Meddling
      BY <3>2 DEF Meddling, CloseBegins, CloseEnds, CloseCancelled, ConnectsAnew, Meddles, Opens
    <3>3. CASE UNCHANGED vars
      BY <3>3 DEF vars, clientVars, connVars
    <3> QED BY <1>5, <3>1, <3>2, <3>3
  <2>2. InLine'
    BY <2>1 DEF InLine, Holds, taskVars
  <2>3. Made' = Made /\ Left' = Left
    BY <2>1 DEF Made, Left, Remaining, Rounds, taskVars
  <2>4. Left \in Int
    <3>1. CASE queue = <<>>
      BY <3>1 DEF Left
    <3>2. CASE queue # <<>>
      <4>1. Len(queue) - 1 \in Nat /\ Remaining(Head(queue)) \in Nat
        BY <3>2, LineTypes
      <4>2. (Len(queue) - 1) * Rounds \in Nat
        BY <1>1, <4>1, TimesNext
      <4> QED BY <3>2, <4>1, <4>2 DEF Left
    <3> QED BY <3>1, <3>2
  <2>5. nextConn' - 1 + Left' <= 1 + meddled' + made
    BY <1>1, <1>2, <1>3, <2>1, <2>3, <2>4
  <2>6. Budgeted' <=> IsFiniteSet(Made')
                      /\ nextConn' - 1 + Left' <= 1 + meddled' + Cardinality(Made') * Rounds
    BY DEF Budgeted, Rounds
  <2> QED BY <1>1, <2>2, <2>3, <2>5, <2>6 DEF made
<1> QED BY <1>4, <1>5 DEF Next

\* A call makes at most one connection per attempt, whoever else waits for the
\* lock and however often calls are cancelled or connections lost; told not to
\* reconnect, it makes none.
THEOREM ConnectionsBounded == Spec => []OneConnectionPerAttempt
<1>1. TypedSession /\ TypedSession' /\ InLine /\ Budgeted /\ [Next]_vars => InLine' /\ Budgeted'
  BY BudgetNext DEF TypedSession
<1>2. TypedSession /\ InLine /\ Budgeted /\ Once => OneConnectionPerAttempt
  <2> SUFFICES ASSUME Typed, InLine, Budgeted, Once PROVE OneConnectionPerAttempt
    BY DEF TypedSession
  <2>1. Left \in Nat
    <3>1. CASE queue = <<>>
      BY <3>1 DEF Left
    <3>2. CASE queue # <<>>
      <4>1. Len(queue) - 1 \in Nat /\ Remaining(Head(queue)) \in Nat /\ Rounds \in Nat
        BY <3>2, LineTypes
      <4>2. (Len(queue) - 1) * Rounds \in Nat
        BY <4>1, TimesNext
      <4> QED BY <3>2, <4>1, <4>2 DEF Left
    <3> QED BY <3>1, <3>2
  <2> DEFINE made == Cardinality(Made) * Rounds
  <2>2. /\ nextConn \in Nat /\ meddled \in Nat
        /\ nextConn - 1 + Left <= 1 + meddled + made
    BY LineTypes DEF Budgeted
  <2>3. made \in Nat
    <3>1. Cardinality(Made) \in Nat /\ Rounds \in Nat
      BY LineTypes, FS_CardinalityType DEF Budgeted
    <3> QED BY <3>1, TimesNext
  <2> HIDE DEF made
  <2>4. nextConn - 1 <= 1 + meddled + made
    BY <2>1, <2>2, <2>3
  <2>5. CASE reconnect
    BY <2>4, <2>5 DEF OneConnectionPerAttempt, made, Made, Rounds
  <2>6. CASE ~reconnect
    BY <2>2, <2>6 DEF OneConnectionPerAttempt, Once, Typed, NetTypes
  <2> QED BY <2>5, <2>6
<1> QED BY <1>1, <1>2, BudgetFirst, TypedAlways, OnceAlways, PTL DEF Spec
-----------------------------------------------------------------------------
(* The lock.                                                               *)

LEMMA BudgetAlways == Spec => [](TypedSession /\ InLine /\ Budgeted)
<1>1. TypedSession /\ TypedSession' /\ InLine /\ Budgeted /\ [Next]_vars => InLine' /\ Budgeted'
  BY BudgetNext DEF TypedSession
<1> QED BY <1>1, BudgetFirst, TypedAlways, PTL DEF Spec

\* Whoever is in a call is in line.
Waiting == \A t \in Tasks : pc[t] # "idle" => \E i \in 1 .. Len(queue) : queue[i] = t

LEMMA RemovedIsIdle ==
  ASSUME Typed, Waiting, NEW i \in 1 .. Len(queue), Removes(i),
         pc' = [pc EXCEPT ![queue[i]] = "idle"]
  PROVE  Waiting'
<1> DEFINE n == Len(queue)
<1>1. n \in Nat /\ i \in Nat /\ pc \in [Tasks -> Labels]
  BY LineTypes DEF Typed, TaskTypes
<1>2. Len(queue') = n - 1 /\ \A k \in 1 .. n - 1 : queue'[k] = queue[IF k < i THEN k ELSE k + 1]
  BY DEF Removes
<1>3. ASSUME NEW u \in Tasks, pc'[u] # "idle"
      PROVE  \E k \in 1 .. Len(queue') : queue'[k] = u
  <2>1. PICK j \in 1 .. n : queue[j] = u
    BY <1>1, <1>3 DEF Waiting
  <2>2. j # i
    BY <1>1, <1>3, <2>1
  <2> DEFINE k == IF j < i THEN j ELSE j - 1
  <2>3. k \in 1 .. n - 1 /\ (IF k < i THEN k ELSE k + 1) = j
    BY <1>1, <2>2
  <2> HIDE DEF k, n
  <2> QED BY <1>2, <2>1, <2>3
<1> QED BY <1>3 DEF Waiting

LEMMA TaskWaits ==
  ASSUME Typed, Waiting, NEW t \in Tasks,
         Call(t) \/ ClientStep(t) \/ Drained(t) \/ Cancelled(t)
  PROVE  Waiting'
<1>0. /\ queue \in Seq(Tasks) /\ Len(queue) \in Nat /\ pc \in [Tasks -> Labels]
      /\ DOMAIN queue = 1 .. Len(queue)
  BY LineTypes DEF Typed, TaskTypes
<1>1. ASSUME queue' = queue, NEW label, pc' = [pc EXCEPT ![t] = label], pc[t] # "idle"
      PROVE  Waiting'
  BY <1>0, <1>1 DEF Waiting
<1>2. CASE Call(t)
  <2>1. queue' = Append(queue, t) /\ pc' = [pc EXCEPT ![t] = "ensure"]
    BY <1>2 DEF Call
  <2>2. /\ Len(queue') = Len(queue) + 1 /\ queue'[Len(queue) + 1] = t
        /\ \A k \in 1 .. Len(queue) : queue'[k] = queue[k]
    BY <1>0, <2>1, AppendProperties
  <2>3. ASSUME NEW u \in Tasks, pc'[u] # "idle"
        PROVE  \E k \in 1 .. Len(queue') : queue'[k] = u
    <3>1. CASE u = t
      BY <1>0, <2>2, <3>1
    <3>2. CASE u # t
      <4>1. PICK k \in 1 .. Len(queue) : queue[k] = u
        BY <1>0, <2>1, <2>3, <3>2 DEF Waiting
      <4> QED BY <1>0, <2>2, <4>1
    <3> QED BY <3>1, <3>2
  <2> QED BY <2>3 DEF Waiting
<1>3. CASE Cancelled(t)
  <2>1. PICK i \in DOMAIN queue :
          queue[i] = t /\ queue' = SubSeq(queue, 1, i - 1) \o SubSeq(queue, i + 1, Len(queue))
    BY <1>3 DEF Cancelled
  <2>2. i \in 1 .. Len(queue) /\ Removes(i)
    BY <1>0, <2>1, CutRemoves
  <2>3. pc' = [pc EXCEPT ![queue[i]] = "idle"]
    BY <1>3, <2>1 DEF Cancelled
  <2> QED BY <2>2, <2>3, RemovedIsIdle
<1>4. CASE Stops(t)
  <2>1. /\ Holds(t) /\ pc[t] # "idle" /\ queue # <<>>
        /\ \/ queue' = Tail(queue) /\ pc' = [pc EXCEPT ![t] = "idle"]
           \/ queue' = queue /\ pc' = [pc EXCEPT ![t] = "sleep"]
    BY <1>4 DEF Stops, Ends, Pauses, Holds
  <2>2. CASE queue' = Tail(queue) /\ pc' = [pc EXCEPT ![t] = "idle"]
    <3>1. 1 \in 1 .. Len(queue) /\ queue[1] = t
      BY <1>0, <2>1, LineTypes DEF Holds
    <3>2. Removes(1)
      BY <2>1, <2>2, EndsRemoves
    <3> QED BY <2>2, <3>1, <3>2, RemovedIsIdle
  <2> QED BY <1>1, <2>1, <2>2
<1>5. CASE Advances(t) \/ Writing(t) \/ Connects(t) \/ Wakes(t)
  <2>1. queue' = queue /\ pc[t] # "idle" /\ \E label : pc' = [pc EXCEPT ![t] = label]
    BY <1>5 DEF Advances, Writing, Writes, Connects, Wakes, Moves, At, clientVars
  <2> QED BY <1>1, <2>1
<1> QED BY <1>2, <1>3, <1>4, <1>5, TaskStep

LEMMA WaitingNext == Typed /\ IInv /\ Waiting /\ [Next]_vars => Waiting'
<1> SUFFICES ASSUME Typed, IInv, Waiting, [Next]_vars PROVE Waiting'
  OBVIOUS
<1>1. CASE ServerStep \/ Meddling \/ UNCHANGED vars
  <2>1. UNCHANGED <<queue, pc>>
    <3>1. CASE ServerStep
      BY <3>1, ServerKeepsNet DEF Typed, IInv, clientVars, taskVars
    <3>2. CASE Meddling
      BY <3>2 DEF Meddling, CloseBegins, CloseEnds, CloseCancelled, ConnectsAnew, taskVars
    <3> QED BY <1>1, <3>1, <3>2 DEF vars, clientVars, taskVars
  <2> QED BY <2>1 DEF Waiting
<1> QED BY <1>1, TaskWaits DEF Next

\* The lock goes from call to call: it is never held by, and never waits for, a
\* task that is in none, wherever calls fail or are cancelled.
THEOREM LockStaysInUse == Spec => []LockPassedOn
<1>1. Init => Waiting
  BY DEF Init, Waiting
<1>2. TypedSession /\ Waiting /\ [Next]_vars => Waiting'
  BY WaitingNext DEF TypedSession
<1>3. TypedSession /\ InLine /\ Waiting => LockPassedOn
  <2> SUFFICES ASSUME Typed, InLine, Waiting PROVE LockPassedOn
    BY DEF TypedSession
  <2>1. DOMAIN queue = 1 .. Len(queue) /\ \A i \in 1 .. Len(queue) : queue[i] \in Tasks
    BY LineTypes
  <2> QED BY <2>1 DEF InLine, Waiting, LockPassedOn
<1> QED BY <1>1, <1>2, <1>3, BudgetAlways, PTL DEF Spec
-----------------------------------------------------------------------------
(* The steps of a call.                                                    *)

LEMMA PlaceIs ==
  /\ \A label \in Labels \ {"idle"} : Place[label] \in 1 .. 7
  /\ Place["sleep"] = 1 /\ Place["body"] = 2 /\ Place["header"] = 3 /\ Place["drain"] = 4
  /\ Place["send"] = 5 /\ Place["connect"] = 6 /\ Place["ensure"] = 7
BY DEF Place, Labels

\* A call that is in progress has a step left, and a call that is over has none.
LEMMA StepsLeftIs ==
  ASSUME Typed, NEW t \in Tasks
  PROVE  /\ StepsLeft(t) \in Nat
         /\ pc[t] = "idle" => StepsLeft(t) = 0
         /\ pc[t] # "idle" => StepsLeft(t) >= 1
<1>1. /\ MaxRetries \in Nat /\ attempt[t] \in 0 .. MaxRetries /\ pc[t] \in Labels
  BY SessionAssumption DEF Typed, TaskTypes
<1> QED BY <1>1, PlaceIs DEF StepsLeft

LEMMA StepsLeftNext ==
  ASSUME Typed', NEW t \in Tasks
  PROVE  StepsLeft(t)' \in Nat
<1>1. /\ MaxRetries \in Nat /\ attempt'[t] \in 0 .. MaxRetries /\ pc'[t] \in Labels
  BY SessionAssumption DEF Typed, TaskTypes
<1> QED BY <1>1, PlaceIs DEF StepsLeft

LEMMA OwnStep ==
  ASSUME Typed, NEW t \in Tasks, ClientStep(t) \/ Drained(t)
  PROVE  StepsLeft(t)' < StepsLeft(t)
<1>1. /\ MaxRetries \in Nat /\ attempt[t] \in 0 .. MaxRetries /\ pc[t] \in Labels
      /\ pc \in [Tasks -> Labels] /\ attempt \in [Tasks -> 0 .. MaxRetries]
      /\ pc[t] = "sleep" => attempt[t] < MaxRetries
  BY SessionAssumption DEF Typed, TaskTypes, TaskDiscipline
<1>2. PICK left \in Nat : left = StepsLeft(t)
  BY StepsLeftIs
<1>3. ASSUME pc[t] # "idle", NEW label \in Labels \ {"idle"}, pc' = [pc EXCEPT ![t] = label],
             attempt' = attempt, Place[label] < Place[pc[t]]
      PROVE  StepsLeft(t)' < StepsLeft(t)
  <2>1. pc'[t] = label /\ attempt'[t] = attempt[t]
    BY <1>1, <1>3
  <2> QED BY <1>1, <1>3, <2>1, PlaceIs DEF StepsLeft
<1>4. CASE Stops(t)
  <2>1. CASE \E how : Ends(t, how)
    <3>1. pc[t] # "idle" /\ pc'[t] = "idle"
      BY <1>1, <1>4, <2>1 DEF Stops, Ends
    <3> QED BY <3>1, StepsLeftIs DEF StepsLeft
  <2>2. CASE Pauses(t)
    <3>1. /\ pc' = [pc EXCEPT ![t] = "sleep"] /\ attempt' = attempt
          /\ pc[t] \in Labels \ {"idle", "sleep"}
      BY <1>4, <2>2 DEF Stops, Pauses
    <3>2. Place["sleep"] < Place[pc[t]]
      BY <3>1, PlaceIs DEF Labels
    <3> QED BY <1>3, <3>1, <3>2 DEF Labels
  <2> QED BY <1>4, <2>1, <2>2 DEF Stops
<1>5. CASE Advances(t)
  <2>1. PICK label \in Labels :
          /\ Moves(t, label)
          /\ <<pc[t], label>> \in {<<"ensure", "send">>, <<"ensure", "connect">>,
                                   <<"drain", "header">>, <<"header", "body">>}
    BY <1>5 DEF Advances
  <2>2. pc[t] # "idle" /\ label # "idle" /\ Place[label] < Place[pc[t]]
    BY <2>1, PlaceIs
  <2> QED BY <1>3, <2>1, <2>2 DEF Moves
<1>6. CASE Writing(t)
  <2>1. PICK label \in {"header", "drain"} : pc[t] = "send" /\ Moves(t, label)
    BY <1>6 DEF Writing, Writes, At
  <2>2. label \in Labels \ {"idle"} /\ Place[label] < Place[pc[t]]
    BY <2>1, PlaceIs DEF Labels
  <2> QED BY <1>3, <2>1, <2>2 DEF Moves
<1>7. CASE Connects(t)
  <2>1. pc[t] = "connect" /\ pc' = [pc EXCEPT ![t] = "send"] /\ attempt' = attempt
    BY <1>7 DEF Connects, At
  <2>2. "send" \in Labels \ {"idle"} /\ Place["send"] < Place[pc[t]]
    BY <2>1, PlaceIs DEF Labels
  <2> QED BY <1>3, <2>1, <2>2
\* A new round costs one attempt.
<1>8. CASE Wakes(t)
  <2>1. pc[t] = "sleep" /\ pc'[t] = "ensure" /\ attempt'[t] = attempt[t] + 1
    BY <1>1, <1>8 DEF Wakes, At
  <2> QED BY <1>1, <2>1, PlaceIs DEF StepsLeft
<1> QED BY <1>4, <1>5, <1>6, <1>7, <1>8, StepShape

\* A call takes at most seven steps in each of its max_retries + 1 rounds, and
\* what others do gives it no more: with the lock's, this is the part of
\* CallsReturn that needs no fairness.
THEOREM CallsRunOut == Spec => StepsRunOut
<1>1. ASSUME Typed, Typed', IInv, [Next]_vars, NEW t \in Tasks
      PROVE  /\ ClientStep(t) => StepsLeft(t)' < StepsLeft(t)
             /\ pc[t] # "idle" => StepsLeft(t)' \in 0 .. StepsLeft(t)
  <2>1. StepsLeft(t) \in Nat /\ StepsLeft(t)' \in Nat
    BY <1>1, StepsLeftIs, StepsLeftNext
  <2>2. ClientStep(t) \/ Drained(t) => StepsLeft(t)' < StepsLeft(t)
    BY <1>1, OwnStep
  <2>3. CASE StepsLeft(t)' <= StepsLeft(t)
    BY <2>1, <2>2, <2>3
  <2>4. CASE UNCHANGED <<pc[t], attempt[t]>>
    <3>1. StepsLeft(t)' = StepsLeft(t)
      BY <2>4 DEF StepsLeft
    <3> QED BY <2>1, <2>3, <3>1
  <2>5. CASE Cancelled(t)
    <3>1. StepsLeft(t)' = 0
      BY <1>1, <2>5 DEF Cancelled, Typed, TaskTypes, StepsLeft
    <3> QED BY <2>1, <2>3, <3>1
  <2>6. CASE ClientStep(t) \/ Drained(t)
    BY <2>1, <2>2, <2>3, <2>6
  <2>7. CASE Call(t)
    <3>1. pc[t] = "idle"
      BY <2>7 DEF Call
    <3> QED BY <2>2, <3>1
  <2>8. ASSUME NEW u \in Tasks \ {t},
               Call(u) \/ ClientStep(u) \/ Drained(u) \/ Cancelled(u)
        PROVE  UNCHANGED <<pc[t], attempt[t]>>
    <3>1. pc \in [Tasks -> Labels] /\ attempt \in [Tasks -> 0 .. MaxRetries] /\ t # u
      BY <1>1, <2>8 DEF Typed, TaskTypes
    <3>2. CASE Stops(u)
      BY <3>1, <3>2 DEF Stops, Ends, Pauses
    <3>3. CASE Advances(u) \/ Writing(u)
      BY <3>1, <3>3 DEF Advances, Moves, Writing, Writes
    <3>4. CASE Connects(u)
      BY <3>1, <3>4 DEF Connects
    <3>5. CASE Wakes(u)
      BY <3>1, <3>5 DEF Wakes
    <3>6. CASE Call(u)
      BY <3>1, <3>6 DEF Call
    <3>7. CASE Cancelled(u)
      BY <3>1, <3>7 DEF Cancelled
    <3> QED BY <1>1, <2>8, <3>2, <3>3, <3>4, <3>5, <3>6, <3>7, TaskStep
  <2>9. CASE ServerStep \/ Meddling \/ UNCHANGED vars
    <3>1. UNCHANGED taskVars
      BY <1>1, <2>9, ServerKeepsNet DEF Typed, IInv, Meddling, CloseBegins, CloseEnds,
                                        CloseCancelled, ConnectsAnew, vars
    <3> QED BY <2>4, <3>1 DEF taskVars
  <2>10. CASE \E u \in Tasks : Call(u) \/ ClientStep(u) \/ Drained(u) \/ Cancelled(u)
    BY <2>4, <2>5, <2>6, <2>7, <2>8, <2>10
  <2> QED BY <1>1, <2>9, <2>10 DEF Next
<1>2. TypedSession /\ TypedSession' /\ [Next]_vars =>
        [\A t \in Tasks :
           /\ ClientStep(t) => StepsLeft(t)' < StepsLeft(t)
           /\ pc[t] # "idle" => StepsLeft(t)' \in 0 .. StepsLeft(t)]_vars
  BY <1>1 DEF TypedSession
<1> QED BY <1>2, TypedAlways, PTL DEF Spec, StepsRunOut
=============================================================================
