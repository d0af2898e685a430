----------------------- MODULE VerifierSessionProofs -----------------------
(***************************************************************************)
(* The session of a client and a server, for any number of tasks, calls,   *)
(* retries and connections.                                                *)
(***************************************************************************)
EXTENDS VerifierSession, VerifierServerProofs

\* A task past the lock.
Past(t) == pc[t] \in {"connect", "send", "drain", "header", "body", "sleep"}

\* Where a task has a connection in its hands.
Using == {"send", "drain", "header", "body"}

Ways == [how : Errors \cup {"none", "returned"}, reply : Replies]

\* TypeOK, the tasks' part and the connections' part.
TaskTypes ==
  /\ connected \in BOOLEAN
  /\ queue \in Seq(Tasks)
  /\ pc \in [Tasks -> Labels]
  /\ kind \in [Tasks -> Methods]
  /\ calls \in [Tasks -> 0 .. MaxCalls]
  /\ attempt \in [Tasks -> 0 .. MaxRetries]
  /\ outcome \in [Tasks -> Ways]

\* What the code's structure guarantees of the tasks: only the holder of the
\* lock is past it, a call in progress has a number, and a pause is followed by
\* an attempt that is left.
TaskDiscipline ==
  /\ \A t \in Tasks : Past(t) => Holds(t)
  /\ \A t \in Tasks : pc[t] # "idle" => calls[t] \in 1 .. MaxCalls
  /\ \A t \in Tasks : pc[t] = "sleep" => attempt[t] < MaxRetries

NetTypes ==
  /\ cur \in Conns \cup {0} /\ stream \in Conns \cup {0} /\ closing \in Conns \cup {0}
  /\ nextConn \in 1 .. MaxConns + 1
  /\ meddled \in 0 .. MaxMeddles
  /\ connects \in 0 .. meddled + 1
  /\ link \in [Conns -> {"unused", "open", "eof", "reset", "closed", "left"}]
  /\ toServer \in [Conns -> Seq(Requests)]
  /\ toClient \in [Conns -> Seq(Replies)]
  /\ torn \in [Conns -> BOOLEAN]
  /\ serverUp \in BOOLEAN

\* Whoever sends or reads has a connection, and whoever reads a payload has
\* read its header.
NetDiscipline ==
  /\ \A t \in Tasks : pc[t] \in Using => stream \in Conns
  /\ \A t \in Tasks : pc[t] = "body" => toClient[stream] # <<>>

Given == reconnect \in Reconnects /\ oversized \subseteq Large

Typed == Given /\ TaskTypes /\ TaskDiscipline /\ NetTypes /\ NetDiscipline

LEMMA TypedFirst == Init => Typed
<1> SUFFICES ASSUME Init PROVE Typed
  OBVIOUS
<1>1. /\ cur \in Conns \cup {0} /\ nextConn \in 1 .. MaxConns + 1
      /\ stream = 0 /\ closing = 0 /\ meddled \in 0 .. MaxMeddles
      /\ connects \in 0 .. meddled + 1
  BY SessionAssumption DEF Init, Conns
<1>2. queue \in Seq(Tasks)
  BY DEF Init
<1>3. outcome \in [Tasks -> Ways]
  BY DEF Init, Raised, Reply, Replies, Errors, Ways
<1>4. toServer \in [Conns -> Seq(Requests)] /\ toClient \in [Conns -> Seq(Replies)]
  BY DEF Init
<1>5. TaskTypes
  BY <1>2, <1>3, SessionAssumption DEF Init, TaskTypes, Methods, Labels
<1>6. NetTypes
  BY <1>1, <1>4 DEF Init, NetTypes
<1>7. Given
  BY DEF Init, Given
<1>8. TaskDiscipline /\ NetDiscipline
  BY DEF Init, TaskDiscipline, NetDiscipline, Past, Using
<1> QED BY <1>5, <1>6, <1>7, <1>8 DEF Typed

LEMMA TypedIsTypeOK == Typed => TypeOK
<1> SUFFICES ASSUME Typed PROVE TypeOK
  OBVIOUS
<1>1. connects \in 0 .. MaxMeddles + 1
  BY SessionAssumption DEF Typed, NetTypes
<1> QED BY <1>1 DEF Typed, Given, TaskTypes, NetTypes, TypeOK, Ways
-----------------------------------------------------------------------------
(* The steps of the client, on the tasks.                                  *)

LEMMA MovesKeeps ==
  ASSUME TaskTypes, TaskDiscipline, NEW t \in Tasks, Holds(t), pc[t] # "idle",
         NEW label \in Labels \ {"idle", "sleep"}, pc' = [pc EXCEPT ![t] = label],
         UNCHANGED <<queue, kind, calls, attempt, outcome>>, connected' \in BOOLEAN
  PROVE  TaskTypes' /\ TaskDiscipline'
BY DEF TaskTypes, TaskDiscipline, Past, Holds, Labels

LEMMA EndsKeeps ==
  ASSUME TaskTypes, TaskDiscipline, NEW t \in Tasks, Holds(t),
         NEW how \in Ways, Ends(t, how),
         connected' \in BOOLEAN
  PROVE  TaskTypes' /\ TaskDiscipline'
<1>1. queue' \in Seq(Tasks)
  BY DEF Ends, TaskTypes, Holds
<1>2. TaskTypes'
  BY <1>1 DEF Ends, TaskTypes, Labels
<1>3. TaskDiscipline'
  BY DEF Ends, TaskTypes, TaskDiscipline, Past, Holds
<1> QED BY <1>2, <1>3

LEMMA RaisedType ==
  ASSUME NEW error \in Errors
  PROVE  Raised(error) \in Ways
BY DEF Raised, Reply, Replies, Ways

LEMMA FailsKeeps ==
  ASSUME TaskTypes, TaskDiscipline, NEW t \in Tasks, Holds(t), pc[t] # "idle",
         NEW error \in Errors, Fails(t, error)
  PROVE  TaskTypes' /\ TaskDiscipline'
<1>1. "TransportError" \in Errors
  BY DEF Errors
<1>2. CASE kind[t] = "verify" /\ attempt[t] < MaxRetries
  BY <1>2 DEF Fails, Pauses, TaskTypes, TaskDiscipline, Past, Holds, Labels
<1>3. CASE kind[t] = "verify" /\ ~(attempt[t] < MaxRetries)
  BY <1>1, <1>3, RaisedType, EndsKeeps DEF Fails
<1>4. CASE kind[t] # "verify"
  BY <1>4, RaisedType, EndsKeeps DEF Fails, TaskTypes
<1> QED BY <1>2, <1>3, <1>4

\* The task's method ends, moves on or pauses.
LEMMA MovesTask ==
  ASSUME TaskTypes, TaskDiscipline, NEW t \in Tasks, Holds(t), pc[t] # "idle",
         NEW label \in Labels \ {"idle", "sleep"}, Moves(t, label)
  PROVE  TaskTypes' /\ TaskDiscipline'
<1>1. connected' \in BOOLEAN
  BY DEF Moves, TaskTypes
<1> QED BY <1>1, MovesKeeps DEF Moves

LEMMA CallKeeps ==
  ASSUME TaskTypes, TaskDiscipline, NEW t \in Tasks, Call(t)
  PROVE  TaskTypes' /\ TaskDiscipline'
<1>1. queue' = Append(queue, t) /\ queue \in Seq(Tasks)
  BY DEF Call, TaskTypes
<1>2. queue' \in Seq(Tasks) /\ (queue # <<>> => Head(queue') = Head(queue)) /\ queue' # <<>>
  BY <1>1, AppendProperties, HeadTailAppend
<1>3. /\ pc' = [pc EXCEPT ![t] = "ensure"] /\ pc[t] = "idle"
      /\ calls' = [calls EXCEPT ![t] = calls[t] + 1] /\ calls[t] < MaxCalls
      /\ attempt' = [attempt EXCEPT ![t] = 0]
      /\ outcome' = outcome /\ connected' = connected
  BY DEF Call
<1>4. kind' \in [Tasks -> Methods]
  BY SessionAssumption DEF Call, TaskTypes
<1>5. TaskTypes'
  <2>1. calls' \in [Tasks -> 0 .. MaxCalls] /\ attempt' \in [Tasks -> 0 .. MaxRetries]
    BY <1>3, SessionAssumption DEF TaskTypes
  <2> QED BY <1>2, <1>3, <1>4, <2>1 DEF TaskTypes, Labels
<1>6. ASSUME NEW u \in Tasks, Past(u)' PROVE Holds(u)'
  BY <1>2, <1>3, <1>6 DEF TaskTypes, TaskDiscipline, Past, Holds
<1>7. \A u \in Tasks : pc'[u] # "idle" => calls'[u] \in 1 .. MaxCalls
  BY <1>3, SessionAssumption DEF TaskTypes, TaskDiscipline
<1>8. \A u \in Tasks : pc'[u] = "sleep" => attempt'[u] < MaxRetries
  BY <1>3 DEF TaskTypes, TaskDiscipline
<1> QED BY <1>5, <1>6, <1>7, <1>8 DEF TaskDiscipline

LEMMA HeadIsFirst ==
  ASSUME NEW S, NEW s \in Seq(S), s # <<>>
  PROVE  Head(s) = s[1]
OBVIOUS

LEMMA NotEmpty ==
  ASSUME NEW s, Len(s) >= 1
  PROVE  s # <<>>
<1>1. Len(<<>>) = 0
  BY EmptySeq
<1> QED BY <1>1

LEMMA JoinedHead ==
  ASSUME NEW S, NEW a \in Seq(S), NEW b \in Seq(S), a # <<>>
  PROVE  a \o b # <<>> /\ Head(a \o b) = Head(a)
<1> DEFINE c == a \o b
<1>1. Len(a) \in Nat \ {0} /\ Len(b) \in Nat
  BY EmptySeq, LenProperties
<1>2. c \in Seq(S) /\ Len(c) >= 1 /\ c[1] = a[1]
  BY <1>1, ConcatProperties
<1> HIDE DEF c
<1>3. c # <<>>
  BY <1>2, NotEmpty
<1>4. Head(c) = Head(a)
  BY <1>2, <1>3, HeadIsFirst
<1> QED BY <1>3, <1>4 DEF c

\* A waiter other than the first leaves the queue and the first stays.
LEMMA LeavesQueue ==
  ASSUME NEW S, NEW s \in Seq(S), NEW i \in 1 .. Len(s), NEW r,
         r = SubSeq(s, 1, i - 1) \o SubSeq(s, i + 1, Len(s))
  PROVE  r \in Seq(S) /\ (i # 1 => r # <<>> /\ Head(r) = Head(s))
<1> DEFINE before == SubSeq(s, 1, i - 1)
           after == SubSeq(s, i + 1, Len(s))
<1>1. /\ Len(s) \in Nat /\ i - 1 \in Int /\ i + 1 \in Int
      /\ \A k \in 1 .. Len(s) : s[k] \in S
  BY LenProperties, ElementOfSeq
<1>2. /\ before \in Seq(S)
      /\ Len(before) = IF 1 <= i - 1 THEN i - 1 ELSE 0
      /\ \A k \in 1 .. i - 1 : before[k] = s[k]
  <2> DEFINE n == i - 1
  <2>1. 1 \in Int /\ n \in Int /\ \A k \in 1 .. n : s[k] \in S
    BY <1>1
  <2> HIDE DEF n
  <2>2. /\ SubSeq(s, 1, n) \in Seq(S)
        /\ Len(SubSeq(s, 1, n)) = IF 1 <= n THEN n - 1 + 1 ELSE 0
        /\ \A k \in 1 .. n - 1 + 1 : SubSeq(s, 1, n)[k] = s[1 + k - 1]
    BY <2>1, SubSeqProperties
  <2> QED BY <2>2, <1>1 DEF n
<1>3. after \in Seq(S)
  <2> DEFINE m == i + 1
             n == Len(s)
  <2>1. m \in Int /\ n \in Int /\ \A k \in m .. n : s[k] \in S
    BY <1>1
  <2> HIDE DEF m, n
  <2>2. SubSeq(s, m, n) \in Seq(S)
    BY <2>1, SubSeqProperties
  <2> QED BY <2>2 DEF m, n
<1>4. ASSUME i # 1 PROVE s # <<>> /\ before # <<>> /\ Head(before) = Head(s)
  <2>1. Len(s) >= 1 /\ Len(before) >= 1 /\ before[1] = s[1]
    BY <1>1, <1>2, <1>4
  <2>2. s # <<>> /\ before # <<>>
    BY <2>1, NotEmpty
  <2> QED BY <2>1, <2>2, <1>2, HeadIsFirst
<1> HIDE DEF before, after
<1>5. r = before \o after
  BY DEF before, after
<1>6. r \in Seq(S)
  BY <1>2, <1>3, <1>5, ConcatProperties
<1>7. ASSUME i # 1 PROVE r # <<>> /\ Head(r) = Head(s)
  <2>1. before # <<>> /\ Head(before) = Head(s)
    BY <1>4, <1>7
  <2>2. before \o after # <<>> /\ Head(before \o after) = Head(before)
    BY <1>2, <1>3, <2>1, JoinedHead
  <2> QED BY <1>5, <2>1, <2>2
<1> QED BY <1>6, <1>7

LEMMA CancelledKeeps ==
  ASSUME TaskTypes, TaskDiscipline, NEW t \in Tasks, Cancelled(t)
  PROVE  TaskTypes' /\ TaskDiscipline'
<1>1. PICK i \in DOMAIN queue :
        queue[i] = t /\ queue' = SubSeq(queue, 1, i - 1) \o SubSeq(queue, i + 1, Len(queue))
  BY DEF Cancelled
<1>2. queue \in Seq(Tasks) /\ i \in 1 .. Len(queue) /\ Len(queue) \in Nat
  BY <1>1, LenProperties DEF TaskTypes
<1>3. queue' \in Seq(Tasks) /\ (i # 1 => queue' # <<>> /\ Head(queue') = Head(queue))
  BY <1>1, <1>2, LeavesQueue
<1>5. "CancelledError" \in Errors
  BY DEF Errors
<1>6. TaskTypes'
  BY <1>3, <1>5, RaisedType DEF Cancelled, TaskTypes, Labels
<1>7. ASSUME NEW u \in Tasks, Past(u)' PROVE Holds(u)'
  <2>1. u # t /\ Past(u)
    BY <1>7 DEF Cancelled, Past, TaskTypes
  <2>2. Holds(u)
    BY <2>1 DEF TaskDiscipline
  <2>3. i # 1
    BY <1>1, <1>2, <2>1, <2>2 DEF Holds
  <2> QED BY <2>2, <2>3, <1>3 DEF Holds
<1>8. TaskDiscipline'
  BY <1>7 DEF TaskDiscipline, Cancelled, TaskTypes
<1> QED BY <1>6, <1>8
-----------------------------------------------------------------------------
(* The steps of the client, on the connections.                            *)

\* Nobody has a connection in his hands after the step.
NoOneUses == stream' = 0 /\ \A u \in Tasks : pc'[u] \notin Using

\* Whoever has one after the step had it before.
NoOneStarts == stream' = stream /\ \A u \in Tasks : pc'[u] \in Using => pc'[u] = pc[u]

LEMMA EndsFrees ==
  ASSUME TaskTypes, TaskDiscipline, NEW t \in Tasks, Holds(t), NEW how, Ends(t, how)
  PROVE  NoOneUses
BY DEF Ends, TaskTypes, TaskDiscipline, Past, Holds, Using, NoOneUses

LEMMA FailsFrees ==
  ASSUME TaskTypes, TaskDiscipline, NEW t \in Tasks, Holds(t), NEW error, Fails(t, error)
  PROVE  NoOneUses
<1>1. CASE Pauses(t)
  BY <1>1 DEF Pauses, TaskTypes, TaskDiscipline, Past, Holds, Using, NoOneUses
<1> QED BY <1>1, EndsFrees DEF Fails

\* The types of the links.
Links == [Conns -> {"unused", "open", "eof", "reset", "closed", "left"}]

LEMMA QuietKeepsNet ==
  ASSUME NetTypes, NetDiscipline, NoOneStarts \/ NoOneUses, UNCHANGED connVars,
         serverUp' = serverUp, UNCHANGED <<toServer, toClient, torn>>, link' \in Links
  PROVE  NetTypes' /\ NetDiscipline'
<1>1. CASE NoOneStarts
  BY <1>1 DEF NetTypes, NetDiscipline, NoOneStarts, connVars, Links, Using
<1>2. CASE NoOneUses
  BY <1>2 DEF NetTypes, NetDiscipline, NoOneUses, connVars, Links, Using
<1> QED BY <1>1, <1>2

Client == TaskTypes' /\ TaskDiscipline' /\ NetTypes' /\ NetDiscipline'

\* The steps that end in an exception and change a connection's link at most.
LEMMA Failure ==
  ASSUME Typed, NEW t \in Tasks, Holds(t), pc[t] # "idle", NEW error \in Errors,
         Fails(t, error) \/ Escapes(t, error), UNCHANGED connVars, serverUp' = serverUp,
         UNCHANGED <<toServer, toClient, torn>>,
         link' \in {link, [link EXCEPT ![stream] = "closed"]}
  PROVE  Client
<1>1. link' \in Links
  BY DEF Typed, NetTypes, Links
<1>2. connected \in BOOLEAN
  BY DEF Typed, TaskTypes
<1>3. TaskTypes' /\ TaskDiscipline' /\ NoOneUses
  BY <1>2, FailsKeeps, EndsKeeps, RaisedType, FailsFrees, EndsFrees DEF Typed, Escapes
<1> QED BY <1>1, <1>3, QuietKeepsNet DEF Typed, Client

LEMMA ClientKeeps ==
  ASSUME Typed, NEW t \in Tasks,
         Call(t) \/ ClientStep(t) \/ Drained(t) \/ Cancelled(t)
  PROVE  Client
<1>1. /\ TaskTypes /\ TaskDiscipline /\ NetTypes /\ NetDiscipline
      /\ {"TransportError", "TimeoutError", "ConnectionError", "IncompleteReadError",
          "KeyError", "AttributeError"} \subseteq Errors
      /\ connected \in BOOLEAN /\ link \in Links
  BY DEF Typed, Errors, TaskTypes, NetTypes, Links
<1>2. CASE Call(t)
  <2>1. NoOneStarts /\ UNCHANGED connVars /\ serverUp' = serverUp /\ UNCHANGED netVars
    BY <1>1, <1>2 DEF Call, NoOneStarts, TaskTypes, Using
  <2> QED BY <1>1, <1>2, <2>1, CallKeeps, QuietKeepsNet DEF Client, netVars
<1>3. CASE Cancelled(t)
  <2>1. NoOneStarts \/ NoOneUses
    BY <1>1, <1>3
       DEF Cancelled, NoOneStarts, NoOneUses, TaskTypes, TaskDiscipline, Past, Holds, Using
  <2>2. UNCHANGED connVars /\ serverUp' = serverUp /\ UNCHANGED netVars
    BY <1>3 DEF Cancelled
  <2> QED BY <1>1, <1>3, <2>1, <2>2, CancelledKeeps, QuietKeepsNet DEF Client, netVars
<1>4. CASE EnsureReuses(t)
  <2>1. TaskTypes' /\ TaskDiscipline'
    BY <1>1, <1>4, MovesTask DEF EnsureReuses, At, Labels
  <2>2. pc'[t] = "send" /\ stream' \in Conns /\ \A u \in Tasks : pc'[u] # "body"
    BY <1>1, <1>4 DEF EnsureReuses, MayReuse, At, Moves, NetTypes, TaskTypes, TaskDiscipline,
                      Past, Holds
  <2>3. UNCHANGED connVars /\ UNCHANGED netVars /\ serverUp' = serverUp
    BY <1>4 DEF EnsureReuses
  <2>4. NetTypes' /\ NetDiscipline'
    BY <1>1, <2>2, <2>3 DEF NetTypes, NetDiscipline, netVars, connVars
  <2> QED BY <2>1, <2>4 DEF Client
<1>5. CASE EnsureRefuses(t) \/ ConnectFails(t)
  BY <1>1, <1>5, Failure DEF EnsureRefuses, ConnectFails, At, netVars
<1>14. CASE EnsureReconnects(t)
  <2>1. TaskTypes' /\ TaskDiscipline'
    BY <1>1, <1>14, MovesTask DEF EnsureReconnects, At, Labels
  <2>2. NoOneStarts /\ UNCHANGED connVars /\ serverUp' = serverUp /\ UNCHANGED netVars
    BY <1>1, <1>14 DEF EnsureReconnects, Moves, NoOneStarts, TaskTypes, Using
  <2> QED BY <1>1, <2>1, <2>2, QuietKeepsNet DEF Client, netVars
<1>6. CASE Connects(t)
  <2>1. TaskTypes' /\ TaskDiscipline'
    BY <1>1, <1>6, MovesKeeps DEF Connects, Opens, At, Labels
  <2>2. NetTypes' /\ stream' \in Conns
    BY <1>1, <1>6, SessionAssumption DEF Connects, Opens, NetTypes, Conns
  <2>3. NetDiscipline'
    <3>1. \A u \in Tasks : pc'[u] \in Using => u = t /\ pc'[u] = "send"
      BY <1>1, <1>6 DEF Connects, At, Holds, TaskTypes, TaskDiscipline, Past, Using
    <3> QED BY <2>2, <3>1 DEF NetDiscipline, Using
  <2> QED BY <2>1, <2>2, <2>3 DEF Client
<1>7. CASE RequestTooLarge(t) \/ TimesOut(t) \/ ReadsGarbage(t) \/ ReadsEof(t)
  BY <1>1, <1>7, Failure DEF RequestTooLarge, TimesOut, ReadsGarbage, ReadsEof, At, netVars
<1>8. CASE SendFails(t) \/ ReadsReset(t)
  BY <1>1, <1>8, Failure DEF SendFails, ReadsReset, At
<1>9. CASE Sends(t) \/ SendsSlowly(t)
  <2>0. Writes(t) /\ \E label \in {"header", "drain"} : Moves(t, label)
    BY <1>9 DEF Sends, SendsSlowly
  <2>1. TaskTypes' /\ TaskDiscipline'
    BY <1>1, <2>0, MovesTask DEF Writes, At, Labels
  <2>2. Request(t) \in Requests
    BY <1>1, <2>0, SessionAssumption
       DEF Writes, At, Request, Requests, Trace, TaskTypes, TaskDiscipline
  <2>3. toServer' \in [Conns -> Seq(Requests)] /\ stream \in Conns
    <3>1. stream \in Conns /\ toServer[stream] \in Seq(Requests)
      BY <1>1, <2>0 DEF Writes, At, NetDiscipline, NetTypes, Using
    <3>2. Append(toServer[stream], Request(t)) \in Seq(Requests)
      BY <2>2, <3>1, AppendProperties
    <3> QED BY <1>1, <2>0, <3>1, <3>2 DEF Writes, NetTypes
  <2>4. NetTypes'
    BY <1>1, <2>0, <2>3 DEF Writes, NetTypes, connVars
  <2>5. NetDiscipline'
    BY <1>1, <2>0, <2>3 DEF Writes, At, Moves, NetDiscipline, TaskTypes
  <2> QED BY <2>1, <2>4, <2>5 DEF Client
<1>15. CASE Drained(t)
  <2>1. CASE cur # 0 /\ stream' = cur /\ Moves(t, "header")
    <3>1. TaskTypes' /\ TaskDiscipline'
      BY <1>1, <1>15, <2>1, MovesTask DEF Drained, At, Labels
    <3>2. stream' \in Conns /\ \A u \in Tasks : pc'[u] # "body"
      BY <1>1, <1>15, <2>1 DEF Drained, At, Moves, NetTypes, TaskTypes, TaskDiscipline, Past, Holds
    <3>3. UNCHANGED connVars /\ UNCHANGED netVars /\ serverUp' = serverUp
      BY <1>15 DEF Drained
    <3>4. NetTypes' /\ NetDiscipline'
      BY <1>1, <3>2, <3>3 DEF NetTypes, NetDiscipline, netVars, connVars
    <3> QED BY <3>1, <3>4 DEF Client
  <2>2. CASE Escapes(t, "AttributeError")
    BY <1>1, <1>15, <2>2, Failure DEF Drained, At, netVars
  <2> QED BY <1>15, <2>1, <2>2 DEF Drained
<1>10. CASE ReadsHeader(t)
  <2>1. TaskTypes' /\ TaskDiscipline'
    BY <1>1, <1>10, MovesTask DEF ReadsHeader, At, Labels
  <2>2. NetTypes'
    BY <1>1, <1>10 DEF ReadsHeader, NetTypes, connVars
  <2>3. NetDiscipline'
    BY <1>1, <1>10 DEF ReadsHeader, At, Moves, NetDiscipline, TaskTypes, Using
  <2> QED BY <2>1, <2>2, <2>3 DEF Client
<1>11. CASE ReadsBody(t)
  <2> DEFINE reply == Head(toClient[stream])
  <2>1. stream \in Conns /\ toClient[stream] # <<>> /\ toClient[stream] \in Seq(Replies)
    BY <1>1, <1>11 DEF ReadsBody, At, NetDiscipline, NetTypes, Using
  <2>2. reply \in Replies /\ Tail(toClient[stream]) \in Seq(Replies)
    BY <2>1, HeadTailProperties
  <2>3. Returned(reply) \in Ways
    BY <2>2 DEF Returned, Ways
  <2> HIDE DEF reply
  <2>4. Holds(t) /\ pc[t] = "body" /\ ResponseTaken(t, reply)
    BY <1>11 DEF ReadsBody, At, reply
  <2>5. TaskTypes' /\ TaskDiscipline' /\ NoOneUses
    <3>1. CASE Ends(t, Returned(reply)) /\ UNCHANGED connected
      BY <1>1, <2>3, <2>4, <3>1, EndsKeeps, EndsFrees
    <3>2. CASE Fails(t, "TransportError")
      BY <1>1, <2>4, <3>2, FailsKeeps, FailsFrees
    <3>3. CASE Escapes(t, "KeyError")
      BY <1>1, <2>4, <3>3, EndsKeeps, EndsFrees, RaisedType DEF Escapes
    <3> QED BY <2>4, <3>1, <3>2, <3>3 DEF ResponseTaken
  <2>6. NetTypes'
    BY <1>1, <1>11, <2>1, <2>2, <2>5 DEF ReadsBody, NetTypes, NoOneUses, connVars
  <2>7. NetDiscipline'
    BY <2>5 DEF NetDiscipline, NoOneUses, Using
  <2> QED BY <2>5, <2>6, <2>7 DEF Client
<1>13. CASE Wakes(t)
  <2>1. TaskTypes' /\ TaskDiscipline'
    BY <1>1, <1>13, SessionAssumption
       DEF Wakes, At, TaskTypes, TaskDiscipline, Past, Holds, clientVars, Labels
  <2>2. NoOneStarts /\ UNCHANGED connVars /\ serverUp' = serverUp /\ UNCHANGED netVars
    BY <1>1, <1>13 DEF Wakes, NoOneStarts, TaskTypes, clientVars, Using
  <2> QED BY <1>1, <2>1, <2>2, QuietKeepsNet DEF Client, netVars
<1> QED BY <1>2, <1>3, <1>4, <1>5, <1>6, <1>7, <1>8, <1>9, <1>10, <1>11, <1>13, <1>14, <1>15
        DEF ClientStep

\* close() and connect(), whatever a method is waiting for.
LEMMA MeddlingKeeps ==
  ASSUME Typed, Meddling
  PROVE  Client /\ UNCHANGED serverVars
<1>1. /\ TaskTypes /\ TaskDiscipline /\ NetTypes /\ NetDiscipline
      /\ connected \in BOOLEAN /\ link \in Links
  BY DEF Typed, TaskTypes, NetTypes, Links
<1>2. UNCHANGED <<queue, stream>> /\ UNCHANGED taskVars /\ UNCHANGED serverVars
  BY DEF Meddling, CloseBegins, CloseEnds, CloseCancelled, ConnectsAnew
<1>3. connected' \in BOOLEAN
  BY <1>1 DEF Meddling, CloseBegins, CloseEnds, CloseCancelled, ConnectsAnew, Opens
<1>4. TaskTypes' /\ TaskDiscipline'
  BY <1>1, <1>2, <1>3 DEF TaskTypes, TaskDiscipline, Past, Holds, taskVars
<1>5. /\ UNCHANGED <<toServer, toClient, torn, serverUp>>
      /\ link' \in Links
      /\ cur' \in Conns \cup {0} /\ closing' \in Conns \cup {0}
      /\ nextConn' \in 1 .. MaxConns + 1 /\ meddled' \in 0 .. MaxMeddles
      /\ connects' \in 0 .. meddled' + 1
  <2>1. CASE CloseBegins
    <3>1. /\ UNCHANGED <<toServer, toClient, torn, serverUp, cur, nextConn>>
          /\ meddled' \in 0 .. MaxMeddles
          /\ connects' \in 0 .. meddled' + 1
      BY <1>1, <2>1, SessionAssumption DEF CloseBegins, Meddles, NetTypes
    <3>2. link' \in Links
      BY <1>1, <2>1 DEF CloseBegins, Links
    <3>3. closing' \in Conns \cup {0}
      BY <1>1, <2>1 DEF CloseBegins, NetTypes
    <3> QED BY <1>1, <3>1, <3>2, <3>3 DEF NetTypes
  <2>2. CASE CloseEnds
    <3>1. /\ UNCHANGED <<toServer, toClient, torn, serverUp, link, nextConn, meddled, connects>>
          /\ cur' = 0 /\ closing' = 0
      BY <2>2 DEF CloseEnds, netVars
    <3> QED BY <1>1, <3>1 DEF NetTypes
  <2>3. CASE CloseCancelled
    BY <1>1, <2>3 DEF CloseCancelled, netVars, NetTypes
  <2>4. CASE ConnectsAnew
    BY <1>1, <2>4, SessionAssumption DEF ConnectsAnew, Meddles, Opens, Links, NetTypes, Conns
  <2> QED BY <2>1, <2>2, <2>3, <2>4 DEF Meddling
<1>6. NetTypes'
  BY <1>1, <1>2, <1>5 DEF NetTypes, Links
<1>7. NetDiscipline'
  BY <1>1, <1>2, <1>5 DEF NetDiscipline, taskVars
<1> QED BY <1>2, <1>4, <1>6, <1>7 DEF Client
-----------------------------------------------------------------------------
(* The steps of the server.                                                *)

\* Whatever a handler reads is a request for one of the commands.
LEMMA HandlerTakesRequest ==
  ASSUME NetTypes, NEW c \in Conns, HandlerReads(c)
  PROVE  Head(toServer[c]) \in Requests
<1>1. toServer[c] \in Seq(Requests) /\ toServer[c] # <<>>
  BY DEF NetTypes, HandlerReads
<1> QED BY <1>1, HeadTailProperties

LEMMA AnswersKeep ==
  ASSUME NetTypes, NetDiscipline, NEW c \in Conns, HandlerReads(c), NEW reply \in Replies,
         HandlerAnswers(c, reply), UNCHANGED <<clientVars, taskVars>>, serverUp' = serverUp
  PROVE  NetTypes' /\ NetDiscipline'
<1>1. Tail(toServer[c]) \in Seq(Requests)
  BY HeadTailProperties DEF NetTypes, HandlerReads
<1>2. Append(toClient[c], reply) \in Seq(Replies) /\ Append(toClient[c], reply) # <<>>
  <2>1. toClient[c] \in Seq(Replies)
    BY DEF NetTypes
  <2> QED BY <2>1, AppendProperties
<1>3. NetTypes'
  BY <1>1, <1>2 DEF NetTypes, HandlerAnswers, clientVars, connVars
<1>4. NetDiscipline'
  BY <1>2 DEF NetTypes, NetDiscipline, HandlerAnswers, clientVars, taskVars
<1> QED BY <1>3, <1>4

LEMMA ClosesKeep ==
  ASSUME NetTypes, NetDiscipline, NEW c \in Conns, HandlerCloses(c),
         UNCHANGED <<clientVars, taskVars>>, serverUp' = serverUp
  PROVE  NetTypes' /\ NetDiscipline'
<1>1. link' \in Links
  BY DEF HandlerCloses, Broken, NetTypes, Links
<1>2. UNCHANGED <<cur, nextConn, stream, closing, meddled, connects, pc>>
  BY DEF clientVars, connVars, taskVars
<1> QED BY <1>1, <1>2 DEF NetTypes, NetDiscipline, HandlerCloses, Links

LEMMA ServerKeepsNet ==
  ASSUME NetTypes, NetDiscipline, ServerTypeOK, ServerStep
  PROVE  /\ UNCHANGED <<clientVars, taskVars>>
         /\ NetTypes' /\ NetDiscipline'
<1>1. ASSUME NEW c \in Conns, NEW outcomes \in [Rules -> Outcomes], ServesVerify(c, outcomes)
      PROVE  UNCHANGED <<clientVars, taskVars>> /\ NetTypes' /\ NetDiscipline'
  <2> DEFINE cmd == Head(toServer[c]).cmd
             result == Result(cmd, outcomes)
  <2>1. /\ HandlerReads(c) /\ UNCHANGED <<clientVars, taskVars, serverUp>>
        /\ HandlerAnswers(c, Reply("verify", result)) \/ HandlerCloses(c)
    BY <1>1 DEF ServesVerify
  <2>2. cmd \in Commands
    BY <2>1, HandlerTakesRequest DEF Requests
  <2>3. result \in Results
    BY <2>2, ResultType
  <2> HIDE DEF result
  <2>4. Reply("verify", result) \in Replies
    BY <2>3 DEF Reply, Replies, Methods
  <2> QED BY <2>1, <2>4, AnswersKeep, ClosesKeep
<1>2. ASSUME NEW c \in Conns, NEW outcomes \in [Rules -> Outcomes], VerifyFails(c, outcomes)
      PROVE  UNCHANGED <<clientVars, taskVars>> /\ NetTypes' /\ NetDiscipline'
  BY <1>2, ClosesKeep DEF VerifyFails
<1>3. ASSUME NEW c \in Conns, ServesQuery(c)
      PROVE  UNCHANGED <<clientVars, taskVars>> /\ NetTypes' /\ NetDiscipline'
  <2>1. PICK k \in Methods \cup {"error"} : HandlerAnswers(c, Reply(k, NoResult))
    BY <1>3, HandlerTakesRequest DEF ServesQuery, Requests
  <2>2. Reply(k, NoResult) \in Replies
    BY DEF Reply, Replies
  <2> QED BY <1>3, <2>1, <2>2, AnswersKeep DEF ServesQuery
<1>4. CASE Crashes
  <2>1. /\ UNCHANGED <<cur, nextConn, stream, closing, meddled, connects, pc, toClient,
                      torn>>
        /\ serverUp' \in BOOLEAN
    BY <1>4 DEF Crashes, clientVars, connVars, taskVars
  <2>2. link' \in [Conns -> {"unused", "open", "eof", "reset", "closed", "left"}]
    BY <1>4 DEF Crashes, NetTypes
  <2>3. toServer' \in [Conns -> Seq(Requests)]
    BY <1>4 DEF Crashes
  <2> QED BY <1>4, <2>1, <2>2, <2>3 DEF Crashes, NetTypes, NetDiscipline
<1>5. CASE StartsAgain
  BY <1>5 DEF StartsAgain, NetTypes, NetDiscipline, clientVars, connVars, taskVars, netVars
<1> QED BY <1>1, <1>2, <1>3, <1>4, <1>5 DEF ServerStep

LEMMA ServerStepIsServerNext ==
  ASSUME NetTypes, ServerStep
  PROVE  [ServerNext]_serverVars
<1>1. ASSUME NEW c \in Conns, NEW outcomes \in [Rules -> Outcomes],
             ServesVerify(c, outcomes) \/ VerifyFails(c, outcomes)
      PROVE  ServerNext
  <2>1. Head(toServer[c]).cmd \in Commands
    BY <1>1, HandlerTakesRequest DEF ServesVerify, VerifyFails, Requests
  <2> QED BY <1>1, <2>1 DEF ServesVerify, VerifyFails, ServerNext
<1> QED BY <1>1 DEF ServerStep, ServesQuery, Crashes, StartsAgain, ServerNext

LEMMA ClientLeavesServer ==
  ASSUME NEW t \in Tasks,
         Call(t) \/ ClientStep(t) \/ Drained(t) \/ Cancelled(t)
  PROVE  UNCHANGED serverVars
BY DEF Call, Cancelled, ClientStep, EnsureReuses, EnsureRefuses, EnsureReconnects, Connects,
       ConnectFails, RequestTooLarge, Sends, SendsSlowly, Writes, Drained, SendFails, ReadsHeader, ReadsGarbage, ReadsBody, ReadsEof,
       ReadsReset, TimesOut, Wakes
-----------------------------------------------------------------------------
TypedSession == Typed /\ IInv

LEMMA TypedNext == TypedSession /\ [Next]_vars => TypedSession' /\ [ServerNext]_serverVars
<1> SUFFICES ASSUME TypedSession, [Next]_vars
             PROVE  TypedSession' /\ [ServerNext]_serverVars
  OBVIOUS
<1>1. Given'
  BY DEF TypedSession, Typed, Given, Next, vars, givenVars
<1>2. /\ TaskTypes' /\ TaskDiscipline' /\ NetTypes' /\ NetDiscipline'
      /\ [ServerNext]_serverVars
  <2>1. ASSUME NEW t \in Tasks,
               Call(t) \/ ClientStep(t) \/ Drained(t) \/ Cancelled(t)
        PROVE  Client /\ UNCHANGED serverVars
    BY <2>1, ClientKeeps, ClientLeavesServer DEF TypedSession
  <2>2. CASE ServerStep
    <3>1. NetTypes' /\ NetDiscipline' /\ UNCHANGED <<clientVars, taskVars>>
      BY <2>2, ServerKeepsNet DEF TypedSession, Typed, IInv
    <3>2. TaskTypes' /\ TaskDiscipline'
      BY <3>1 DEF TypedSession, Typed, TaskTypes, TaskDiscipline, Past, Holds,
                  clientVars, taskVars
    <3>3. [ServerNext]_serverVars
      BY <2>2, ServerStepIsServerNext DEF TypedSession, Typed
    <3> QED BY <3>1, <3>2, <3>3
  <2>3. CASE UNCHANGED vars
    BY <2>3 DEF TypedSession, Typed, TaskTypes, TaskDiscipline, NetTypes, NetDiscipline, Past,
                Holds, vars, clientVars, connVars, taskVars, netVars
  <2> QED BY <2>1, <2>2, <2>3, MeddlingKeeps DEF Next, Client, TypedSession
<1>3. IInv'
  BY <1>2, TypeInductive, AuditInductive DEF TypedSession, IInv
<1> QED BY <1>1, <1>2, <1>3 DEF TypedSession, Typed

LEMMA TypedAlways == Spec => []TypedSession
<1>1. Init => TypedSession
  BY TypedFirst, InitIInv DEF Init, TypedSession
<1> QED BY <1>1, TypedNext, PTL DEF Spec

\* The client's and the connections' state keeps its types whatever methods run
\* and are cancelled, and whatever the server does.
THEOREM SessionTypes == Spec => []TypeOK
BY TypedAlways, TypedIsTypeOK, PTL DEF TypedSession

\* Of the server's variables the steps of a session are VerifierServer's, so
\* that what is proved of ServerSpec can be used of a session.
LEMMA SessionsServe == Spec => ServerSpec
<1>1. Init => ServerInit
  BY DEF Init
<1> QED BY <1>1, TypedNext, TypedAlways, PTL DEF Spec, ServerSpec

\* Audit log, counters and sequence numbers stay right in every session,
\* whatever its connections, retries and abandoned requests do
\* (server.py:173-176, 250-257): the theorems about ServerSpec, composed.
THEOREM ServerStaysRight ==
  Spec => [](AuditIsRecentHistory /\ CountersAgree /\ SequencesIncrease) /\ AuditOnlyGrows
BY SessionsServe, AuditLogIsTail, HealthCountersAgree, ReceiptsAreOrdered, DecisionsStayLogged, PTL
-----------------------------------------------------------------------------
(* What a call hands over, whatever methods share the client and whoever is *)
(* cancelled.  Positions may be confused; but every decision in a response  *)
(* is one that a server recorded when it made the response, and each step   *)
(* moves a response on or loses it.                                         *)

Recorded == {history[i] : i \in DOMAIN history}

Submitted(cmd) == cmd[2] <= calls[cmd[1]]

\* Requests and decisions are about commands that were submitted, and decisions
\* in responses and in outcomes are recorded ones.
AsksHonestly == \A c \in Conns : \A i \in DOMAIN toServer[c] : Submitted(toServer[c][i].cmd)

RecordsHonestly == \A i \in DOMAIN history : Submitted(history[i].cmd)

AnswersHonestly ==
  \A c \in Conns : \A i \in DOMAIN toClient[c] :
    toClient[c][i].kind = "verify" => toClient[c][i].result \in Recorded

EndsHonestly ==
  \A t \in Tasks :
    /\ Handed(t) \subseteq Recorded
    /\ pc[t] = "idle" /\ kind[t] = "verify" /\ outcome[t].how = "returned"
         => outcome[t].reply.kind = "verify"

Honest == AsksHonestly /\ RecordsHonestly /\ AnswersHonestly /\ EndsHonestly

LEMMA HonestFirst == Init => Honest
<1> SUFFICES ASSUME Init PROVE Honest
  OBVIOUS
<1>1. /\ \A c \in Conns : toServer[c] = <<>> /\ toClient[c] = <<>>
      /\ history = <<>> /\ \A t \in Tasks : outcome[t] = Raised("none")
  BY DEF Init, ServerInit
<1>2. DOMAIN <<>> = {}
  OBVIOUS
<1> QED BY <1>1, <1>2 DEF Honest, AsksHonestly, RecordsHonestly, AnswersHonestly, EndsHonestly,
                         Handed, Raised

LEMMA HonestIsSafe ==
  ASSUME Honest
  PROVE  NeverInvented
BY DEF Honest, EndsHonestly, RecordsHonestly, NeverInvented, Handed, Recorded, Submitted

\* What is in a queue that lost its first element, or got one more.
LEMMA TailElements ==
  ASSUME NEW S, NEW s \in Seq(S), s # <<>>, NEW i \in DOMAIN Tail(s)
  PROVE  i \in Nat \ {0} /\ i + 1 \in DOMAIN s /\ Tail(s)[i] = s[i + 1]
BY HeadTailProperties, LenProperties

LEMMA AppendElements ==
  ASSUME NEW S, NEW s \in Seq(S), NEW e \in S, NEW i \in DOMAIN Append(s, e)
  PROVE  (i \in DOMAIN s /\ Append(s, e)[i] = s[i]) \/ (i = Len(s) + 1 /\ Append(s, e)[i] = e)
BY AppendProperties, LenProperties

LEMMA RecordedTypes ==
  ASSUME ServerTypeOK
  PROVE  history \in Seq(Results) /\ \A i \in DOMAIN history : history[i] \in Results
<1>1. history \in Seq(Results)
  BY DEF ServerTypeOK
<1> QED BY <1>1, LenProperties, ElementOfSeq

LEMMA RecordGrows ==
  ASSUME history \in Seq(Results), NEW r \in Results, history' = Append(history, r)
  PROVE  Recorded' = Recorded \cup {r}
<1>1. /\ DOMAIN history = 1 .. Len(history) /\ Len(history) \in Nat
      /\ DOMAIN history' = 1 .. Len(history) + 1
      /\ history'[Len(history) + 1] = r
      /\ \A i \in 1 .. Len(history) : history'[i] = history[i]
  BY AppendProperties, LenProperties
<1>2. Recorded' = {history'[i] : i \in 1 .. Len(history) + 1}
  BY <1>1 DEF Recorded
<1>3. 1 .. Len(history) + 1 = (1 .. Len(history)) \cup {Len(history) + 1}
  BY <1>1
<1> QED BY <1>1, <1>2, <1>3 DEF Recorded

\* The step of a task takes no response: its call goes on, ends in an exception
\* or begins.
Unanswered(t) ==
  /\ toClient' = toClient
  /\ \/ outcome' = outcome /\ pc'[t] # "idle"
     \/ \E error \in Errors : outcome' = [outcome EXCEPT ![t] = Raised(error)]

\* The holder of the lock takes the response at the front of its connection.
Answering(t) ==
  /\ stream \in Conns /\ toClient[stream] # <<>> /\ toClient[stream] \in Seq(Replies)
  /\ toClient' = [toClient EXCEPT ![stream] = Tail(@)]
  /\ outcome' = [outcome EXCEPT ![t] = Returned(Head(toClient[stream]))]
  /\ kind[t] = "verify" => Head(toClient[stream]).kind = "verify"

\* It takes the response and has no use for it.
Refusing(t) ==
  /\ stream \in Conns /\ toClient[stream] # <<>> /\ toClient[stream] \in Seq(Replies)
  /\ toClient' = [toClient EXCEPT ![stream] = Tail(@)]
  /\ \/ outcome' = outcome /\ pc'[t] # "idle"
     \/ \E error \in Errors : outcome' = [outcome EXCEPT ![t] = Raised(error)]

\* What a step of a task does besides.
Otherwise(t) ==
  /\ UNCHANGED serverVars
  /\ \A u \in Tasks \ {t} : pc'[u] = pc[u] /\ kind'[u] = kind[u]
  /\ kind'[t] = kind[t] \/ pc'[t] # "idle"
  /\ \A u \in Tasks : calls[u] \in Nat /\ calls'[u] \in Nat /\ calls[u] <= calls'[u]
  /\ toServer' = toServer \/ (stream \in Conns /\ calls' = calls /\
                              toServer' = [toServer EXCEPT ![stream] = Append(@, Request(t))])

LEMMA FailingIsUnanswered ==
  ASSUME TaskTypes, NEW t \in Tasks, NEW error \in Errors,
         Fails(t, error) \/ Escapes(t, error)
  PROVE  /\ \/ outcome' = outcome /\ pc'[t] # "idle"
            \/ \E e \in Errors : outcome' = [outcome EXCEPT ![t] = Raised(e)]
         /\ kind' = kind /\ calls' = calls /\ \A u \in Tasks \ {t} : pc'[u] = pc[u]
<1>1. "TransportError" \in Errors
  BY DEF Errors
<1>2. CASE Pauses(t)
  BY <1>2 DEF Pauses, TaskTypes
<1>3. CASE \E e \in Errors : Ends(t, Raised(e))
  BY <1>3 DEF Ends, TaskTypes
<1> QED BY <1>1, <1>2, <1>3 DEF Fails, Escapes

LEMMA TaskEffects ==
  ASSUME Typed, NEW t \in Tasks, Call(t) \/ ClientStep(t) \/ Drained(t) \/ Cancelled(t)
  PROVE  (Unanswered(t) \/ Answering(t) \/ Refusing(t)) /\ Otherwise(t)
<1>0. /\ TaskTypes /\ NetTypes /\ NetDiscipline
      /\ \A u \in Tasks : calls[u] \in Nat
      /\ {"TransportError", "TimeoutError", "ConnectionError", "IncompleteReadError",
          "KeyError", "AttributeError", "CancelledError"} \subseteq Errors
  BY SessionAssumption DEF Typed, TaskTypes, Errors
<1>1. UNCHANGED serverVars
  BY ClientLeavesServer
<1>2. CASE Call(t)
  <2>1. Unanswered(t)
    BY <1>0, <1>2 DEF Call, Unanswered, netVars, TaskTypes
  <2>2. Otherwise(t)
    BY <1>0, <1>1, <1>2 DEF Call, Otherwise, netVars, TaskTypes
  <2> QED BY <2>1, <2>2
<1>3. CASE Cancelled(t)
  <2>1. Unanswered(t)
    BY <1>0, <1>3 DEF Cancelled, Unanswered, netVars
  <2>2. pc' = [pc EXCEPT ![t] = "idle"] /\ UNCHANGED <<kind, calls, toServer>>
    BY <1>3 DEF Cancelled, netVars
  <2>3. Otherwise(t)
    BY <1>0, <1>1, <2>2 DEF Otherwise, TaskTypes
  <2> QED BY <2>1, <2>3
<1>4. ASSUME UNCHANGED <<toServer, toClient>>, NEW label \in Labels \ {"idle"}, Moves(t, label)
      PROVE  Unanswered(t) /\ Otherwise(t)
  BY <1>0, <1>1, <1>4 DEF Moves, Unanswered, Otherwise, TaskTypes
<1>5. CASE EnsureReuses(t) \/ EnsureReconnects(t) \/ ReadsHeader(t)
  BY <1>4, <1>5 DEF EnsureReuses, EnsureReconnects, ReadsHeader, netVars, Labels
<1>6. ASSUME UNCHANGED <<toServer, toClient>>, NEW error \in Errors,
             Fails(t, error) \/ Escapes(t, error)
      PROVE  Unanswered(t) /\ Otherwise(t)
  BY <1>0, <1>1, <1>6, FailingIsUnanswered DEF Unanswered, Otherwise
<1>7. CASE \/ EnsureRefuses(t) \/ ConnectFails(t) \/ RequestTooLarge(t) \/ SendFails(t)
           \/ ReadsGarbage(t) \/ ReadsEof(t) \/ ReadsReset(t) \/ TimesOut(t)
  BY <1>0, <1>6, <1>7 DEF EnsureRefuses, ConnectFails, RequestTooLarge, SendFails, ReadsGarbage,
                          ReadsEof, ReadsReset, TimesOut, netVars
<1>8. CASE Connects(t) \/ Wakes(t)
  BY <1>0, <1>1, <1>8 DEF Connects, Wakes, netVars, Unanswered, Otherwise, TaskTypes
<1>9. CASE Drained(t)
  BY <1>0, <1>4, <1>6, <1>9 DEF Drained, netVars, Labels
<1>10. CASE Sends(t) \/ SendsSlowly(t)
  <2>1. PICK label \in {"header", "drain"} : Writes(t) /\ Moves(t, label)
    BY <1>10 DEF Sends, SendsSlowly
  <2>2. Unanswered(t)
    BY <1>0, <2>1 DEF Writes, Moves, Unanswered, TaskTypes
  <2>3. stream \in Conns
    BY <1>0, <2>1 DEF Writes, At, NetDiscipline, Using
  <2>4. Otherwise(t)
    BY <1>0, <1>1, <2>1, <2>3 DEF Writes, Moves, Otherwise, TaskTypes
  <2> QED BY <2>2, <2>4
<1>11. CASE ReadsBody(t)
  <2> DEFINE reply == Head(toClient[stream])
  <2>1. /\ stream \in Conns /\ toClient[stream] # <<>> /\ toClient[stream] \in Seq(Replies)
        /\ toClient' = [toClient EXCEPT ![stream] = Tail(@)] /\ toServer' = toServer
        /\ ResponseTaken(t, reply)
    BY <1>0, <1>11 DEF ReadsBody, At, NetDiscipline, NetTypes, Using
  <2> HIDE DEF reply
  <2>2. CASE Ends(t, Returned(reply)) /\ (kind[t] = "verify" => reply.kind = "verify")
    <3>1. Answering(t)
      BY <2>1, <2>2 DEF Ends, Answering, reply
    <3>2. Otherwise(t)
      BY <1>0, <1>1, <2>1, <2>2 DEF Ends, Otherwise, TaskTypes
    <3> QED BY <3>1, <3>2
  <2>3. CASE Fails(t, "TransportError") \/ Escapes(t, "KeyError")
    BY <1>0, <1>1, <2>1, <2>3, FailingIsUnanswered DEF Refusing, Otherwise
  <2> QED BY <2>1, <2>2, <2>3 DEF ResponseTaken
<1> QED BY <1>2, <1>3, <1>5, <1>7, <1>8, <1>9, <1>10, <1>11 DEF ClientStep
\* Recorded decisions stay recorded, and submitted commands submitted.
LEMMA TaskKeepsHonest ==
  ASSUME Typed, IInv, Honest, NEW t \in Tasks, Call(t) \/ ClientStep(t) \/ Drained(t) \/ Cancelled(t)
  PROVE  Honest'
<1>1. /\ Unanswered(t) \/ Answering(t) \/ Refusing(t)
      /\ Otherwise(t)
      /\ history' = history /\ Recorded' = Recorded
  BY TaskEffects DEF Otherwise, serverVars, Recorded
<1>2. \A cmd \in Commands : Submitted(cmd) => cmd[2] <= calls'[cmd[1]]
  BY <1>1, SessionAssumption DEF Otherwise, Submitted
<1>3. AsksHonestly'
  <2>1. ASSUME NEW c \in Conns, NEW i \in DOMAIN toServer'[c]
        PROVE  toServer'[c][i].cmd[2] <= calls'[toServer'[c][i].cmd[1]]
    <3>1. /\ toServer[c] \in Seq(Requests) /\ DOMAIN toServer[c] = 1 .. Len(toServer[c])
          /\ Request(t).cmd = Trace(t)
      BY LenProperties DEF Typed, NetTypes, Request
    <3>2. CASE i \in DOMAIN toServer[c] /\ toServer'[c][i] = toServer[c][i]
      <4>1. toServer[c][i] \in Requests
        BY <3>1, <3>2, ElementOfSeq
      <4>2. toServer[c][i].cmd \in Commands /\ Submitted(toServer[c][i].cmd)
        BY <3>2, <4>1 DEF Honest, AsksHonestly, Requests
      <4> QED BY <1>2, <3>2, <4>2
    <3>3. CASE ~(i \in DOMAIN toServer[c] /\ toServer'[c][i] = toServer[c][i])
      <4>1. /\ stream = c /\ calls' = calls /\ calls[t] \in Nat
            /\ toServer'[c] = Append(toServer[c], Request(t))
        BY <1>1, <2>1, <3>3 DEF Otherwise, Typed, NetTypes
      <4>2. toServer'[c][i] = Request(t)
        <5>1. toServer[c] \in Seq(Requests \cup {Request(t)})
          BY <3>1
        <5> QED BY <2>1, <3>3, <4>1, <5>1, AppendElements
      <4>3. toServer'[c][i].cmd = <<t, calls[t]>>
        BY <3>1, <4>2 DEF Trace
      <4> QED BY <4>1, <4>3
    <3> QED BY <3>2, <3>3
  <2> QED BY <2>1 DEF AsksHonestly, Submitted
<1>4. RecordsHonestly'
  <2>1. \A i \in DOMAIN history : history[i].cmd \in Commands
    BY RecordedTypes DEF IInv, Results
  <2>2. \A i \in DOMAIN history : Submitted(history[i].cmd)
    BY DEF Honest, RecordsHonestly
  <2>3. \A i \in DOMAIN history : history[i].cmd[2] <= calls'[history[i].cmd[1]]
    BY <1>2, <2>1, <2>2
  <2> QED BY <1>1, <2>3 DEF RecordsHonestly, Submitted
<1>5. AnswersHonestly'
  <2>1. CASE toClient' = toClient
    BY <1>1, <2>1 DEF Honest, AnswersHonestly
  <2>2. CASE /\ stream \in Conns /\ toClient[stream] # <<>> /\ toClient[stream] \in Seq(Replies)
             /\ toClient' = [toClient EXCEPT ![stream] = Tail(@)]
    <3>1. ASSUME NEW c \in Conns, NEW i \in DOMAIN toClient'[c]
          PROVE  \E j \in DOMAIN toClient[c] : toClient'[c][i] = toClient[c][j]
      <4>1. CASE c = stream
        <5>1. toClient'[c] = Tail(toClient[c])
          BY <2>2, <4>1 DEF Typed, NetTypes
        <5> QED BY <2>2, <3>1, <4>1, <5>1, TailElements
      <4>2. CASE c # stream
        BY <2>2, <3>1, <4>2 DEF Typed, NetTypes
      <4> QED BY <4>1, <4>2
    <3> QED BY <1>1, <3>1 DEF Honest, AnswersHonestly
  <2> QED BY <1>1, <2>1, <2>2 DEF Unanswered, Answering, Refusing
<1>6. EndsHonestly'
  <2> SUFFICES ASSUME NEW u \in Tasks
               PROVE  /\ Handed(u)' \subseteq Recorded
                      /\ pc'[u] = "idle" /\ kind'[u] = "verify" /\ outcome'[u].how = "returned"
                           => outcome'[u].reply.kind = "verify"
    BY <1>1 DEF EndsHonestly
  <2>0. outcome \in [Tasks -> Ways]
    BY DEF Typed, TaskTypes
  <2>1. CASE outcome'[u] = outcome[u] /\ (u = t => pc'[t] # "idle")
    BY <1>1, <2>1 DEF Honest, EndsHonestly, Handed, Otherwise
  <2>2. CASE \E error \in Errors : outcome'[u] = Raised(error)
    <3>1. outcome'[u].how # "returned"
      BY <2>2 DEF Raised, Errors
    <3> QED BY <3>1 DEF Handed
  <2>3. CASE u = t /\ Answering(t)
    <3> DEFINE reply == Head(toClient[stream])
    <3>1. /\ outcome'[t] = Returned(reply)
          /\ kind[t] = "verify" => reply.kind = "verify"
          /\ stream \in Conns /\ toClient[stream] # <<>> /\ toClient[stream] \in Seq(Replies)
      BY <2>0, <2>3 DEF Answering
    <3>2. reply.kind = "verify" => reply.result \in Recorded
      <4>1. 1 \in DOMAIN toClient[stream] /\ reply = toClient[stream][1]
        BY <3>1, LenProperties, EmptySeq
      <4> QED BY <3>1, <4>1 DEF Honest, AnswersHonestly
    <3> HIDE DEF reply
    <3>3. outcome'[t].reply = reply /\ Handed(t)' \subseteq Recorded
      BY <3>1, <3>2 DEF Returned, Handed
    <3>4. kind'[t] = kind[t] \/ pc'[t] # "idle"
      BY <1>1 DEF Otherwise
    <3> QED BY <2>3, <3>1, <3>3, <3>4
  <2> QED BY <1>1, <2>0, <2>1, <2>2, <2>3 DEF Unanswered, Answering, Refusing
<1> QED BY <1>3, <1>4, <1>5, <1>6 DEF Honest
\* A server step, for the client: it writes nothing and reads no response.  The
\* requests that are left are some of those there were.
FewerRequests ==
  \A c \in Conns : \A i \in DOMAIN toServer'[c] :
    \E j \in DOMAIN toServer[c] : toServer'[c][i] = toServer[c][j]

\* It decides nothing; the responses get at most one without a decision.
DecidesNothing ==
  /\ history' = history
  /\ \/ toClient' = toClient
     \/ \E c \in Conns, reply \in Replies :
          reply.kind # "verify" /\ toClient' = [toClient EXCEPT ![c] = Append(@, reply)]

\* It decides one of the commands it was asked about and, unless the response is
\* lost, sends the decision once.
DecidesOne ==
  \E r \in Results :
    /\ \E c \in Conns : \E i \in DOMAIN toServer[c] : toServer[c][i].cmd = r.cmd
    /\ r.life = life /\ r.seq = NextSequence
    /\ life' = life /\ sequence' = NextSequence
    /\ history' = Append(history, r)
    /\ \/ toClient' = toClient
       \/ \E c \in Conns : toClient' = [toClient EXCEPT ![c] = Append(@, Reply("verify", r))]

LEMMA ServerEffects ==
  ASSUME NetTypes, ServerTypeOK, ServerStep
  PROVE  FewerRequests /\ (DecidesNothing \/ DecidesOne)
<1>0. ASSUME NEW c \in Conns, HandlerReads(c)
      PROVE  /\ toServer[c] \in Seq(Requests) /\ toServer[c] # <<>>
             /\ 1 \in DOMAIN toServer[c] /\ Head(toServer[c]) = toServer[c][1]
             /\ Head(toServer[c]) \in Requests
  <2>1. toServer[c] \in Seq(Requests) /\ toServer[c] # <<>>
    BY <1>0 DEF HandlerReads, NetTypes
  <2> QED BY <2>1, HeadTailProperties, LenProperties, EmptySeq
<1>1. ASSUME NEW c \in Conns, HandlerReads(c), NEW reply, HandlerAnswers(c, reply)
      PROVE  FewerRequests
  <2>1. ASSUME NEW d \in Conns, NEW i \in DOMAIN toServer'[d]
        PROVE  \E j \in DOMAIN toServer[d] : toServer'[d][i] = toServer[d][j]
    <3>1. CASE d = c
      <4>1. toServer'[d] = Tail(toServer[d])
        BY <1>1, <3>1 DEF HandlerAnswers, NetTypes
      <4> QED BY <1>0, <1>1, <2>1, <3>1, <4>1, TailElements
    <3>2. CASE d # c
      BY <1>1, <2>1, <3>2 DEF HandlerAnswers, NetTypes
    <3> QED BY <3>1, <3>2
  <2> QED BY <2>1 DEF FewerRequests
<1>2. ASSUME NEW c \in Conns, toServer' = [toServer EXCEPT ![c] = <<>>]
      PROVE  FewerRequests
  <2>1. DOMAIN <<>> = {}
    OBVIOUS
  <2>2. \A d \in Conns : toServer'[d] = IF d = c THEN <<>> ELSE toServer[d]
    BY <1>2 DEF NetTypes
  <2> QED BY <2>1, <2>2 DEF FewerRequests
<1>3. ASSUME NEW c \in Conns, NEW outcomes \in [Rules -> Outcomes], ServesVerify(c, outcomes)
      PROVE  FewerRequests /\ DecidesOne
  <2> DEFINE cmd == Head(toServer[c]).cmd
             r == Result(cmd, outcomes)
  <2>1. /\ HandlerReads(c) /\ Completes(cmd, outcomes)
        /\ HandlerAnswers(c, Reply("verify", r)) \/ HandlerCloses(c)
    BY <1>3 DEF ServesVerify
  <2>2. cmd \in Commands /\ r \in Results
    BY <1>0, <2>1, ResultType DEF Requests
  <2>3. /\ r.cmd = cmd /\ r.life = life /\ r.seq = NextSequence
        /\ life' = life /\ sequence' = NextSequence /\ history' = Append(history, r)
    BY <2>1 DEF Completes, Result
  <2>4. toServer[c][1].cmd = r.cmd
    BY <1>0, <2>1, <2>3
  <2> HIDE DEF r
  <2>5. \/ toClient' = toClient
        \/ toClient' = [toClient EXCEPT ![c] = Append(@, Reply("verify", r))]
    BY <2>1 DEF HandlerAnswers, HandlerCloses
  <2>6. FewerRequests
    BY <1>1, <1>2, <2>1 DEF HandlerCloses
  <2>7. \E d \in Conns : \E i \in DOMAIN toServer[d] : toServer[d][i].cmd = r.cmd
    BY <1>0, <2>1, <2>4
  <2> QED BY <2>2, <2>3, <2>5, <2>6, <2>7 DEF DecidesOne
<1>4. ASSUME NEW c \in Conns, NEW outcomes \in [Rules -> Outcomes], VerifyFails(c, outcomes)
      PROVE  FewerRequests /\ DecidesNothing
  BY <1>2, <1>4 DEF VerifyFails, LeavesNothing, BuildRejects, HandlerCloses, serverVars,
                    DecidesNothing
<1>5. ASSUME NEW c \in Conns, ServesQuery(c)
      PROVE  FewerRequests /\ DecidesNothing
  <2>1. PICK k \in (Methods \cup {"error"}) \ {"verify"} : HandlerAnswers(c, Reply(k, NoResult))
    <3>1. Head(toServer[c]).kind \in Methods
      BY <1>0, <1>5 DEF ServesQuery, Requests
    <3> QED BY <1>5, <3>1 DEF ServesQuery, Methods
  <2>2. Reply(k, NoResult) \in Replies /\ Reply(k, NoResult).kind # "verify"
    BY DEF Reply, Replies
  <2>3. history' = history /\ HandlerReads(c)
    BY <1>5 DEF ServesQuery, serverVars
  <2> QED BY <1>1, <2>1, <2>2, <2>3 DEF HandlerAnswers, DecidesNothing
<1>6. CASE Crashes
  <2>1. \A c \in Conns : toServer'[c] = <<>>
    BY <1>6 DEF Crashes
  <2>2. DOMAIN <<>> = {}
    OBVIOUS
  <2> QED BY <1>6, <2>1, <2>2 DEF Crashes, serverVars, FewerRequests, DecidesNothing
<1>7. CASE StartsAgain
  BY <1>7 DEF StartsAgain, Restarts, netVars, FewerRequests, DecidesNothing
<1> QED BY <1>3, <1>4, <1>5, <1>6, <1>7 DEF ServerStep

LEMMA ServerKeepsHonest ==
  ASSUME NetTypes, ServerTypeOK, Honest, ServerStep, UNCHANGED taskVars
  PROVE  Honest'
<1>1. FewerRequests /\ (DecidesNothing \/ DecidesOne)
  BY ServerEffects
<1>2. UNCHANGED <<pc, kind, calls, outcome>>
  BY DEF taskVars
<1>3. AsksHonestly'
  <2>1. \A c \in Conns : \A i \in DOMAIN toServer'[c] :
          toServer'[c][i].cmd[2] <= calls[toServer'[c][i].cmd[1]]
    BY <1>1 DEF FewerRequests, Honest, AsksHonestly, Submitted
  <2> QED BY <1>2, <2>1 DEF AsksHonestly, Submitted
<1>4. CASE DecidesNothing
  <2>1. history' = history /\ Recorded' = Recorded
    BY <1>4 DEF DecidesNothing, Recorded
  <2>2. ASSUME NEW c \in Conns, NEW i \in DOMAIN toClient'[c], toClient'[c][i].kind = "verify"
        PROVE  toClient'[c][i].result \in Recorded
    <3>1. CASE toClient' = toClient
      BY <2>2, <3>1 DEF Honest, AnswersHonestly
    <3>2. CASE \E d \in Conns, reply \in Replies :
                 /\ reply.kind # "verify"
                 /\ toClient' = [toClient EXCEPT ![d] = Append(@, reply)]
      <4>1. PICK d \in Conns, reply \in Replies :
              reply.kind # "verify" /\ toClient' = [toClient EXCEPT ![d] = Append(@, reply)]
        BY <3>2
      <4>2. toClient[c] \in Seq(Replies)
        BY DEF NetTypes
      <4>3. toClient'[c] = IF c = d THEN Append(toClient[c], reply) ELSE toClient[c]
        BY <4>1 DEF NetTypes
      <4>4. i \in DOMAIN toClient[c] /\ toClient'[c][i] = toClient[c][i]
        BY <2>2, <4>1, <4>2, <4>3, AppendElements
      <4> QED BY <2>2, <4>4 DEF Honest, AnswersHonestly
    <3> QED BY <1>4, <3>1, <3>2 DEF DecidesNothing
  <2>3. AnswersHonestly'
    BY <2>1, <2>2 DEF AnswersHonestly
  <2>4. RecordsHonestly' /\ EndsHonestly'
    BY <1>2, <2>1 DEF Honest, RecordsHonestly, EndsHonestly, Submitted, Handed
  <2> QED BY <1>3, <2>3, <2>4 DEF Honest
<1>5. CASE DecidesOne
  <2>1. PICK r \in Results :
          /\ \E c \in Conns : \E i \in DOMAIN toServer[c] : toServer[c][i].cmd = r.cmd
          /\ history' = Append(history, r)
          /\ \/ toClient' = toClient
             \/ \E c \in Conns : toClient' = [toClient EXCEPT ![c] = Append(@, Reply("verify", r))]
    BY <1>5 DEF DecidesOne
  <2>2. Recorded' = Recorded \cup {r}
    BY <2>1, RecordedTypes, RecordGrows
  <2>3. ASSUME NEW c \in Conns, NEW i \in DOMAIN toClient'[c], toClient'[c][i].kind = "verify"
        PROVE  toClient'[c][i].result \in Recorded \cup {r}
    <3>1. toClient[c] \in Seq(Replies) /\ Reply("verify", r) \in Replies
      BY DEF NetTypes, Reply, Replies, Methods
    <3>2. toClient'[c] \in {toClient[c], Append(toClient[c], Reply("verify", r))}
      BY <2>1 DEF NetTypes
    <3>3. \/ i \in DOMAIN toClient[c] /\ toClient'[c][i] = toClient[c][i]
          \/ toClient'[c][i] = Reply("verify", r)
      BY <2>3, <3>1, <3>2, AppendElements
    <3> QED BY <2>3, <3>3 DEF Honest, AnswersHonestly, Reply
  <2>4. AnswersHonestly'
    BY <2>2, <2>3 DEF AnswersHonestly
  <2>5. ASSUME NEW i \in DOMAIN history' PROVE history'[i].cmd[2] <= calls[history'[i].cmd[1]]
    <3>1. (i \in DOMAIN history /\ history'[i] = history[i]) \/ history'[i] = r
      BY <2>1, <2>5, RecordedTypes, AppendElements
    <3>2. Submitted(r.cmd)
      BY <2>1 DEF Honest, AsksHonestly
    <3> QED BY <3>1, <3>2 DEF Honest, RecordsHonestly, Submitted
  <2>6. RecordsHonestly'
    BY <1>2, <2>5 DEF RecordsHonestly, Submitted
  <2>7. EndsHonestly'
    BY <1>2, <2>2 DEF Honest, EndsHonestly, Handed
  <2> QED BY <1>3, <2>4, <2>6, <2>7 DEF Honest
<1> QED BY <1>1, <1>4, <1>5
HonestSession == TypedSession /\ Honest

LEMMA HonestNext == HonestSession /\ [Next]_vars => HonestSession'
<1> SUFFICES ASSUME HonestSession, [Next]_vars PROVE Honest'
  BY TypedNext DEF HonestSession
<1>1. Typed /\ IInv /\ NetTypes /\ NetDiscipline /\ ServerTypeOK /\ Honest
  BY DEF HonestSession, TypedSession, Typed, IInv
<1>2. CASE ServerStep
  <2>1. UNCHANGED taskVars
    BY <1>1, <1>2, ServerKeepsNet
  <2> QED BY <1>1, <1>2, <2>1, ServerKeepsHonest
<1>3. CASE Meddling \/ UNCHANGED vars
  <2>1. UNCHANGED <<taskVars, toServer, toClient, history>>
    BY <1>3 DEF Meddling, CloseBegins, CloseEnds, CloseCancelled, ConnectsAnew, netVars,
                serverVars, vars
  <2> QED BY <1>1, <2>1 DEF Honest, AsksHonestly, RecordsHonestly, AnswersHonestly, EndsHonestly,
                            Submitted, Recorded, Handed, taskVars
<1> QED BY <1>1, <1>2, <1>3, TaskKeepsHonest DEF Next

LEMMA HonestAlways == Spec => []HonestSession
<1>1. Init => HonestSession
  BY TypedFirst, InitIInv, HonestFirst DEF Init, HonestSession, TypedSession
<1> QED BY <1>1, HonestNext, PTL DEF Spec

\* Fail closed, without a premise: whatever methods share the client, whoever is
\* cancelled and however responses are confused, verify returns nothing that no
\* server decided, and no server decides what was not submitted.
THEOREM VerdictsAreNotInvented == Spec => []NeverInvented
<1>1. HonestSession => NeverInvented
  BY HonestIsSafe DEF HonestSession
<1> QED BY <1>1, HonestAlways, PTL
-----------------------------------------------------------------------------
(* With numbered receipts the decisions are told apart by process and       *)
(* number: each is in one response or in one outcome, or lost.              *)

\* What was decided was decided by a process before this one, or carries a
\* number that this one has used.
Numbered ==
  \A i \in DOMAIN history :
    history[i].life < life \/ (history[i].life = life /\ history[i].seq <= sequence)

\* Whether a response holds the decision.
Carries(c, i, result) ==
  i \in DOMAIN toClient[c] /\ toClient[c][i].kind = "verify" /\ toClient[c][i].result = result

\* No decision is in two hands, two places, or a hand and a place.
Apart ==
  /\ \A t, u \in Tasks : t # u => Handed(t) \cap Handed(u) = {}
  /\ \A t \in Tasks, c \in Conns : \A i \in DOMAIN toClient[c] :
       toClient[c][i].kind = "verify" => toClient[c][i].result \notin Handed(t)
  /\ \A c, d \in Conns : \A i, j : \A result :
       Carries(c, i, result) /\ Carries(d, j, result) => c = d /\ i = j

Singled == L1Enabled => Numbered /\ Apart

LEMMA SingledFirst == Init => Singled
<1> SUFFICES ASSUME Init PROVE Singled
  OBVIOUS
<1>1. /\ \A c \in Conns : toClient[c] = <<>>
      /\ history = <<>> /\ \A t \in Tasks : outcome[t] = Raised("none")
  BY DEF Init, ServerInit
<1>2. DOMAIN <<>> = {}
  OBVIOUS
<1> QED BY <1>1, <1>2 DEF Singled, Numbered, Apart, Carries, Handed, Raised

LEMMA NumberedNext ==
  ASSUME ServerTypeOK, L1Enabled, Numbered, [ServerNext]_serverVars
  PROVE  Numbered'
<1>1. /\ sequence \in Nat /\ life \in Nat
      /\ \A i \in DOMAIN history : history[i].life \in Nat /\ history[i].seq \in Nat
  BY RecordedTypes, ServerAssumption DEF ServerTypeOK, Results
<1>2. ASSUME NEW cmd \in Commands, NEW outcomes, Completes(cmd, outcomes) PROVE Numbered'
  <2> DEFINE r == Result(cmd, outcomes)
  <2>1. /\ history' = Append(history, r) /\ sequence' = sequence + 1 /\ life' = life
        /\ r.life = life /\ r.seq = sequence + 1 /\ r \in Results
    BY <1>2, ResultType DEF Completes, NextSequence, Result
  <2> HIDE DEF r
  <2>2. ASSUME NEW i \in DOMAIN history'
        PROVE  (i \in DOMAIN history /\ history'[i] = history[i]) \/ history'[i] = r
    BY <2>1, <2>2, RecordedTypes, AppendElements
  <2> QED BY <1>1, <2>1, <2>2 DEF Numbered
<1>3. ASSUME NEW cmd \in Commands, NEW outcomes, BuildRejects(cmd, outcomes) PROVE Numbered'
  <2>1. history' = history /\ sequence' = sequence + 1 /\ life' = life
    BY <1>3 DEF BuildRejects, NextSequence
  <2> QED BY <1>1, <2>1 DEF Numbered
<1>4. CASE Restarts
  BY <1>1, <1>4 DEF Restarts, Numbered
<1>5. CASE UNCHANGED serverVars
  BY <1>5 DEF serverVars, Numbered
<1> QED BY <1>2, <1>3, <1>4, <1>5 DEF ServerNext, LeavesNothing

\* Responses move up, on each connection by the same number of places.
MovesUp(k) ==
  \A c \in Conns : \A i, result :
    Carries(c, i, result)' => i \in Nat \ {0} /\ Carries(c, i + k[c], result)

LEMMA TakenMovesUp ==
  ASSUME NetTypes, stream \in Conns, toClient[stream] # <<>>,
         toClient' = [toClient EXCEPT ![stream] = Tail(@)]
  PROVE  MovesUp([c \in Conns |-> IF c = stream THEN 1 ELSE 0])
<1>1. ASSUME NEW c \in Conns, NEW i, NEW result, Carries(c, i, result)'
      PROVE  i \in Nat \ {0} /\ Carries(c, i + IF c = stream THEN 1 ELSE 0, result)
  <2>1. toClient[c] \in Seq(Replies) /\ Tail(toClient[stream]) \in Seq(Replies)
    BY HeadTailProperties DEF NetTypes
  <2>2. i \in DOMAIN toClient'[c]
    BY <1>1 DEF Carries
  <2>3. CASE c = stream
    <3>1. toClient'[c] = Tail(toClient[c])
      BY <2>3 DEF NetTypes
    <3>2. i \in Nat \ {0} /\ i + 1 \in DOMAIN toClient[c] /\ toClient'[c][i] = toClient[c][i + 1]
      BY <2>1, <2>2, <2>3, <3>1, TailElements
    <3> QED BY <1>1, <2>3, <3>2 DEF Carries
  <2>4. CASE c # stream
    <3>1. toClient'[c] = toClient[c] /\ i \in Nat \ {0}
      BY <2>1, <2>2, <2>4, LenProperties DEF NetTypes
    <3> QED BY <1>1, <2>4, <3>1 DEF Carries
  <2> QED BY <2>3, <2>4
<1> QED BY <1>1 DEF MovesUp

LEMMA StillMovesUp ==
  ASSUME NetTypes, toClient' = toClient
  PROVE  MovesUp([c \in Conns |-> 0])
<1>1. ASSUME NEW c \in Conns, NEW i, NEW result, Carries(c, i, result)'
      PROVE  i \in Nat \ {0} /\ Carries(c, i + 0, result)
  <2>1. toClient[c] \in Seq(Replies) /\ i \in DOMAIN toClient[c]
    BY <1>1 DEF NetTypes, Carries
  <2>2. i \in Nat \ {0}
    BY <2>1, LenProperties
  <2> QED BY <1>1, <2>2 DEF Carries
<1> QED BY <1>1 DEF MovesUp

\* Two places stay two places.
LEMMA PlacesStayApart ==
  ASSUME Apart, NEW k \in [Conns -> {0, 1}], MovesUp(k)
  PROVE  \A c, d \in Conns : \A i, j : \A result :
           Carries(c, i, result)' /\ Carries(d, j, result)' => c = d /\ i = j
<1> SUFFICES ASSUME NEW c \in Conns, NEW d \in Conns, NEW i, NEW j, NEW result,
                    Carries(c, i, result)', Carries(d, j, result)'
             PROVE  c = d /\ i = j
  OBVIOUS
<1>1. /\ i \in Nat /\ Carries(c, i + k[c], result)
      /\ j \in Nat /\ Carries(d, j + k[d], result)
  BY DEF MovesUp
<1>2. c = d /\ i + k[c] = j + k[d]
  BY <1>1 DEF Apart
<1> QED BY <1>1, <1>2

LEMMA TaskKeepsApart ==
  ASSUME Typed, Apart, NEW t \in Tasks, Call(t) \/ ClientStep(t) \/ Drained(t) \/ Cancelled(t)
  PROVE  Apart'
<1>1. /\ Unanswered(t) \/ Answering(t) \/ Refusing(t)
      /\ NetTypes /\ outcome \in [Tasks -> Ways]
  BY TaskEffects DEF Typed, TaskTypes
<1>2. PICK k \in [Conns -> {0, 1}] :
        MovesUp(k) /\ (Answering(t) => k = [c \in Conns |-> IF c = stream THEN 1 ELSE 0])
  <2>1. CASE Unanswered(t) /\ ~Answering(t)
    <3>1. [c \in Conns |-> 0] \in [Conns -> {0, 1}]
      OBVIOUS
    <3> QED BY <1>1, <2>1, <3>1, StillMovesUp DEF Unanswered
  <2>2. CASE Answering(t) \/ Refusing(t)
    <3>1. [c \in Conns |-> IF c = stream THEN 1 ELSE 0] \in [Conns -> {0, 1}]
      OBVIOUS
    <3> QED BY <1>1, <2>2, <3>1, TakenMovesUp DEF Answering, Refusing
  <2> QED BY <1>1, <2>1, <2>2
<1>3. \A c, d \in Conns : \A i, j : \A result :
        Carries(c, i, result)' /\ Carries(d, j, result)' => c = d /\ i = j
  BY <1>2, PlacesStayApart
<1>4. ASSUME NEW u \in Tasks, NEW c \in Conns, NEW i, NEW result,
             result \in Handed(u), Carries(c, i, result)
      PROVE  FALSE
  BY <1>4 DEF Apart, Carries
\* Nobody is handed anything new.
<1>5. CASE \A u \in Tasks : Handed(u)' \subseteq Handed(u)
  <2>1. \A u, v \in Tasks : u # v => Handed(u)' \cap Handed(v)' = {}
    BY <1>5 DEF Apart
  <2>2. ASSUME NEW u \in Tasks, NEW c \in Conns, NEW i, NEW result,
               result \in Handed(u)', Carries(c, i, result)'
        PROVE  FALSE
    BY <1>2, <1>4, <1>5, <2>2 DEF MovesUp
  <2> QED BY <1>3, <2>1, <2>2 DEF Apart, Carries
\* The decision at the front of the stream goes to the holder of the lock.
<1>6. CASE Answering(t)
  <2> DEFINE reply == Head(toClient[stream])
  <2>1. /\ stream \in Conns
        /\ outcome' = [outcome EXCEPT ![t] = Returned(reply)]
        /\ 1 \in DOMAIN toClient[stream] /\ reply = toClient[stream][1]
    BY <1>6, LenProperties, EmptySeq DEF Answering
  <2> HIDE DEF reply
  <2>2. /\ \A u \in Tasks \ {t} : Handed(u)' = Handed(u)
        /\ \A result \in Handed(t)' : Carries(stream, 1, result)
    BY <1>1, <2>1 DEF Handed, Returned, Carries
  <2>3. ASSUME NEW u \in Tasks, NEW c \in Conns, NEW i, NEW result,
               result \in Handed(u)', Carries(c, i, result)'
        PROVE  FALSE
    <3>1. i \in Nat \ {0} /\ Carries(c, i + k[c], result)
      BY <1>2, <2>3 DEF MovesUp
    <3>2. CASE u # t
      BY <1>4, <2>2, <2>3, <3>1, <3>2
    <3>3. CASE u = t
      <4>1. c = stream /\ i + k[c] = 1
        BY <2>1, <2>2, <2>3, <3>1, <3>3 DEF Apart
      <4> QED BY <1>2, <1>6, <2>1, <3>1, <4>1
    <3> QED BY <3>2, <3>3
  <2>4. ASSUME NEW u \in Tasks, NEW v \in Tasks, u # v
        PROVE  Handed(u)' \cap Handed(v)' = {}
    <3>1. CASE u # t /\ v # t
      BY <2>2, <2>4, <3>1 DEF Apart
    <3>2. CASE u = t \/ v = t
      BY <1>4, <2>1, <2>2, <2>4, <3>2
    <3> QED BY <3>1, <3>2
  <2> QED BY <1>3, <2>3, <2>4 DEF Apart, Carries
<1>7. CASE Unanswered(t) \/ Refusing(t)
  <2>1. ASSUME NEW u \in Tasks
        PROVE  outcome'[u] = outcome[u] \/ outcome'[u].how # "returned"
    BY <1>1, <1>7, <2>1 DEF Unanswered, Refusing, Raised, Errors
  <2> QED BY <1>5, <2>1 DEF Handed
<1> QED BY <1>1, <1>6, <1>7
\* A decision that is recorded now is in no response and in no hand yet.
LEMMA DecidedIsNew ==
  ASSUME ServerTypeOK, L1Enabled, Numbered, Honest, NEW r,
         r.life = life, r.seq = NextSequence
  PROVE  /\ r \notin Recorded
         /\ \A t \in Tasks : r \notin Handed(t)
         /\ \A c \in Conns : \A i : ~Carries(c, i, r)
<1>1. /\ sequence \in Nat /\ life \in Nat
      /\ \A i \in DOMAIN history : history[i].life \in Nat /\ history[i].seq \in Nat
  BY RecordedTypes, ServerAssumption DEF ServerTypeOK, Results
<1>2. r.seq = sequence + 1
  BY DEF NextSequence
<1>3. ASSUME NEW i \in DOMAIN history, history[i] = r PROVE FALSE
  BY <1>1, <1>2, <1>3 DEF Numbered
<1>4. r \notin Recorded
  BY <1>3 DEF Recorded
<1> QED BY <1>4 DEF Honest, EndsHonestly, AnswersHonestly, Carries

LEMMA ServerKeepsApart ==
  ASSUME NetTypes, ServerTypeOK, L1Enabled, Numbered, Honest, Apart, ServerStep,
         UNCHANGED taskVars
  PROVE  Apart'
<1>1. \A t \in Tasks : Handed(t)' = Handed(t)
  BY DEF taskVars, Handed
<1>2. ASSUME NEW d \in Conns, NEW reply \in Replies, NEW c \in Conns, NEW i, NEW result,
             toClient' = [toClient EXCEPT ![d] = Append(@, reply)], Carries(c, i, result)'
      PROVE  \/ Carries(c, i, result)
             \/ /\ c = d /\ i = Len(toClient[d]) + 1
                /\ reply.kind = "verify" /\ result = reply.result
  <2>1. toClient[c] \in Seq(Replies) /\ i \in DOMAIN toClient'[c]
    BY <1>2 DEF NetTypes, Carries
  <2>2. toClient'[c] = IF c = d THEN Append(toClient[c], reply) ELSE toClient[c]
    BY <1>2 DEF NetTypes
  <2>3. \/ i \in DOMAIN toClient[c] /\ toClient'[c][i] = toClient[c][i]
        \/ c = d /\ i = Len(toClient[d]) + 1 /\ toClient'[c][i] = reply
    BY <2>1, <2>2, AppendElements
  <2> QED BY <1>2, <2>3 DEF Carries
\* Nothing new is under way.
<1>3. CASE \A c \in Conns : \A i, result : Carries(c, i, result)' => Carries(c, i, result)
  <2>1. \A c, d \in Conns : \A i, j : \A result :
          Carries(c, i, result)' /\ Carries(d, j, result)' => c = d /\ i = j
    BY <1>3 DEF Apart
  <2>2. ASSUME NEW t \in Tasks, NEW c \in Conns, NEW i, NEW result,
               result \in Handed(t), Carries(c, i, result)'
        PROVE  FALSE
    BY <1>3, <2>2 DEF Apart, Carries
  <2> QED BY <1>1, <2>1, <2>2 DEF Apart, Carries
\* One decision is, in one place.
<1>4. ASSUME NEW r, NEW place,
             \A t \in Tasks : r \notin Handed(t),
             \A c \in Conns : \A i : ~Carries(c, i, r),
             \A c \in Conns : \A i, result : Carries(c, i, result)' =>
               Carries(c, i, result) \/ (result = r /\ <<c, i>> = place)
      PROVE  Apart'
  <2>1. \A c, d \in Conns : \A i, j : \A result :
          Carries(c, i, result)' /\ Carries(d, j, result)' => c = d /\ i = j
    BY <1>4 DEF Apart
  <2>2. ASSUME NEW t \in Tasks, NEW c \in Conns, NEW i, NEW result,
               result \in Handed(t), Carries(c, i, result)'
        PROVE  FALSE
    BY <1>4, <2>2 DEF Apart, Carries
  <2> QED BY <1>1, <2>1, <2>2 DEF Apart, Carries
<1>5. CASE toClient' = toClient
  BY <1>3, <1>5 DEF Carries
<1>6. CASE DecidesNothing /\ toClient' # toClient
  <2>1. PICK d \in Conns, reply \in Replies :
          reply.kind # "verify" /\ toClient' = [toClient EXCEPT ![d] = Append(@, reply)]
    BY <1>6 DEF DecidesNothing
  <2> QED BY <1>2, <1>3, <2>1
<1>7. CASE DecidesOne /\ toClient' # toClient
  <2>1. PICK r \in Results, d \in Conns :
          /\ r.life = life /\ r.seq = NextSequence
          /\ toClient' = [toClient EXCEPT ![d] = Append(@, Reply("verify", r))]
    BY <1>7 DEF DecidesOne
  <2>2. /\ \A t \in Tasks : r \notin Handed(t)
        /\ \A c \in Conns : \A i : ~Carries(c, i, r)
    BY <2>1, DecidedIsNew
  <2> DEFINE reply == Reply("verify", r)
             place == <<d, Len(toClient[d]) + 1>>
  <2>3. reply \in Replies /\ reply.result = r
    BY DEF Reply, Replies, Methods
  <2>4. toClient' = [toClient EXCEPT ![d] = Append(@, reply)]
    BY <2>1
  <2> HIDE DEF reply
  <2>5. ASSUME NEW c \in Conns, NEW i, NEW result, Carries(c, i, result)'
        PROVE  Carries(c, i, result) \/ (result = r /\ <<c, i>> = place)
    BY <1>2, <2>3, <2>4, <2>5
  <2> HIDE DEF place
  <2> QED BY <1>4, <2>2, <2>5
<1> QED BY <1>5, <1>6, <1>7, ServerEffects

SingledSession == HonestSession /\ Singled

LEMMA SingledNext == SingledSession /\ [Next]_vars => SingledSession'
<1> SUFFICES ASSUME SingledSession, [Next]_vars, L1Enabled PROVE Numbered' /\ Apart'
  BY HonestNext DEF SingledSession, Singled
<1>1. /\ Typed /\ IInv /\ NetTypes /\ ServerTypeOK /\ Honest /\ Numbered /\ Apart
  BY DEF SingledSession, HonestSession, TypedSession, Typed, IInv, Singled
<1>2. Numbered'
  BY <1>1, TypedNext, NumberedNext DEF TypedSession
<1>3. CASE ServerStep
  <2>1. UNCHANGED taskVars
    BY <1>1, <1>3, ServerKeepsNet DEF Typed
  <2> QED BY <1>1, <1>2, <1>3, <2>1, ServerKeepsApart
<1>4. CASE Meddling \/ UNCHANGED vars
  <2>1. UNCHANGED <<taskVars, toClient>>
    BY <1>4 DEF Meddling, CloseBegins, CloseEnds, CloseCancelled, ConnectsAnew, netVars, vars
  <2> QED BY <1>1, <1>2, <2>1 DEF Apart, Carries, Handed, taskVars
<1> QED BY <1>1, <1>2, <1>3, <1>4, TaskKeepsApart DEF Next

\* A server with a key numbers its receipts, and each answers one call: no other
\* task holds the same one, and no response will hand it over again.
THEOREM ReceiptsAnswerOnce == Spec => []AnswersOnce
<1>1. Init => SingledSession
  BY TypedFirst, InitIInv, HonestFirst, SingledFirst
     DEF Init, SingledSession, HonestSession, TypedSession
<1>2. SingledSession => AnswersOnce
  BY DEF SingledSession, Singled, Apart, AnswersOnce
<1> QED BY <1>1, <1>2, SingledNext, PTL DEF Spec
=============================================================================
