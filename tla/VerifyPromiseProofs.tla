------------------------ MODULE VerifyPromiseProofs ------------------------
(***************************************************************************)
(* A client that is used for verify alone, and whose tasks are not         *)
(* cancelled, keeps the contract of a call, for any number of tasks,       *)
(* calls, retries, connections, crashes and restarts, and whenever close() *)
(* and connect() are called.  Both premises are needed: a timed-out health *)
(* check or a cancelled verify leaves a response on a connection that      *)
(* stays in use.                                                           *)
(*                                                                         *)
(* Responses are matched by position, so the argument is about two         *)
(* connections: the one the client has is empty while it is marked as      *)
(* connected, unless the holder of the lock is using it; and what is on    *)
(* the one the holder uses is its request or the answer to it.  Every way  *)
(* to give up on an answer clears the mark, or happens on a connection     *)
(* that is empty or was left, and a new connection is empty.               *)
(***************************************************************************)
EXTENDS VerifierSessionProofs

OnlyVerify == Kinds = {"verify"} /\ ~Cancels

Decided == {history[i] : i \in DOMAIN history}

Clean(c) == toServer[c] = <<>> /\ toClient[c] = <<>> /\ ~torn[c]

Reading == {"drain", "header", "body"}

SomeoneReads == \E t \in Tasks : pc[t] \in Reading

\* The request is on its way, or lost.
Asked(t) == toServer[stream] \in {<<>>, <<Request(t)>>} /\ toClient[stream] = <<>>

\* The answer is on its way.
Answered(t) ==
  /\ toServer[stream] = <<>>
  /\ \E result \in Decided :
       result.cmd = Trace(t) /\ toClient[stream] = <<Reply("verify", result)>>

\* The connection that would be used next.
NextIsClean ==
  connected /\ cur # 0 /\ link[cur] # "left" => Clean(cur) \/ (stream = cur /\ SomeoneReads)

InSync ==
  /\ NextIsClean
  /\ \A t \in Tasks : pc[t] = "send" => stream = cur /\ Clean(stream)
  /\ \A t \in Tasks : pc[t] = "drain" => cur \in {0, stream} \/ Clean(cur)
  /\ \A t \in Tasks :
       pc[t] \in {"drain", "header"} => ~torn[stream] /\ (Asked(t) \/ Answered(t))
  /\ \A t \in Tasks : pc[t] = "body" => Answered(t)

Verifying == \A t \in Tasks : kind[t] = "verify"

\* Connections that were not made yet are empty; those that the server ended
\* carry no request.
Unused ==
  /\ cur < nextConn /\ stream < nextConn
  /\ \A c \in Conns : c >= nextConn => Clean(c)
  /\ \A c \in Conns : link[c] \notin {"open", "left"} => toServer[c] = <<>>

\* Requests are for calls that were made.
Made ==
  \A c \in Conns : \A i \in DOMAIN toServer[c] :
    \E t \in Tasks : \E n \in 1 .. calls[t] : toServer[c][i].cmd = <<t, n>>

\* What was returned is a decision on the caller's own command.
Matched ==
  \A t \in Tasks :
    pc[t] = "idle" /\ outcome[t].how = "returned" => outcome[t].reply.result.cmd = Trace(t)

PInv == InSync /\ Verifying /\ Unused /\ Made /\ Matched

LEMMA PInvFirst == Init => PInv
<1> SUFFICES ASSUME Init PROVE PInv
  OBVIOUS
<1>1. \A c \in Conns : Clean(c)
  BY DEF Init, Clean
<1>2. cur \in Nat /\ nextConn = cur + 1 /\ stream = 0 /\ (connected => cur \in Conns)
  BY SessionAssumption DEF Init, Conns
<1>3. InSync
  BY <1>1, <1>2 DEF Init, InSync, NextIsClean
<1>4. Verifying
  BY DEF Init, Verifying
<1>5. Unused
  BY <1>1, <1>2 DEF Init, Unused
<1>6. Made /\ Matched
  BY DEF Init, Made, Matched, Raised
<1> QED BY <1>3, <1>4, <1>5, <1>6 DEF PInv

LEMMA PInvIsSafe ==
  ASSUME Typed, PInv
  PROVE  StreamInSync /\ ResultMatchesCommand
<1>1. ResultMatchesCommand
  BY DEF PInv, Matched, ResultMatchesCommand
<1>2. connected /\ cur # 0 /\ link[cur] # "left" =>
        \/ toServer[cur] = <<>> /\ toClient[cur] = <<>> /\ ~torn[cur]
        \/ stream = cur /\ \E t \in Tasks : pc[t] \in {"drain", "header", "body"}
  BY DEF PInv, InSync, NextIsClean, Clean, SomeoneReads, Reading
<1>3. ASSUME NEW t \in Tasks, pc[t] \in {"drain", "header", "body"}
      PROVE  /\ torn[stream] => pc[t] = "body"
             /\ \/ toServer[stream] \in {<<>>, <<Request(t)>>} /\ toClient[stream] = <<>>
                \/ /\ toServer[stream] = <<>> /\ Len(toClient[stream]) = 1
                   /\ toClient[stream][1].result.cmd = Trace(t)
  <2>1. torn[stream] => pc[t] = "body"
    BY <1>3 DEF PInv, InSync
  <2>2. CASE Answered(t)
    <3>1. PICK result \in Decided :
            result.cmd = Trace(t) /\ toClient[stream] = <<Reply("verify", result)>>
      BY <2>2 DEF Answered
    <3>2. Len(toClient[stream]) = 1 /\ toClient[stream][1].result.cmd = Trace(t)
      BY <3>1 DEF Reply
    <3> QED BY <2>1, <2>2, <3>2 DEF Answered
  <2>3. CASE Asked(t)
    BY <2>1, <2>3 DEF Asked
  <2> QED BY <1>3, <2>2, <2>3 DEF PInv, InSync
<1> QED BY <1>1, <1>2, <1>3 DEF StreamInSync
-----------------------------------------------------------------------------
(* The steps of the client.                                                *)

\* Nobody but the holder of the lock is past it.
LEMMA OthersWait ==
  ASSUME Typed, NEW t \in Tasks, Holds(t), NEW u \in Tasks, u # t
  PROVE  pc[u] \in {"idle", "ensure"}
BY DEF Typed, TaskTypes, TaskDiscipline, Past, Holds, Labels

\* The holder of the lock ends its call or its attempt without a result.
LEMMA LeavingOffKeeps ==
  ASSUME Typed, PInv, NEW t \in Tasks, Holds(t), NEW error, error # "returned",
         Pauses(t) \/ Ends(t, Raised(error)),
         UNCHANGED <<cur, nextConn, toServer, toClient, torn>>,
         \A c \in Conns : link'[c] \notin {"open", "left"} => link[c] \notin {"open", "left"},
         connected' /\ cur # 0 /\ link'[cur] # "left" => Clean(cur)
  PROVE  PInv'
<1>2. /\ kind' = kind /\ calls' = calls /\ stream' = 0
      /\ \/ pc' = [pc EXCEPT ![t] = "sleep"] /\ outcome' = outcome
         \/ /\ pc' = [pc EXCEPT ![t] = "idle"]
            /\ outcome' = [outcome EXCEPT ![t] = Raised(error)]
  BY DEF Pauses, Ends
<1>3. InSync'
  <2>1. \A u \in Tasks : pc'[u] \in {"idle", "ensure", "sleep"}
    BY <1>2, OthersWait DEF Typed, TaskTypes
  <2>2. NextIsClean'
    BY DEF NextIsClean, Clean
  <2> QED BY <2>1, <2>2 DEF InSync
<1>4. Verifying'
  BY <1>2 DEF PInv, Verifying
<1>5. Unused'
  <2>1. 0 < nextConn
    BY SessionAssumption DEF Typed, NetTypes
  <2> QED BY <1>2, <2>1 DEF PInv, Unused, Clean
<1>6. Made'
  BY <1>2 DEF PInv, Made
<1>7. Matched'
  <2>1. \A u \in Tasks : pc'[u] = "idle" /\ outcome'[u].how = "returned"
                          => pc[u] = "idle" /\ outcome'[u] = outcome[u]
    BY <1>2 DEF Typed, TaskTypes, Raised
  <2> QED BY <1>2, <2>1 DEF PInv, Matched, Trace
<1> QED BY <1>3, <1>4, <1>5, <1>6, <1>7 DEF PInv

\* Giving up clears the mark, so nothing that is left on the connection matters.
LEMMA GivingUpKeeps ==
  ASSUME Typed, PInv, NEW t \in Tasks, Holds(t), NEW error, Fails(t, error),
         UNCHANGED <<cur, nextConn, toServer, toClient, torn>>,
         \A c \in Conns : link'[c] \notin {"open", "left"} => link[c] \notin {"open", "left"}
  PROVE  PInv'
<1>1. connected' = FALSE /\ (Pauses(t) \/ Ends(t, Raised("TransportError")))
  BY DEF PInv, Verifying, Fails
<1>2. "TransportError" # "returned"
  OBVIOUS
<1> QED BY <1>1, <1>2, LeavingOffKeeps

LEMMA CallPInv ==
  ASSUME OnlyVerify, Typed, PInv, NEW t \in Tasks, Call(t)
  PROVE  PInv'
<1>1. /\ pc[t] = "idle" /\ pc' = [pc EXCEPT ![t] = "ensure"]
      /\ kind' = [kind EXCEPT ![t] = "verify"]
      /\ calls' = [calls EXCEPT ![t] = calls[t] + 1]
      /\ UNCHANGED <<outcome, connected, stream, cur, nextConn>>
      /\ UNCHANGED <<link, toServer, toClient, torn, history>>
  BY DEF Call, OnlyVerify, connVars, netVars, serverVars
<1>2. \A u \in Tasks : u # t => pc'[u] = pc[u] /\ calls'[u] = calls[u] /\ kind'[u] = kind[u]
  BY <1>1 DEF Typed, TaskTypes
<1>3. pc'[t] = "ensure" /\ kind'[t] = "verify" /\ calls'[t] = calls[t] + 1 /\ calls[t] \in Nat
  BY <1>1, SessionAssumption DEF Typed, TaskTypes
<1>4. \A u \in Tasks : pc'[u] # "ensure" =>
        /\ pc[u] = pc'[u] /\ Trace(u)' = Trace(u) /\ Request(u)' = Request(u)
  BY <1>2, <1>3 DEF Trace, Request
<1>5. InSync'
  <2>1. SomeoneReads => SomeoneReads'
    BY <1>1, <1>2 DEF SomeoneReads, Reading
  <2>2. NextIsClean'
    BY <1>1, <2>1 DEF PInv, InSync, NextIsClean, Clean
  <2> QED BY <1>1, <1>2, <1>3, <1>4, <2>2 DEF PInv, InSync, Clean, Asked, Answered, Decided
<1>6. Verifying'
  BY <1>1, <1>2, <1>3 DEF PInv, Verifying
<1>7. Unused'
  BY <1>1 DEF PInv, Unused, Clean
<1>8. Made'
  BY <1>1, <1>2, <1>3 DEF PInv, Made
<1>9. Matched'
  BY <1>1, <1>4 DEF PInv, Matched
<1> QED BY <1>5, <1>6, <1>7, <1>8, <1>9 DEF PInv

\* Steps on which the holder only moves on: only the connection is to be shown.
LEMMA MovingKeeps ==
  ASSUME Typed, PInv, NEW t \in Tasks, Holds(t), pc[t] # "idle",
         NEW label \in Labels \ {"idle", "sleep"}, pc' = [pc EXCEPT ![t] = label],
         UNCHANGED <<kind, calls, outcome>>
  PROVE  /\ pc'[t] = label
         /\ \A u \in Tasks \ {t} : pc'[u] \in {"idle", "ensure"}
         /\ Matched'
<1>1. pc'[t] = label /\ \A u \in Tasks \ {t} : pc'[u] = pc[u]
  BY DEF Typed, TaskTypes
<1>2. Matched'
  BY <1>1 DEF PInv, Matched, Trace, Labels
<1> QED BY <1>1, <1>2, OthersWait

\* Nobody is reading while the holder of the lock is at its start or pausing.
LEMMA BetweenRequests ==
  ASSUME Typed, PInv, NEW t \in Tasks, Holds(t), pc[t] \in {"ensure", "connect", "sleep"}
  PROVE  /\ ~SomeoneReads
         /\ connected /\ cur # 0 /\ link[cur] # "left" => Clean(cur)
<1>1. ~SomeoneReads
  BY OthersWait DEF SomeoneReads, Reading
<1> QED BY <1>1 DEF PInv, InSync, NextIsClean

LEMMA EnsureReusesPInv ==
  ASSUME Typed, PInv, NEW t \in Tasks, EnsureReuses(t)
  PROVE  PInv'
<1>1. /\ Holds(t) /\ pc[t] = "ensure" /\ connected /\ cur # 0 /\ link[cur] # "left"
      /\ pc' = [pc EXCEPT ![t] = "send"] /\ UNCHANGED <<kind, calls, outcome>>
      /\ UNCHANGED <<connected, cur, nextConn, link, toServer, toClient, torn>>
      /\ stream' = cur
  BY DEF EnsureReuses, At, MayReuse, Moves, connVars, netVars
<1>2. pc'[t] = "send" /\ (\A u \in Tasks \ {t} : pc'[u] \in {"idle", "ensure"}) /\ Matched'
  BY <1>1, MovingKeeps DEF Labels
<1>3. Clean(cur)
  BY <1>1, BetweenRequests
<1>4. InSync'
  BY <1>1, <1>2, <1>3 DEF InSync, NextIsClean, Clean
<1>5. Verifying'
  BY <1>1 DEF PInv, Verifying
<1>6. Unused' /\ Made'
  BY <1>1 DEF PInv, Unused, Made, Clean
<1> QED BY <1>2, <1>4, <1>5, <1>6 DEF PInv

\* The holder of the lock starts, or goes on to connect.
LEMMA WaitingPInv ==
  ASSUME Typed, PInv, NEW t \in Tasks, Holds(t), pc[t] \in {"ensure", "sleep"},
         NEW label \in {"ensure", "connect"}, pc' = [pc EXCEPT ![t] = label],
         UNCHANGED <<kind, calls, outcome>>,
         UNCHANGED <<connected, stream, cur, nextConn, link, toServer, toClient, torn>>
  PROVE  PInv'
<1>2. pc'[t] = label /\ (\A u \in Tasks \ {t} : pc'[u] \in {"idle", "ensure"}) /\ Matched'
  BY MovingKeeps DEF Labels
<1>3. connected /\ cur # 0 /\ link[cur] # "left" => Clean(cur)
  BY BetweenRequests
<1>4. InSync'
  BY <1>2, <1>3 DEF InSync, NextIsClean, Clean
<1>5. Verifying'
  BY DEF PInv, Verifying
<1>6. Unused' /\ Made'
  BY DEF PInv, Unused, Made, Clean
<1> QED BY <1>2, <1>4, <1>5, <1>6 DEF PInv

\* A new connection is empty.
LEMMA OpensClean ==
  ASSUME Typed, PInv, Opens, UNCHANGED <<toServer, toClient, torn>>
  PROVE  /\ cur' \in Conns /\ Clean(cur)' /\ cur' < nextConn' /\ nextConn < nextConn'
         /\ \A c \in Conns : c >= nextConn' => Clean(c)'
         /\ \A c \in Conns : link'[c] \notin {"open", "left"} => toServer'[c] = <<>>
<1>1. /\ nextConn \in Conns /\ cur' = nextConn /\ nextConn' = nextConn + 1
      /\ link' = [link EXCEPT ![nextConn] = "open"]
  BY DEF Opens
<1>2. Clean(nextConn) /\ nextConn \in Nat \ {0}
  BY <1>1, SessionAssumption DEF PInv, Unused, Conns
<1>3. \A c \in Conns : c >= nextConn' => Clean(c)'
  BY <1>1, <1>2 DEF PInv, Unused, Clean, Conns
<1>4. \A c \in Conns : link'[c] \notin {"open", "left"} => toServer'[c] = <<>>
  BY <1>1 DEF PInv, Unused, Typed, NetTypes
<1> QED BY <1>1, <1>2, <1>3, <1>4 DEF Clean

LEMMA ConnectsPInv ==
  ASSUME Typed, PInv, NEW t \in Tasks, Connects(t)
  PROVE  PInv'
<1>1. /\ Holds(t) /\ pc[t] = "connect" /\ Opens /\ stream' = cur'
      /\ pc' = [pc EXCEPT ![t] = "send"] /\ UNCHANGED <<kind, calls, outcome>>
      /\ UNCHANGED <<toServer, toClient, torn>>
  BY DEF Connects, At
<1>2. pc'[t] = "send" /\ (\A u \in Tasks \ {t} : pc'[u] \in {"idle", "ensure"}) /\ Matched'
  BY <1>1, MovingKeeps DEF Labels
<1>3. /\ cur' \in Conns /\ Clean(cur)' /\ cur' < nextConn'
      /\ \A c \in Conns : c >= nextConn' => Clean(c)'
      /\ \A c \in Conns : link'[c] \notin {"open", "left"} => toServer'[c] = <<>>
  BY <1>1, OpensClean
<1>4. InSync'
  BY <1>1, <1>2, <1>3 DEF InSync, NextIsClean, Clean
<1>5. Verifying'
  BY <1>1 DEF PInv, Verifying
<1>6. Unused'
  BY <1>1, <1>3 DEF Unused
<1>7. Made'
  BY <1>1 DEF PInv, Made
<1> QED BY <1>2, <1>4, <1>5, <1>6, <1>7 DEF PInv

LEMMA SendsPInv ==
  ASSUME Typed, PInv, NEW t \in Tasks, Sends(t) \/ SendsSlowly(t)
  PROVE  PInv'
<1>0. PICK label \in {"header", "drain"} : Moves(t, label)
  BY DEF Sends, SendsSlowly
<1>1. /\ Holds(t) /\ pc[t] = "send"
      /\ pc' = [pc EXCEPT ![t] = label] /\ UNCHANGED <<kind, calls, outcome>>
      /\ toServer' = IF link[stream] = "open"
                       THEN [toServer EXCEPT ![stream] = Append(toServer[stream], Request(t))]
                       ELSE toServer
      /\ UNCHANGED <<connected, stream, cur, nextConn, link, toClient, torn>>
  BY <1>0 DEF Sends, SendsSlowly, Writes, At, Moves, connVars
<1>2. pc'[t] = label /\ (\A u \in Tasks \ {t} : pc'[u] \in {"idle", "ensure"}) /\ Matched'
  BY <1>1, MovingKeeps DEF Labels
<1>3. /\ stream \in Conns /\ stream = cur /\ Clean(stream)
      /\ toServer \in [Conns -> Seq(Requests)]
  BY <1>1 DEF PInv, InSync, Typed, NetTypes, NetDiscipline, Using
<1>4. /\ \A c \in Conns \ {stream} : toServer'[c] = toServer[c]
      /\ toServer'[stream] \in {<<>>, <<Request(t)>>}
      /\ link[stream] # "open" => toServer'[stream] = <<>>
  BY <1>1, <1>3 DEF Clean
<1>5. Request(t)' = Request(t)
  BY <1>1 DEF Request, Trace
<1>6. InSync'
  <2>1. SomeoneReads'
    BY <1>2 DEF SomeoneReads, Reading
  <2>2. ~torn'[stream] /\ Asked(t)'
    BY <1>1, <1>3, <1>4, <1>5 DEF Asked, Clean
  <2> QED BY <1>1, <1>2, <1>3, <2>1, <2>2 DEF InSync, NextIsClean
<1>7. Verifying'
  BY <1>1 DEF PInv, Verifying
<1>8. Unused'
  <2>1. \A c \in Conns : c >= nextConn => c # stream
    BY <1>3, SessionAssumption DEF PInv, Unused, Conns, Typed, NetTypes
  <2>2. \A c \in Conns : c >= nextConn => Clean(c)'
    BY <1>1, <1>4, <2>1 DEF PInv, Unused, Clean
  <2>3. \A c \in Conns : link'[c] \notin {"open", "left"} => toServer'[c] = <<>>
    BY <1>1, <1>4 DEF PInv, Unused
  <2> QED BY <1>1, <2>2, <2>3 DEF PInv, Unused
<1>9. Made'
  <2>1. calls[t] \in 1 .. MaxCalls
    BY <1>1 DEF Typed, TaskDiscipline
  <2>2. Request(t).cmd = <<t, calls[t]>> /\ calls[t] \in 1 .. calls[t]
    BY <2>1, SessionAssumption DEF Request, Trace
  <2>3. \A i \in DOMAIN toServer'[stream] :
          \E u \in Tasks : \E n \in 1 .. calls[u] : toServer'[stream][i].cmd = <<u, n>>
    BY <1>4, <2>2
  <2> QED BY <1>1, <1>4, <2>3 DEF PInv, Made
<1> QED BY <1>2, <1>6, <1>7, <1>8, <1>9 DEF PInv

\* The reader that is used after drain is that of the connection the request
\* was written to, or of one that is empty.
LEMMA DrainedPInv ==
  ASSUME Typed, PInv, NEW t \in Tasks, Drained(t)
  PROVE  PInv'
<1>1. /\ Holds(t) /\ pc[t] = "drain"
      /\ UNCHANGED <<cur, nextConn, link, toServer, toClient, torn, history>>
  BY DEF Drained, At, connVars, netVars, serverVars
<1>2. CASE Escapes(t, "AttributeError") /\ cur = 0
  <2>1. Ends(t, Raised("AttributeError")) /\ "AttributeError" # "returned"
    BY <1>2 DEF Escapes
  <2> QED BY <1>1, <1>2, <2>1, LeavingOffKeeps
<1>3. CASE cur # 0 /\ stream' = cur /\ Moves(t, "header")
  <2>1. /\ pc' = [pc EXCEPT ![t] = "header"] /\ UNCHANGED <<kind, calls, outcome, connected>>
    BY <1>3 DEF Moves
  <2>2. /\ pc'[t] = "header" /\ (\A u \in Tasks \ {t} : pc'[u] \in {"idle", "ensure"})
        /\ Matched'
    BY <1>1, <2>1, MovingKeeps DEF Labels
  <2>3. Trace(t)' = Trace(t) /\ Request(t)' = Request(t) /\ Decided' = Decided
    BY <1>1, <2>1 DEF Trace, Request, Decided
  <2>4. ~torn'[cur] /\ (Asked(t)' \/ Answered(t)')
    <3>1. CASE cur = stream
      BY <1>1, <1>3, <2>3, <3>1 DEF PInv, InSync, Asked, Answered
    <3>2. CASE cur # stream
      <4>1. Clean(cur)
        BY <1>1, <1>3, <3>2 DEF PInv, InSync
      <4> QED BY <1>1, <1>3, <4>1 DEF Asked, Clean
    <3> QED BY <3>1, <3>2
  <2>5. SomeoneReads'
    BY <2>2 DEF SomeoneReads, Reading
  <2>6. InSync'
    BY <1>1, <1>3, <2>2, <2>4, <2>5 DEF InSync, NextIsClean
  <2>7. Verifying' /\ Unused' /\ Made'
    BY <1>1, <1>3, <2>1 DEF PInv, Verifying, Unused, Made, Clean
  <2> QED BY <2>2, <2>6, <2>7 DEF PInv
<1> QED BY <1>2, <1>3 DEF Drained

LEMMA ReadsHeaderPInv ==
  ASSUME Typed, PInv, NEW t \in Tasks, ReadsHeader(t)
  PROVE  PInv'
<1>1. /\ Holds(t) /\ pc[t] = "header" /\ toClient[stream] # <<>>
      /\ pc' = [pc EXCEPT ![t] = "body"] /\ UNCHANGED <<kind, calls, outcome>>
      /\ torn' = [torn EXCEPT ![stream] = TRUE]
      /\ UNCHANGED <<connected, stream, cur, nextConn, link, toServer, toClient, history>>
  BY DEF ReadsHeader, At, Moves, connVars, serverVars
<1>2. pc'[t] = "body" /\ (\A u \in Tasks \ {t} : pc'[u] \in {"idle", "ensure"}) /\ Matched'
  BY <1>1, MovingKeeps DEF Labels
<1>3. stream \in Conns /\ Answered(t)
  BY <1>1 DEF PInv, InSync, Asked, Typed, NetDiscipline, Using
<1>4. InSync'
  <2>1. Answered(t)' /\ SomeoneReads'
    BY <1>1, <1>2, <1>3 DEF Answered, Trace, Decided, SomeoneReads, Reading
  <2>2. NextIsClean'
    BY <1>1, <2>1 DEF PInv, InSync, NextIsClean, Clean, Typed, NetTypes
  <2> QED BY <1>2, <2>1, <2>2 DEF InSync
<1>5. Verifying'
  BY <1>1 DEF PInv, Verifying
<1>6. Unused'
  BY <1>1, <1>3, SessionAssumption DEF PInv, Unused, Clean, Conns, Typed, NetTypes
<1>7. Made'
  BY <1>1 DEF PInv, Made
<1> QED BY <1>2, <1>4, <1>5, <1>6, <1>7 DEF PInv

\* The payload that is read is the answer, and the call returns it.
LEMMA ReadsTheAnswer ==
  ASSUME Typed, PInv, NEW t \in Tasks, ReadsBody(t)
  PROVE  \E result \in Decided :
           /\ result.cmd = Trace(t)
           /\ Ends(t, Returned(Reply("verify", result)))
           /\ toClient' = [toClient EXCEPT ![stream] = <<>>]
           /\ connected' = connected
<1>1. Holds(t) /\ pc[t] = "body" /\ kind[t] = "verify"
  BY DEF ReadsBody, At, PInv, Verifying
<1>3. PICK result \in Decided :
        result.cmd = Trace(t) /\ toClient[stream] = <<Reply("verify", result)>>
  BY <1>1 DEF PInv, InSync, Answered
<1>4. Head(toClient[stream]) = Reply("verify", result) /\ Tail(toClient[stream]) = <<>>
  BY <1>3
<1>5. ResponseTaken(t, Reply("verify", result))
  BY <1>4 DEF ReadsBody
<1>6. Reply("verify", result).kind = "verify"
  BY DEF Reply
<1>7. Ends(t, Returned(Reply("verify", result))) /\ connected' = connected
  BY <1>1, <1>5, <1>6 DEF ResponseTaken
<1>8. toClient' = [toClient EXCEPT ![stream] = <<>>]
  BY <1>4 DEF ReadsBody
<1> QED BY <1>3, <1>7, <1>8

LEMMA ReadsBodyPInv ==
  ASSUME Typed, PInv, NEW t \in Tasks, ReadsBody(t)
  PROVE  PInv'
<1>1. PICK result \in Decided :
        /\ result.cmd = Trace(t)
        /\ Ends(t, Returned(Reply("verify", result)))
        /\ toClient' = [toClient EXCEPT ![stream] = <<>>]
        /\ connected' = connected
  BY ReadsTheAnswer
<1>2. /\ Holds(t) /\ pc[t] = "body" /\ torn' = [torn EXCEPT ![stream] = FALSE]
      /\ UNCHANGED <<cur, nextConn, link, toServer>>
  BY DEF ReadsBody, At, connVars
<1>3. /\ outcome' = [outcome EXCEPT ![t] = Returned(Reply("verify", result))]
      /\ pc' = [pc EXCEPT ![t] = "idle"]
      /\ UNCHANGED <<kind, calls>> /\ stream' = 0
  BY <1>1 DEF Ends
<1>4. pc'[t] = "idle" /\ \A u \in Tasks \ {t} : pc'[u] = pc[u] /\ pc[u] \in {"idle", "ensure"}
  BY <1>2, <1>3, OthersWait DEF Typed, TaskTypes
<1>5. stream \in Conns /\ toServer[stream] = <<>>
  BY <1>2 DEF PInv, InSync, Answered, Typed, NetDiscipline, Using
<1>6. /\ toServer'[stream] = <<>> /\ toClient'[stream] = <<>> /\ ~torn'[stream]
      /\ \A c \in Conns : Clean(c) => Clean(c)'
  BY <1>1, <1>2, <1>5 DEF Clean, Typed, NetTypes
<1>7. InSync'
  <2>1. NextIsClean'
    BY <1>1, <1>2, <1>6 DEF PInv, InSync, NextIsClean, Clean, Typed, NetTypes
  <2> QED BY <1>4, <2>1 DEF InSync
<1>8. Verifying'
  BY <1>3 DEF PInv, Verifying
<1>9. Unused'
  BY <1>2, <1>3, <1>6, SessionAssumption DEF PInv, Unused, Typed, NetTypes
<1>10. Made'
  BY <1>2, <1>3 DEF PInv, Made
<1>11. Matched'
  <2>1. outcome'[t].reply.result = result
    BY <1>3 DEF Returned, Reply, Typed, TaskTypes
  <2>2. \A u \in Tasks \ {t} : pc'[u] = pc[u] /\ outcome'[u] = outcome[u]
    BY <1>3, <1>4 DEF Typed, TaskTypes
  <2> QED BY <1>1, <1>3, <2>1, <2>2 DEF PInv, Matched, Trace
<1> QED BY <1>7, <1>8, <1>9, <1>10, <1>11 DEF PInv

\* An end of file leaves the mark on a connection that carries nothing or that
\* close() has left.
LEMMA ReadsEofPInv ==
  ASSUME Typed, PInv, NEW t \in Tasks, ReadsEof(t)
  PROVE  PInv'
<1>1. /\ Holds(t) /\ Ends(t, Raised("IncompleteReadError")) /\ connected' = connected
      /\ \/ pc[t] = "header" /\ link[stream] = "eof" /\ toClient[stream] = <<>>
         \/ pc[t] \in {"header", "body"} /\ link[stream] = "left"
      /\ UNCHANGED <<cur, nextConn, link, toServer, toClient, torn>>
      /\ "IncompleteReadError" # "returned"
  BY DEF ReadsEof, At, Escapes, connVars, netVars
<1>2. ASSUME connected', cur # 0, link'[cur] # "left" PROVE Clean(cur)
  <2>1. CASE stream # cur
    BY <1>1, <1>2, <2>1 DEF PInv, InSync, NextIsClean
  <2>2. CASE stream = cur
    <3>1. pc[t] = "header" /\ link[stream] = "eof" /\ toClient[stream] = <<>>
      BY <1>1, <1>2, <2>2
    <3>2. stream \in Conns
      BY <3>1 DEF Typed, NetDiscipline, Using
    <3> QED BY <2>2, <3>1, <3>2 DEF PInv, InSync, Unused, Clean
  <2> QED BY <2>1, <2>2
<1> QED BY <1>1, <1>2, LeavingOffKeeps

LEMMA ClientPInv ==
  ASSUME OnlyVerify, Typed, PInv, NEW t \in Tasks,
         Call(t) \/ ClientStep(t) \/ Drained(t) \/ Cancelled(t)
  PROVE  PInv'
<1>1. CASE EnsureRefuses(t) \/ ConnectFails(t) \/ RequestTooLarge(t) \/ ReadsGarbage(t)
           \/ TimesOut(t)
  <2>1. PICK error : Fails(t, error)
    BY <1>1 DEF EnsureRefuses, ConnectFails, RequestTooLarge, ReadsGarbage, TimesOut
  <2>2. Holds(t) /\ UNCHANGED <<cur, nextConn, link, toServer, toClient, torn>>
    BY <1>1 DEF EnsureRefuses, ConnectFails, RequestTooLarge, ReadsGarbage, TimesOut, At,
                connVars, netVars
  <2> QED BY <2>1, <2>2, GivingUpKeeps
<1>2. CASE SendFails(t) \/ ReadsReset(t)
  <2>1. /\ Fails(t, "ConnectionError") /\ Holds(t)
        /\ UNCHANGED <<cur, nextConn, toServer, toClient, torn>>
        /\ link[stream] \in {"eof", "reset"} /\ link' = [link EXCEPT ![stream] = "closed"]
    BY <1>2 DEF SendFails, ReadsReset, At, connVars
  <2>2. \A c \in Conns :
          link'[c] \notin {"open", "left"} => link[c] \notin {"open", "left"}
    BY <2>1 DEF Typed, NetTypes
  <2> QED BY <2>1, <2>2, GivingUpKeeps
<1>3. CASE EnsureReconnects(t) \/ Wakes(t)
  <2>1. /\ Holds(t) /\ pc[t] \in {"ensure", "sleep"}
        /\ \E label \in {"ensure", "connect"} : pc' = [pc EXCEPT ![t] = label]
        /\ UNCHANGED <<kind, calls, outcome>>
        /\ UNCHANGED <<connected, stream, cur, nextConn, link, toServer, toClient, torn>>
    BY <1>3 DEF EnsureReconnects, Wakes, Moves, At, clientVars, connVars, netVars
  <2> QED BY <2>1, WaitingPInv
<1> QED BY <1>1, <1>2, <1>3, CallPInv, EnsureReusesPInv, ConnectsPInv, SendsPInv, DrainedPInv,
           ReadsHeaderPInv, ReadsBodyPInv, ReadsEofPInv
        DEF ClientStep, Cancelled, OnlyVerify

\* close() and connect(): a connection that was left is not used again, and a
\* new one is empty.
LEMMA MeddlingPInv ==
  ASSUME Typed, PInv, Meddling
  PROVE  PInv'
<1>1. /\ UNCHANGED <<pc, kind, calls, outcome, stream>> /\ UNCHANGED <<toServer, toClient, torn>>
      /\ history' = history
  BY DEF Meddling, CloseBegins, CloseEnds, CloseCancelled, ConnectsAnew, taskVars, netVars,
         serverVars
<1>2. /\ \A t \in Tasks : (Asked(t) => Asked(t)') /\ (Answered(t) => Answered(t)')
      /\ SomeoneReads => SomeoneReads'
      /\ \A c \in Conns : Clean(c) => Clean(c)'
  BY <1>1 DEF Asked, Answered, Request, Trace, Decided, SomeoneReads, Clean
<1>3. Verifying' /\ Made' /\ Matched'
  BY <1>1 DEF PInv, Verifying, Made, Matched, Trace
<1>4. CASE CloseBegins
  <2>1. UNCHANGED <<cur, nextConn>> /\ \A t \in Tasks : pc[t] # "send"
    BY <1>4 DEF CloseBegins, Meddles
  <2>2. NextIsClean'
    BY <1>4, <2>1 DEF CloseBegins, NextIsClean, Typed, NetTypes
  <2>3. InSync'
    BY <1>1, <1>2, <2>1, <2>2 DEF PInv, InSync, Typed, NetTypes, Clean
  <2>4. Unused'
    BY <1>1, <1>4, <2>1 DEF PInv, Unused, Clean, CloseBegins, Typed, NetTypes
  <2> QED BY <1>3, <2>3, <2>4 DEF PInv
<1>5. CASE CloseEnds
  <2>1. /\ connected' = FALSE /\ cur' = 0 /\ UNCHANGED <<nextConn, link>>
        /\ \A t \in Tasks : pc[t] # "send"
    BY <1>5 DEF CloseEnds, netVars
  <2>2. InSync'
    BY <1>1, <1>2, <2>1 DEF PInv, InSync, NextIsClean
  <2>3. Unused'
    BY <1>1, <2>1, SessionAssumption DEF PInv, Unused, Clean, Typed, NetTypes
  <2> QED BY <1>3, <2>2, <2>3 DEF PInv
<1>6. CASE CloseCancelled
  <2>1. UNCHANGED <<connected, cur, nextConn, link>>
    BY <1>6 DEF CloseCancelled, netVars
  <2>2. NextIsClean'
    BY <1>1, <1>2, <2>1 DEF PInv, InSync, NextIsClean, Clean
  <2>3. InSync'
    BY <1>1, <1>2, <2>1, <2>2 DEF PInv, InSync, Clean
  <2>4. Unused'
    BY <1>1, <2>1 DEF PInv, Unused, Clean
  <2> QED BY <1>3, <2>3, <2>4 DEF PInv
<1>7. CASE ConnectsAnew
  <2>1. Opens /\ \A t \in Tasks : pc[t] # "send"
    BY <1>7 DEF ConnectsAnew, Meddles
  <2>2. /\ cur' \in Conns /\ Clean(cur)' /\ cur' < nextConn' /\ nextConn < nextConn'
        /\ \A c \in Conns : c >= nextConn' => Clean(c)'
        /\ \A c \in Conns : link'[c] \notin {"open", "left"} => toServer'[c] = <<>>
    BY <1>1, <2>1, OpensClean
  <2>3. InSync'
    <3>1. NextIsClean' /\ (Clean(cur))'
      BY <2>2 DEF NextIsClean
    <3> QED BY <1>1, <1>2, <2>1, <3>1 DEF PInv, InSync
  <2>4. Unused'
    <3>1. stream < nextConn'
      BY <2>1, <2>2, SessionAssumption DEF PInv, Unused, Opens, Typed, NetTypes, Conns
    <3> QED BY <1>1, <2>2, <3>1 DEF Unused
  <2> QED BY <1>3, <2>3, <2>4 DEF PInv
<1> QED BY <1>4, <1>5, <1>6, <1>7 DEF Meddling
-----------------------------------------------------------------------------
(* The steps of the server.                                                *)

\* What a handler reads on the connection the holder of the lock is using is
\* the request of that task, which waits for its answer.
LEMMA ReadsAwaitedRequest ==
  ASSUME Typed, PInv, HandlerReads(stream), NEW t \in Tasks, pc[t] \in Reading
  PROVE  /\ pc[t] # "body"
         /\ toServer[stream] = <<Request(t)>> /\ toClient[stream] = <<>> /\ ~torn[stream]
         /\ Head(toServer[stream]).kind = "verify"
<1>1. toServer[stream] # <<>>
  BY DEF HandlerReads
<1>2. pc[t] \in {"drain", "header"}
  BY <1>1 DEF PInv, InSync, Answered, Reading
<1>3. toServer[stream] = <<Request(t)>> /\ toClient[stream] = <<>> /\ ~torn[stream]
  BY <1>1, <1>2 DEF PInv, InSync, Asked, Answered
<1>4. Head(toServer[stream]) = Request(t)
  BY <1>3
<1> QED BY <1>2, <1>3, <1>4 DEF Request, PInv, Verifying

\* The steps of the server leave the client and the tasks alone.
LEMMA ServerLeavesClient ==
  ASSUME UNCHANGED <<clientVars, taskVars>>, torn' = torn, Decided \subseteq Decided', PInv
  PROVE  /\ UNCHANGED <<connected, stream, cur, nextConn, pc, kind, calls, outcome, torn>>
         /\ \A t \in Tasks : Trace(t)' = Trace(t) /\ Request(t)' = Request(t)
         /\ SomeoneReads' = SomeoneReads
         /\ Verifying' /\ Matched'
BY DEF clientVars, connVars, taskVars, Trace, Request, PInv, Verifying, Matched, SomeoneReads

LEMMA AnswersPInv ==
  ASSUME Typed, PInv, NEW c \in Conns, HandlerReads(c), NEW reply, HandlerAnswers(c, reply),
         UNCHANGED <<clientVars, taskVars>>, Decided \subseteq Decided',
         c = stream /\ SomeoneReads =>
           \E result \in Decided' :
             result.cmd = Head(toServer[c]).cmd /\ reply = Reply("verify", result)
  PROVE  PInv'
<1>1. /\ toServer' = [toServer EXCEPT ![c] = Tail(toServer[c])]
      /\ toClient' = IF link[c] = "open"
                       THEN [toClient EXCEPT ![c] = Append(toClient[c], reply)] ELSE toClient
      /\ UNCHANGED <<link, torn>>
      /\ toServer[c] \in Seq(Requests) /\ toServer[c] # <<>> /\ link[c] \in {"open", "left"}
      /\ toClient \in [Conns -> Seq(Replies)] /\ toServer \in [Conns -> Seq(Requests)]
  BY DEF HandlerAnswers, HandlerReads, Typed, NetTypes
<1>2. /\ UNCHANGED <<connected, stream, cur, nextConn, pc, kind, calls, outcome, torn>>
      /\ \A t \in Tasks : Trace(t)' = Trace(t) /\ Request(t)' = Request(t)
      /\ SomeoneReads' = SomeoneReads
      /\ Verifying' /\ Matched'
  BY <1>1, ServerLeavesClient
<1>3. \A d \in Conns \ {c} : toServer'[d] = toServer[d] /\ toClient'[d] = toClient[d]
  BY <1>1
<1>4. \A d \in Conns : Clean(d) => Clean(d)'
  BY <1>1, <1>2, <1>3 DEF Clean
<1>5. ASSUME NEW t \in Tasks, pc[t] \in Reading
      PROVE  \/ c = stream /\ pc[t] # "body" /\ (Asked(t)' \/ Answered(t)')
             \/ c # stream /\ (Asked(t) => Asked(t)') /\ (Answered(t) => Answered(t)')
  <2>1. CASE c = stream
    <3>1. pc[t] # "body" /\ toServer[stream] = <<Request(t)>> /\ toClient[stream] = <<>>
      BY <1>5, <2>1, ReadsAwaitedRequest
    <3>2. PICK result \in Decided' :
            result.cmd = Head(toServer[stream]).cmd /\ reply = Reply("verify", result)
      BY <1>5, <2>1 DEF SomeoneReads
    <3>3. result.cmd = Trace(t)
      BY <3>1, <3>2 DEF Request
    <3>4. toServer'[stream] = <<>>
      BY <1>1, <2>1, <3>1
    <3>5. CASE link[c] = "open"
      <4>1. toClient'[stream] = <<Reply("verify", result)>>
        BY <1>1, <2>1, <3>1, <3>2, <3>5
      <4> QED BY <1>2, <2>1, <3>1, <3>2, <3>3, <3>4, <4>1 DEF Answered
    <3>6. CASE link[c] # "open"
      BY <1>1, <1>2, <2>1, <3>1, <3>4, <3>6 DEF Asked
    <3> QED BY <3>5, <3>6
  <2>2. CASE c # stream
    <3>1. stream \in Conns
      BY <1>5 DEF Typed, NetDiscipline, Using, Reading
    <3>2. toServer'[stream] = toServer[stream] /\ toClient'[stream] = toClient[stream]
      BY <1>3, <2>2, <3>1
    <3> QED BY <1>2, <2>2, <3>2 DEF Asked, Answered
  <2> QED BY <2>1, <2>2
<1>6. InSync'
  <2>1. NextIsClean'
    BY <1>1, <1>2, <1>4 DEF PInv, InSync, NextIsClean, Typed, NetTypes
  <2>2. \A t \in Tasks : pc'[t] = "send" => stream' = cur' /\ Clean(stream)'
    BY <1>2, <1>4 DEF PInv, InSync, Typed, NetDiscipline, Using
  <2>3. \A t \in Tasks : pc'[t] = "drain" => cur' \in {0, stream'} \/ Clean(cur)'
    BY <1>2, <1>4 DEF PInv, InSync, Typed, NetTypes
  <2>4. \A t \in Tasks :
          pc'[t] \in {"drain", "header"} => ~torn'[stream'] /\ (Asked(t)' \/ Answered(t)')
    BY <1>2, <1>5 DEF PInv, InSync, Reading
  <2>5. \A t \in Tasks : pc'[t] = "body" => Answered(t)'
    BY <1>2, <1>5 DEF PInv, InSync, Reading
  <2> QED BY <2>1, <2>2, <2>3, <2>4, <2>5 DEF InSync
<1>7. Unused'
  <2>1. ~(c >= nextConn)
    BY <1>1 DEF PInv, Unused, Clean
  <2> QED BY <1>1, <1>2, <1>3, <2>1 DEF PInv, Unused, Clean
<1>8. Made'
  <2>1. /\ Tail(toServer[c]) \in Seq(Requests)
        /\ Len(Tail(toServer[c])) = Len(toServer[c]) - 1
        /\ \A i \in 1 .. Len(Tail(toServer[c])) : Tail(toServer[c])[i] = toServer[c][i + 1]
    BY <1>1, HeadTailProperties
  <2>2. \A i \in DOMAIN Tail(toServer[c]) :
          i + 1 \in DOMAIN toServer[c] /\ Tail(toServer[c])[i] = toServer[c][i + 1]
    BY <1>1, <2>1, LenProperties
  <2>3. toServer'[c] = Tail(toServer[c])
    BY <1>1
  <2>4. \A i \in DOMAIN toServer'[c] :
          \E t \in Tasks : \E n \in 1 .. calls[t] : toServer'[c][i].cmd = <<t, n>>
    BY <2>2, <2>3 DEF PInv, Made
  <2>5. \A d \in Conns \ {c} : \A i \in DOMAIN toServer'[d] :
          \E t \in Tasks : \E n \in 1 .. calls[t] : toServer'[d][i].cmd = <<t, n>>
    BY <1>3 DEF PInv, Made
  <2> QED BY <1>2, <2>4, <2>5 DEF Made
<1> QED BY <1>2, <1>6, <1>7, <1>8 DEF PInv

\* A connection that the server leaves loses its requests.
LEMMA LeavingPInv ==
  ASSUME Typed, PInv, UNCHANGED <<clientVars, taskVars>>, UNCHANGED <<toClient, torn>>,
         Decided \subseteq Decided',
         \A c \in Conns : \/ toServer'[c] = <<>>
                          \/ toServer'[c] = toServer[c] /\ link'[c] = link[c],
         \A c \in Conns : link[c] = "left" => link'[c] = "left"
  PROVE  PInv'
<1>1. /\ UNCHANGED <<connected, stream, cur, nextConn, pc, kind, calls, outcome, torn>>
      /\ \A t \in Tasks : Trace(t)' = Trace(t) /\ Request(t)' = Request(t)
      /\ SomeoneReads' = SomeoneReads
      /\ Verifying' /\ Matched'
  BY ServerLeavesClient
<1>2. \A c \in Conns : Clean(c) => Clean(c)'
  BY <1>1 DEF Clean
<1>3. ASSUME NEW t \in Tasks, pc[t] \in Reading
      PROVE  (Asked(t) => Asked(t)') /\ (Answered(t) => Answered(t)')
  <2>1. stream \in Conns
    BY <1>3 DEF Typed, NetDiscipline, Using, Reading
  <2>2. toServer'[stream] \in {<<>>, toServer[stream]} /\ toClient'[stream] = toClient[stream]
    BY <2>1
  <2> QED BY <1>1, <2>2 DEF Asked, Answered
<1>4. InSync'
  <2>1. NextIsClean'
    BY <1>1, <1>2 DEF PInv, InSync, NextIsClean, Typed, NetTypes
  <2>2. \A t \in Tasks : pc'[t] = "send" => stream' = cur' /\ Clean(stream)'
    BY <1>1, <1>2 DEF PInv, InSync, Typed, NetDiscipline, Using
  <2>3. \A t \in Tasks : pc'[t] = "drain" => cur' \in {0, stream'} \/ Clean(cur)'
    BY <1>1, <1>2 DEF PInv, InSync, Typed, NetTypes
  <2>4. \A t \in Tasks :
          pc'[t] \in {"drain", "header"} => ~torn'[stream'] /\ (Asked(t)' \/ Answered(t)')
    BY <1>1, <1>3 DEF PInv, InSync, Reading
  <2>5. \A t \in Tasks : pc'[t] = "body" => Answered(t)'
    BY <1>1, <1>3 DEF PInv, InSync, Reading
  <2> QED BY <2>1, <2>2, <2>3, <2>4, <2>5 DEF InSync
<1>5. Unused'
  BY <1>1 DEF PInv, Unused, Clean
<1>6. Made'
  BY <1>1 DEF PInv, Made
<1> QED BY <1>1, <1>4, <1>5, <1>6 DEF PInv

LEMMA CompletesDecides ==
  ASSUME ServerTypeOK, NEW cmd \in Commands, NEW outcomes, Completes(cmd, outcomes)
  PROVE  Decided' = Decided \cup {Result(cmd, outcomes)}
<1> DEFINE r == Result(cmd, outcomes)
<1>1. history' = Append(history, r) /\ r \in Results /\ history \in Seq(Results)
  BY ResultType DEF Completes, ServerTypeOK
<1> HIDE DEF r
<1>2. /\ history' \in Seq(Results) /\ Len(history) \in Nat
      /\ Len(history') = Len(history) + 1
      /\ \A i \in 1 .. Len(history) : history'[i] = history[i]
      /\ history'[Len(history) + 1] = r
  BY <1>1, AppendProperties, LenProperties
<1>3. DOMAIN history = 1 .. Len(history) /\ DOMAIN history' = 1 .. Len(history) + 1
  BY <1>1, <1>2, LenProperties
<1>4. Decided' = Decided \cup {r}
  BY <1>2, <1>3 DEF Decided
<1> QED BY <1>4 DEF r

\* Every step of the server decides one command that was submitted, or none.
LEMMA ServerDecides ==
  ASSUME Typed, IInv, PInv, ServerStep
  PROVE  \/ Decided' = Decided
         \/ \E result : /\ Decided' = Decided \cup {result}
                        /\ \E t \in Tasks : \E n \in 1 .. calls[t] : result.cmd = <<t, n>>
<1>1. ASSUME NEW c \in Conns, NEW outcomes \in [Rules -> Outcomes], ServesVerify(c, outcomes)
      PROVE  \E result : /\ Decided' = Decided \cup {result}
                         /\ \E t \in Tasks : \E n \in 1 .. calls[t] : result.cmd = <<t, n>>
  <2> DEFINE cmd == Head(toServer[c]).cmd
  <2>1. HandlerReads(c) /\ Completes(cmd, outcomes)
    BY <1>1 DEF ServesVerify
  <2>2. toServer[c] \in Seq(Requests) /\ toServer[c] # <<>> /\ cmd \in Commands
    BY <2>1, HandlerTakesRequest DEF HandlerReads, Typed, NetTypes, Requests
  <2>3. Head(toServer[c]) = toServer[c][1] /\ 1 \in DOMAIN toServer[c]
    BY <2>2, HeadIsFirst, LenProperties, EmptySeq
  <2>4. \E t \in Tasks : \E n \in 1 .. calls[t] : cmd = <<t, n>>
    BY <2>3 DEF PInv, Made
  <2> HIDE DEF cmd
  <2>5. Decided' = Decided \cup {Result(cmd, outcomes)}
    BY <2>1, <2>2, CompletesDecides DEF IInv
  <2>6. Result(cmd, outcomes).cmd = cmd
    BY DEF Result
  <2> QED BY <2>4, <2>5, <2>6
<1>2. ASSUME ~ \E c \in Conns, outcomes \in [Rules -> Outcomes] : ServesVerify(c, outcomes)
      PROVE  Decided' = Decided
  <2>1. history' = history
    BY <1>2 DEF ServerStep, VerifyFails, ServesQuery, Crashes, StartsAgain, LeavesNothing,
                BuildRejects, Restarts, serverVars
  <2> QED BY <2>1 DEF Decided
<1> QED BY <1>1, <1>2

LEMMA ServerPInv ==
  ASSUME Typed, IInv, PInv, ServerStep
  PROVE  PInv'
<1>1. Decided \subseteq Decided'
  BY ServerDecides
<1>2. ASSUME NEW c \in Conns, NEW outcomes \in [Rules -> Outcomes], ServesVerify(c, outcomes)
      PROVE  PInv'
  <2> DEFINE cmd == Head(toServer[c]).cmd
             result == Result(cmd, outcomes)
  <2>1. /\ HandlerReads(c) /\ Completes(cmd, outcomes) /\ UNCHANGED <<clientVars, taskVars>>
        /\ HandlerAnswers(c, Reply("verify", result)) \/ HandlerCloses(c)
    BY <1>2 DEF ServesVerify
  <2>2. cmd \in Commands
    BY <2>1, HandlerTakesRequest DEF Typed, Requests
  <2>3. Decided' = Decided \cup {result}
    BY <2>1, <2>2, CompletesDecides DEF IInv
  <2>4. result.cmd = cmd
    BY DEF Result
  <2>5. CASE HandlerAnswers(c, Reply("verify", result))
    <3> HIDE DEF result
    <3>1. result \in Decided' /\ result.cmd = Head(toServer[c]).cmd
      BY <2>3, <2>4
    <3> QED BY <1>1, <2>1, <2>5, <3>1, AnswersPInv
  <2>6. CASE HandlerCloses(c)
    <3>1. \A d \in Conns : \/ toServer'[d] = <<>>
                           \/ toServer'[d] = toServer[d] /\ link'[d] = link[d]
      BY <2>6 DEF HandlerCloses, Typed, NetTypes
    <3>2. \A d \in Conns : link[d] = "left" => link'[d] = "left"
      BY <2>6 DEF HandlerCloses, Broken, Typed, NetTypes
    <3> QED BY <1>1, <2>1, <2>6, <3>1, <3>2, LeavingPInv DEF HandlerCloses
  <2> QED BY <2>1, <2>5, <2>6
<1>3. ASSUME NEW c \in Conns, NEW outcomes \in [Rules -> Outcomes], VerifyFails(c, outcomes)
      PROVE  PInv'
  <2>1. HandlerCloses(c) /\ UNCHANGED <<clientVars, taskVars>>
    BY <1>3 DEF VerifyFails
  <2>2. \A d \in Conns : \/ toServer'[d] = <<>>
                         \/ toServer'[d] = toServer[d] /\ link'[d] = link[d]
    BY <2>1 DEF HandlerCloses, Typed, NetTypes
  <2>3. \A d \in Conns : link[d] = "left" => link'[d] = "left"
    BY <2>1 DEF HandlerCloses, Broken, Typed, NetTypes
  <2> QED BY <1>1, <2>1, <2>2, <2>3, LeavingPInv DEF HandlerCloses
<1>4. ASSUME NEW c \in Conns, ServesQuery(c) PROVE PInv'
  <2>1. /\ HandlerReads(c) /\ Head(toServer[c]).kind # "verify"
        /\ UNCHANGED <<clientVars, taskVars>>
    BY <1>4 DEF ServesQuery
  <2>2. PICK reply : HandlerAnswers(c, reply)
    BY <1>4 DEF ServesQuery
  <2>3. ~(c = stream /\ SomeoneReads)
    BY <2>1, ReadsAwaitedRequest DEF SomeoneReads
  <2> QED BY <1>1, <2>1, <2>2, <2>3, AnswersPInv
<1>5. CASE Crashes
  <2>1. /\ UNCHANGED <<clientVars, taskVars>> /\ UNCHANGED <<toClient, torn>>
        /\ toServer' = [c \in Conns |-> <<>>]
        /\ \A c \in Conns : link[c] = "left" => link'[c] = "left"
    BY <1>5 DEF Crashes
  <2> QED BY <1>1, <2>1, LeavingPInv
<1>6. CASE StartsAgain
  <2>1. /\ UNCHANGED <<clientVars, taskVars>> /\ UNCHANGED <<toClient, torn>>
        /\ UNCHANGED <<link, toServer>>
    BY <1>6 DEF StartsAgain, netVars
  <2> QED BY <1>1, <2>1, LeavingPInv
<1> QED BY <1>2, <1>3, <1>4, <1>5, <1>6 DEF ServerStep

LEMMA IdlePInv == ASSUME Typed, PInv, UNCHANGED vars PROVE PInv'
<1>1. /\ UNCHANGED <<clientVars, taskVars>> /\ UNCHANGED <<toClient, torn>>
      /\ UNCHANGED <<link, toServer>> /\ history' = history
  BY DEF vars, netVars, serverVars
<1> QED BY <1>1, LeavingPInv DEF Decided

PromiseInv == TypedSession /\ PInv

LEMMA PromiseInvAlways == ASSUME OnlyVerify PROVE Spec => []PromiseInv
<1>1. Init => PromiseInv
  BY TypedFirst, InitIInv, PInvFirst DEF Init, TypedSession, PromiseInv
<1>2. PromiseInv /\ [Next]_vars => PromiseInv'
  <2> SUFFICES ASSUME PromiseInv, [Next]_vars PROVE PromiseInv'
    OBVIOUS
  <2>1. Typed /\ IInv /\ PInv /\ TypedSession'
    BY TypedNext DEF PromiseInv, TypedSession
  <2>2. PInv'
    BY <2>1, ClientPInv, MeddlingPInv, ServerPInv, IdlePInv DEF Next
  <2> QED BY <2>1, <2>2 DEF PromiseInv
<1> QED BY <1>1, <1>2, PTL DEF Spec

\* A client that only verifies returns the decision on the command it was given,
\* whatever was given up before and whatever the server does (client.py:111-148).
THEOREM VerifyAnswersItsCommand == ASSUME OnlyVerify PROVE Spec => []ResultMatchesCommand
<1>1. PromiseInv => ResultMatchesCommand
  BY PInvIsSafe DEF PromiseInv, TypedSession
<1> QED BY <1>1, PromiseInvAlways, PTL

\* The connection such a client uses next carries nothing, and the one in use
\* only the request in progress or its answer, whoever calls close() or connect()
\* meanwhile (client.py:77-81, 148, 155, 161, 241-252).
THEOREM StreamStaysInSync == ASSUME OnlyVerify PROVE Spec => []StreamInSync
<1>1. PromiseInv => StreamInSync
  BY PInvIsSafe DEF PromiseInv, TypedSession
<1> QED BY <1>1, PromiseInvAlways, PTL
-----------------------------------------------------------------------------
(* What a caller sees.                                                     *)

LEMMA BusyUpdate ==
  ASSUME NEW t \in Tasks, NEW label, pc' = [pc EXCEPT ![t] = label], Typed
  PROVE  [u \in Tasks |-> pc[u] # "idle"]' = [[u \in Tasks |-> pc[u] # "idle"]
                                                EXCEPT ![t] = (label # "idle")]
BY DEF Typed, TaskTypes

LEMMA AnswerUpdate ==
  ASSUME NEW t \in Tasks, NEW how, outcome' = [outcome EXCEPT ![t] = how], Typed
  PROVE  [u \in Tasks |-> Answer(u)]' =
           [[u \in Tasks |-> Answer(u)] EXCEPT ![t] =
              [how      |-> IF how.how \in Errors THEN "raised" ELSE how.how,
               decision |-> how.reply.result]]
BY DEF Typed, TaskTypes, Answer

\* Nobody outside sees a task go on inside its method.
LEMMA UnseenStep ==
  ASSUME UNCHANGED <<calls, outcome>>, Decided' = Decided,
         \A t \in Tasks : pc'[t] = "idle" <=> pc[t] = "idle"
  PROVE  UNCHANGED Promise!contractVars
<1>1. [t \in Tasks |-> pc[t] # "idle"]' = [t \in Tasks |-> pc[t] # "idle"]
  OBVIOUS
<1>2. [t \in Tasks |-> Answer(t)]' = [t \in Tasks |-> Answer(t)]
  BY DEF Answer
<1> QED BY <1>1, <1>2 DEF Promise!contractVars, Decided

LEMMA CallIsSeen ==
  ASSUME Typed, NEW t \in Tasks, Call(t)
  PROVE  Promise!Invoke(t)
<1>1. /\ pc[t] = "idle" /\ calls[t] < MaxCalls /\ pc' = [pc EXCEPT ![t] = "ensure"]
      /\ calls' = [calls EXCEPT ![t] = calls[t] + 1] /\ outcome' = outcome /\ history' = history
  BY DEF Call, serverVars
<1>2. [u \in Tasks |-> pc[u] # "idle"]' = [[u \in Tasks |-> pc[u] # "idle"] EXCEPT ![t] = TRUE]
  BY <1>1 DEF Typed, TaskTypes
<1>3. [u \in Tasks |-> Answer(u)]' = [u \in Tasks |-> Answer(u)] /\ Decided' = Decided
  BY <1>1 DEF Answer, Decided
<1> QED BY <1>1, <1>2, <1>3 DEF Promise!Invoke, Decided

LEMMA ExceptionIsSeen ==
  ASSUME Typed, NEW t \in Tasks, pc[t] # "idle", NEW error \in Errors, Ends(t, Raised(error)),
         history' = history
  PROVE  Promise!Raise(t)
<1>1. /\ pc' = [pc EXCEPT ![t] = "idle"] /\ calls' = calls
      /\ outcome' = [outcome EXCEPT ![t] = Raised(error)]
  BY DEF Ends
<1>2. [u \in Tasks |-> pc[u] # "idle"]' = [[u \in Tasks |-> pc[u] # "idle"] EXCEPT ![t] = FALSE]
  BY <1>1, BusyUpdate
<1>3. Raised(error).how = error /\ Raised(error).reply.result = NoResult
  BY DEF Raised, Reply
<1>4. [u \in Tasks |-> Answer(u)]' = [[u \in Tasks |-> Answer(u)] EXCEPT ![t] =
                                        [how |-> "raised", decision |-> NoResult]]
  BY <1>1, <1>3, AnswerUpdate
<1>5. Decided' = Decided
  BY DEF Decided
<1> QED BY <1>1, <1>2, <1>4, <1>5 DEF Promise!Raise, Decided

LEMMA DecisionIsSeen ==
  ASSUME Typed, PInv, NEW t \in Tasks, ReadsBody(t)
  PROVE  Promise!Return(t)
<1>1. PICK result \in Decided :
        result.cmd = Trace(t) /\ Ends(t, Returned(Reply("verify", result)))
  BY ReadsTheAnswer
<1>2. /\ pc[t] # "idle" /\ pc' = [pc EXCEPT ![t] = "idle"] /\ calls' = calls
      /\ outcome' = [outcome EXCEPT ![t] = Returned(Reply("verify", result))]
      /\ history' = history
  BY <1>1 DEF Ends, ReadsBody, At, serverVars
<1>3. [u \in Tasks |-> pc[u] # "idle"]' = [[u \in Tasks |-> pc[u] # "idle"] EXCEPT ![t] = FALSE]
  BY <1>2, BusyUpdate
<1>4. /\ Returned(Reply("verify", result)).how = "returned"
      /\ Returned(Reply("verify", result)).reply.result = result
      /\ "returned" \notin Errors
  BY DEF Returned, Reply, Errors
<1>5. [u \in Tasks |-> Answer(u)]' = [[u \in Tasks |-> Answer(u)] EXCEPT ![t] =
                                        [how |-> "returned", decision |-> result]]
  BY <1>2, <1>4, AnswerUpdate
<1>6. Decided' = Decided
  BY <1>2 DEF Decided
<1> QED BY <1>1, <1>2, <1>3, <1>5, <1>6 DEF Promise!Return, Promise!Command, Trace, Decided

LEMMA FailureIsSeen ==
  ASSUME Typed, PInv, NEW t \in Tasks, pc[t] # "idle", NEW error, Fails(t, error),
         history' = history
  PROVE  Promise!Raise(t) \/ UNCHANGED Promise!contractVars
<1>1. kind[t] = "verify" /\ "TransportError" \in Errors
  BY DEF PInv, Verifying, Errors
<1>2. CASE Ends(t, Raised("TransportError"))
  BY <1>1, <1>2, ExceptionIsSeen
<1>3. CASE Pauses(t)
  <2>0. pc' = [pc EXCEPT ![t] = "sleep"] /\ UNCHANGED <<calls, outcome>>
    BY <1>3 DEF Pauses
  <2>1. \A u \in Tasks : pc'[u] = "idle" <=> pc[u] = "idle"
    BY <2>0 DEF Typed, TaskTypes
  <2>2. Decided' = Decided
    BY DEF Decided
  <2> QED BY <2>0, <2>1, <2>2, UnseenStep
<1> QED BY <1>1, <1>2, <1>3 DEF Fails

LEMMA DecideIsSeen ==
  ASSUME Typed, IInv, PInv, ServerStep
  PROVE  Promise!Decide \/ UNCHANGED Promise!contractVars
<1>1. UNCHANGED <<pc, calls, outcome>>
  BY ServerKeepsNet DEF Typed, IInv, taskVars
<1>2. CASE Decided' = Decided
  BY <1>1, <1>2, UnseenStep
<1>3. CASE \E result : /\ Decided' = Decided \cup {result}
                       /\ \E t \in Tasks : \E n \in 1 .. calls[t] : result.cmd = <<t, n>>
  <2>1. [t \in Tasks |-> pc[t] # "idle"]' = [t \in Tasks |-> pc[t] # "idle"]
    BY <1>1
  <2>2. [t \in Tasks |-> Answer(t)]' = [t \in Tasks |-> Answer(t)]
    BY <1>1 DEF Answer
  <2>3. PICK result : /\ Decided' = Decided \cup {result}
                      /\ \E t \in Tasks : \E n \in 1 .. calls[t] : result.cmd = <<t, n>>
    BY <1>3
  <2>4. \E decision \in Decided', t \in Tasks :
          /\ decision.cmd \in {<<t, n>> : n \in 1 .. calls[t]}
          /\ Decided' = Decided \cup {decision}
    BY <2>3
  <2> QED BY <1>1, <2>1, <2>2, <2>4 DEF Promise!Decide, Decided
<1> QED BY <1>2, <1>3, ServerDecides

LEMMA StepIsSeen ==
  ASSUME OnlyVerify, PromiseInv, [Next]_vars
  PROVE  [Promise!ContractNext]_(Promise!contractVars)
<1>1. Typed /\ IInv /\ PInv
  BY DEF PromiseInv, TypedSession
<1>2. ASSUME NEW t \in Tasks, Call(t) \/ ClientStep(t) \/ Drained(t)
      PROVE  \/ Promise!Invoke(t) \/ Promise!Return(t) \/ Promise!Raise(t)
             \/ UNCHANGED Promise!contractVars
  <2>1. history' = history /\ {"IncompleteReadError", "AttributeError"} \subseteq Errors
    BY <1>2, ClientLeavesServer DEF serverVars, Errors
  <2>2. CASE Call(t)
    BY <1>1, <2>2, CallIsSeen
  <2>3. CASE ReadsBody(t)
    BY <1>1, <2>3, DecisionIsSeen
  <2>4. CASE \E error \in Errors : Escapes(t, error) /\ pc[t] # "idle"
    BY <1>1, <2>1, <2>4, ExceptionIsSeen DEF Escapes
  <2>5. CASE \/ EnsureRefuses(t) \/ ConnectFails(t) \/ RequestTooLarge(t) \/ SendFails(t)
             \/ ReadsGarbage(t) \/ ReadsReset(t) \/ TimesOut(t)
    <3>1. pc[t] # "idle" /\ \E error : Fails(t, error)
      BY <2>5 DEF EnsureRefuses, ConnectFails, RequestTooLarge, SendFails, ReadsGarbage,
                  ReadsReset, TimesOut, At
    <3> QED BY <1>1, <2>1, <3>1, FailureIsSeen
  <2>6. CASE /\ pc[t] # "idle" /\ UNCHANGED <<calls, outcome>>
             /\ \E label \in Labels \ {"idle"} : pc' = [pc EXCEPT ![t] = label]
    <3>1. \A u \in Tasks : pc'[u] = "idle" <=> pc[u] = "idle"
      BY <1>1, <2>6 DEF Typed, TaskTypes
    <3>2. Decided' = Decided
      BY <2>1 DEF Decided
    <3> QED BY <2>6, <3>1, <3>2, UnseenStep
  <2>7. CASE Drained(t) \/ ReadsEof(t)
    <3>1. pc[t] # "idle" /\ (\/ \E error \in Errors : Escapes(t, error)
                             \/ Moves(t, "header"))
      BY <2>1, <2>7 DEF Drained, ReadsEof, At
    <3> QED BY <2>4, <2>6, <3>1 DEF Moves, Labels
  <2>8. CASE \/ EnsureReuses(t) \/ EnsureReconnects(t) \/ Connects(t) \/ Sends(t)
             \/ SendsSlowly(t) \/ ReadsHeader(t) \/ Wakes(t)
    <3>1. /\ pc[t] # "idle" /\ UNCHANGED <<calls, outcome>>
          /\ \E label \in Labels \ {"idle"} : pc' = [pc EXCEPT ![t] = label]
      BY <2>8 DEF EnsureReuses, EnsureReconnects, Connects, Sends, SendsSlowly, Writes,
                  ReadsHeader, Wakes, At, Moves, Labels
    <3> QED BY <2>6, <3>1
  <2> QED BY <1>2, <2>2, <2>3, <2>5, <2>7, <2>8 DEF ClientStep
<1>5. CASE Meddling
  <2>1. UNCHANGED <<pc, calls, outcome, history>>
    BY <1>5 DEF Meddling, CloseBegins, CloseEnds, CloseCancelled, ConnectsAnew, taskVars,
                serverVars
  <2> QED BY <2>1, UnseenStep DEF Decided
<1>3. CASE ServerStep
  BY <1>1, <1>3, DecideIsSeen DEF Promise!ContractNext
<1>4. CASE UNCHANGED vars
  <2>1. UNCHANGED <<pc, calls, outcome, history>>
    BY <1>4 DEF vars, taskVars, serverVars
  <2> QED BY <2>1, UnseenStep DEF Decided
<1> QED BY <1>2, <1>3, <1>4, <1>5 DEF Next, Cancelled, OnlyVerify, Promise!ContractNext

\* Through timeouts, retries, reconnections, crashes and restarts, a client that
\* only verifies implements the contract of a call: a call returns a decision a
\* server took on its own command, or raises (client.py:83-167).
THEOREM VerifyKeepsPromise == ASSUME OnlyVerify PROVE Spec => KeepsPromise
<1>1. Init => Promise!ContractInit
  <2> SUFFICES ASSUME Init PROVE Promise!ContractInit
    OBVIOUS
  <2>1. [t \in Tasks |-> pc[t] # "idle"] = [t \in Tasks |-> FALSE]
    BY DEF Init
  <2>2. [t \in Tasks |-> Answer(t)] = [t \in Tasks |-> [how |-> "none", decision |-> NoResult]]
    BY DEF Init, Answer, Raised, Reply, Errors
  <2>3. {history[i] : i \in DOMAIN history} = {}
    BY DEF Init, ServerInit
  <2> QED BY <2>1, <2>2, <2>3 DEF Promise!ContractInit, Init
<1>2. PromiseInv /\ [Next]_vars => [Promise!ContractNext]_(Promise!contractVars)
  BY StepIsSeen
<1> QED BY <1>1, <1>2, PromiseInvAlways, PTL DEF Spec, KeepsPromise, Promise!Contract
=============================================================================
