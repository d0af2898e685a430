-------------------------- MODULE VerifierSession --------------------------
(***************************************************************************)
(* One VerifierClient, shared by several asyncio tasks, and the server it  *)
(* talks to (src/ccs_verifier/client.py, server.py, transport/).  A client *)
(* has one current connection; each connection is a pair of byte streams   *)
(* that carry frames in order, and carries no request identifier: a        *)
(* response is matched to a request by position only.                      *)
(*                                                                         *)
(* The server's own state is VerifierServer's.  A frame is one element of  *)
(* a queue; what a decode that was abandoned half-way does to a stream is  *)
(* kept in "torn".                                                         *)
(***************************************************************************)
EXTENDS VerifierServer

CONSTANTS
  Tasks,        \* asyncio tasks that use the client
  MaxRetries,   \* max_retries
  Reconnects,   \* the values of reconnect that clients are made with
  Kinds,        \* the client methods the tasks use
  Cancels,      \* whether a task may be cancelled from outside while it waits
  Large,        \* commands whose request or response may exceed MAX_MESSAGE_SIZE
  Bulky,        \* commands whose request may fill the write buffer
  MaxMeddles,   \* bound: calls of close() and connect(), which take no lock
  MaxCalls,     \* bound: calls of each task
  MaxConns      \* bound: connections; large enough never to be reached,
                \* as OneConnectionPerAttempt shows

Methods == {"verify", "health", "list_rules", "get_l1_public_key"}

ASSUME SessionAssumption ==
  /\ MaxRetries \in Nat
  /\ Reconnects \subseteq BOOLEAN
  /\ Kinds \subseteq Methods
  /\ Cancels \in BOOLEAN
  /\ Large \subseteq Commands
  /\ Bulky \subseteq Commands
  /\ MaxMeddles \in Nat
  /\ MaxCalls \in Nat
  /\ MaxConns \in Nat
  /\ Commands = Tasks \X (1 .. MaxCalls)   \* every call has a trace_id of its own

VARIABLES
  reconnect,   \* client: _reconnect
  oversized,   \* the commands whose request exceeds MAX_MESSAGE_SIZE
  connected,   \* client: _connected
  cur,         \* client: the connection of _reader and _writer, 0 for None
  queue,       \* client: _lock, holder first, then its waiters in FIFO order
  stream,      \* the connection the holder of the lock is using, 0 for none:
               \* close() and connect() may change cur meanwhile
  closing,     \* the connection a close() waits on in wait_closed, 0 for none
  meddled,     \* how often close() and connect() were called
  connects,    \* ghost: how often connect() succeeded, for a client that was
               \* told not to reconnect; of others it is not counted
  pc,          \* per task: "idle", "ensure", "connect", "send", "drain",
               \* "header", "body", "sleep"
  kind,        \* per task: the method it is in
  calls,       \* per task: how many calls it has made
  attempt,     \* per task: the loop variable of verify
  outcome,     \* per task: how its last call ended
  nextConn,    \* the connections made so far are 1 .. nextConn - 1
  link,        \* per connection, seen by the client: unused, open, eof,
               \* reset (perhaps not noticed yet), closed (noticed), or left:
               \* closed by the client
  toServer,    \* per connection: requests the handler has not read
  toClient,    \* per connection: responses the client has not read
  torn,        \* per connection: the header of Head(toClient) is already read
  serverUp     \* whether a server process is listening

givenVars == <<reconnect, oversized>>
connVars == <<cur, nextConn, closing, meddled, connects>>
clientVars == <<connected, queue, stream, connVars>>
taskVars == <<pc, kind, calls, attempt, outcome>>
netVars == <<link, toServer, toClient, torn>>
vars == <<givenVars, clientVars, taskVars, netVars, serverUp, serverVars>>

Conns == 1 .. MaxConns

Trace(t) == <<t, calls[t]>>

\* A response names the method it answers; that of verify carries the result.
NoResult == [cmd |-> <<>>, verdict |-> "deny", seq |-> 0, life |-> 0]
Request(t) == [kind |-> kind[t], cmd |-> Trace(t)]
Reply(k, result) == [kind |-> k, result |-> result]

Returned(reply) == [how |-> "returned", reply |-> reply]
Raised(error) == [how |-> error, reply |-> Reply("none", NoResult)]

Errors == {"TransportError", "TimeoutError", "ConnectionError",
           "IncompleteReadError", "KeyError", "AttributeError", "CancelledError"}

Labels == {"idle", "ensure", "connect", "send", "drain", "header", "body", "sleep"}

Requests == [kind : Methods, cmd : Commands]
Replies == [kind : Methods \cup {"error", "none"}, result : Results \cup {NoResult}]

TypeOK ==
  /\ reconnect \in Reconnects
  /\ oversized \subseteq Large
  /\ connected \in BOOLEAN
  /\ cur \in Conns \cup {0}
  /\ queue \in Seq(Tasks)
  /\ stream \in Conns \cup {0}
  /\ closing \in Conns \cup {0}
  /\ meddled \in 0 .. MaxMeddles
  /\ connects \in 0 .. MaxMeddles + 1
  /\ pc \in [Tasks -> Labels]
  /\ kind \in [Tasks -> Methods]
  /\ calls \in [Tasks -> 0 .. MaxCalls]
  /\ attempt \in [Tasks -> 0 .. MaxRetries]
  /\ outcome \in [Tasks -> [how : Errors \cup {"none", "returned"}, reply : Replies]]
  /\ nextConn \in 1 .. MaxConns + 1
  /\ link \in [Conns -> {"unused", "open", "eof", "reset", "closed", "left"}]
  /\ toServer \in [Conns -> Seq(Requests)]
  /\ toClient \in [Conns -> Seq(Replies)]
  /\ torn \in [Conns -> BOOLEAN]
  /\ serverUp \in BOOLEAN

\* The client has just been made, or its connect() has succeeded.
Init ==
  /\ ServerInit
  /\ reconnect \in Reconnects
  /\ oversized \in SUBSET Large
  /\ serverUp = TRUE
  /\ connected \in BOOLEAN
  /\ connected => MaxConns > 0
  /\ cur = IF connected THEN 1 ELSE 0
  /\ nextConn = cur + 1
  /\ link = [c \in Conns |-> IF c = cur THEN "open" ELSE "unused"]
  /\ toServer = [c \in Conns |-> <<>>]
  /\ toClient = [c \in Conns |-> <<>>]
  /\ torn = [c \in Conns |-> FALSE]
  /\ queue = <<>>
  /\ stream = 0
  /\ closing = 0
  /\ meddled = 0
  /\ connects = IF reconnect THEN 0 ELSE cur
  /\ pc = [t \in Tasks |-> "idle"]
  /\ kind = [t \in Tasks |-> "verify"]
  /\ calls = [t \in Tasks |-> 0]
  /\ attempt = [t \in Tasks |-> 0]
  /\ outcome = [t \in Tasks |-> Raised("none")]
-----------------------------------------------------------------------------
(* The client.  Every method runs under _lock from its first await to its  *)
(* return or raise.                                                        *)

Holds(t) == queue # <<>> /\ Head(queue) = t

At(t, label) == Holds(t) /\ pc[t] = label

\* The method ends: the task has its outcome and the lock goes to the next.
Ends(t, how) ==
  /\ outcome' = [outcome EXCEPT ![t] = how]
  /\ pc' = [pc EXCEPT ![t] = "idle"]
  /\ queue' = Tail(queue)
  /\ stream' = 0
  /\ UNCHANGED <<kind, calls, attempt>>

\* verify pauses before its next attempt, with the lock held.
Pauses(t) ==
  /\ pc' = [pc EXCEPT ![t] = "sleep"]
  /\ stream' = 0
  /\ UNCHANGED <<queue, kind, calls, attempt, outcome>>

\* Mutant of Fails: the connection is kept for the next attempt.
FailsKeepingConnection(t, error) ==
  IF kind[t] = "verify" /\ attempt[t] < MaxRetries
  THEN Pauses(t) /\ UNCHANGED connected
  ELSE Ends(t, Raised("TransportError")) /\ UNCHANGED connected

\* Mutant of Fails: one attempt too many ("<=" for "<").
FailsOnceMore(t, error) ==
  IF kind[t] = "verify"
  THEN /\ connected' = FALSE
       /\ IF attempt[t] <= MaxRetries
          THEN Pauses(t)
          ELSE Ends(t, Raised("TransportError"))
  ELSE Ends(t, Raised(error)) /\ UNCHANGED connected

\* Mutant of Fails: after the last attempt the command is let through.
FailsOpen(t, error) ==
  IF kind[t] = "verify"
  THEN /\ connected' = FALSE
       /\ IF attempt[t] < MaxRetries
          THEN Pauses(t)
          ELSE Ends(t, Returned(Reply("verify",
                 [cmd |-> Trace(t), verdict |-> "allow", seq |-> 0, life |-> 1])))
  ELSE Ends(t, Raised(error)) /\ UNCHANGED connected

\* A TransportError, TimeoutError or ConnectionError.  verify marks the
\* connection as gone and tries again after a pause, or raises TransportError
\* when no attempt is left; the other methods let the exception through and
\* leave _connected as it is.
Fails(t, error) ==
  IF kind[t] = "verify"
  THEN /\ connected' = FALSE
       /\ IF attempt[t] < MaxRetries
          THEN Pauses(t)
          ELSE Ends(t, Raised("TransportError"))
  ELSE Ends(t, Raised(error)) /\ UNCHANGED connected

\* Mutant of Escapes: the exception leaves the method with the lock held.
EscapesHolding(t, error) ==
  /\ outcome' = [outcome EXCEPT ![t] = Raised(error)]
  /\ pc' = [pc EXCEPT ![t] = "idle"]
  /\ stream' = 0
  /\ UNCHANGED <<queue, kind, calls, attempt, connected>>

\* Any other exception leaves every method and touches no connection state.
Escapes(t, error) == Ends(t, Raised(error)) /\ UNCHANGED connected

Moves(t, label) ==
  /\ pc' = [pc EXCEPT ![t] = label]
  /\ UNCHANGED <<queue, kind, calls, attempt, outcome, connected>>

Call(t) ==
  /\ pc[t] = "idle"
  /\ calls[t] < MaxCalls
  /\ \E k \in Kinds : kind' = [kind EXCEPT ![t] = k]
  /\ calls' = [calls EXCEPT ![t] = @ + 1]
  /\ attempt' = [attempt EXCEPT ![t] = 0]
  /\ pc' = [pc EXCEPT ![t] = "ensure"]
  /\ queue' = Append(queue, t)
  /\ UNCHANGED <<outcome, connected, stream, connVars, netVars, serverUp, serverVars>>

\* _writer.is_closing() turns true when the event loop has seen the reset: of a
\* "reset" connection it may or may not have, of a "closed" one it has, and of
\* one that close() has left it is true at once.
\*
\* Mutant of MayReuse: _connected is not looked at.
MayReuseDropped == cur # 0 /\ link[cur] \notin {"closed", "left"}

\* Mutant of MayReuse: a connection that close() has left is used again.
MayReuseLeft == connected /\ cur # 0 /\ link[cur] # "closed"

MayReuse == connected /\ cur # 0 /\ link[cur] \notin {"closed", "left"}
MayReconnect == connected /\ cur # 0 => link[cur] \in {"reset", "closed", "left"}

EnsureReuses(t) ==
  /\ At(t, "ensure")
  /\ MayReuse
  /\ stream' = cur
  /\ Moves(t, "send")
  /\ UNCHANGED <<connVars, netVars, serverUp, serverVars>>

EnsureRefuses(t) ==
  /\ At(t, "ensure")
  /\ MayReconnect
  /\ ~reconnect
  /\ Fails(t, "TransportError")
  /\ UNCHANGED <<connVars, netVars, serverUp, serverVars>>

EnsureReconnects(t) ==
  /\ At(t, "ensure")
  /\ MayReconnect
  /\ reconnect
  /\ Moves(t, "connect")
  /\ UNCHANGED <<stream, connVars, netVars, serverUp, serverVars>>

\* Whatever reader and writer there are by now are dropped without being closed.
Opens ==
  /\ serverUp
  /\ nextConn \in Conns
  /\ cur' = nextConn
  /\ nextConn' = nextConn + 1
  /\ link' = [link EXCEPT ![nextConn] = "open"]
  /\ connected' = TRUE

Connects(t) ==
  /\ At(t, "connect")
  /\ Opens
  /\ stream' = cur'
  /\ pc' = [pc EXCEPT ![t] = "send"]
  /\ UNCHANGED <<queue, kind, calls, attempt, outcome, toServer, toClient, torn,
                 closing, meddled, connects, serverUp, serverVars>>

\* No socket, nobody listening, or no answer to the connect within 5 seconds.
ConnectFails(t) ==
  /\ At(t, "connect")
  /\ Fails(t, "TransportError")
  /\ UNCHANGED <<connVars, netVars, serverUp, serverVars>>

\* MessageFrame.encode refuses the request before anything is written.
RequestTooLarge(t) ==
  /\ At(t, "send")
  /\ kind[t] = "verify" /\ Trace(t) \in oversized
  /\ Fails(t, "TransportError")
  /\ UNCHANGED <<connVars, netVars, serverUp, serverVars>>

Fits(t) == kind[t] = "verify" => Trace(t) \notin oversized

\* What is written to a connection the server has left is lost.
Writes(t) ==
  /\ At(t, "send")
  /\ Fits(t)
  /\ toServer' = IF link[stream] = "open"
                   THEN [toServer EXCEPT ![stream] = Append(@, Request(t))] ELSE toServer
  /\ UNCHANGED <<stream, connVars, link, toClient, torn, serverUp, serverVars>>

\* write, and a drain that finds the buffer below its limit.
Sends(t) == Writes(t) /\ Moves(t, "header")

\* write, and a drain that has to wait: with this request, or with what is
\* still unread before it, the buffer is over its limit.
SendsSlowly(t) ==
  /\ Writes(t)
  /\ \E i \in DOMAIN toServer'[stream] :
       toServer'[stream][i].kind = "verify" /\ toServer'[stream][i].cmd \in Bulky
  /\ Moves(t, "drain")

\* drain returns; decode is given the reader the client has by now, and None
\* has no readexactly.
Drained(t) ==
  /\ At(t, "drain")
  /\ \/ cur # 0 /\ stream' = cur /\ Moves(t, "header")
     \/ cur = 0 /\ Escapes(t, "AttributeError")
  /\ UNCHANGED <<connVars, netVars, serverUp, serverVars>>

\* The write finds the peer gone (EPIPE, ECONNRESET): the transport closes.
SendFails(t) ==
  /\ (At(t, "send") /\ Fits(t)) \/ At(t, "drain")
  /\ link[stream] \in {"eof", "reset"}
  /\ link' = [link EXCEPT ![stream] = "closed"]
  /\ Fails(t, "ConnectionError")
  /\ UNCHANGED <<connVars, toServer, toClient, torn, serverUp, serverVars>>

ReadsHeader(t) ==
  /\ At(t, "header")
  /\ toClient[stream] # <<>>
  /\ ~torn[stream]
  /\ torn' = [torn EXCEPT ![stream] = TRUE]
  /\ Moves(t, "body")
  /\ UNCHANGED <<stream, connVars, link, toServer, toClient, serverUp, serverVars>>

\* The four bytes at the front are payload that an earlier decode left behind:
\* taken for a length they exceed MAX_MESSAGE_SIZE.
ReadsGarbage(t) ==
  /\ At(t, "header")
  /\ toClient[stream] # <<>>
  /\ torn[stream]
  /\ Fails(t, "TransportError")
  /\ UNCHANGED <<connVars, netVars, serverUp, serverVars>>

\* What each method makes of the response it reads.  verify needs trace_id and
\* verdict, get_l1_public_key needs public_key; health_check hands over
\* whatever came and list_rules takes its "rules" or an empty list.
ResponseTaken(t, reply) ==
  \/ /\ \/ kind[t] = "verify" /\ reply.kind = "verify"
        \/ kind[t] \in {"health", "list_rules"}
        \/ kind[t] = "get_l1_public_key" /\ reply.kind = "get_l1_public_key"
     /\ Ends(t, Returned(reply))
     /\ UNCHANGED connected
  \/ /\ kind[t] = "get_l1_public_key" /\ reply.kind = "error"
     /\ Fails(t, "TransportError")
  \/ /\ \/ kind[t] = "verify" /\ reply.kind # "verify"
        \/ kind[t] = "get_l1_public_key" /\ reply.kind \notin {"get_l1_public_key", "error"}
     /\ Escapes(t, "KeyError")

ReadsBody(t) ==
  /\ At(t, "body")
  /\ toClient' = [toClient EXCEPT ![stream] = Tail(@)]
  /\ torn' = [torn EXCEPT ![stream] = FALSE]
  /\ ResponseTaken(t, Head(toClient[stream]))
  /\ UNCHANGED <<connVars, link, toServer, serverUp, serverVars>>

\* asyncio.IncompleteReadError is an EOFError: no except clause names it.  When
\* close() has left the connection, what had not arrived by then is missing.
ReadsEof(t) ==
  /\ \/ At(t, "header") /\ link[stream] = "eof" /\ toClient[stream] = <<>>
     \/ At(t, "header") /\ link[stream] = "left"
     \/ At(t, "body") /\ link[stream] = "left"
  /\ Escapes(t, "IncompleteReadError")
  /\ UNCHANGED <<connVars, netVars, serverUp, serverVars>>

ReadsReset(t) ==
  /\ At(t, "header") \/ At(t, "body")
  /\ link[stream] = "reset"
  /\ link' = [link EXCEPT ![stream] = "closed"]
  /\ Fails(t, "ConnectionError")
  /\ UNCHANGED <<connVars, toServer, toClient, torn, serverUp, serverVars>>

\* wait_for cancels the decode; bytes it has consumed are not put back.
TimesOut(t) ==
  /\ At(t, "header") \/ At(t, "body")
  /\ Fails(t, "TimeoutError")
  /\ UNCHANGED <<connVars, netVars, serverUp, serverVars>>

\* Mutant of Wakes: the loop variable does not advance.
WakesWithoutCounting(t) ==
  /\ At(t, "sleep")
  /\ Moves(t, "ensure")
  /\ UNCHANGED <<stream, connVars, netVars, serverUp, serverVars>>

Wakes(t) ==
  /\ At(t, "sleep")
  /\ pc' = [pc EXCEPT ![t] = "ensure"]
  /\ attempt' = [attempt EXCEPT ![t] = @ + 1]
  /\ UNCHANGED <<queue, kind, calls, outcome, clientVars, netVars, serverUp, serverVars>>

\* The task is cancelled at an await: waiting for the lock, connecting, writing,
\* reading or pausing.  The exception releases the lock and changes nothing else.
Cancelled(t) ==
  /\ Cancels
  /\ pc[t] \notin {"idle", "send"}
  /\ outcome' = [outcome EXCEPT ![t] = Raised("CancelledError")]
  /\ pc' = [pc EXCEPT ![t] = "idle"]
  /\ stream' = IF Holds(t) THEN 0 ELSE stream
  /\ \E i \in DOMAIN queue :
       /\ queue[i] = t
       /\ queue' = SubSeq(queue, 1, i - 1) \o SubSeq(queue, i + 1, Len(queue))
  /\ UNCHANGED <<kind, calls, attempt, connected, connVars, netVars, serverUp, serverVars>>

\* The steps that a running event loop takes on its own.  A drain ends when the
\* server has read what filled the buffer.
ClientStep(t) ==
  \/ EnsureReuses(t) \/ EnsureRefuses(t) \/ EnsureReconnects(t)
  \/ Connects(t) \/ ConnectFails(t)
  \/ RequestTooLarge(t) \/ Sends(t) \/ SendsSlowly(t) \/ SendFails(t)
  \/ Drained(t) /\ toServer[stream] = <<>>
  \/ ReadsHeader(t) \/ ReadsGarbage(t) \/ ReadsBody(t) \/ ReadsEof(t) \/ ReadsReset(t)
  \/ TimesOut(t) \/ Wakes(t)

(* close() and connect() take no lock and run while a method waits; nothing is *)
(* awaited between _ensure_connected and write.                               *)

Meddles ==
  /\ meddled < MaxMeddles
  /\ meddled' = meddled + 1
  /\ \A t \in Tasks : pc[t] # "send"

CloseBegins ==
  /\ Meddles
  /\ closing = 0
  /\ IF cur = 0
     THEN connected' = FALSE /\ UNCHANGED <<closing, link>>
     ELSE /\ link' = [link EXCEPT ![cur] = "left"]
          /\ closing' = cur
          /\ UNCHANGED connected
  /\ UNCHANGED <<queue, stream, cur, nextConn, connects, taskVars, toServer, toClient, torn,
                 serverUp, serverVars>>

\* wait_closed returns, or raises, when the buffer is flushed or lost; the
\* connection that is forgotten may be a later one than was closed.
CloseEnds ==
  /\ closing # 0
  /\ \A t \in Tasks : pc[t] # "send" /\ (pc[t] = "drain" => stream # closing)
  /\ connected' = FALSE
  /\ cur' = 0
  /\ closing' = 0
  /\ UNCHANGED <<queue, stream, nextConn, meddled, connects, taskVars, netVars,
                 serverUp, serverVars>>

\* The task that waits in wait_closed is cancelled: nothing is reset.
CloseCancelled ==
  /\ closing # 0
  /\ closing' = 0
  /\ UNCHANGED <<connected, queue, stream, cur, nextConn, meddled, connects, taskVars,
                 netVars, serverUp, serverVars>>

ConnectsAnew ==
  /\ Meddles
  /\ Opens
  /\ connects' = IF reconnect THEN connects ELSE connects + 1
  /\ UNCHANGED <<queue, stream, closing, taskVars, toServer, toClient, torn,
                 serverUp, serverVars>>

Meddling == CloseBegins \/ CloseEnds \/ CloseCancelled \/ ConnectsAnew
-----------------------------------------------------------------------------
(* The server: one handler task per connection, serving its requests in    *)
(* order; handlers interleave between requests.                            *)

HandlerReads(c) == serverUp /\ link[c] \in {"open", "left"} /\ toServer[c] # <<>>

\* What the client finds of a connection that the server closes.
Broken(c) == IF link[c] = "open" THEN {"eof", "reset"} ELSE {link[c]}

\* The handler's finally clause closes the connection.  With requests unread
\* the kernel may answer with a reset.
HandlerCloses(c) ==
  /\ \E how \in Broken(c) : link' = [link EXCEPT ![c] = how]
  /\ toServer' = [toServer EXCEPT ![c] = <<>>]
  /\ UNCHANGED <<toClient, torn>>

\* A response to a connection that the client has left does not arrive.
HandlerAnswers(c, reply) ==
  /\ toServer' = [toServer EXCEPT ![c] = Tail(@)]
  /\ toClient' = IF link[c] = "open" THEN [toClient EXCEPT ![c] = Append(@, reply)] ELSE toClient
  /\ UNCHANGED <<link, torn>>

\* Mutant of ServesVerify: a command that was decided before is answered with
\* that decision, and not decided again.
ServesVerifyAgain(c, outcomes) ==
  LET cmd == Head(toServer[c]).cmd
      earlier == {history[i] : i \in {j \in DOMAIN history : history[j].cmd = cmd}}
  IN  /\ HandlerReads(c)
      /\ Head(toServer[c]).kind = "verify"
      /\ \/ earlier = {} /\ Completes(cmd, outcomes)
               /\ HandlerAnswers(c, Reply("verify", Result(cmd, outcomes)))
         \/ \E result \in earlier :
               HandlerAnswers(c, Reply("verify", result)) /\ UNCHANGED serverVars
      /\ UNCHANGED <<clientVars, taskVars, serverUp>>

\* A decision is taken and recorded; only then is the response encoded, and one
\* that is too large (its size depends on what the rules said) costs the
\* connection but not the record.
ServesVerify(c, outcomes) ==
  LET cmd == Head(toServer[c]).cmd
  IN  /\ HandlerReads(c)
      /\ Head(toServer[c]).kind = "verify"
      /\ Completes(cmd, outcomes)
      /\ \/ HandlerAnswers(c, Reply("verify", Result(cmd, outcomes)))
         \/ cmd \in Large /\ HandlerCloses(c)
      /\ UNCHANGED <<clientVars, taskVars, serverUp>>

\* verify raised, in a rule or in the receipt builder.
VerifyFails(c, outcomes) ==
  LET cmd == Head(toServer[c]).cmd
  IN  /\ HandlerReads(c)
      /\ Head(toServer[c]).kind = "verify"
      /\ LeavesNothing(cmd, outcomes) \/ BuildRejects(cmd, outcomes)
      /\ HandlerCloses(c)
      /\ UNCHANGED <<clientVars, taskVars, serverUp>>

\* health, list_rules and get_l1_public_key only read the server's state.
ServesQuery(c) ==
  LET k == Head(toServer[c]).kind
  IN  /\ HandlerReads(c)
      /\ k # "verify"
      /\ HandlerAnswers(c, Reply(IF k = "get_l1_public_key" /\ ~L1Enabled THEN "error" ELSE k,
                                 NoResult))
      /\ UNCHANGED <<clientVars, taskVars, serverUp, serverVars>>

\* The process ends: its connections end, what it had not read is lost, what
\* it had written is still delivered.
Crashes ==
  /\ serverUp
  /\ serverUp' = FALSE
  /\ \E how \in {"eof", "reset"} :
       link' = [c \in Conns |-> IF link[c] = "open" THEN how ELSE link[c]]
  /\ toServer' = [c \in Conns |-> <<>>]
  /\ UNCHANGED <<clientVars, taskVars, toClient, torn, serverVars>>

StartsAgain ==
  /\ ~serverUp
  /\ serverUp' = TRUE
  /\ Restarts
  /\ UNCHANGED <<clientVars, taskVars, netVars>>

ServerStep ==
  \/ \E c \in Conns, outcomes \in [Rules -> Outcomes] :
       ServesVerify(c, outcomes) \/ VerifyFails(c, outcomes)
  \/ \E c \in Conns : ServesQuery(c)
  \/ Crashes
  \/ StartsAgain

Next ==
  /\ \/ \E t \in Tasks : Call(t) \/ ClientStep(t) \/ Drained(t) \/ Cancelled(t)
     \/ Meddling
     \/ ServerStep
  /\ UNCHANGED givenVars

Spec == Init /\ [][Next]_vars

\* asyncio runs what is ready and fires wait_for's timer, so a method that has
\* started keeps moving.  Nothing is assumed of the server.
FairSpec == Spec /\ \A t \in Tasks : WF_vars(ClientStep(t) /\ UNCHANGED givenVars)
-----------------------------------------------------------------------------
\* A verify that returns, returns the decision on the very command it was
\* given and not on another one whose response was late (client.py:111-144
\* compares no identifier).
ResultMatchesCommand ==
  \A t \in Tasks :
    outcome[t].how = "returned" /\ kind[t] = "verify" /\ pc[t] = "idle"
      => outcome[t].reply.result.cmd = Trace(t)

\* A connection that the next request will be written to carries nothing, and
\* the one a request is in progress on carries that request or its response and
\* nothing else: the discipline that matching by position stands on, although
\* close() and connect() change the connection without the lock.
StreamInSync ==
  /\ connected /\ cur # 0 /\ link[cur] # "left" =>
       \/ toServer[cur] = <<>> /\ toClient[cur] = <<>> /\ ~torn[cur]
       \/ stream = cur /\ \E t \in Tasks : pc[t] \in {"drain", "header", "body"}
  /\ \A t \in Tasks : pc[t] \in {"drain", "header", "body"} =>
       /\ torn[stream] => pc[t] = "body"
       /\ \/ toServer[stream] \in {<<>>, <<Request(t)>>} /\ toClient[stream] = <<>>
          \/ /\ toServer[stream] = <<>> /\ Len(toClient[stream]) = 1
             /\ toClient[stream][1].result.cmd = Trace(t)

\* Whatever methods share the client and whoever is cancelled, so even when
\* responses are matched to the wrong requests: a verify that returns hands over
\* a decision that a server took, on a command that was submitted.  No failure
\* on the way turns into a verdict (client.py:127-155).
NeverInvented ==
  /\ \A t \in Tasks :
       outcome[t].how = "returned" /\ kind[t] = "verify" /\ pc[t] = "idle"
         => outcome[t].reply.result \in {history[i] : i \in DOMAIN history}
  /\ \A i \in DOMAIN history : history[i].cmd[2] <= calls[history[i].cmd[1]]

\* The decision that a task's last call handed over, if it did.
Handed(t) ==
  IF outcome[t].how = "returned" /\ outcome[t].reply.kind = "verify"
  THEN {outcome[t].reply.result} ELSE {}

\* A receipt answers one call: two tasks never hold the same numbered decision,
\* and none that was handed over is still on its way to be handed over again,
\* whatever was retried and in whatever order responses were taken.
AnswersOnce ==
  L1Enabled =>
    \A t \in Tasks :
      /\ \A u \in Tasks \ {t} : Handed(t) \cap Handed(u) = {}
      /\ \A c \in Conns : \A i \in DOMAIN toClient[c] :
           toClient[c][i].kind = "verify" => toClient[c][i].result \notin Handed(t)

\* The lock is never left with, or passed to, a task that is in no call: those
\* in line are the tasks whose call is in progress, each once, however calls
\* end and wherever they are cancelled.
LockPassedOn ==
  /\ {queue[i] : i \in DOMAIN queue} = {t \in Tasks : pc[t] # "idle"}
  /\ \A i, j \in DOMAIN queue : queue[i] = queue[j] => i = j

\* How many steps the call of a task can still take: its place in the round it
\* is in, and seven for each round that the loop of verify has left.
Place == [idle |-> 0, sleep |-> 1, body |-> 2, header |-> 3, drain |-> 4, send |-> 5,
          connect |-> 6, ensure |-> 7]

StepsLeft(t) == IF pc[t] = "idle" THEN 0 ELSE 7 * (MaxRetries - attempt[t]) + Place[pc[t]]

\* No call goes on by its own doing: every step of a method uses up one of the
\* steps it has left, and nobody else gives it any (client.py:104-161).
StepsRunOut ==
  [][\A t \in Tasks :
       /\ ClientStep(t) => StepsLeft(t)' < StepsLeft(t)
       /\ pc[t] # "idle" => StepsLeft(t)' \in 0 .. StepsLeft(t)]_vars

Decisions(cmd) == Cardinality({i \in DOMAIN history : history[i].cmd = cmd})

Unserved(cmd) ==
  Cardinality(UNION {{c} \X {i \in DOMAIN toServer[c] : toServer[c][i].cmd = cmd} : c \in Conns})

\* A command is decided, and the remaining requests for it may still be
\* decided after the caller has given up, at most max_retries + 1 times in all.
DecisionsBounded ==
  \A cmd \in Commands : Decisions(cmd) + Unserved(cmd) <= MaxRetries + 1

\* A client told not to reconnect has a command decided at most once for each
\* connect() of its user that succeeded, never for a close(): the rounds of its
\* retry loop reach the server over no other connection (client.py:79-80).
AtMostOnce ==
  ~reconnect => \A cmd \in Commands : Decisions(cmd) + Unserved(cmd) <= connects

\* Connections are abandoned, not closed, so the server's handlers pile up; but
\* the client makes at most one connection per attempt of a call, besides those
\* its user asks for; and none at all when it was told not to reconnect.
OneConnectionPerAttempt ==
  nextConn - 1 <=
    IF reconnect THEN 1 + meddled + Cardinality({cmd \in Commands : cmd[2] <= calls[cmd[1]]})
                                      * (MaxRetries + 1)
    ELSE connects

\* What a caller of verify sees of all this.
Answer(t) ==
  [how      |-> IF outcome[t].how \in Errors THEN "raised" ELSE outcome[t].how,
   decision |-> outcome[t].reply.result]

Promise == INSTANCE VerifyContract WITH
  NoDecision <- NoResult,
  busy    <- [t \in Tasks |-> pc[t] # "idle"],
  callNo  <- calls,
  answer  <- [t \in Tasks |-> Answer(t)],
  decided <- {history[i] : i \in DOMAIN history}

\* Through timeouts, retries, reconnections, crashes and restarts, a client that
\* only verifies keeps the contract of a call: it returns a decision that a
\* server took on its own command, or it raises.
KeepsPromise == Promise!Contract

\* A method waits in drain for a server that does not read.
Stalled == \E t \in Tasks : pc[t] = "drain" /\ toServer[stream] # <<>>

\* Every method that is called ends, with a result or an exception, whatever
\* the server and the network do and whoever closes the connection meanwhile,
\* unless a server stops reading for ever: drain has no timeout and the lock is
\* held (client.py:109).
CallsReturn == <>[]Stalled \/ Promise!EveryCallEnds

\* "Raises TransportError if verifier is unreachable" (client.py:91).
OnlyTransportErrors ==
  \A t \in Tasks : kind[t] = "verify" => outcome[t].how \in {"none", "returned", "TransportError"}
=============================================================================
