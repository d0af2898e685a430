--------------------------- MODULE VerifierModes ---------------------------
(***************************************************************************)
(* The high-level Verifier (src/ccs_verifier/client.py): it chooses between *)
(* a verifier server and an evaluation in its own process, and is called   *)
(* one call at a time, both from synchronous code and inside event loops.  *)
(*                                                                         *)
(* Its VerifierClient is reduced to the connection it holds: the loop the  *)
(* streams belong to and the responses that are still to be read from      *)
(* them, as whole frames.  VerifierSession has the rest of the client.     *)
(***************************************************************************)
EXTENDS Naturals, Sequences

CONSTANTS
  Programs,      \* programs: the arguments they make the Verifier with (mode and
                 \* require_oop) and the methods they call (apis)
  MaxLoops,      \* bound: event loops the program makes
  MaxCalls,      \* bound: calls
  MaxFailures    \* bound: times the server ends or starts

Modes == {"auto", "out-of-process", "in-process"}
Evaluations == {"verify", "averify"}
Methods == Evaluations \cup {"health"}

ASSUME ModesAssumption ==
  /\ Programs \subseteq [mode : Modes, requireOop : BOOLEAN,
                         apis : SUBSET (Methods \cup {"close"})]
  /\ MaxLoops \in Nat
  /\ MaxCalls \in Nat
  /\ MaxFailures \in Nat

VARIABLES
  program,       \* the program that runs
  mode,          \* _mode
  client,        \* whether there is a _client
  oopAvailable,  \* _oop_available
  server,        \* whether there is a _server, in this process
  ownLoop,       \* _loop, 0 for None
  conn,          \* the connection the client would use next
  closedLoops,   \* the loops that have been closed
  current,       \* the call in progress
  last,          \* how the last call ended
  calls,         \* how many calls were made
  serverUp,      \* a server listens, and accepts before the connect times out
  failures       \* times the server ended or started

verifierVars == <<mode, client, oopAvailable, server>>
vars == <<program, verifierVars, ownLoop, conn, closedLoops, current, last, calls, serverUp, failures>>

Loops == 1 .. MaxLoops
Open == Loops \ closedLoops

\* running: the caller is itself inside the loop.
NoCall == [pc |-> "idle", api |-> "close", loop |-> 0, running |-> FALSE]
Response(api, n) == [api |-> api, call |-> n]
NoResponse == Response("close", 0)

\* A connection on which nothing was sent yet, or (NoConn) none that the client
\* would use.  buffered: how many of the pending responses its loop has read.
Fresh(loop) == [loop |-> loop, alive |-> TRUE, pending |-> <<>>, buffered |-> 0]
NoConn == [loop |-> 0, alive |-> FALSE, pending |-> <<>>, buffered |-> 0]

Outcome(how, where, response) ==
  [how |-> how, where |-> where, response |-> response,
   api |-> current.api, loop |-> current.loop]

TypeOK ==
  /\ program \in Programs
  /\ mode \in Modes
  /\ client \in BOOLEAN
  /\ oopAvailable \in BOOLEAN
  /\ server \in BOOLEAN
  /\ ownLoop \in Loops \cup {0}
  /\ conn \in [loop : Loops \cup {0}, alive : BOOLEAN,
               pending : Seq([api : Methods, call : 1 .. MaxCalls]), buffered : Nat]
  /\ conn.buffered <= Len(conn.pending)
  /\ closedLoops \subseteq Loops
  /\ current \in [pc : {"idle", "resolve", "evaluate"}, api : Methods \cup {"close"},
                  loop : Loops \cup {0}, running : BOOLEAN]
  /\ calls \in 0 .. MaxCalls
  /\ serverUp \in BOOLEAN
  /\ failures \in 0 .. MaxFailures

\* __init__: auto decides nothing yet.
Init ==
  /\ program \in Programs
  /\ mode = program.mode
  /\ client = (mode = "out-of-process")
  /\ oopAvailable = FALSE
  /\ server = (mode = "in-process")
  /\ ownLoop = 0
  /\ conn = NoConn
  /\ closedLoops = {}
  /\ current = NoCall
  /\ last = Outcome("none", "none", NoResponse)
  /\ calls = 0
  /\ serverUp \in BOOLEAN
  /\ failures = 0
-----------------------------------------------------------------------------
\* _get_loop: the remembered loop while it is open, else the caller's loop,
\* which is the running one, the thread's current one or a new one.
GetLoop(loop) == IF ownLoop \in Open THEN ownLoop ELSE loop

At(pc) == current.pc = pc

Finish(outcome) ==
  /\ last' = outcome
  /\ current' = NoCall

Raise(error) == Finish(Outcome(error, "none", NoResponse))

Begin(api, pc, loop, running) ==
  /\ At("idle")
  /\ api \in program.apis
  /\ calls < MaxCalls
  /\ calls' = calls + 1
  /\ current' = [pc |-> pc, api |-> api, loop |-> loop, running |-> running]
  /\ UNCHANGED <<verifierVars, conn, closedLoops, last, serverUp, failures>>

FirstStep == IF mode = "auto" THEN "resolve" ELSE "evaluate"

\* verify from synchronous code, or by mistake from inside a running loop.
CallVerify(loop, running) ==
  /\ running \/ loop = GetLoop(loop)
  /\ Begin("verify", FirstStep, loop, running)
  /\ ownLoop' = GetLoop(loop)

\* averify always runs inside a loop; only the probe asks for _get_loop.
CallAverify(loop) ==
  /\ Begin("averify", FirstStep, loop, TRUE)
  /\ ownLoop' = IF mode = "auto" THEN GetLoop(loop) ELSE ownLoop

CallHealth(loop) ==
  /\ Begin("health", "evaluate", loop, TRUE)
  /\ UNCHANGED ownLoop
-----------------------------------------------------------------------------
(* _resolve_mode: run_until_complete(client.connect()) with a client of a  *)
(* short timeout, which is then the client for good.                       *)

ProbeConnects ==
  /\ At("resolve")
  /\ serverUp
  /\ ~current.running
  /\ conn' = Fresh(current.loop)
  /\ client' = TRUE
  /\ oopAvailable' = TRUE
  /\ mode' = "out-of-process"
  /\ current' = [current EXCEPT !.pc = "evaluate"]
  /\ UNCHANGED <<server, ownLoop, closedLoops, last, calls, serverUp, failures>>

\* "except (TransportError, Exception)": nobody answers, or the loop cannot be
\* run because one is running already.
CannotProbe == At("resolve") /\ (~serverUp \/ current.running)

\* Mutant of FallsBack: the mode is left to be resolved again by the next call.
FallsBackForNow ==
  /\ CannotProbe
  /\ ~program.requireOop
  /\ server' = TRUE
  /\ oopAvailable' = FALSE
  /\ current' = [current EXCEPT !.pc = "evaluate"]
  /\ UNCHANGED <<mode, client, ownLoop, conn, closedLoops, last, calls, serverUp, failures>>

\* Mutant of FallsBack: the mode is set before the outcome of the probe is known.
FallsBackMislabelled ==
  /\ CannotProbe
  /\ ~program.requireOop
  /\ server' = TRUE
  /\ oopAvailable' = FALSE
  /\ mode' = "out-of-process"
  /\ current' = [current EXCEPT !.pc = "evaluate"]
  /\ UNCHANGED <<client, ownLoop, conn, closedLoops, last, calls, serverUp, failures>>

\* Mutant of FallsBack: require_oop is not looked at.
FallsBackAnyway ==
  /\ CannotProbe
  /\ server' = TRUE
  /\ oopAvailable' = FALSE
  /\ mode' = "in-process"
  /\ current' = [current EXCEPT !.pc = "evaluate"]
  /\ UNCHANGED <<client, ownLoop, conn, closedLoops, last, calls, serverUp, failures>>

\* The fallback is for good: the mode is not "auto" any more.
FallsBack ==
  /\ CannotProbe
  /\ ~program.requireOop
  /\ server' = TRUE
  /\ oopAvailable' = FALSE
  /\ mode' = "in-process"
  /\ current' = [current EXCEPT !.pc = "evaluate"]
  /\ UNCHANGED <<client, ownLoop, conn, closedLoops, last, calls, serverUp, failures>>

RefusesToFallBack ==
  /\ CannotProbe
  /\ program.requireOop
  /\ Raise("RuntimeError")
  /\ UNCHANGED <<verifierVars, ownLoop, conn, closedLoops, calls, serverUp, failures>>
-----------------------------------------------------------------------------
(* The evaluation.  A synchronous call from inside a loop gets no further  *)
(* than run_until_complete.                                                *)

Blocked == current.api = "verify" /\ current.running

LoopIsRunning ==
  /\ At("evaluate")
  /\ Blocked
  /\ Raise("RuntimeError")
  /\ UNCHANGED <<verifierVars, ownLoop, conn, closedLoops, calls, serverUp, failures>>

\* Which of the two is asked: the three methods test different attributes.
AsksServer ==
  IF current.api = "health" THEN client /\ oopAvailable
  ELSE client /\ mode = "out-of-process"

EvaluatesHere ==
  /\ At("evaluate")
  /\ ~Blocked
  /\ ~AsksServer
  /\ server
  /\ Finish(Outcome("returned", "here", Response(current.api, calls)))
  /\ UNCHANGED <<verifierVars, ownLoop, conn, closedLoops, calls, serverUp, failures>>

\* health_check with neither a known server nor one of its own.
NoVerifier ==
  /\ At("evaluate")
  /\ ~Blocked
  /\ ~AsksServer
  /\ ~server
  /\ Raise("RuntimeError")
  /\ UNCHANGED <<verifierVars, ownLoop, conn, closedLoops, calls, serverUp, failures>>

Remote == At("evaluate") /\ ~Blocked /\ AsksServer
OnOwnLoop == conn # NoConn /\ conn.loop = current.loop
OnOtherLoop == conn # NoConn /\ conn.loop # current.loop

\* What can be read after the request is written: a dead server answers nothing.
Arriving ==
  IF conn.alive THEN Append(conn.pending, Response(current.api, calls)) ELSE conn.pending

\* A response is taken by position; verify finds no trace_id in one to health.
Takes(responses) ==
  /\ responses # <<>>
  /\ IF current.api # "health" /\ Head(responses).api = "health"
     THEN Raise("KeyError")
     ELSE Finish(Outcome("returned", "server", Head(responses)))
  /\ conn' = [conn EXCEPT !.pending = Tail(Arriving), !.buffered = IF @ = 0 THEN 0 ELSE @ - 1]
  /\ UNCHANGED <<verifierVars, ownLoop, closedLoops, calls, serverUp, failures>>

Reconnects ==
  /\ Remote
  /\ conn = NoConn
  /\ serverUp
  /\ conn' = Fresh(current.loop)
  /\ UNCHANGED <<verifierVars, ownLoop, closedLoops, current, last, calls, serverUp, failures>>

Answered ==
  /\ Remote
  /\ OnOwnLoop
  /\ Takes(Arriving)

\* Mutant of TriesAgain: the next attempt uses the same connection.
TriesAgainThere ==
  /\ Remote
  /\ current.api # "health"
  /\ OnOwnLoop
  /\ Len(conn.pending) < MaxCalls
  /\ conn' = [conn EXCEPT !.pending = Arriving]
  /\ UNCHANGED <<verifierVars, ownLoop, closedLoops, current, last, calls, serverUp, failures>>

\* An attempt of verify failed or timed out: its connection is not used again.
\* (VerifierSession counts the attempts.)
TriesAgain ==
  /\ Remote
  /\ current.api # "health"
  /\ OnOwnLoop
  /\ conn' = NoConn
  /\ UNCHANGED <<verifierVars, ownLoop, closedLoops, current, last, calls, serverUp, failures>>

GivesUp ==
  /\ Remote
  /\ conn = NoConn
  /\ Raise("TransportError")
  /\ UNCHANGED <<verifierVars, ownLoop, conn, closedLoops, calls, serverUp, failures>>

\* health_check does not retry and does not drop the connection.
HealthTimesOut ==
  /\ Remote
  /\ current.api = "health"
  /\ OnOwnLoop
  /\ conn.buffered = 0
  /\ conn' = [conn EXCEPT !.pending = Arriving]
  /\ Raise("TimeoutError")
  /\ UNCHANGED <<verifierVars, ownLoop, closedLoops, calls, serverUp, failures>>

StreamEnds ==
  /\ Remote
  /\ OnOwnLoop
  /\ Arriving = <<>>
  /\ Raise("IncompleteReadError")
  /\ UNCHANGED <<verifierVars, ownLoop, conn, closedLoops, calls, serverUp, failures>>

\* Streams of another loop: the request is written, but a read that has to wait
\* raises RuntimeError, which no clause of verify catches.  Only a response that
\* the other loop has buffered already can be read.
OtherLoop ==
  /\ Remote
  /\ OnOtherLoop
  /\ conn.buffered = 0
  /\ conn' \in {[conn EXCEPT !.pending = Arriving]}
               \cup (IF conn.alive THEN {} ELSE {NoConn})
  /\ Raise("RuntimeError")
  /\ UNCHANGED <<verifierVars, ownLoop, closedLoops, calls, serverUp, failures>>

OtherLoopBuffered ==
  /\ Remote
  /\ OnOtherLoop
  /\ conn.buffered > 0
  /\ Takes(conn.pending)

\* Mutant of Close: the writer is dropped, the reader is kept.
CloseWriter ==
  /\ At("idle")
  /\ "close" \in program.apis
  /\ client
  /\ conn # NoConn
  /\ conn' = [conn EXCEPT !.loop = 0, !.alive = FALSE, !.pending = <<>>]
  /\ UNCHANGED <<verifierVars, ownLoop, closedLoops, current, last, calls, serverUp, failures>>

\* close(): whatever happens to the old loop, the transport is closing after it.
Close ==
  /\ At("idle")
  /\ "close" \in program.apis
  /\ client
  /\ conn # NoConn
  /\ conn' = NoConn
  /\ UNCHANGED <<verifierVars, ownLoop, closedLoops, current, last, calls, serverUp, failures>>
-----------------------------------------------------------------------------
(* The program and the server around it.                                   *)

\* asyncio.run returns, and its loop is closed with it.
LoopCloses(loop) ==
  /\ At("idle")
  /\ closedLoops' = closedLoops \cup {loop}
  /\ UNCHANGED <<verifierVars, ownLoop, conn, current, last, calls, serverUp, failures>>

\* The loop of the connection runs for something else and reads what has come.
LoopRuns ==
  /\ At("idle")
  /\ conn.loop \in Open
  /\ conn.buffered < Len(conn.pending)
  /\ conn' = [conn EXCEPT !.buffered = @ + 1]
  /\ UNCHANGED <<verifierVars, ownLoop, closedLoops, current, last, calls, serverUp, failures>>

\* Responses that had not been sent are lost with the server.
ServerEnds ==
  /\ serverUp
  /\ failures < MaxFailures
  /\ serverUp' = FALSE
  /\ failures' = failures + 1
  /\ \E n \in conn.buffered .. Len(conn.pending) :
       conn' = [conn EXCEPT !.alive = FALSE, !.pending = SubSeq(@, 1, n)]
  /\ UNCHANGED <<verifierVars, ownLoop, closedLoops, current, last, calls>>

ServerStarts ==
  /\ ~serverUp
  /\ failures < MaxFailures
  /\ serverUp' = TRUE
  /\ failures' = failures + 1
  /\ UNCHANGED <<verifierVars, ownLoop, conn, closedLoops, current, last, calls>>

Next ==
  /\ \/ \E loop \in Open :
          \/ \E running \in BOOLEAN : CallVerify(loop, running)
          \/ CallAverify(loop)
          \/ CallHealth(loop)
          \/ LoopCloses(loop)
     \/ ProbeConnects \/ FallsBack \/ RefusesToFallBack
     \/ LoopIsRunning \/ EvaluatesHere \/ NoVerifier
     \/ Reconnects \/ Answered \/ TriesAgain \/ GivesUp \/ HealthTimesOut \/ StreamEnds
     \/ OtherLoop \/ OtherLoopBuffered
     \/ Close \/ LoopRuns
     \/ ServerEnds \/ ServerStarts
  /\ UNCHANGED program

Spec == Init /\ [][Next]_vars
-----------------------------------------------------------------------------
Evaluated == last.how = "returned" /\ last.api \in Evaluations

\* A verifier has one evaluator for good: it never holds a server of its own
\* beside a client, and whatever verify, averify or health_check returns comes
\* from the side its mode names, although they look at different attributes to
\* find it (client.py:334-407).
OneEvaluator ==
  /\ ~(client /\ server)
  /\ mode = "auto" => last.how # "returned"
  /\ last.how = "returned" => last.where = IF mode = "in-process" THEN "here" ELSE "server"

\* Which evaluator a verifier has is decided once: from then on no probe, failure,
\* close() or return of the server changes the mode or what it evaluates with
\* (client.py:334-372).
ModeIsSettled ==
  [][client \/ server => mode' = mode /\ client' = client /\ server' = server]_vars

\* With require_oop, auto never evaluates in the caller's process, however the
\* probe fails (client.py:351-356).
NeverFallsBack ==
  program.mode = "auto" /\ program.requireOop => ~server /\ last.where # "here"

\* What verify returns answers the call it is returned from, across failed
\* attempts, close() and restarts of the server, in a program that only calls
\* verify and close (client.py:374-389).  With averify from a second loop, or
\* health_check, it does not hold.
AnswersThisCall ==
  program.apis \subseteq {"verify", "close"} /\ Evaluated /\ At("idle")
    => last.response.call = calls

\* "auto" is to "try OOP first, fallback to in-process" (client.py:294).
FallsBackOnlyWithoutServer == [][mode = "auto" /\ mode' = "in-process" => ~serverUp]_vars
=============================================================================
