------------------------ MODULE VerifierModesProofs ------------------------
(***************************************************************************)
(* Where a Verifier evaluates, for every mode, loop and order of calls:    *)
(* once its mode is settled it has exactly one evaluator, and with         *)
(* require_oop that is never one of its own.                               *)
(***************************************************************************)
EXTENDS VerifierModes, TLAPS, SequenceTheorems

\* Each mode comes with the objects that serve it, and the steps of a call are
\* taken in the modes they belong to.
Settled ==
  /\ mode \in Modes
  /\ client <=> mode = "out-of-process"
  /\ server <=> mode = "in-process"
  /\ oopAvailable => mode = "out-of-process"
  /\ At("resolve") => mode = "auto"
  /\ At("evaluate") /\ current.api # "health" => mode # "auto"
  /\ mode = "auto" => last.how # "returned"
  /\ last.how = "returned" => last.where = IF mode = "in-process" THEN "here" ELSE "server"

LEMMA SettledFirst == Init => Settled
<1> SUFFICES ASSUME Init PROVE Settled
  OBVIOUS
<1>1. mode \in Modes
  BY ModesAssumption DEF Init
<1>2. (client <=> mode = "out-of-process") /\ (server <=> mode = "in-process")
  BY Zenon DEF Init
<1>3. At("idle") /\ ~oopAvailable /\ last.how # "returned"
  BY DEF Init, At, NoCall, Outcome
<1> QED BY <1>1, <1>2, <1>3 DEF Settled, Modes, At

LEMMA CallKeepsSettled ==
  ASSUME Settled, NEW loop \in Open,
         \/ \E running \in BOOLEAN : CallVerify(loop, running)
         \/ CallAverify(loop)
         \/ CallHealth(loop)
  PROVE  Settled'
BY DEF Settled, CallVerify, CallAverify, CallHealth, Begin, FirstStep, At, verifierVars, Modes

LEMMA ProbeKeepsSettled ==
  ASSUME Settled, ProbeConnects \/ FallsBack \/ RefusesToFallBack
  PROVE  Settled'
<1>1. CASE ProbeConnects
  BY <1>1 DEF Settled, ProbeConnects, At, Modes
<1>2. CASE FallsBack
  BY <1>2 DEF Settled, FallsBack, CannotProbe, At, Modes
<1>3. CASE RefusesToFallBack
  BY <1>3 DEF Settled, RefusesToFallBack, Raise, Finish, Outcome, NoCall, verifierVars, At, Modes
<1> QED BY <1>1, <1>2, <1>3

\* A call that raises returns nothing.
LEMMA RaiseKeepsSettled ==
  ASSUME Settled, NEW error \in {"RuntimeError", "TransportError", "TimeoutError",
                                 "IncompleteReadError", "KeyError"},
         Raise(error), UNCHANGED verifierVars
  PROVE  Settled'
BY DEF Settled, Raise, Finish, Outcome, NoCall, verifierVars, At, Modes

LEMMA TakesKeepsSettled ==
  ASSUME Settled, Remote, NEW responses, Takes(responses)
  PROVE  Settled'
<1>1. mode = "out-of-process"
  BY DEF Settled, Remote, AsksServer
<1>2. UNCHANGED verifierVars
  BY DEF Takes
<1>3. CASE Raise("KeyError")
  BY <1>2, <1>3, RaiseKeepsSettled
<1>4. CASE Finish(Outcome("returned", "server", Head(responses)))
  BY <1>1, <1>2, <1>4 DEF Settled, Finish, Outcome, NoCall, verifierVars, At, Modes
<1> QED BY <1>3, <1>4 DEF Takes

LEMMA EvaluationKeepsSettled ==
  ASSUME Settled,
         \/ LoopIsRunning \/ EvaluatesHere \/ NoVerifier
         \/ GivesUp \/ HealthTimesOut \/ StreamEnds \/ OtherLoop
         \/ Answered \/ OtherLoopBuffered
  PROVE  Settled'
<1>1. CASE LoopIsRunning
  BY <1>1, RaiseKeepsSettled DEF LoopIsRunning
<1>2. CASE EvaluatesHere
  <2>1. UNCHANGED verifierVars /\ Finish(Outcome("returned", "here", Response(current.api, calls)))
    BY <1>2 DEF EvaluatesHere
  <2>2. mode = "in-process"
    BY <1>2 DEF EvaluatesHere, Settled
  <2> QED BY <2>1, <2>2 DEF Settled, Finish, Outcome, NoCall, verifierVars, At, Modes
<1>3. CASE NoVerifier
  BY <1>3, RaiseKeepsSettled DEF NoVerifier
<1>4. CASE GivesUp
  BY <1>4, RaiseKeepsSettled DEF GivesUp
<1>5. CASE HealthTimesOut
  BY <1>5, RaiseKeepsSettled DEF HealthTimesOut
<1>6. CASE StreamEnds
  BY <1>6, RaiseKeepsSettled DEF StreamEnds
<1>7. CASE OtherLoop
  BY <1>7, RaiseKeepsSettled DEF OtherLoop
<1>8. CASE Answered
  BY <1>8, TakesKeepsSettled DEF Answered
<1>9. CASE OtherLoopBuffered
  BY <1>9, TakesKeepsSettled DEF OtherLoopBuffered
<1> QED BY <1>1, <1>2, <1>3, <1>4, <1>5, <1>6, <1>7, <1>8, <1>9

\* Connections, loops and the server come and go without touching the mode.
LEMMA SurroundingsKeepSettled ==
  ASSUME Settled,
         UNCHANGED <<verifierVars, current, last>>
  PROVE  Settled'
BY DEF Settled, verifierVars, At

LEMMA StepKeepsSettled == Settled /\ [Next]_vars => Settled'
<1> SUFFICES ASSUME Settled, [Next]_vars PROVE Settled'
  OBVIOUS
<1>1. CASE \E loop \in Open : \/ \E running \in BOOLEAN : CallVerify(loop, running)
                              \/ CallAverify(loop)
                              \/ CallHealth(loop)
  BY <1>1, CallKeepsSettled
<1>2. CASE ProbeConnects \/ FallsBack \/ RefusesToFallBack
  BY <1>2, ProbeKeepsSettled
<1>3. CASE \/ LoopIsRunning \/ EvaluatesHere \/ NoVerifier
           \/ GivesUp \/ HealthTimesOut \/ StreamEnds \/ OtherLoop
           \/ Answered \/ OtherLoopBuffered
  BY <1>3, EvaluationKeepsSettled
<1>4. CASE \/ \E loop \in Open : LoopCloses(loop)
           \/ Reconnects \/ TriesAgain \/ Close \/ LoopRuns \/ ServerEnds \/ ServerStarts
           \/ UNCHANGED vars
  BY <1>4, SurroundingsKeepSettled
     DEF LoopCloses, Reconnects, TriesAgain, Close, LoopRuns, ServerEnds, ServerStarts, vars
<1> QED BY <1>1, <1>2, <1>3, <1>4 DEF Next

LEMMA AlwaysSettled == Spec => []Settled
BY SettledFirst, StepKeepsSettled, PTL DEF Spec

\* A verifier never has two evaluators, and whatever its methods return comes
\* from the one its mode names.
THEOREM HasOneEvaluator == Spec => []OneEvaluator
<1>1. Settled => OneEvaluator
  BY DEF Settled, OneEvaluator, Modes
<1> QED BY <1>1, AlwaysSettled, PTL

\* What auto was resolved to stays.
THEOREM ModeStaysSettled == Spec => ModeIsSettled
<1>1. ASSUME Settled, [Next]_vars
      PROVE  [client \/ server => mode' = mode /\ client' = client /\ server' = server]_vars
  <2> SUFFICES ASSUME client \/ server, Next
               PROVE  mode' = mode /\ client' = client /\ server' = server
    BY <1>1
  <2>0. mode # "auto"
    BY <1>1 DEF Settled
  <2>1. ~(ProbeConnects \/ FallsBack)
    BY <1>1, <2>0 DEF Settled, ProbeConnects, FallsBack, CannotProbe
  <2> QED
    BY <2>1 DEF Next, CallVerify, CallAverify, CallHealth, Begin, LoopCloses, RefusesToFallBack,
      LoopIsRunning, EvaluatesHere, NoVerifier, Reconnects, Answered, Takes, TriesAgain, GivesUp,
      HealthTimesOut, StreamEnds, OtherLoop, OtherLoopBuffered, Close, LoopRuns, ServerEnds,
      ServerStarts, verifierVars
<1> QED BY <1>1, AlwaysSettled, PTL DEF Spec, ModeIsSettled

\* With require_oop an auto verifier has no evaluator of its own, and nothing
\* it returned was evaluated in its process.
Remotely ==
  program.mode = "auto" /\ program.requireOop => mode # "in-process" /\ last.where # "here"

THEOREM RequireOopHolds == Spec => []NeverFallsBack
<1>1. Init => Remotely
  BY DEF Init, Remotely, Outcome
<1>2. ASSUME Settled, Remotely, [Next]_vars PROVE Remotely'
  <2> SUFFICES ASSUME program.mode = "auto", program.requireOop, Next
               PROVE  mode' # "in-process" /\ last'.where # "here"
    BY <1>2 DEF Remotely, Next, vars, verifierVars
  <2>1. mode # "in-process" /\ last.where # "here" /\ ~server
    BY <1>2 DEF Remotely, Settled, Modes
  <2>2. ~FallsBack /\ ~EvaluatesHere
    BY <2>1 DEF FallsBack, EvaluatesHere
  <2>3. ASSUME NEW error, Raise(error) PROVE last'.where # "here"
    BY <2>3 DEF Raise, Finish, Outcome
  <2>4. CASE Answered \/ OtherLoopBuffered
    <3>1. PICK responses : Takes(responses)
      BY <2>4 DEF Answered, OtherLoopBuffered
    <3>2. CASE Raise("KeyError")
      BY <2>1, <2>3, <3>1, <3>2 DEF Takes, verifierVars
    <3>3. CASE Finish(Outcome("returned", "server", Head(responses)))
      BY <2>1, <3>1, <3>3 DEF Takes, verifierVars, Finish, Outcome
    <3> QED BY <3>1, <3>2, <3>3 DEF Takes
  <2>5. CASE \/ LoopIsRunning \/ NoVerifier \/ RefusesToFallBack
             \/ GivesUp \/ HealthTimesOut \/ StreamEnds \/ OtherLoop
    BY <2>1, <2>3, <2>5 DEF LoopIsRunning, NoVerifier, RefusesToFallBack, GivesUp, HealthTimesOut,
                            StreamEnds, OtherLoop, verifierVars
  <2>6. CASE ProbeConnects
    BY <2>1, <2>6 DEF ProbeConnects
  <2>7. CASE \/ \E loop \in Open : \/ \E running \in BOOLEAN : CallVerify(loop, running)
                                  \/ CallAverify(loop)
                                  \/ CallHealth(loop)
                                  \/ LoopCloses(loop)
             \/ Reconnects \/ TriesAgain \/ Close \/ LoopRuns \/ ServerEnds \/ ServerStarts
    BY <2>1, <2>7 DEF CallVerify, CallAverify, CallHealth, Begin, LoopCloses, Reconnects, TriesAgain,
                      Close, LoopRuns, ServerEnds, ServerStarts, verifierVars
  <2> QED BY <2>2, <2>4, <2>5, <2>6, <2>7 DEF Next
<1>3. Settled /\ Remotely => NeverFallsBack
  BY DEF Settled, Remotely, NeverFallsBack, Modes
<1> QED BY <1>1, <1>2, <1>3, AlwaysSettled, PTL DEF Spec
-----------------------------------------------------------------------------
(* The types, for every program.                                           *)

Pending == Seq([api : Methods, call : 1 .. MaxCalls])

\* A call in progress has been counted, and is one of the three methods.
Typed ==
  /\ TypeOK
  /\ ~At("idle") => calls >= 1 /\ current.api \in Methods

\* A request whose response may arrive adds one frame that is of the call.
LEMMA ArrivingTyped ==
  ASSUME Typed, ~At("idle")
  PROVE  /\ Arriving \in Pending
         /\ Len(conn.pending) \in Nat
         /\ Len(Arriving) \in Nat
         /\ Len(conn.pending) <= Len(Arriving)
<1>1. Response(current.api, calls) \in [api : Methods, call : 1 .. MaxCalls]
  BY ModesAssumption DEF Typed, TypeOK, Response
<1>2. conn.pending \in Pending
  BY DEF Typed, TypeOK, Pending
<1>3. CASE conn.alive
  <2>1. Arriving = Append(conn.pending, Response(current.api, calls))
    BY <1>3 DEF Arriving
  <2>2. Arriving \in Pending /\ Len(Arriving) = Len(conn.pending) + 1
    BY <1>1, <1>2, <2>1, AppendProperties DEF Pending
  <2> QED BY <1>2, <2>2, LenProperties DEF Pending
<1>4. CASE ~conn.alive
  BY <1>2, <1>4, LenProperties DEF Arriving, Pending
<1> QED BY <1>3, <1>4

\* A call that ends, however it does, leaves nothing in progress.
LEMMA FinishTyped ==
  ASSUME Typed, NEW outcome, Finish(outcome), program' = program,
         UNCHANGED <<verifierVars, ownLoop, closedLoops, calls, serverUp, failures>>,
         conn' \in [loop : Loops \cup {0}, alive : BOOLEAN, pending : Pending, buffered : Nat],
         conn'.buffered <= Len(conn'.pending)
  PROVE  Typed'
BY DEF Typed, TypeOK, Finish, NoCall, At, verifierVars, Pending, Open, Loops

\* What is left when one frame is read.
LEMMA TakesTyped ==
  ASSUME Typed, ~At("idle"), NEW responses, Takes(responses), program' = program,
         responses = Arriving \/ conn.buffered > 0
  PROVE  Typed'
<1>1. Arriving # <<>>
  <2>1. CASE responses = Arriving
    BY <2>1 DEF Takes
  <2>2. CASE conn.buffered > 0
    BY <2>2, ArrivingTyped, EmptySeq DEF Typed, TypeOK
  <2> QED BY <2>1, <2>2
<1>2. Tail(Arriving) \in Pending /\ Len(Tail(Arriving)) = Len(Arriving) - 1
  BY <1>1, ArrivingTyped, HeadTailProperties DEF Pending
<1>3. conn' = [conn EXCEPT !.pending = Tail(Arriving),
                           !.buffered = IF @ = 0 THEN 0 ELSE @ - 1]
  BY DEF Takes
<1>4. /\ conn' \in [loop : Loops \cup {0}, alive : BOOLEAN, pending : Pending, buffered : Nat]
      /\ conn'.buffered <= Len(conn'.pending)
  <2>1. /\ conn \in [loop : Loops \cup {0}, alive : BOOLEAN, pending : Pending, buffered : Nat]
        /\ conn.buffered <= Len(conn.pending)
    BY DEF Typed, TypeOK, Pending
  <2>2. Len(Arriving) >= 1 /\ Len(conn.pending) <= Len(Arriving) /\ Len(Arriving) \in Nat
    BY <1>1, <1>2, ArrivingTyped, LenProperties
  <2>3. /\ conn'.pending = Tail(Arriving)
        /\ conn'.buffered = IF conn.buffered = 0 THEN 0 ELSE conn.buffered - 1
        /\ conn'.loop = conn.loop /\ conn'.alive = conn.alive
    BY <1>3, <2>1
  <2>4. conn'.buffered \in Nat /\ conn'.buffered <= Len(Arriving) - 1
    BY <2>1, <2>2, <2>3, ArrivingTyped
  <2>5. conn' = [loop |-> conn'.loop, alive |-> conn'.alive, pending |-> conn'.pending,
                 buffered |-> conn'.buffered]
    BY <1>3, <2>1
  <2> QED BY <1>2, <2>1, <2>3, <2>4, <2>5
<1>5. UNCHANGED <<verifierVars, ownLoop, closedLoops, calls, serverUp, failures>>
  BY DEF Takes
<1>6. \E outcome : Finish(outcome)
  BY DEF Takes, Raise
<1> QED BY <1>4, <1>5, <1>6, FinishTyped

\* An attempt or a health check that leaves its response to be read.
LEMMA LeftToRead ==
  ASSUME Typed, ~At("idle")
  PROVE  LET later == [conn EXCEPT !.pending = Arriving]
         IN  /\ later \in [loop : Loops \cup {0}, alive : BOOLEAN, pending : Pending, buffered : Nat]
             /\ later.buffered <= Len(later.pending)
             /\ later.loop = conn.loop
<1> DEFINE later == [conn EXCEPT !.pending = Arriving]
<1>1. /\ conn \in [loop : Loops \cup {0}, alive : BOOLEAN, pending : Pending, buffered : Nat]
      /\ conn.buffered <= Len(conn.pending)
  BY DEF Typed, TypeOK, Pending
<1>2. /\ later.pending = Arriving /\ later.buffered = conn.buffered
      /\ later.loop = conn.loop /\ later.alive = conn.alive
  BY <1>1
<1> QED BY <1>1, <1>2, ArrivingTyped

LEMMA NoConnTyped ==
  /\ NoConn \in [loop : Loops \cup {0}, alive : BOOLEAN, pending : Pending, buffered : Nat]
  /\ NoConn.buffered <= Len(NoConn.pending)
BY EmptySeq DEF NoConn, Pending

LEMMA FreshTyped ==
  ASSUME NEW loop \in Loops \cup {0}
  PROVE  /\ Fresh(loop) \in [loop : Loops \cup {0}, alive : BOOLEAN, pending : Pending, buffered : Nat]
         /\ Fresh(loop).buffered <= Len(Fresh(loop).pending)
         /\ Fresh(loop).pending = <<>> /\ Fresh(loop).buffered = 0 /\ Fresh(loop).loop = loop
BY EmptySeq DEF Fresh, Pending

\* A server that ends takes unsent responses with it, and none that was read.
LEMMA EndTyped ==
  ASSUME Typed, NEW n \in conn.buffered .. Len(conn.pending),
         conn' = [conn EXCEPT !.alive = FALSE, !.pending = SubSeq(@, 1, n)]
  PROVE  /\ conn' \in [loop : Loops \cup {0}, alive : BOOLEAN, pending : Pending, buffered : Nat]
         /\ conn'.buffered <= Len(conn'.pending)
         /\ conn'.loop = conn.loop /\ conn'.buffered = conn.buffered
         /\ conn.pending = <<>> => conn'.pending = <<>>
<1>1. /\ conn \in [loop : Loops \cup {0}, alive : BOOLEAN, pending : Pending, buffered : Nat]
      /\ conn.buffered <= Len(conn.pending) /\ Len(conn.pending) \in Nat
  BY LenProperties DEF Typed, TypeOK, Pending
<1>2. n \in Nat /\ conn.buffered <= n /\ n <= Len(conn.pending)
  BY <1>1
<1>3. /\ conn'.pending = SubSeq(conn.pending, 1, n) /\ conn'.buffered = conn.buffered
      /\ conn'.loop = conn.loop /\ conn'.alive = FALSE
  BY <1>1
<1>4. /\ SubSeq(conn.pending, 1, n) \in Pending
      /\ Len(SubSeq(conn.pending, 1, n)) = n
  <2>1. ASSUME NEW i \in 1 .. n
        PROVE  conn.pending[i] \in [api : Methods, call : 1 .. MaxCalls]
    <3>1. i \in 1 .. Len(conn.pending)
      BY <1>1, <1>2
    <3> QED BY <1>1, <3>1, ElementOfSeq DEF Pending
  <2>2. /\ SubSeq(conn.pending, 1, n) \in Seq([api : Methods, call : 1 .. MaxCalls])
        /\ Len(SubSeq(conn.pending, 1, n)) = IF 1 <= n THEN n - 1 + 1 ELSE 0
    BY <1>2, <2>1, SubSeqProperties
  <2> QED BY <1>2, <2>2 DEF Pending
<1>5. conn.pending = <<>> => conn'.pending = <<>>
  BY <1>2, <1>3, <1>4, EmptySeq DEF Pending
<1> QED BY <1>1, <1>2, <1>3, <1>4, <1>5

LEMMA CallTyped ==
  ASSUME Typed, program' = program, NEW loop \in Open,
         \/ \E running \in BOOLEAN : CallVerify(loop, running)
         \/ CallAverify(loop)
         \/ CallHealth(loop)
  PROVE  Typed'
<1>1. PICK api \in Methods, pc \in {"resolve", "evaluate"}, running \in BOOLEAN :
        Begin(api, pc, loop, running)
  BY DEF CallVerify, CallAverify, CallHealth, FirstStep, Methods, Evaluations
<1>2. ownLoop' \in Loops \cup {0}
  BY DEF CallVerify, CallAverify, CallHealth, GetLoop, Open, Typed, TypeOK
<1>3. loop \in Loops
  BY DEF Open
<1> QED BY <1>1, <1>2, <1>3, ModesAssumption
        DEF Typed, TypeOK, Begin, At, verifierVars

LEMMA StepTyped == Typed /\ [Next]_vars => Typed'
<1> SUFFICES ASSUME Typed, [Next]_vars PROVE Typed'
  OBVIOUS
<1>0. program' = program
  BY DEF Next, vars
<1>00. /\ conn \in [loop : Loops \cup {0}, alive : BOOLEAN, pending : Pending, buffered : Nat]
       /\ conn.buffered <= Len(conn.pending)
  BY DEF Typed, TypeOK, Pending
<1>1. CASE \E loop \in Open : \/ \E running \in BOOLEAN : CallVerify(loop, running)
                              \/ CallAverify(loop)
                              \/ CallHealth(loop)
  BY <1>0, <1>1, CallTyped
<1>2. CASE ProbeConnects
  <2>1. current.loop \in Loops \cup {0} /\ conn' = Fresh(current.loop)
    BY <1>2 DEF ProbeConnects, Typed, TypeOK
  <2> QED BY <1>0, <1>2, <2>1, FreshTyped DEF ProbeConnects, Typed, TypeOK, At, Modes, Pending
<1>3. CASE FallsBack
  BY <1>0, <1>3 DEF FallsBack, CannotProbe, Typed, TypeOK, At, Modes
<1>4. CASE RefusesToFallBack \/ LoopIsRunning \/ EvaluatesHere \/ NoVerifier \/ GivesUp \/ StreamEnds
  <2>1. /\ \E outcome : Finish(outcome)
        /\ UNCHANGED <<verifierVars, ownLoop, conn, closedLoops, calls, serverUp, failures>>
    BY <1>4 DEF RefusesToFallBack, LoopIsRunning, EvaluatesHere, NoVerifier, GivesUp, StreamEnds, Raise
  <2> QED BY <1>0, <1>00, <2>1, FinishTyped
<1>5. CASE HealthTimesOut
  <2>1. /\ ~At("idle") /\ conn' = [conn EXCEPT !.pending = Arriving]
        /\ \E outcome : Finish(outcome)
        /\ UNCHANGED <<verifierVars, ownLoop, closedLoops, calls, serverUp, failures>>
    BY <1>5 DEF HealthTimesOut, Remote, At, Raise
  <2> QED BY <1>0, <2>1, LeftToRead, FinishTyped
<1>6. CASE OtherLoop
  <2>1. /\ ~At("idle")
        /\ conn' = [conn EXCEPT !.pending = Arriving] \/ conn' = NoConn
        /\ \E outcome : Finish(outcome)
        /\ UNCHANGED <<verifierVars, ownLoop, closedLoops, calls, serverUp, failures>>
    BY <1>6 DEF OtherLoop, Remote, At, Raise
  <2> QED BY <1>0, <2>1, LeftToRead, NoConnTyped, FinishTyped
<1>7. CASE Answered \/ OtherLoopBuffered
  <2>1. ~At("idle")
    BY <1>7 DEF Answered, OtherLoopBuffered, Remote, At
  <2>2. Takes(Arriving) \/ (Takes(conn.pending) /\ conn.buffered > 0)
    BY <1>7 DEF Answered, OtherLoopBuffered
  <2> QED BY <1>0, <2>1, <2>2, TakesTyped
<1>8. CASE Reconnects \/ TriesAgain \/ Close
  <2>1. /\ conn' = NoConn \/ conn' = Fresh(current.loop)
        /\ UNCHANGED <<verifierVars, ownLoop, closedLoops, current, calls, serverUp, failures>>
    BY <1>8 DEF Reconnects, TriesAgain, Close
  <2>2. current.loop \in Loops \cup {0}
    BY DEF Typed, TypeOK
  <2> QED BY <1>0, <2>1, <2>2, NoConnTyped, FreshTyped DEF Typed, TypeOK, At, verifierVars, Pending
<1>9. CASE LoopRuns
  <2>1. /\ conn'.buffered = conn.buffered + 1 /\ conn.buffered < Len(conn.pending)
        /\ conn'.pending = conn.pending
        /\ conn' \in [loop : Loops \cup {0}, alive : BOOLEAN, pending : Pending, buffered : Nat]
    BY <1>00, <1>9 DEF LoopRuns
  <2>2. UNCHANGED <<verifierVars, ownLoop, closedLoops, current, calls, serverUp, failures>>
    BY <1>9 DEF LoopRuns
  <2>3. Len(conn.pending) \in Nat
    BY <1>00, LenProperties DEF Pending
  <2>4. conn'.buffered <= Len(conn'.pending)
    BY <1>00, <2>1, <2>3
  <2> QED BY <1>0, <2>1, <2>2, <2>4 DEF Typed, TypeOK, At, verifierVars, Pending
<1>10. CASE \E loop \in Open : LoopCloses(loop)
  BY <1>0, <1>10 DEF LoopCloses, Typed, TypeOK, At, verifierVars, Open
<1>11. CASE ServerEnds
  <2>1. PICK n \in conn.buffered .. Len(conn.pending) :
          conn' = [conn EXCEPT !.alive = FALSE, !.pending = SubSeq(@, 1, n)]
    BY <1>11 DEF ServerEnds
  <2>2. /\ conn' \in [loop : Loops \cup {0}, alive : BOOLEAN, pending : Pending, buffered : Nat]
        /\ conn'.buffered <= Len(conn'.pending)
    BY <2>1, EndTyped
  <2>3. /\ UNCHANGED <<verifierVars, ownLoop, closedLoops, current, calls>>
        /\ serverUp' = FALSE /\ failures' = failures + 1 /\ failures < MaxFailures
    BY <1>11 DEF ServerEnds
  <2>4. failures' \in 0 .. MaxFailures
    BY <2>3, ModesAssumption DEF Typed, TypeOK
  <2>4a. serverUp' \in BOOLEAN
    BY <2>3
  <2>5. ~At("idle")' => calls' >= 1 /\ current'.api \in Methods
    BY <2>3 DEF Typed, At
  <2>6. /\ program' \in Programs /\ mode' \in Modes /\ client' \in BOOLEAN
        /\ oopAvailable' \in BOOLEAN /\ server' \in BOOLEAN
        /\ ownLoop' \in Loops \cup {0} /\ closedLoops' \subseteq Loops
        /\ calls' \in 0 .. MaxCalls
        /\ current' \in [pc : {"idle", "resolve", "evaluate"}, api : Methods \cup {"close"},
                        loop : Loops \cup {0}, running : BOOLEAN]
    BY <1>0, <2>3 DEF Typed, TypeOK, verifierVars
  <2> QED BY <2>2, <2>4, <2>4a, <2>5, <2>6 DEF Typed, TypeOK, Pending
<1>12. CASE ServerStarts
  BY <1>0, <1>12, ModesAssumption DEF ServerStarts, Typed, TypeOK, At, verifierVars
<1>13. CASE UNCHANGED vars
  BY <1>13 DEF vars, verifierVars, Typed, TypeOK, At
<1> QED BY <1>1, <1>2, <1>3, <1>4, <1>5, <1>6, <1>7, <1>8, <1>9, <1>10, <1>11, <1>12, <1>13 DEF Next

LEMMA AlwaysTyped == Spec => []Typed
<1>1. Init => Typed
  <2> SUFFICES ASSUME Init PROVE Typed
    OBVIOUS
  <2>1. program \in Programs /\ mode = program.mode /\ mode \in Modes
    BY ModesAssumption DEF Init
  <2>2. client \in BOOLEAN /\ server \in BOOLEAN
    BY DEF Init
  <2>3. At("idle")
    BY DEF Init, At, NoCall
  <2>4. /\ conn \in [loop : Loops \cup {0}, alive : BOOLEAN, pending : Pending, buffered : Nat]
        /\ conn.buffered <= Len(conn.pending)
    BY NoConnTyped DEF Init
  <2>5. current \in [pc : {"idle", "resolve", "evaluate"}, api : Methods \cup {"close"},
                     loop : Loops \cup {0}, running : BOOLEAN]
    BY DEF Init, NoCall
  <2>6. oopAvailable \in BOOLEAN /\ serverUp \in BOOLEAN
    BY DEF Init
  <2>7. ownLoop \in Loops \cup {0} /\ closedLoops \subseteq Loops
    BY DEF Init
  <2>8. calls \in 0 .. MaxCalls /\ failures \in 0 .. MaxFailures
    BY ModesAssumption DEF Init
  <2> QED BY <2>1, <2>2, <2>3, <2>4, <2>5, <2>6, <2>7, <2>8 DEF Typed, TypeOK, Pending
<1> QED BY <1>1, StepTyped, PTL DEF Spec

\* The variables keep their types, for every program, and a loop has never
\* buffered more than there is.
THEOREM ModesTyped == Spec => []TypeOK
BY AlwaysTyped, PTL DEF Typed
-----------------------------------------------------------------------------
(* What verify returns answers its call.                                   *)

OnlyVerifies == program.apis \subseteq {"verify", "close"}

\* A connection whose loop is open belongs to the loop that the next call will
\* run, and carries nothing; one whose loop was closed is never read from.
Quiet ==
  /\ ~At("idle") => current.api = "verify"
  /\ ~At("idle") /\ ~current.running => current.loop = ownLoop /\ ownLoop \in Open
  /\ conn.loop \in Open => conn.loop = ownLoop /\ conn.pending = <<>>
  /\ conn.buffered = 0
  /\ Evaluated /\ At("idle") => last.response.call = calls

\* With an empty connection, the response that can be read is this call's.
LEMMA QuietArrives ==
  ASSUME Typed, Quiet, Remote
  PROVE  /\ current.api = "verify" /\ ~current.running
         /\ current.loop = ownLoop /\ ownLoop \in Open
         /\ conn.loop = current.loop => conn.pending = <<>>
         /\ OnOtherLoop => conn.loop \notin Open
         /\ conn.pending = <<>> /\ Arriving # <<>> =>
              Head(Arriving) = Response("verify", calls) /\ Tail(Arriving) = <<>>
<1>1. ~At("idle") /\ ~Blocked
  BY DEF Remote, At
<1>2. current.api = "verify" /\ ~current.running
  BY <1>1 DEF Quiet, Blocked
<1>3. current.loop = ownLoop /\ ownLoop \in Open
  BY <1>1, <1>2 DEF Quiet
<1>4. ASSUME conn.pending = <<>>, Arriving # <<>>
      PROVE  Head(Arriving) = Response("verify", calls) /\ Tail(Arriving) = <<>>
  <2>1. Arriving = <<Response("verify", calls)>>
    BY <1>2, <1>4 DEF Arriving
  <2> QED BY <2>1
<1> QED BY <1>2, <1>3, <1>4 DEF Quiet, OnOtherLoop

LEMMA RaiseKeepsQuiet ==
  ASSUME Quiet, NEW error \in {"RuntimeError", "TransportError", "TimeoutError",
                               "IncompleteReadError", "KeyError"},
         Raise(error), UNCHANGED <<ownLoop, closedLoops>>,
         conn'.loop \in Open => conn'.loop = ownLoop /\ conn'.pending = <<>>,
         conn'.buffered = 0
  PROVE  Quiet'
BY DEF Quiet, Raise, Finish, Outcome, NoCall, At, Evaluated, Open, Loops

LEMMA CallKeepsQuiet ==
  ASSUME Typed, Quiet, OnlyVerifies, NEW loop \in Open,
         \/ \E running \in BOOLEAN : CallVerify(loop, running)
         \/ CallAverify(loop)
         \/ CallHealth(loop)
  PROVE  Quiet'
<1>1. ~CallAverify(loop) /\ ~CallHealth(loop)
  BY DEF OnlyVerifies, CallAverify, CallHealth, Begin
<1>2. PICK running \in BOOLEAN : CallVerify(loop, running)
  BY <1>1
<1>3. /\ ownLoop' = GetLoop(loop) /\ ownLoop' \in Open
      /\ ~running => loop = GetLoop(loop)
      /\ ownLoop \in Open => ownLoop' = ownLoop
  BY <1>2 DEF CallVerify, GetLoop
<1>4. /\ current' = [pc |-> FirstStep, api |-> "verify", loop |-> loop, running |-> running]
      /\ UNCHANGED <<conn, closedLoops, last>>
  BY <1>2 DEF CallVerify, Begin
<1>5. current'.pc # "idle" /\ current'.api = "verify" /\ current'.loop = loop
      /\ current'.running = running
  BY <1>4 DEF FirstStep
<1> QED BY <1>3, <1>4, <1>5 DEF Quiet, At, Open, Loops

LEMMA StepKeepsQuiet ==
  ASSUME Typed, Quiet, OnlyVerifies, [Next]_vars
  PROVE  Quiet'
<1>0. conn \in [loop : Loops \cup {0}, alive : BOOLEAN, pending : Pending, buffered : Nat]
  BY DEF Typed, TypeOK, Pending
<1>1. CASE \E loop \in Open : \/ \E running \in BOOLEAN : CallVerify(loop, running)
                              \/ CallAverify(loop)
                              \/ CallHealth(loop)
  BY <1>1, CallKeepsQuiet
<1>2. CASE ProbeConnects
  <2>1. /\ ~At("idle") /\ ~current.running /\ conn' = Fresh(current.loop)
        /\ current' = [current EXCEPT !.pc = "evaluate"]
        /\ UNCHANGED <<ownLoop, closedLoops, last>>
    BY <1>2 DEF ProbeConnects, At
  <2>2. current.loop = ownLoop /\ ownLoop \in Open /\ current.api = "verify"
    BY <2>1 DEF Quiet
  <2>3. /\ conn'.loop = ownLoop /\ conn'.pending = <<>> /\ conn'.buffered = 0
    BY <2>1, <2>2 DEF Fresh
  <2>4. current'.pc = "evaluate" /\ current'.api = "verify" /\ current'.loop = ownLoop
    BY <2>1, <2>2 DEF Typed, TypeOK
  <2> QED BY <2>1, <2>2, <2>3, <2>4 DEF Quiet, At, Open, Loops
<1>3. CASE FallsBack
  <2>1. /\ ~At("idle") /\ current' = [current EXCEPT !.pc = "evaluate"]
        /\ UNCHANGED <<ownLoop, closedLoops, last, conn>>
    BY <1>3 DEF FallsBack, CannotProbe, At
  <2>2. /\ current'.pc = "evaluate" /\ current'.api = current.api
        /\ current'.loop = current.loop /\ current'.running = current.running
    BY <2>1 DEF Typed, TypeOK
  <2> QED BY <2>1, <2>2 DEF Quiet, At, Open, Loops
<1>4. CASE RefusesToFallBack \/ LoopIsRunning \/ NoVerifier \/ GivesUp \/ StreamEnds
  <2>1. PICK error \in {"RuntimeError", "TransportError", "IncompleteReadError"} : Raise(error)
    BY <1>4 DEF RefusesToFallBack, LoopIsRunning, NoVerifier, GivesUp, StreamEnds
  <2>2. UNCHANGED <<ownLoop, conn, closedLoops>>
    BY <1>4 DEF RefusesToFallBack, LoopIsRunning, NoVerifier, GivesUp, StreamEnds
  <2>3. conn'.loop \in Open => conn'.loop = ownLoop /\ conn'.pending = <<>>
    BY <2>2 DEF Quiet
  <2>4. conn'.buffered = 0
    BY <2>2 DEF Quiet
  <2> QED BY <2>1, <2>2, <2>3, <2>4, RaiseKeepsQuiet
<1>5. CASE EvaluatesHere
  <2>1. /\ Finish(Outcome("returned", "here", Response(current.api, calls)))
        /\ UNCHANGED <<ownLoop, conn, closedLoops, calls>>
    BY <1>5 DEF EvaluatesHere
  <2>2. last'.response.call = calls'
    BY <2>1 DEF Finish, Outcome, Response
  <2>3. At("idle")'
    BY <2>1 DEF Finish, NoCall, At
  <2> QED BY <2>1, <2>2, <2>3 DEF Quiet, Open, Loops
<1>6. CASE HealthTimesOut
  BY <1>6, QuietArrives DEF HealthTimesOut
<1>7. CASE OtherLoop
  <2>1. /\ Remote /\ OnOtherLoop /\ Raise("RuntimeError")
        /\ conn' = [conn EXCEPT !.pending = Arriving] \/ conn' = NoConn
        /\ UNCHANGED <<ownLoop, closedLoops>>
    BY <1>7 DEF OtherLoop
  <2>2. conn.loop \notin Open
    BY <2>1, QuietArrives
  <2>3. conn'.buffered = 0 /\ conn'.loop \notin Open
    BY <1>0, <2>1, <2>2 DEF NoConn, Quiet, Open, Loops
  <2> QED BY <2>1, <2>3, RaiseKeepsQuiet
<1>8. CASE Answered
  <2>1. Remote /\ OnOwnLoop /\ Takes(Arriving)
    BY <1>8 DEF Answered
  <2>2. /\ conn.pending = <<>> /\ Arriving # <<>> /\ current.api = "verify"
        /\ Head(Arriving) = Response("verify", calls) /\ Tail(Arriving) = <<>>
    BY <2>1, QuietArrives DEF OnOwnLoop, Takes
  <2>3. Finish(Outcome("returned", "server", Response("verify", calls)))
    BY <2>1, <2>2 DEF Takes, Response
  <2>4. /\ conn' = [conn EXCEPT !.pending = Tail(Arriving), !.buffered = IF @ = 0 THEN 0 ELSE @ - 1]
        /\ UNCHANGED <<ownLoop, closedLoops, calls>>
    BY <2>1 DEF Takes
  <2>5. conn'.loop = conn.loop /\ conn'.pending = <<>> /\ conn'.buffered = 0
    BY <1>0, <2>2, <2>4 DEF Quiet
  <2>6. last'.response.call = calls' /\ At("idle")'
    BY <2>3, <2>4 DEF Finish, Outcome, Response, NoCall, At
  <2> QED BY <2>4, <2>5, <2>6 DEF Quiet, Open, Loops
<1>9. CASE OtherLoopBuffered
  BY <1>9 DEF OtherLoopBuffered, Quiet
<1>10. CASE Reconnects
  <2>1. Remote /\ conn' = Fresh(current.loop) /\ UNCHANGED <<ownLoop, closedLoops, current, last, calls>>
    BY <1>10 DEF Reconnects
  <2>2. conn'.loop = ownLoop /\ conn'.pending = <<>> /\ conn'.buffered = 0
    BY <2>1, QuietArrives DEF Fresh
  <2> QED BY <2>1, <2>2 DEF Quiet, At, Evaluated, Open, Loops
<1>11. CASE TriesAgain \/ Close
  <2>1. conn' = NoConn /\ UNCHANGED <<ownLoop, closedLoops, current, last, calls>>
    BY <1>11 DEF TriesAgain, Close
  <2>2. conn'.loop = 0 /\ conn'.pending = <<>> /\ conn'.buffered = 0
    BY <2>1 DEF NoConn
  <2> QED BY <2>1, <2>2 DEF Quiet, At, Evaluated, Open, Loops
<1>12. CASE LoopRuns
  BY <1>12, EmptySeq DEF LoopRuns, Quiet
<1>13. CASE \E loop \in Open : LoopCloses(loop)
  BY <1>13 DEF LoopCloses, Quiet, At, Evaluated, Open
<1>14. CASE ServerEnds
  <2>1. /\ conn'.loop = conn.loop /\ conn'.buffered = conn.buffered
        /\ conn.pending = <<>> => conn'.pending = <<>>
        /\ UNCHANGED <<ownLoop, closedLoops, current, last, calls>>
    BY <1>14, EndTyped DEF ServerEnds
  <2> QED BY <2>1 DEF Quiet, At, Evaluated, Open, Loops
<1>15. CASE ServerStarts \/ UNCHANGED vars
  BY <1>15 DEF ServerStarts, vars, Quiet, At, Evaluated, Open, Loops
<1> QED BY <1>1, <1>2, <1>3, <1>4, <1>5, <1>6, <1>7, <1>8, <1>9, <1>10, <1>11, <1>12, <1>13,
           <1>14, <1>15 DEF Next

\* In a program that calls verify and close only, what verify returns is the
\* answer to this call: through failed attempts, loops that are closed with the
\* connection in them, close() and any number of restarts of the server.
THEOREM VerifyAnswersItsCall == Spec => []AnswersThisCall
<1>1. Init => (OnlyVerifies => Quiet)
  BY DEF Init, Quiet, At, NoCall, NoConn, Evaluated, Outcome, Open, Loops
<1>2. Typed /\ (OnlyVerifies => Quiet) /\ [Next]_vars => (OnlyVerifies => Quiet)'
  BY StepKeepsQuiet DEF OnlyVerifies, Next, vars
<1>3. (OnlyVerifies => Quiet) => AnswersThisCall
  BY DEF OnlyVerifies, Quiet, AnswersThisCall
<1> QED BY <1>1, <1>2, <1>3, AlwaysTyped, PTL DEF Spec
=============================================================================
