----------------------- MODULE ServerLifecycleProofs -----------------------
(***************************************************************************)
(* For any number of daemons started, stopped, signalled and killed on one *)
(* address in any order: the state is well typed, a serving daemon is only *)
(* reached through a socket that is owner-only, a failed start leaves no   *)
(* socket file, a start fails only when somebody else interferes with it,  *)
(* and a daemon is displaced by a start, never by another's stop.          *)
(***************************************************************************)
EXTENDS ServerLifecycle, TLAPS

\* What a start knows of the path as long as nobody else has touched it, and
\* the only places at which a daemon has its own file at the path.
PathKnown ==
  /\ setup.transport = "tcp" => node = NoNode
  /\ \A p \in Procs : node = p => pc[p] \in {"bound", "serving", "closing", "ended", "killed"}
  /\ \A p \in Procs : pc[p] \in {"look", "unlink", "clear"} => setup.transport = "unix"
  /\ \A p \in Procs : At(p, "resolve") => setup.transport = "tcp"
  /\ \A p \in Procs \ disturbed : At(p, "unlink") => node # NoNode
  /\ \A p \in Procs \ disturbed : At(p, "bind") /\ setup.transport = "unix" => node = NoNode
  /\ \A p \in Procs \ disturbed : At(p, "bound") /\ setup.transport = "unix" => node = p

Inv == TypeOK /\ SocketIsOwnerOnly /\ PathKnown

LEMMA InvFirst == Init => Inv
<1> SUFFICES ASSUME Init PROVE Inv
  OBVIOUS
<1>1. TypeOK
  BY LifecycleAssumption DEF Init, TypeOK, Places, Callbacks
<1>2. \A p \in Procs : pc[p] = "new" /\ node # p
  BY LifecycleAssumption DEF Init
<1>3. setup.transport = "tcp" => node = NoNode
  BY DEF Init
<1> QED BY <1>1, <1>2, <1>3 DEF Inv, SocketIsOwnerOnly, PathKnown, At

-----------------------------------------------------------------------------
\* What the loop and the clients of the processes are made of.
LoopsTyped ==
  /\ ready \in [Procs -> Seq(Callbacks)]
  /\ asleep \in [Procs -> BOOLEAN]
  /\ clients \in [Procs -> Nat]
  /\ signals \in [Procs -> Nat]

\* The effect of a step on the processes: p is at the place, the others stay.
Goes(p, place) ==
  /\ pc' = [pc EXCEPT ![p] = place]
  /\ LoopsTyped'

LEMMA MovesGoes ==
  ASSUME TypeOK, NEW p \in Procs, NEW place, NEW queue \in Seq(Callbacks),
         Moves(p, place, queue)
  PROVE  Goes(p, place)
BY DEF TypeOK, Moves, Goes, LoopsTyped

LEMMA ExitsGoes ==
  ASSUME TypeOK, NEW p \in Procs, NEW place, Exits(p, place)
  PROVE  Goes(p, place)
<1> <<>> \in Seq(Callbacks)
  OBVIOUS
<1> QED BY DEF TypeOK, Exits, Goes, LoopsTyped

\* A queue the loop takes its next callback from, or one that gets another.
LEMMA QueueTyped ==
  ASSUME TypeOK, NEW p \in Procs, NEW c \in Callbacks
  PROVE  /\ ready[p] \in Seq(Callbacks)
         /\ Append(ready[p], c) \in Seq(Callbacks)
         /\ ready[p] # <<>> => /\ Tail(ready[p]) \in Seq(Callbacks)
                               /\ Append(Tail(ready[p]), c) \in Seq(Callbacks)
BY DEF TypeOK

\* Steps of the environment, and those of the loop that leave p where it is.
Quiet(p) ==
  \/ Signalled(p)
  \/ Accepts(p)
  \/ FallsAsleep(p)
  \/ Connects(p)
  \/ Asks(p)
  \/ Disconnects(p)

LEMMA QuietKeepsInv ==
  ASSUME Inv, NEW p \in Procs, Quiet(p)
  PROVE  Inv' /\ UNCHANGED <<setup, pc, node, private, disturbed>>
<1>0. LoopsTyped
  BY DEF Inv, TypeOK, LoopsTyped
<1>1. LoopsTyped' /\ UNCHANGED <<setup, pc, node, private, disturbed>>
  <2>1. CASE Signalled(p)
    BY <1>0, <2>1, QueueTyped DEF Signalled, Inv, Callbacks, LoopsTyped
  <2>2. CASE Accepts(p)
    BY <1>0, <2>2, QueueTyped DEF Accepts, Runs, Inv, Callbacks, LoopsTyped
  <2>3. CASE FallsAsleep(p)
    BY <1>0, <2>3 DEF FallsAsleep, LoopsTyped
  <2>4. CASE Connects(p)
    BY <1>0, <2>4, QueueTyped DEF Connects, Inv, Callbacks, LoopsTyped
  <2>5. CASE Asks(p)
    BY <1>0, <2>5 DEF Asks, LoopsTyped
  <2>6. CASE Disconnects(p)
    BY <1>0, <2>6, QueueTyped DEF Disconnects, Inv, Callbacks, LoopsTyped
  <2> QED BY <2>1, <2>2, <2>3, <2>4, <2>5, <2>6 DEF Quiet
<1> QED BY <1>1 DEF Inv, TypeOK, SocketIsOwnerOnly, PathKnown, At, LoopsTyped

-----------------------------------------------------------------------------
\* A daemon that comes to a place and leaves the path alone keeps the invariant
\* when what the place promises of the path is true.
LEMMA PathUntouched ==
  ASSUME Inv, NEW p \in Procs, NEW place \in Places \ {"look", "unlink", "clear", "resolve"},
         Goes(p, place), UNCHANGED <<setup, node, disturbed>>,
         private \subseteq private', private' \subseteq Procs \cup {Stale},
         node = p => place \in {"bound", "serving", "closing", "ended", "killed"},
         node = p /\ place = "serving" => p \in private',
         place = "bind" => setup.transport = "tcp" \/ node = NoNode,
         place = "bound" => setup.transport = "tcp" \/ node = p
  PROVE  Inv'
<1>1. TypeOK'
  BY DEF Inv, TypeOK, Goes, LoopsTyped
<1>2. SocketIsOwnerOnly'
  BY DEF Inv, TypeOK, Goes, SocketIsOwnerOnly, At
<1>3. PathKnown'
  BY DEF Inv, TypeOK, Goes, PathKnown, At
<1> QED BY <1>1, <1>2, <1>3 DEF Inv

\* One that changes the path keeps the invariant as long as a start that is
\* under way is marked as disturbed.
LEMMA PathTouched ==
  ASSUME Inv, NEW p \in Procs, NEW n \in Procs \cup {Stale, NoNode}, NEW place \in Places,
         Goes(p, place), PathBecomes(p, n), UNCHANGED <<setup, private>>,
         n \in Procs => n = node \/ n = p,
         setup.transport = "tcp" => n = NoNode,
         place \notin {"look", "unlink", "resolve", "serving"},
         place = "clear" => setup.transport = "unix",
         place = "bind" => n = NoNode,
         place = "bound" => n = p,
         n = p => place \in {"bound", "closing", "ended", "killed"}
  PROVE  Inv'
<1>1. TypeOK'
  BY DEF Inv, TypeOK, Goes, LoopsTyped, PathBecomes
<1>2. SocketIsOwnerOnly'
  BY DEF Inv, TypeOK, Goes, SocketIsOwnerOnly, PathBecomes, PathKnown, At
<1>3. PathKnown'
  BY LifecycleAssumption DEF Inv, TypeOK, Goes, PathKnown, PathBecomes, At
<1> QED BY <1>1, <1>2, <1>3 DEF Inv

-----------------------------------------------------------------------------
\* The start of a daemon, step by step.
LEMMA StartsKeepsInv ==
  ASSUME Inv, NEW p \in Procs, Starts(p)
  PROVE  Inv'
<1> DEFINE place == IF setup.transport = "unix" THEN "look" ELSE "resolve"
<1>1. Goes(p, place)
  <2>1. <<"run">> \in Seq(Callbacks)
    BY DEF Callbacks
  <2> QED BY <2>1, MovesGoes DEF Inv, Starts
<1>2. TypeOK'
  BY <1>1 DEF Inv, TypeOK, Goes, LoopsTyped, Starts, Places
<1>3. SocketIsOwnerOnly'
  BY <1>1 DEF Inv, TypeOK, Goes, SocketIsOwnerOnly, Starts, At
<1>4. PathKnown'
  BY <1>1 DEF Inv, TypeOK, Goes, PathKnown, Starts, At
<1> QED BY <1>2, <1>3, <1>4 DEF Inv

LEMMA LooksKeepsInv ==
  ASSUME Inv, NEW p \in Procs, LooksAtPath(p)
  PROVE  Inv'
<1> DEFINE place == IF node = NoNode THEN "clear" ELSE "unlink"
<1>1. Goes(p, place)
  <2>1. ready[p] \in Seq(Callbacks)
    BY DEF Inv, TypeOK
  <2> QED BY <2>1, MovesGoes DEF Inv, LooksAtPath, GoesOn
<1>2. TypeOK'
  BY <1>1 DEF Inv, TypeOK, Goes, LoopsTyped, LooksAtPath, Places
<1>3. SocketIsOwnerOnly'
  BY <1>1 DEF Inv, TypeOK, Goes, SocketIsOwnerOnly, LooksAtPath, At
<1>4. PathKnown'
  BY <1>1 DEF Inv, TypeOK, Goes, PathKnown, LooksAtPath, At
<1> QED BY <1>2, <1>3, <1>4 DEF Inv

LEMMA FailsKeepsInv ==
  ASSUME Inv, NEW p \in Procs, Exits(p, "failed"), UNCHANGED <<setup, node, disturbed, private>>,
         pc[p] \in {"unlink", "bind"} \/ node = NoNode
  PROVE  Inv'
<1>1. Goes(p, "failed")
  BY ExitsGoes DEF Inv
<1>2. node # p
  BY LifecycleAssumption DEF Inv, PathKnown
<1> QED BY <1>1, <1>2, PathUntouched DEF Inv, TypeOK, Places, Gone

LEMMA UnlinksKeepsInv ==
  ASSUME Inv, NEW p \in Procs, Unlinks(p)
  PROVE  Inv'
<1>1. CASE node = NoNode
  BY <1>1, FailsKeepsInv DEF Unlinks
<1>2. CASE node # NoNode
  <2>1. Goes(p, "clear")
    BY <1>2, MovesGoes DEF Unlinks, GoesOn, Inv, TypeOK
  <2>2. setup.transport = "unix"
    BY DEF Unlinks, At, Inv, PathKnown
  <2> QED BY <1>2, <2>1, <2>2, PathTouched, LifecycleAssumption DEF Unlinks, Places
<1> QED BY <1>1, <1>2

LEMMA ClearsKeepsInv ==
  ASSUME Inv, NEW p \in Procs, Clears(p)
  PROVE  Inv'
<1>1. Goes(p, "bind")
  BY MovesGoes DEF Clears, GoesOn, Inv, TypeOK
<1> QED BY <1>1, PathTouched, LifecycleAssumption DEF Clears, Places

LEMMA ResolvesKeepsInv ==
  ASSUME Inv, NEW p \in Procs, Resolves(p)
  PROVE  Inv'
<1>1. Goes(p, "bind")
  BY QueueTyped, MovesGoes DEF Resolves, Runs, Inv, Callbacks
<1>2. setup.transport = "tcp" /\ node # p
  BY DEF Resolves, At, Inv, PathKnown
<1> QED BY <1>1, <1>2, PathUntouched DEF Resolves, Inv, TypeOK, Places

LEMMA BindsKeepsInv ==
  ASSUME Inv, NEW p \in Procs, Binds(p)
  PROVE  Inv'
<1>1. CASE AddressInUse(p)
  BY <1>1, FailsKeepsInv DEF Binds, At
<1>2. CASE ~AddressInUse(p)
  <2>1. Goes(p, "bound")
    BY <1>2, QueueTyped, MovesGoes DEF Binds, Runs, Inv, Callbacks
  <2>2. CASE setup.transport = "unix"
    BY <1>2, <2>1, <2>2, PathTouched DEF Binds, Places
  <2>3. CASE setup.transport # "unix"
    <3>1. setup.transport = "tcp"
      BY <2>3 DEF Inv, TypeOK
    <3> QED BY <1>2, <2>1, <3>1, PathUntouched DEF Binds, Places, Inv, TypeOK
  <2> QED BY <2>2, <2>3
<1> QED BY <1>1, <1>2

LEMMA ServesKeepsInv ==
  ASSUME Inv, NEW p \in Procs, Serves(p)
  PROVE  Inv'
<1>1. CASE setup.transport # "tcp" /\ node = NoNode
  BY <1>1, FailsKeepsInv DEF Serves
<1>2. CASE setup.transport = "tcp" \/ node # NoNode
  <2>1. Goes(p, "serving")
    BY <1>2, QueueTyped, MovesGoes DEF Serves, Runs, Inv, Callbacks
  <2>2. /\ private \subseteq private'
        /\ private' \subseteq Procs \cup {Stale}
    BY <1>2 DEF Serves, Inv, TypeOK
  <2>3. node = p => p \in private'
    BY <1>2, LifecycleAssumption DEF Serves, Inv, TypeOK, PathKnown
  <2> QED BY <2>1, <2>2, <2>3, PathUntouched DEF Serves, Places
<1> QED BY <1>1, <1>2

\* Stopping and dying.
LEMMA StopsKeepsInv ==
  ASSUME Inv, NEW p \in Procs, Stops(p)
  PROVE  Inv'
<1> DEFINE n == IF setup.removes /\ node = p THEN NoNode ELSE node
<1>1. CASE At(p, "serving")
  <2>1. Goes(p, "closing")
    BY <1>1, QueueTyped, MovesGoes DEF Stops, Runs, Inv, Callbacks
  <2>2. /\ n \in Procs \cup {Stale, NoNode} /\ (setup.transport = "tcp" => n = NoNode)
        /\ PathBecomes(p, n)
        /\ UNCHANGED <<setup, private>>
    BY <1>1 DEF Stops, Inv, TypeOK, PathKnown
  <2> QED BY <2>1, <2>2, PathTouched, LifecycleAssumption DEF Places
<1>2. CASE ~At(p, "serving")
  <2>1. Goes(p, pc[p]) /\ UNCHANGED <<setup, node, private, disturbed>>
    BY <1>2, QueueTyped, MovesGoes DEF Stops, Runs, Inv, Callbacks
  <2>2. UNCHANGED pc
    BY <2>1 DEF Goes, Inv, TypeOK
  <2> QED BY <2>1, <2>2 DEF Goes, Inv, TypeOK, LoopsTyped, SocketIsOwnerOnly, PathKnown, At
<1> QED BY <1>1, <1>2

LEMMA ClosesKeepsInv ==
  ASSUME Inv, NEW p \in Procs, Closes(p)
  PROVE  Inv'
<1>1. PICK place \in {"closing", "ended"} : Goes(p, place)
  BY QueueTyped, MovesGoes, ExitsGoes DEF Closes, Runs, Inv, Callbacks
<1> QED BY <1>1, PathUntouched DEF Closes, Places, Gone, Inv, TypeOK

LEMMA DiesKeepsInv ==
  ASSUME Inv, NEW p \in Procs, Dies(p) \/ Refuses(p)
  PROVE  Inv'
<1>1. PICK place \in {"killed", "refused"} :
        Goes(p, place) /\ (At(p, "new") \/ place = "killed")
  BY ExitsGoes DEF Dies, Refuses, Inv
<1>2. node = p => place = "killed"
  BY <1>1 DEF At, Inv, PathKnown
<1> QED BY <1>1, <1>2, PathUntouched DEF Dies, Refuses, Places, Gone, Inv, TypeOK

LEMMA StutterKeepsInv ==
  ASSUME Inv, UNCHANGED vars
  PROVE  Inv'
BY DEF Inv, TypeOK, SocketIsOwnerOnly, PathKnown, At, vars

LEMMA InvNext == Inv /\ [Next]_vars => Inv'
<1> SUFFICES ASSUME Inv, [Next]_vars PROVE Inv'
  OBVIOUS
<1>1. ASSUME NEW p \in Procs, LoopStep(p) PROVE Inv'
  BY <1>1, LooksKeepsInv, UnlinksKeepsInv, ClearsKeepsInv, ResolvesKeepsInv, BindsKeepsInv,
     ServesKeepsInv, StopsKeepsInv, ClosesKeepsInv, QuietKeepsInv DEF LoopStep, Quiet
<1>2. ASSUME NEW p \in Procs,
             Starts(p) \/ Signalled(p) \/ Connects(p) \/ Asks(p) \/ Disconnects(p) \/ Dies(p)
               \/ Refuses(p)
      PROVE  Inv'
  BY <1>2, StartsKeepsInv, QuietKeepsInv, DiesKeepsInv DEF Quiet
<1>3. CASE AllGone \/ UNCHANGED vars
  BY <1>3, StutterKeepsInv DEF AllGone
<1> QED BY <1>1, <1>2, <1>3 DEF Next

-----------------------------------------------------------------------------
\* The variables keep their types in every execution of the daemons.
THEOREM LifecycleTyped == Spec => []TypeOK
<1>1. Inv => TypeOK
  BY DEF Inv
<1> QED BY <1>1, InvFirst, InvNext, PTL DEF Spec

\* A serving daemon is reached through an owner-only socket, whatever starts,
\* stops and kills happened around its own start (unix_socket.py:33-43).
THEOREM ReachedPrivately == Spec => []SocketIsOwnerOnly
<1>1. Inv => SocketIsOwnerOnly
  BY DEF Inv
<1> QED BY <1>1, InvFirst, InvNext, PTL DEF Spec

\* A failed start leaves no socket file of its own (unix_socket.py:29-44).
THEOREM FailuresLeaveNothing == Spec => []FailedStartLeavesNoFile
<1>1. Inv => FailedStartLeavesNoFile
  BY DEF Inv, PathKnown, FailedStartLeavesNoFile, At
<1> QED BY <1>1, InvFirst, InvNext, PTL DEF Spec

-----------------------------------------------------------------------------
\* Nobody moves a process but itself.
LEMMA OwnSteps ==
  ASSUME Inv, Next, NEW p \in Procs, pc'[p] # pc[p]
  PROVE  Starts(p) \/ LoopStep(p) \/ Dies(p) \/ Refuses(p)
<1>1. ASSUME NEW q \in Procs, q # p, Starts(q) \/ LoopStep(q) \/ Dies(q) \/ Refuses(q)
      PROVE  FALSE
  <2>1. PICK place : pc' = [pc EXCEPT ![q] = place]
    <3>1. CASE Quiet(q)
      BY <3>1, QuietKeepsInv DEF Inv, TypeOK
    <3>2. CASE Starts(q) \/ LooksAtPath(q) \/ Unlinks(q) \/ Clears(q) \/ Resolves(q) \/ Dies(q)
                 \/ Refuses(q)
      BY <3>2 DEF Starts, LooksAtPath, Unlinks, Clears, Resolves, Dies, Refuses, GoesOn, Moves, Exits
    <3>3. CASE Binds(q) \/ Serves(q)
      BY <3>3 DEF Binds, Serves, Moves, Exits
    <3>4. CASE Stops(q) \/ Closes(q)
      BY <3>4 DEF Stops, Closes, Moves, Exits
    <3> QED BY <1>1, <3>1, <3>2, <3>3, <3>4 DEF LoopStep, Quiet
  <2> QED BY <1>1, <2>1 DEF Inv, TypeOK
<1>2. ASSUME NEW q \in Procs, Signalled(q) \/ Connects(q) \/ Asks(q) \/ Disconnects(q)
      PROVE  FALSE
  BY <1>2, QuietKeepsInv DEF Quiet
<1>3. CASE AllGone
  BY <1>3 DEF AllGone, vars
<1> QED BY <1>1, <1>2, <1>3 DEF Next

LEMMA FailingStep ==
  ASSUME Inv, Next, NEW p \in Procs, ~At(p, "failed"), At(p, "failed")'
  PROVE  \/ p \in disturbed
         \/ setup.transport = "tcp" /\ \E q \in Procs \ {p} : Listening(q)
<1>1. pc'[p] = "failed" /\ pc[p] # "failed"
  BY DEF At
<1>2. CASE Starts(p) \/ LooksAtPath(p) \/ Clears(p) \/ Resolves(p) \/ Dies(p)
             \/ Refuses(p)
  BY <1>1, <1>2 DEF Starts, LooksAtPath, Clears, Resolves, Dies, Refuses, GoesOn, Moves, Exits, Inv, TypeOK
<1>3. CASE Unlinks(p)
  BY <1>1, <1>3 DEF Unlinks, GoesOn, Moves, Inv, TypeOK, PathKnown
<1>4. CASE Binds(p)
  <2>1. AddressInUse(p) /\ At(p, "bind")
    BY <1>1, <1>4 DEF Binds, Moves, Inv, TypeOK
  <2> QED BY <2>1 DEF AddressInUse, Inv, TypeOK, PathKnown
<1>5. CASE Serves(p)
  <2>1. At(p, "bound") /\ setup.transport # "tcp" /\ node = NoNode
    BY <1>1, <1>5 DEF Serves, Moves, Inv, TypeOK
  <2> QED BY <2>1, LifecycleAssumption DEF Inv, TypeOK, PathKnown
<1>6. CASE Stops(p) \/ Closes(p)
  BY <1>1, <1>6 DEF Stops, Closes, Moves, Exits, Inv, TypeOK
<1>7. CASE Quiet(p)
  BY <1>1, <1>7, QuietKeepsInv
<1>8. Starts(p) \/ LoopStep(p) \/ Dies(p) \/ Refuses(p)
  BY <1>1, OwnSteps
<1> QED BY <1>2, <1>3, <1>4, <1>5, <1>6, <1>7, <1>8 DEF LoopStep, Quiet

LEMMA PathLosingStep ==
  ASSUME Inv, Next, NEW p \in Procs, At(p, "serving"), node = p, node' # p
  PROVE  \/ At(p, "closing")'
         \/ \E q \in Procs \ {p} : pc[q] \in {"unlink", "clear"} /\ pc'[q] # pc[q]
<1>1. PICK q \in Procs : Unlinks(q) \/ Clears(q) \/ Binds(q) \/ Stops(q)
  <2>1. \A q \in Procs : ~Quiet(q)
    BY QuietKeepsInv
  <2>2. \A q \in Procs : ~(Starts(q) \/ LooksAtPath(q) \/ Resolves(q) \/ Serves(q) \/ Closes(q)
                           \/ Dies(q) \/ Refuses(q))
    BY DEF Starts, LooksAtPath, Resolves, Serves, Closes, Dies, Refuses
  <2>3. ~AllGone
    BY DEF AllGone, vars
  <2> QED BY <2>1, <2>2, <2>3 DEF Next, LoopStep, Quiet
<1>2. CASE Unlinks(q)
  <2>1. At(q, "unlink") /\ pc'[q] # "unlink"
    BY <1>2 DEF Unlinks, GoesOn, Moves, Exits, Inv, TypeOK
  <2> QED BY <2>1 DEF At
<1>3. CASE Clears(q)
  <2>1. At(q, "clear") /\ pc'[q] # "clear"
    BY <1>3 DEF Clears, GoesOn, Moves, Inv, TypeOK
  <2> QED BY <2>1 DEF At
<1>4. CASE Binds(q)
  BY <1>4, LifecycleAssumption DEF Binds, AddressInUse, Inv, TypeOK, PathKnown
<1>5. CASE Stops(q)
  <2>1. q = p
    BY <1>5 DEF Stops, PathBecomes
  <2> QED BY <1>5, <2>1 DEF Stops, Moves, Inv, TypeOK, At
<1> QED BY <1>1, <1>2, <1>3, <1>4, <1>5

\* What an earlier daemon left behind never stops a start: a start fails only
\* when it is disturbed (unix_socket.py:29-44).
THEOREM StartsFailOnlyDisturbed == Spec => StartFailsOnlyIfDisturbed
<1>1. Inv /\ [Next]_vars =>
        [\A p \in Procs : ~At(p, "failed") /\ At(p, "failed")' =>
           \/ p \in disturbed
           \/ setup.transport = "tcp" /\ \E q \in Procs \ {p} : Listening(q)]_vars
  BY FailingStep
<1> QED BY <1>1, InvFirst, InvNext, PTL DEF Spec, StartFailsOnlyIfDisturbed

\* A daemon that stops never takes a successor's socket with it
\* (server.py:396-402).
THEOREM PathsLostToStarts == Spec => PathLostOnlyToStart
<1>1. Inv /\ [Next]_vars =>
        [\A p \in Procs : At(p, "serving") /\ node = p /\ node' # p =>
           \/ At(p, "closing")'
           \/ \E q \in Procs \ {p} : pc[q] \in {"unlink", "clear"} /\ pc'[q] # pc[q]]_vars
  BY PathLosingStep
<1> QED BY <1>1, InvFirst, InvNext, PTL DEF Spec, PathLostOnlyToStart
-----------------------------------------------------------------------------
(* Wake-ups.                                                               *)

Has(queue, callback) == \E i \in DOMAIN queue : queue[i] = callback

LEMMA AppendHas ==
  ASSUME NEW S, NEW queue \in Seq(S), NEW c \in S, NEW callback,
         Has(queue, callback) \/ c = callback
  PROVE  Has(Append(queue, c), callback)
<1>1. /\ Len(queue) \in Nat /\ DOMAIN queue = 1 .. Len(queue)
      /\ DOMAIN Append(queue, c) = 1 .. Len(queue) + 1
      /\ Append(queue, c)[Len(queue) + 1] = c
      /\ \A i \in 1 .. Len(queue) : Append(queue, c)[i] = queue[i]
  OBVIOUS
<1>2. CASE c = callback
  <2>1. Len(queue) + 1 \in DOMAIN Append(queue, c)
    BY <1>1
  <2> QED BY <1>1, <1>2, <2>1 DEF Has
<1>3. CASE Has(queue, callback)
  <2>1. PICK i \in 1 .. Len(queue) : queue[i] = callback
    BY <1>1, <1>3 DEF Has
  <2>2. i \in DOMAIN Append(queue, c) /\ Append(queue, c)[i] = callback
    BY <1>1, <2>1
  <2> QED BY <2>2 DEF Has
<1> QED BY <1>2, <1>3

\* A callback leaves a queue only by being run.
LEMMA TailHas ==
  ASSUME NEW S, NEW queue \in Seq(S), queue # <<>>, NEW callback, Has(queue, callback),
         Head(queue) # callback
  PROVE  Has(Tail(queue), callback)
<1>1. /\ Len(queue) \in Nat /\ DOMAIN queue = 1 .. Len(queue) /\ Head(queue) = queue[1]
      /\ DOMAIN Tail(queue) = 1 .. Len(queue) - 1
      /\ \A i \in 1 .. Len(queue) - 1 : Tail(queue)[i] = queue[i + 1]
  OBVIOUS
<1>2. PICK i \in 1 .. Len(queue) : queue[i] = callback /\ i # 1
  BY <1>1 DEF Has
<1>3. i - 1 \in 1 .. Len(queue) - 1 /\ (i - 1) + 1 = i
  BY <1>1, <1>2
<1>4. i - 1 \in DOMAIN Tail(queue) /\ Tail(queue)[i - 1] = callback
  BY <1>1, <1>2, <1>3
<1> QED BY <1>4 DEF Has

UnderWay == {"look", "unlink", "clear", "resolve", "bind", "bound"}

\* What is promised of a daemon at a place, with this queue, loop and clients.
Wakes(place, queue, sleeps, left) ==
  /\ place = "new" => ~sleeps
  /\ place \in UnderWay => Has(queue, "run") /\ ~sleeps
  /\ place = "closing" => (Has(queue, "run") /\ ~sleeps) \/ (setup.waits /\ left > 0)

Awake == \A p \in Procs : Wakes(pc[p], ready[p], asleep[p], clients[p])

LEMMA AwakeIs == Awake => NoLostWakeup
BY DEF Awake, Wakes, UnderWay, NoLostWakeup, Queued, Has, At, Waiting

LEMMA AwakeFirst == Init => Awake
BY DEF Init, Awake, Wakes, UnderWay

\* Only p changes, to something that is awake.
LEMMA AwakeUpdate ==
  ASSUME TypeOK, Awake, NEW p \in Procs, UNCHANGED setup,
         NEW place, NEW queue, NEW sleeps, NEW left,
         pc' = [pc EXCEPT ![p] = place], ready' = [ready EXCEPT ![p] = queue],
         asleep' = [asleep EXCEPT ![p] = sleeps], clients' = [clients EXCEPT ![p] = left],
         Wakes(place, queue, sleeps, left)
  PROVE  Awake'
<1>1. ASSUME NEW q \in Procs
      PROVE  /\ q = p => /\ pc'[q] = place /\ ready'[q] = queue
                         /\ asleep'[q] = sleeps /\ clients'[q] = left
             /\ q # p => /\ pc'[q] = pc[q] /\ ready'[q] = ready[q]
                         /\ asleep'[q] = asleep[q] /\ clients'[q] = clients[q]
  BY DEF TypeOK
<1> QED BY <1>1 DEF Awake, Wakes

LEMMA MovesAwake ==
  ASSUME TypeOK, Awake, NEW p \in Procs, NEW place, NEW queue, UNCHANGED setup,
         Moves(p, place, queue), Wakes(place, queue, asleep[p], clients[p])
  PROVE  Awake'
<1> DEFINE sleeps == asleep[p]
           left == clients[p]
<1>1. asleep' = [asleep EXCEPT ![p] = sleeps] /\ clients' = [clients EXCEPT ![p] = left]
  BY DEF TypeOK, Moves
<1>2. pc' = [pc EXCEPT ![p] = place] /\ ready' = [ready EXCEPT ![p] = queue]
  BY DEF Moves
<1>3. Wakes(place, queue, sleeps, left)
  OBVIOUS
<1> HIDE DEF sleeps, left
<1> QED BY <1>1, <1>2, <1>3, AwakeUpdate

LEMMA ExitsAwake ==
  ASSUME TypeOK, Awake, NEW p \in Procs, NEW place \in Gone, UNCHANGED setup, Exits(p, place)
  PROVE  Awake'
<1>1. Wakes(place, <<>>, FALSE, 0)
  BY DEF Wakes, UnderWay, Gone
<1> QED BY <1>1, AwakeUpdate DEF Exits

\* A step of a start, which the loop runs.
LEMMA StartAwake ==
  ASSUME TypeOK, Awake, NEW p \in Procs,
         LooksAtPath(p) \/ Unlinks(p) \/ Clears(p) \/ Resolves(p) \/ Binds(p) \/ Serves(p)
  PROVE  Awake'
<1>1. /\ ready[p] \in Seq(Callbacks) /\ "run" \in Callbacks /\ UNCHANGED setup
      /\ pc[p] \in UnderWay /\ ready[p] # <<>> /\ ~asleep[p]
      /\ Tail(ready[p]) \in Seq(Callbacks)
  BY DEF TypeOK, Callbacks, LooksAtPath, Unlinks, Clears, Resolves, Binds, Serves, At, Runs, UnderWay
<1>2. Has(ready[p], "run")
  BY <1>1 DEF Awake, Wakes
<1>3. ASSUME NEW place \in UnderWay, GoesOn(p, place) PROVE Awake'
  BY <1>1, <1>2, <1>3, MovesAwake DEF GoesOn, Wakes, UnderWay
<1>4. ASSUME NEW place \in UnderWay, Moves(p, place, Append(Tail(ready[p]), "run")) PROVE Awake'
  <2>1. Has(Append(Tail(ready[p]), "run"), "run")
    BY <1>1, AppendHas
  <2> QED BY <1>1, <1>4, <2>1, MovesAwake DEF Wakes, UnderWay
<1>5. ASSUME Exits(p, "failed") PROVE Awake'
  BY <1>1, <1>5, ExitsAwake DEF Gone
<1>6. ASSUME Moves(p, "serving", Tail(ready[p])) PROVE Awake'
  BY <1>1, <1>6, MovesAwake DEF Wakes, UnderWay
<1>7. CASE LooksAtPath(p) \/ Unlinks(p) \/ Clears(p)
  <2>1. (\E place \in UnderWay : GoesOn(p, place)) \/ Exits(p, "failed")
    BY <1>7 DEF LooksAtPath, Unlinks, Clears, UnderWay
  <2> QED BY <1>3, <1>5, <2>1
<1>8. CASE Resolves(p) \/ Binds(p)
  <2>1. (\E place \in UnderWay : Moves(p, place, Append(Tail(ready[p]), "run"))) \/ Exits(p, "failed")
    BY <1>8 DEF Resolves, Binds, UnderWay
  <2> QED BY <1>4, <1>5, <2>1
<1>9. CASE Serves(p)
  <2>1. Moves(p, "serving", Tail(ready[p])) \/ Exits(p, "failed")
    BY <1>9 DEF Serves
  <2> QED BY <1>5, <1>6, <2>1
<1> QED BY <1>7, <1>8, <1>9

\* A stop and an accepted connection take their own callback from the queue.
LEMMA StopsAwake ==
  ASSUME TypeOK, Awake, NEW p \in Procs, Stops(p) \/ Accepts(p)
  PROVE  Awake'
<1>1. /\ ready[p] \in Seq(Callbacks) /\ "run" \in Callbacks /\ UNCHANGED setup
      /\ ready[p] # <<>> /\ ~asleep[p] /\ Head(ready[p]) # "run"
      /\ Tail(ready[p]) \in Seq(Callbacks)
      /\ Wakes(pc[p], ready[p], asleep[p], clients[p])
  BY DEF TypeOK, Callbacks, Stops, Accepts, Runs, Awake
<1>2. Has(ready[p], "run") => Has(Tail(ready[p]), "run")
  BY <1>1, TailHas
<1>3. CASE Stops(p) /\ At(p, "serving")
  <2>1. Has(Append(Tail(ready[p]), "run"), "run")
    BY <1>1, AppendHas
  <2>2. Wakes("closing", Append(Tail(ready[p]), "run"), asleep[p], clients[p])
    BY <1>1, <2>1 DEF Wakes, UnderWay
  <2>3. Moves(p, "closing", Append(Tail(ready[p]), "run"))
    BY <1>3 DEF Stops
  <2> QED BY <1>1, <2>2, <2>3, MovesAwake
<1>4. CASE Stops(p) /\ ~At(p, "serving")
  <2>1. Wakes(pc[p], Tail(ready[p]), asleep[p], clients[p])
    BY <1>1, <1>2 DEF Wakes
  <2>2. Moves(p, pc[p], Tail(ready[p]))
    BY <1>4 DEF Stops
  <2> QED BY <1>1, <2>1, <2>2, MovesAwake
<1>5. CASE Accepts(p)
  <2>1. PICK left : /\ clients' = [clients EXCEPT ![p] = left]
                    /\ Listening(p) \/ left = clients[p]
    BY <1>5 DEF Accepts
  <2>2. Wakes(pc[p], Tail(ready[p]), asleep[p], left)
    BY <1>1, <1>2, <2>1 DEF Wakes, UnderWay, Listening
  <2>3. /\ ready' = [ready EXCEPT ![p] = Tail(ready[p])]
        /\ pc' = [pc EXCEPT ![p] = pc[p]] /\ asleep' = [asleep EXCEPT ![p] = asleep[p]]
    BY <1>5 DEF Accepts, TypeOK
  <2> QED BY <1>1, <2>1, <2>2, <2>3, AwakeUpdate
<1> QED BY <1>3, <1>4, <1>5

LEMMA ClosesAwake ==
  ASSUME TypeOK, Awake, NEW p \in Procs, Closes(p)
  PROVE  Awake'
<1>1. CASE setup.waits /\ clients[p] > 0
  <2>1. Moves(p, "closing", Tail(ready[p])) /\ UNCHANGED setup
    BY <1>1 DEF Closes
  <2> QED BY <1>1, <2>1, MovesAwake DEF Wakes, UnderWay
<1>2. CASE ~(setup.waits /\ clients[p] > 0)
  BY <1>2, ExitsAwake DEF Closes, Gone
<1> QED BY <1>1, <1>2

\* Nothing but a callback that runs takes anything from a queue.
LEMMA OthersAwake ==
  ASSUME TypeOK, Awake, NEW p \in Procs,
         Signalled(p) \/ Connects(p) \/ Asks(p) \/ FallsAsleep(p)
  PROVE  Awake'
<1>1. /\ ready[p] \in Seq(Callbacks) /\ {"run", "stop", "accept"} \subseteq Callbacks
      /\ Wakes(pc[p], ready[p], asleep[p], clients[p]) /\ UNCHANGED setup
      /\ pc' = [pc EXCEPT ![p] = pc[p]] /\ clients' = [clients EXCEPT ![p] = clients[p]]
  BY DEF TypeOK, Callbacks, Awake, Signalled, Connects, Asks, FallsAsleep
<1>2. \A c \in Callbacks : Has(ready[p], "run") => Has(Append(ready[p], c), "run")
  BY <1>1, AppendHas
<1>3. CASE Signalled(p)
  <2>1. ready' = [ready EXCEPT ![p] = Append(ready[p], "stop")]
        /\ asleep' = [asleep EXCEPT ![p] = asleep[p]]
    BY <1>3 DEF Signalled, TypeOK
  <2>2. Wakes(pc[p], Append(ready[p], "stop"), asleep[p], clients[p])
    BY <1>1, <1>2 DEF Wakes
  <2> QED BY <1>1, <2>1, <2>2, AwakeUpdate
<1>4. CASE Connects(p)
  <2>1. ready' = [ready EXCEPT ![p] = Append(ready[p], "accept")]
        /\ asleep' = [asleep EXCEPT ![p] = FALSE]
    BY <1>4 DEF Connects
  <2>2. Wakes(pc[p], Append(ready[p], "accept"), FALSE, clients[p])
    BY <1>1, <1>2 DEF Wakes
  <2> QED BY <1>1, <2>1, <2>2, AwakeUpdate
<1>5. CASE Asks(p)
  <2>1. ready' = [ready EXCEPT ![p] = ready[p]] /\ asleep' = [asleep EXCEPT ![p] = FALSE]
    BY <1>5 DEF Asks, TypeOK
  <2>2. Wakes(pc[p], ready[p], FALSE, clients[p])
    BY <1>1 DEF Wakes
  <2> QED BY <1>1, <2>1, <2>2, AwakeUpdate
<1>6. CASE FallsAsleep(p)
  <2>1. ready' = [ready EXCEPT ![p] = ready[p]] /\ asleep' = [asleep EXCEPT ![p] = TRUE]
        /\ ready[p] = <<>> /\ pc[p] \in {"serving", "closing"}
    BY <1>6 DEF FallsAsleep, TypeOK
  <2>2. Wakes(pc[p], ready[p], TRUE, clients[p])
    BY <1>1, <2>1 DEF Wakes, UnderWay, Has
  <2> QED BY <1>1, <2>1, <2>2, AwakeUpdate
<1> QED BY <1>3, <1>4, <1>5, <1>6

\* The last client that leaves resumes whoever waits for it.
LEMMA DisconnectsAwake ==
  ASSUME TypeOK, Awake, NEW p \in Procs, Disconnects(p)
  PROVE  Awake'
<1> DEFINE queue == IF At(p, "closing") /\ clients[p] = 1 /\ ~Queued(p, "run")
                      THEN Append(ready[p], "run") ELSE ready[p]
<1>1. /\ ready[p] \in Seq(Callbacks) /\ "run" \in Callbacks /\ clients[p] \in Nat
      /\ Wakes(pc[p], ready[p], asleep[p], clients[p]) /\ UNCHANGED setup
      /\ pc' = [pc EXCEPT ![p] = pc[p]] /\ clients' = [clients EXCEPT ![p] = clients[p] - 1]
      /\ asleep' = [asleep EXCEPT ![p] = FALSE] /\ ready' = [ready EXCEPT ![p] = queue]
      /\ clients[p] > 0
  BY DEF TypeOK, Callbacks, Awake, Disconnects
<1>2. Has(ready[p], "run") => Has(queue, "run")
  BY <1>1, AppendHas
<1>3. pc[p] = "closing" => Has(queue, "run") \/ (setup.waits /\ clients[p] - 1 > 0)
  <2>1. CASE Has(ready[p], "run")
    BY <1>2, <2>1
  <2>2. CASE pc[p] = "closing" /\ ~Has(ready[p], "run") /\ clients[p] = 1
    <3>1. queue = Append(ready[p], "run")
      BY <2>2 DEF At, Queued, Has
    <3> QED BY <1>1, <3>1, AppendHas
  <2>3. CASE pc[p] = "closing" /\ ~Has(ready[p], "run") /\ clients[p] # 1
    BY <1>1, <2>3 DEF Wakes
  <2> QED BY <2>1, <2>2, <2>3
<1>4. Wakes(pc[p], queue, FALSE, clients[p] - 1)
  BY <1>1, <1>2, <1>3 DEF Wakes
<1> HIDE DEF queue
<1> QED BY <1>1, <1>4, AwakeUpdate

LEMMA StartsAwake ==
  ASSUME TypeOK, Awake, NEW p \in Procs, Starts(p)
  PROVE  Awake'
<1>1. PICK place \in UnderWay : Moves(p, place, <<"run">>) /\ UNCHANGED setup
  BY DEF Starts, UnderWay
<1>2. 1 \in DOMAIN <<"run">> /\ <<"run">>[1] = "run"
  OBVIOUS
<1>3. Has(<<"run">>, "run") /\ ~asleep[p]
  BY <1>2 DEF Has, Awake, Wakes, Starts, At
<1> QED BY <1>1, <1>3, MovesAwake DEF Wakes, UnderWay

LEMMA AwakeNext == TypeOK /\ Awake /\ [Next]_vars => Awake'
<1> SUFFICES ASSUME TypeOK, Awake, [Next]_vars PROVE Awake'
  OBVIOUS
<1>1. ASSUME NEW p \in Procs, LoopStep(p) PROVE Awake'
  BY <1>1, StartAwake, StopsAwake, ClosesAwake, OthersAwake DEF LoopStep
<1>2. ASSUME NEW p \in Procs, Refuses(p) \/ Dies(p) PROVE Awake'
  BY <1>2, ExitsAwake DEF Refuses, Dies, Gone
<1>3. ASSUME NEW p \in Procs,
             Starts(p) \/ Signalled(p) \/ Connects(p) \/ Asks(p) \/ Disconnects(p)
      PROVE  Awake'
  BY <1>3, StartsAwake, OthersAwake, DisconnectsAwake
<1>4. CASE AllGone \/ UNCHANGED vars
  BY <1>4 DEF AllGone, vars, Awake, Wakes
<1> QED BY <1>1, <1>2, <1>3, <1>4 DEF Next

\* Neither a start nor a stop gets stuck in its own loop, whatever arrives, leaves
\* and signals in between (server.py:396-409): what is missing to
\* SignalEndsServing is that an awake loop runs its queue, which is fairness.
THEOREM WakeupsAreKept == Spec => []NoLostWakeup
BY AwakeIs, AwakeFirst, AwakeNext, LifecycleTyped, PTL DEF Spec

\* A stop that is queued for a serving daemon is not lost: it stays queued until
\* the daemon closes or is gone, and a daemon that closes does not serve again
\* (server.py:396-402), whatever is queued, accepted and signalled meanwhile.
THEOREM StopsAreKept ==
  Spec => [][\A p \in Procs :
               /\ Told(p) => Told(p)' \/ At(p, "closing")' \/ pc'[p] \in Gone
               /\ At(p, "closing") => At(p, "closing")' \/ pc'[p] \in Gone]_vars
<1>1. ASSUME TypeOK, Next, NEW p \in Procs
      PROVE  /\ Told(p) => Told(p)' \/ At(p, "closing")' \/ pc'[p] \in Gone
             /\ At(p, "closing") => At(p, "closing")' \/ pc'[p] \in Gone
  <2> DEFINE Kept == /\ Told(p) => Told(p)' \/ At(p, "closing")' \/ pc'[p] \in Gone
                     /\ At(p, "closing") => At(p, "closing")' \/ pc'[p] \in Gone
  <2> SUFFICES Kept
    OBVIOUS
  <2>1. /\ ready[p] \in Seq(Callbacks) /\ {"run", "stop", "accept"} \subseteq Callbacks
        /\ pc \in [Procs -> Places] /\ ready \in [Procs -> Seq(Callbacks)]
    BY <1>1 DEF TypeOK, Callbacks
  <2>0. /\ Told(p) <=> pc[p] = "serving" /\ Has(ready[p], "stop")
        /\ Told(p)' <=> pc'[p] = "serving" /\ Has(ready'[p], "stop")
    BY DEF Told, At, Queued, Has
  \* What p does not do itself leaves its place and at most adds to its queue.
  <2>2. ASSUME pc'[p] = pc[p], Has(ready[p], "stop") => Has(ready'[p], "stop")
        PROVE  Kept
    BY <2>0, <2>2 DEF At
  <2>3. ASSUME NEW c \in Callbacks, ready'[p] = Append(ready[p], c), pc'[p] = pc[p]
        PROVE  Kept
    BY <2>1, <2>2, <2>3, AppendHas
  <2>4. ASSUME NEW q \in Procs \ {p},
               LoopStep(q) \/ Starts(q) \/ Refuses(q) \/ Signalled(q) \/ Connects(q) \/ Asks(q)
                 \/ Disconnects(q) \/ Dies(q)
        PROVE  Kept
    <3>1. pc'[p] = pc[p] /\ ready'[p] = ready[p]
      <4>1. CASE LooksAtPath(q) \/ Unlinks(q) \/ Clears(q) \/ Resolves(q) \/ Closes(q) \/ Refuses(q)
                   \/ Dies(q) \/ Starts(q)
        BY <2>1, <4>1 DEF LooksAtPath, Unlinks, Clears, Resolves, Closes, Refuses, Dies, Starts,
                          GoesOn, Moves, Exits
      <4>2. CASE Binds(q) \/ Serves(q) \/ Stops(q)
        BY <2>1, <4>2 DEF Binds, Serves, Stops, Moves, Exits
      <4>3. CASE Accepts(q) \/ FallsAsleep(q) \/ Signalled(q) \/ Connects(q) \/ Asks(q) \/ Disconnects(q)
        BY <2>1, <4>3 DEF Accepts, FallsAsleep, Signalled, Connects, Asks, Disconnects
      <4> QED BY <2>4, <4>1, <4>2, <4>3 DEF LoopStep
    <3> QED BY <2>2, <3>1
  <2>5. CASE Signalled(p) \/ Connects(p)
    <3>1. pc'[p] = pc[p] /\ \E c \in Callbacks : ready'[p] = Append(ready[p], c)
      BY <2>1, <2>5 DEF Signalled, Connects
    <3> QED BY <2>3, <3>1
  <2>6. CASE Asks(p) \/ FallsAsleep(p)
    BY <2>2, <2>6 DEF Asks, FallsAsleep
  <2>7. CASE Disconnects(p)
    <3>1. pc'[p] = pc[p] /\ (ready'[p] = ready[p] \/ ready'[p] = Append(ready[p], "run"))
      BY <2>1, <2>7 DEF Disconnects
    <3> QED BY <2>1, <2>2, <2>3, <3>1
  <2>8. CASE Accepts(p)
    <3>1. /\ pc'[p] = pc[p] /\ ready'[p] = Tail(ready[p])
          /\ ready[p] # <<>> /\ Head(ready[p]) # "stop"
      BY <2>1, <2>8 DEF Accepts, Runs
    <3> QED BY <2>1, <2>2, <3>1, TailHas
  \* Any other step of p starts, stops or ends it.
  <2>9. CASE LooksAtPath(p) \/ Unlinks(p) \/ Clears(p) \/ Resolves(p) \/ Binds(p) \/ Serves(p)
               \/ Starts(p) \/ Refuses(p)
    <3>1. pc[p] \notin {"serving", "closing"}
      BY <2>9 DEF LooksAtPath, Unlinks, Clears, Resolves, Binds, Serves, Starts, Refuses, At
    <3> QED BY <2>0, <3>1 DEF At
  <2>10. CASE Stops(p)
    <3>1. pc[p] = "serving" => pc'[p] = "closing"
      BY <2>1, <2>10 DEF Stops, Moves, At
    <3>2. pc[p] # "serving" => pc'[p] = pc[p]
      BY <2>1, <2>10 DEF Stops, Moves, At
    <3> QED BY <2>0, <3>1, <3>2 DEF At
  <2>11. CASE Closes(p) \/ Dies(p)
    <3>1. /\ pc[p] # "serving" \/ pc'[p] \in Gone
          /\ pc'[p] = "closing" \/ pc'[p] \in Gone
      BY <2>1, <2>11 DEF Closes, Dies, Moves, Exits, At, Gone
    <3> QED BY <2>0, <3>1 DEF At
  <2>12. CASE AllGone
    BY <2>2, <2>12 DEF AllGone, vars
  <2> HIDE DEF Kept
  <2>13. CASE \E q \in Procs \ {p} :
               LoopStep(q) \/ Starts(q) \/ Refuses(q) \/ Signalled(q) \/ Connects(q) \/ Asks(q)
                 \/ Disconnects(q) \/ Dies(q)
    BY <2>4, <2>13
  <2>14. CASE LoopStep(p) \/ Starts(p) \/ Refuses(p) \/ Signalled(p) \/ Connects(p) \/ Asks(p)
                \/ Disconnects(p) \/ Dies(p)
    BY <2>5, <2>6, <2>7, <2>8, <2>9, <2>10, <2>11, <2>14 DEF LoopStep
  <2> QED BY <1>1, <2>12, <2>13, <2>14 DEF Next
<1>2. TypeOK /\ [Next]_vars =>
        [\A p \in Procs :
           /\ Told(p) => Told(p)' \/ At(p, "closing")' \/ pc'[p] \in Gone
           /\ At(p, "closing") => At(p, "closing")' \/ pc'[p] \in Gone]_vars
  BY <1>1
<1> QED BY <1>2, LifecycleTyped, PTL DEF Spec
=============================================================================
