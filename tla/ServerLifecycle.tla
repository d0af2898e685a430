--------------------------- MODULE ServerLifecycle ---------------------------
(***************************************************************************)
(* The life of verifier daemons that are given the same address: main      *)
(* (src/ccs_verifier/__main__.py) starts a VerifierServer on its transport, *)
(* serves, and is told to stop by a signal.  Each daemon is a process with *)
(* an asyncio loop, whose queue of callbacks only runs while the loop is   *)
(* not asleep in select; the processes meet on the path of the Unix socket *)
(* (or on the TCP port), where every system call is a step of its own.     *)
(***************************************************************************)
EXTENDS Naturals, Sequences, FiniteSets

CONSTANTS
  Procs,       \* the daemon processes, each started at most once
  Stale,       \* the socket file of a process that died before
  NoNode,      \* nothing is at the path
  MaxClients,  \* bound: connections of a process, those not yet accepted included
  MaxSignals   \* bound: SIGTERMs and SIGINTs a process is sent

ASSUME LifecycleAssumption ==
  /\ Stale \notin Procs
  /\ NoNode \notin Procs \cup {Stale}
  /\ MaxClients \in Nat
  /\ MaxSignals \in Nat

VARIABLES
  setup,     \* --transport, and what asyncio does: wait_closed waits for the
             \* connections (3.12.1), close removes the socket file (3.13)
  pc,        \* where each process is
  ready,     \* its asyncio loop's queue of callbacks
  asleep,    \* whether the loop sleeps in select
  clients,   \* its connections
  signals,   \* ghost: how many signals it was sent
  node,      \* whose socket file is at the path
  private,   \* those whose socket file has been made owner-only
  disturbed  \* ghost: the starts during which somebody else changed the path

vars == <<setup, pc, ready, asleep, clients, signals, node, private, disturbed>>

Callbacks == {"run", "stop", "accept"}
Gone == {"refused", "failed", "ended", "killed"}
Places == {"new", "look", "unlink", "clear", "resolve", "bind", "bound",
           "serving", "closing"} \cup Gone

TypeOK ==
  /\ setup \in [transport : {"unix", "tcp"}, waits : BOOLEAN, removes : BOOLEAN]
  /\ pc \in [Procs -> Places]
  /\ ready \in [Procs -> Seq(Callbacks)]
  /\ asleep \in [Procs -> BOOLEAN]
  /\ clients \in [Procs -> Nat]
  /\ signals \in [Procs -> Nat]
  /\ node \in Procs \cup {Stale, NoNode}
  /\ private \subseteq Procs \cup {Stale}
  /\ disturbed \subseteq Procs

Init ==
  /\ setup \in [transport : {"unix", "tcp"}, waits : BOOLEAN, removes : BOOLEAN]
  /\ setup.removes => setup.waits
  /\ pc = [p \in Procs |-> "new"]
  /\ ready = [p \in Procs |-> <<>>]
  /\ asleep = [p \in Procs |-> FALSE]
  /\ clients = [p \in Procs |-> 0]
  /\ signals = [p \in Procs |-> 0]
  /\ node \in IF setup.transport = "unix" THEN {NoNode, Stale} ELSE {NoNode}
  /\ private = {}
  /\ disturbed = {}

At(p, place) == pc[p] = place
Queued(p, callback) == \E i \in DOMAIN ready[p] : ready[p][i] = callback
Alive(p) == pc[p] \notin Gone \cup {"new"}
Listening(p) == pc[p] \in {"bound", "serving"}

\* The loop of p runs the callback at the head of its queue.
Runs(p, callback) ==
  /\ ~asleep[p]
  /\ ready[p] # <<>>
  /\ Head(ready[p]) = callback

Moves(p, place, queue) ==
  /\ pc' = [pc EXCEPT ![p] = place]
  /\ ready' = [ready EXCEPT ![p] = queue]
  /\ UNCHANGED <<asleep, clients, signals>>

\* The callback goes on at a place without returning to the loop.
GoesOn(p, place) == Moves(p, place, ready[p])

\* The process is gone, and its sockets with it; what main runs on the way out
\* (a stop() that finds _server unset, or closed already) changes nothing.
Exits(p, place) ==
  /\ pc' = [pc EXCEPT ![p] = place]
  /\ ready' = [ready EXCEPT ![p] = <<>>]
  /\ asleep' = [asleep EXCEPT ![p] = FALSE]
  /\ clients' = [clients EXCEPT ![p] = 0]
  /\ UNCHANGED signals

\* p makes n what is at the path.
PathBecomes(p, n) ==
  /\ node' = n
  /\ disturbed' = IF n = node THEN disturbed ELSE disturbed \cup
       {q \in Procs \ {p} : pc[q] \in {"unlink", "clear", "bind", "bound"}}

-----------------------------------------------------------------------------
\* main: the handlers are installed, run() is scheduled.
Starts(p) ==
  /\ At(p, "new")
  /\ Moves(p, IF setup.transport = "unix" THEN "look" ELSE "resolve", <<"run">>)
  /\ UNCHANGED <<setup, node, private, disturbed>>

\* main: a rule it does not know, or a key that is not hexadecimal.
Refuses(p) ==
  /\ At(p, "new")
  /\ Exits(p, "refused")
  /\ UNCHANGED <<setup, node, private, disturbed>>

\* Mutant of LooksAtPath: the condition is turned round.
LooksTheWrongWay(p) ==
  /\ At(p, "look")
  /\ Runs(p, "run")
  /\ GoesOn(p, IF node = NoNode THEN "unlink" ELSE "clear")
  /\ UNCHANGED <<setup, node, private, disturbed>>

\* sock.exists()
LooksAtPath(p) ==
  /\ At(p, "look")
  /\ Runs(p, "run")
  /\ GoesOn(p, IF node = NoNode THEN "clear" ELSE "unlink")
  /\ UNCHANGED <<setup, node, private, disturbed>>

\* sock.unlink(): raises FileNotFoundError when the file went in the meantime.
Unlinks(p) ==
  /\ At(p, "unlink")
  /\ Runs(p, "run")
  /\ IF node = NoNode
     THEN /\ Exits(p, "failed")
          /\ UNCHANGED <<node, disturbed>>
     ELSE /\ PathBecomes(p, NoNode)
          /\ GoesOn(p, "clear")
  /\ UNCHANGED <<setup, private>>

\* asyncio removes a socket that is at the path, and tolerates that none is.
Clears(p) ==
  /\ At(p, "clear")
  /\ Runs(p, "run")
  /\ PathBecomes(p, NoNode)
  /\ GoesOn(p, "bind")
  /\ UNCHANGED <<setup, private>>

\* asyncio resolves the host, and lets the loop run before it goes on.
Resolves(p) ==
  /\ At(p, "resolve")
  /\ Runs(p, "run")
  /\ Moves(p, "bind", Append(Tail(ready[p]), "run"))
  /\ UNCHANGED <<setup, node, private, disturbed>>

AddressInUse(p) ==
  IF setup.transport = "unix" THEN node # NoNode ELSE \E q \in Procs \ {p} : Listening(q)

\* bind and listen, then asyncio lets the loop run once: the daemon is
\* reachable, its socket has the permissions of the umask.
Binds(p) ==
  /\ At(p, "bind")
  /\ Runs(p, "run")
  /\ IF AddressInUse(p)
     THEN /\ Exits(p, "failed")
          /\ UNCHANGED <<node, disturbed>>
     ELSE /\ Moves(p, "bound", Append(Tail(ready[p]), "run"))
          /\ IF setup.transport = "unix"
             THEN PathBecomes(p, p)
             ELSE UNCHANGED <<node, disturbed>>
  /\ UNCHANGED <<setup, private>>

\* Mutant of Serves: a socket file that has gone is not noticed, and one that
\* is there keeps its permissions.
ServesUnchanged(p) ==
  /\ At(p, "bound")
  /\ Runs(p, "run")
  /\ Moves(p, "serving", Tail(ready[p]))
  /\ UNCHANGED <<setup, node, private, disturbed>>

\* Mutant of Serves: a start that was told to stop gives up.
ServesUnlessTold(p) ==
  /\ At(p, "bound")
  /\ Runs(p, "run")
  /\ IF signals[p] > 0
     THEN Exits(p, "failed")
     ELSE Moves(p, "serving", Tail(ready[p]))
  /\ private' = private \cup {p}
  /\ UNCHANGED <<setup, node, disturbed>>

\* chmod, which raises FileNotFoundError when nothing is at the path and takes
\* whatever is there otherwise; _server is set and serve_forever waits.
Serves(p) ==
  /\ At(p, "bound")
  /\ Runs(p, "run")
  /\ IF setup.transport = "tcp"
     THEN /\ Moves(p, "serving", Tail(ready[p]))
          /\ UNCHANGED private
     ELSE IF node = NoNode
     THEN /\ Exits(p, "failed")
          /\ UNCHANGED private
     ELSE /\ Moves(p, "serving", Tail(ready[p]))
          /\ private' = private \cup {node}
  /\ UNCHANGED <<setup, node, disturbed>>

-----------------------------------------------------------------------------
\* Python runs the handler at once, wherever the main thread is, and the
\* handler only queues server.stop(): a loop that sleeps is not woken.
Signalled(p) ==
  /\ Alive(p)
  /\ signals[p] < MaxSignals
  /\ ready' = [ready EXCEPT ![p] = Append(@, "stop")]
  /\ signals' = [signals EXCEPT ![p] = @ + 1]
  /\ UNCHANGED <<pc, asleep, clients>>
  /\ UNCHANGED <<setup, node, private, disturbed>>

\* Mutant of Stops: the socket file is removed, whosever it is.
StopsUnlinking(p) ==
  /\ Alive(p)
  /\ Runs(p, "stop")
  /\ IF At(p, "serving")
     THEN /\ Moves(p, "closing", Append(Tail(ready[p]), "run"))
          /\ PathBecomes(p, NoNode)
     ELSE /\ Moves(p, pc[p], Tail(ready[p]))
          /\ UNCHANGED <<node, disturbed>>
  /\ UNCHANGED <<setup, private>>

\* Mutant of Stops: a stop that nobody cancels run() for.
StopsWithoutCancelling(p) ==
  /\ Alive(p)
  /\ Runs(p, "stop")
  /\ Moves(p, IF At(p, "serving") THEN "closing" ELSE pc[p], Tail(ready[p]))
  /\ UNCHANGED <<setup, node, private, disturbed>>

\* VerifierServer.stop: nothing while _server is not set, nor once it is
\* closed; otherwise the listening socket is closed and serve_forever, which
\* run() waits for, is cancelled.
Stops(p) ==
  /\ Alive(p)
  /\ Runs(p, "stop")
  /\ IF At(p, "serving")
     THEN /\ Moves(p, "closing", Append(Tail(ready[p]), "run"))
          /\ PathBecomes(p, IF setup.removes /\ node = p THEN NoNode ELSE node)
     ELSE /\ Moves(p, pc[p], Tail(ready[p]))
          /\ UNCHANGED <<node, disturbed>>
  /\ UNCHANGED <<setup, private>>

\* run() is cancelled: main returns, with CancelledError.  From 3.12.1 on it
\* first waits until the last connection is gone.
Closes(p) ==
  /\ At(p, "closing")
  /\ Runs(p, "run")
  /\ IF setup.waits /\ clients[p] > 0
     THEN Moves(p, "closing", Tail(ready[p]))
     ELSE Exits(p, "ended")
  /\ UNCHANGED <<setup, node, private, disturbed>>

\* A connection is accepted, or reset when the socket was closed before.
Accepts(p) ==
  /\ Alive(p)
  /\ Runs(p, "accept")
  /\ ready' = [ready EXCEPT ![p] = Tail(@)]
  /\ clients' = [clients EXCEPT ![p] = IF Listening(p) THEN @ + 1 ELSE @]
  /\ UNCHANGED <<pc, asleep, signals>>
  /\ UNCHANGED <<setup, node, private, disturbed>>

\* Nothing is queued: the loop waits for the next event of a socket.
FallsAsleep(p) ==
  /\ pc[p] \in {"serving", "closing"}
  /\ ~asleep[p]
  /\ ready[p] = <<>>
  /\ asleep' = [asleep EXCEPT ![p] = TRUE]
  /\ UNCHANGED <<pc, ready, clients, signals>>
  /\ UNCHANGED <<setup, node, private, disturbed>>

-----------------------------------------------------------------------------
Arriving(p) == Cardinality({i \in DOMAIN ready[p] : ready[p][i] = "accept"})

\* A client connects to whoever the address leads to.
Connects(p) ==
  /\ Listening(p)
  /\ setup.transport = "unix" => node = p
  /\ clients[p] + Arriving(p) < MaxClients
  /\ ready' = [ready EXCEPT ![p] = Append(@, "accept")]
  /\ asleep' = [asleep EXCEPT ![p] = FALSE]
  /\ UNCHANGED <<pc, clients, signals>>
  /\ UNCHANGED <<setup, node, private, disturbed>>

\* A request arrives on a connection, wakes the loop and is answered.
Asks(p) ==
  /\ clients[p] > 0
  /\ asleep[p]
  /\ asleep' = [asleep EXCEPT ![p] = FALSE]
  /\ UNCHANGED <<pc, ready, clients, signals>>
  /\ UNCHANGED <<setup, node, private, disturbed>>

\* Mutant of Disconnects: a connection is taken off the count when its client
\* leaves and once more by the handler's clean-up.
DisconnectsTwice(p) ==
  /\ clients[p] > 0
  /\ clients' = [clients EXCEPT ![p] = @ - 2]
  /\ asleep' = [asleep EXCEPT ![p] = FALSE]
  /\ UNCHANGED <<pc, ready, signals>>
  /\ UNCHANGED <<setup, node, private, disturbed>>

\* A client leaves: the loop wakes, and whoever waits for the last connection
\* is resumed.
Disconnects(p) ==
  /\ clients[p] > 0
  /\ clients' = [clients EXCEPT ![p] = @ - 1]
  /\ asleep' = [asleep EXCEPT ![p] = FALSE]
  /\ ready' = [ready EXCEPT ![p] =
       IF At(p, "closing") /\ clients[p] = 1 /\ ~Queued(p, "run") THEN Append(@, "run") ELSE @]
  /\ UNCHANGED <<pc, signals>>
  /\ UNCHANGED <<setup, node, private, disturbed>>

\* SIGKILL: the socket file stays.
Dies(p) ==
  /\ Alive(p)
  /\ Exits(p, "killed")
  /\ UNCHANGED <<setup, node, private, disturbed>>

LoopStep(p) ==
  \/ LooksAtPath(p)
  \/ Unlinks(p)
  \/ Clears(p)
  \/ Resolves(p)
  \/ Binds(p)
  \/ Serves(p)
  \/ Stops(p)
  \/ Closes(p)
  \/ Accepts(p)
  \/ FallsAsleep(p)

\* Nothing more can happen once every process is gone.
AllGone ==
  /\ \A p \in Procs : pc[p] \in Gone
  /\ UNCHANGED vars

Next ==
  \/ \E p \in Procs : LoopStep(p)
  \/ \E p \in Procs : Starts(p)
  \/ \E p \in Procs : Refuses(p)
  \/ \E p \in Procs : Signalled(p)
  \/ \E p \in Procs : Connects(p)
  \/ \E p \in Procs : Asks(p)
  \/ \E p \in Procs : Disconnects(p)
  \/ \E p \in Procs : Dies(p)
  \/ AllGone

Spec == Init /\ [][Next]_vars

\* A loop that has something to run goes on running; nobody needs to start a
\* daemon, signal it, connect to it or leave.
FairSpec == Spec /\ \A p \in Procs : WF_vars(LoopStep(p))

-----------------------------------------------------------------------------
\* The socket through which a serving daemon is reached is owner-only, however
\* starts of several daemons on one path interleave (unix_socket.py:33-43).
SocketIsOwnerOnly ==
  \A p \in Procs : At(p, "serving") /\ node = p => p \in private

\* A start that failed (unix_socket.py:29-44) leaves no socket file of its own
\* behind for clients to find, whatever it was interrupted by.
FailedStartLeavesNoFile ==
  \A p \in Procs : At(p, "failed") => node # p

\* start_server fails only when somebody else changed the path while it ran, or
\* holds the port: what an earlier daemon left behind never stops a start.
StartFailsOnlyIfDisturbed ==
  [][\A p \in Procs : ~At(p, "failed") /\ At(p, "failed")' =>
       \/ p \in disturbed
       \/ setup.transport = "tcp" /\ \E q \in Procs \ {p} : Listening(q)]_vars

\* A serving daemon loses its place on the path to another daemon's start or to
\* its own stop, never to the stop of another daemon (server.py:396-402).
PathLostOnlyToStart ==
  [][\A p \in Procs : At(p, "serving") /\ node = p /\ node' # p =>
       \/ At(p, "closing")'
       \/ \E q \in Procs \ {p} : pc[q] \in {"unlink", "clear"} /\ pc'[q] # pc[q]]_vars

Told(p) == At(p, "serving") /\ Queued(p, "stop")
Waiting(p) == setup.waits /\ At(p, "closing") /\ clients[p] > 0

\* No wake-up is lost: a daemon that starts, or that has been told to stop, has
\* its next step in the queue of a loop that is awake, unless it waits for
\* clients that are still there (server.py:396-409): what SignalEndsServing
\* rests on, whatever signals, connections and departures come in between.
NoLostWakeup ==
  \A p \in Procs :
    /\ pc[p] \in {"look", "unlink", "clear", "resolve", "bind", "bound"} =>
         Queued(p, "run") /\ ~asleep[p]
    /\ At(p, "closing") => (Queued(p, "run") /\ ~asleep[p]) \/ Waiting(p)

\* A signal that reaches a serving daemon ends it (__main__.py:133-135), unless
\* its loop never wakes again or a client never leaves.
SignalEndsServing ==
  \A p \in Procs : [](Told(p) => <>(pc[p] \in Gone \/ []asleep[p] \/ []Waiting(p)))

\* "Handle signals" (__main__.py:132): a daemon that is sent a signal ends.
SignalEndsDaemon ==
  \A p \in Procs : signals[p] > 0 ~> pc[p] \in Gone
=============================================================================
