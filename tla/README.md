# TLA+ models and proofs of ccs-verifier

ccs-verifier answers one question for an AI agent that is about to act: may this command run? A
program sends the command to a verifier process of its own, which runs a list of rules over it, decides
`allow`, `deny` or `escalate`, and signs a receipt. This directory holds a TLA+ model of that program,
the TLC runs that check it on small instances, and theorems about it that TLAPS proves for every
instance.

Lines such as `client.py:111` refer to `src/ccs_verifier/`.

## 1. The system

### Components, their state and operations

| component | source | state it keeps | operations |
|---|---|---|---|
| Rule evaluation | `server.py:113-160` | locals of `verify`: `rule_results`, `final_verdict`, `block_reason`, `error_code` | the loop over `self.rules` |
| VerifierServer | `server.py` | `_sequence`, `_audit_log`, `_request_count`, `_deny_count`, all in memory | `verify`, `_handle_connection` (verify, health, list_rules, get_l1_public_key) |
| Server lifecycle | `server.py:367-409`, `transport/` | `_server`, the socket file at the address | `start`, `stop`, `serve_forever`, `start_server` |
| VerifierClient | `client.py:33-247` | `_reader`, `_writer`, `_connected`, `_lock`, `_l1_public_key` | `connect`, `verify` with retries, `health_check`, `list_rules`, `get_l1_public_key`, `verify_l1_receipt`, `close` |
| Transport, framing | `transport/` | byte streams, a socket file | `MessageFrame.encode`/`decode`, `connect`, `serve` |
| Verifier | `client.py:276-445` | `_mode`, `_client`, `_server`, `_oop_available`, `_loop` | `_resolve_mode`, `verify`, `averify`, `health_check`, `close` |
| L1 receipts | `ccs_verifier_l1.py` | none (values) | `L1ReceiptBuilder.build`, `sign_l1_receipt`, `verify_signature`, `to_dict`, `from_dict` |
| Trust anchors | `trust.py` | the relying party's list of anchors | `evaluate_trust` |
| L0 receipts | `protocol.py` | none | `sign_receipt` |
| Daemon | `__main__.py` | one server, two signal handlers, one event loop | `main`, `shutdown`, `run` |
| the rest | `license_gate.py`, `_telemetry.py`, `__init__.py`, `reference_issuer.json` | none | environment look-up, one HTTP request, re-exports, data |

`builtin_rules.py` and `audit_cli.py` are imported, declared or tested (`tests/test_mcp_scanner.py`) but are
not in the repository; the rule loop is therefore modelled for rules that do anything.

### How they interact

* Tasks of one asyncio loop share a `VerifierClient`. Each method takes `_lock`, makes sure there is a
  connection, writes one frame and reads one frame. The frames carry no request number: a response
  belongs to a request only because it is the next one on the stream. `close()` and `connect()` take no
  lock and change the streams under a method that waits.
* The server runs one handler per connection. `VerifierServer.verify` has no `await`, so decisions of
  different connections interleave, but each is one step.
* A `Verifier` holds a client or an embedded server. It finds out which one it needs on first use
  (`_resolve_mode`), by connecting inside `run_until_complete`, from whatever loop it happens to be in.
* Daemons that are given one address meet at the path of the socket (or at the port): each removes what is
  there, binds, and changes the permissions. A signal reaches a daemon through a handler that only queues
  `stop()` in its event loop.
* A receipt leaves the server as a document. A client of that server checks it with a public key it
  fetched once; a third party checks it with the key inside the receipt and its pinned anchors.

### What is hard in it

* *Ordering.* Matching by position is right only as long as every path that gives up on a response also
  gives up the connection. Some do and some do not (`client.py:148-160` against `:162-223`).
* *Timeouts and retries.* `wait_for` may cancel a decode between header and payload; a retry may race the
  first evaluation; a decision may be recorded although its response could never be sent.
* *Unlocked calls.* `close()` waits in `wait_closed()` and then forgets the streams, whichever they are by
  then; a `connect()` in progress undoes a `close()`; `drain()` waits without a time limit and the reader is
  looked up after it.
* *Several daemons.* `exists`, `unlink`, `bind` and `chmod` are separate system calls on a path that other
  daemons use; a signal may come before `start()` has finished, or while the loop sleeps.
* *Crashes.* Nothing is persisted: a restart forgets the audit log, the counters, the sequence number and
  the L0 key.
* *Several event loops.* `verify` and `averify` of one `Verifier` may use one pair of streams from two
  loops, and the mode is resolved by code that cannot run inside a loop.
* *Clocks.* A receipt takes its time bounds and its timestamp from two readings of a wall clock, and is
  judged on another one.
* *Boundaries.* An audit log at its limit, `max_audit_log = 0`, frames beyond 1 MB, fields beyond 4096
  characters, integers beyond 2^53, 64-bit fingerprints.

### What makes each part correct

* Rule evaluation: verdict, reason and code are a function of the rules' answers, whatever their order;
  no step takes an objection back; the loop ends.
* VerifierServer: the audit log is the recent part of what was decided; counters agree with it; sequence
  numbers of one process increase, and only refused builds leave gaps.
* VerifierClient: what `verify` returns is the decision on the command it was given; the connection used
  next is clean; a call ends; decisions and connections per call are bounded.
* Lifecycle: a serving daemon is reached through an owner-only socket; what an earlier daemon left behind
  never stops a start; a failed start leaves no file; a signal ends the daemon.
* Verifier: one evaluator, chosen once; `require_oop` means what it says; `auto` falls back only without
  a server.
* Receipts and trust: what is signed is consistent and verifies; what is accepted was signed, to the last
  field, with a pinned key; expiry follows the issuer's clock.

`PROJECT.json` lists the hazards with their lines and the properties that cover them.

## 2. The modules

```
RuleEvaluation ── RuleLoop ── RuleLoopProofs
      └── VerifierServer ── VerifierServerProofs
                 └── VerifierSession ── VerifierSessionProofs ─┬─ VerifyPromiseProofs
                          │                                    └─ SessionBoundsProofs
                          └ INSTANCE VerifyContract
ServerLifecycle ── ServerLifecycleProofs
VerifierModes ── VerifierModesProofs
L1Receipt ── ReceiptTrust ── ReceiptTrustProofs
```

A line to the right or below is EXTENDS. Each state module has an `MC...` module with the values of its
constants for TLC and one `.cfg` per run. Operators named in a comment as "Mutant of X" are altered forms
of X, next to it, that `PROJECT.json` uses to show that each property can fail; no specification uses them.

**RuleEvaluation** says what an evaluation comes to, without a loop: a function from rules to outcomes
(`allow`, `deny`, `escalate`, `raise`), the rules that run, the verdict, whose reason and whose error code
are carried.

**RuleLoop** is the loop, one iteration a step: `RuleAllows`, `RuleDenies` (break), `RuleEscalates`
(the last one wins the reason, the default code stays), `RuleRaises` (the exception leaves `verify`),
`RulesExhausted`. Its correctness property is that it computes RuleEvaluation.

**VerifierServer** has `_sequence`, `_audit_log`, `_request_count`, `_deny_count` and the four ways in
which `verify` ends: `Completes`, `BuildRejects` (the number was spent, `server.py:176`, before the builder
raised), `LeavesNothing` (a rule raised or the params could not be hashed) and, for the process,
`Restarts`. `history`, `rejected`, `booted` and `life` are ghosts that the properties speak about. It uses
RuleEvaluation's operators for the loop, which is sound because RuleLoop is shown to compute them.

**VerifierSession** composes that server with one `VerifierClient` and the network. Per task there is a
program counter over the awaits of a method (waiting for the lock, connecting, draining, reading the header,
reading the payload, pausing between attempts); per connection there are the two queues of frames, whether the
client sees it open, ended, reset or left by itself, and `torn`: the header of the next frame is gone. Two
variables name connections: `cur` is the one of `_reader` and `_writer`, `stream` the one that the holder of
the lock has in its hands. They differ when `close()` or `connect()` runs meanwhile. Client steps: reuse, refuse, start to
connect, connect or fail to; write with a `drain` that returns at once (`Sends`) or waits (`SendsSlowly`,
`Drained`), or find the peer gone, or be refused by the frame limit; read a header, a payload, garbage, the end of
the stream, a reset; time out; wake up for the next attempt; be cancelled. `Fails` and `Escapes` are the two groups of
except clauses. `CloseBegins`, `CloseEnds`, `CloseCancelled` and `ConnectsAnew` are `close()`, on both sides of
`wait_closed()`, and the user's `connect()`; they run whenever the event loop does, hence not between
`_ensure_connected` and `write`, where nothing is awaited. After a slow `drain` the reader is looked up again:
it may be a newer one, or None (AttributeError). Server steps: a handler serves a verify, fails in it, or
serves a query; the process crashes, is started again.

**VerifyContract** is the abstract specification of `VerifierClient.verify`: a call ends, and it returns a
decision that a server took on this very command, or it raises. VerifierSession is shown to implement it,
under the mapping at its end (`Promise`).

**ServerLifecycle** has several daemons, from `main` to the exit, on one address. A daemon is a place in its code, the
queue of callbacks of its event loop, and whether that loop sleeps in `select`. `start_server` on a Unix socket is
the system calls it makes: `LooksAtPath`, `Unlinks`, asyncio's own removal (`Clears`), `Binds`, and `chmod` with
`_server` set (`Serves`); on TCP it is `Resolves`, `Binds`, `Serves`. `Signalled` is the Python-level handler, which
only queues `server.stop()`; `Stops` and `Closes` are that coroutine and the cancelled `serve_forever` that `run()`
waits for. Clients connect, ask and leave; a daemon may be killed and leaves its file. `setup` covers three generations of
asyncio: before 3.12.1 `wait_closed()` waits for nothing, from then on for every connection, and from 3.13 on closing
a server removes its socket file (only if it is still its own). A command line that is refused is one step, `Refuses`.

**VerifierModes** is the high-level `Verifier` over event loops that open, close and are or are not running
when a method is called, with a server that comes and goes. Its client is reduced to one connection: which
loop its streams belong to, what is still to be read, how much of that the loop has buffered.

**L1Receipt** treats receipts as values: builder with alignment and refusals, the payload that is signed,
`verify_signature`, `to_dict`, `from_dict` with the old field names. A signature is the key with the payload
it was made over, so it verifies under exactly that key for that payload; a fingerprint is a function that
may collide. Its Base64 text is the canonical one or another spelling of the same bytes, which
`verify_signature` refuses. Of some thirty fields those are kept that a check reads; `body` stands for the others.

**ReceiptTrust** puts receipts in motion: servers of several deployments, with keys that are replaced and
clocks that move between two readings; programs that use the builder themselves; documents of v1.1.6;
damaged copies; a relying party that pins and removes anchors and has a clock of its own; a client that
keeps the key it fetched.

## 3. The runs

Twelve runs: eight that must pass and four that TLC must find violated. Run one with, for example,
`tlc -workers 2 -config SessionVerify.cfg MCVerifierSession`.

| run | question | bounds |
|---|---|---|
| `rule_loop` | does the loop compute the declared verdict for every outcome of every rule? | 4 rules, all 4^4 answers |
| `server_l1` | do audit log, counters and sequence agree with what was decided, through refused builds and a restart? | 5 requests, log of 2, 2 processes |
| `session_verify` | does a client that only verifies keep the contract of a call, and does a receipt answer one call only, while somebody closes or connects it? | 2 tasks, 1 call each, 1 retry, 1 `close()` or `connect()`, 6 connections, 2 decisions, 2 processes |
| `session_mixed` | do all methods end, cancelled or not, is the lock passed on, and is no verdict invented? | the same, with queries and cancellations, 1 process |
| `session_stale` | does `verify` still answer its command next to health checks? **no** | 1 task, 3 calls |
| `session_server_loss` | does `verify` raise only TransportError? **no** | 2 tasks, 1 call each |
| `lifecycle` | who is reached at the address, when does a start fail, is a wake-up ever lost, and does a signal end the daemon? | 2 daemons, 1 client each, 2 signals each, both transports, 3 generations of asyncio |
| `lifecycle_signal` | does a daemon that is sent a signal end? **no** | 1 daemon, 1 signal |
| `modes` | one evaluator, chosen once, never the own one with `require_oop`? | all 7 programs, 2 loops, 4 calls, 3 failures |
| `modes_async_auto` | does `auto` fall back only without a server? **no** | 1 loop, 1 call |
| `trust_accept` | is what is accepted genuine, what is pinned accepted, and does it expire when its issuer meant? | 3 keys, 2 of them with one fingerprint, 2 servers, 2 documents, 2 anchors, 5 instants |
| `receipt_builds` | is what gets signed consistent, whatever the clock does in between, and can it be read back? | 2 documents, all sizes and jitters |

The larger ones have 3.31 million (`session_verify`), 995 thousand (`session_mixed`, with liveness), 421
thousand (`modes`), 556 thousand (`receipt_builds`) and 1.13 million (`trust_accept`) distinct states.

### Why these bounds

* `NRules = 4`: an ALLOW, two ESCALATEs of which the later wins, and a DENY or an exception fit in one list
  in every order; the theorems of RuleLoopProofs cover every length.
* `MaxAuditLog = 2`, `MaxRequests = 5`: the log fills, overflows twice and still has a middle to lose; one
  restart separates the counters of one process from the history of two.
* Two tasks with one call each are two calls in sequence and two that wait for the lock; one retry gives two
  attempts per call, so an abandoned connection, a live one and a dead one coexist. A crash may fall between
  any two of these, and so may one `close()` (with its end, or its cancellation, at any later point) or one
  `connect()`. Large commands make a request or a response exceed the frame limit, bulky ones fill the write
  buffer: which of them do is open. `OneConnectionPerAttempt` shows that 6 connections (the first, one for each
  of four attempts, one for `connect()`) are never too few: the bound `MaxConns` cuts nothing off. `MaxRequests = 2`
  bounds the decisions of both processes together (`Len(history) + rejected`; `history` is never reset): the run takes at
  most two in all, which is one command decided twice or two commands decided once, before or after the restart. A request beyond them is
  still written, stays unread, and counts in `Unserved`; so `DecisionsBounded` and `AtMostOnce` see all four attempts.
* One `close()` is enough to reach its three hazards: a connection made while it waits is forgotten (it leaks,
  and a task that drains finds no reader), a connection that is being made undoes it, a reader is left with a
  stream that has ended. Only one `close()` is under way at a time.
* `session_mixed` leaves `list_rules` out: on this side of the JSON it takes exactly the steps of
  `health_check` (the theorems cover all methods).
* `session_stale` needs a third call, since the late response makes the first `verify` fail and the one after
  it answer wrongly.
* `lifecycle`: two daemons suffice for a start over a live one, a start beside a stop, and two starts at once; a stale
  file of an earlier process may be there at the beginning. A second signal comes after a stop has begun; one
  client keeps a daemon of Python 3.12.1 or later from ending.
* `modes`: a loop to resolve in, a second to call from, four calls to go out of step and come back.
* `trust_accept`: `OneSecond = 2` makes half a second expressible; skew 1 and validity 1 put both expiry
  boundaries inside the five instants; the two clocks may be 2 apart, more than the skew.
* `receipt_builds`: `issued_at` is one unit before the first reading of the clock. With `Jitters` -3..1 the second
  reading gives a timestamp a full second early (refused), less than a second early (repaired), equal and later.

`SYMMETRY` is used in `session_verify` only, which has no liveness property, over the two tasks, which nothing
tells apart: the properties and the commands `<<task, n>>` are permuted with them.

`CHECK_DEADLOCK FALSE` is set where the system may stop: the loop when it is done, a session whose calls are
made, a verifier at its last call, receipts at the last instant. The server runs keep the check: the server can
always take a call that leaves nothing. So do the lifecycle runs, in which only the end of all daemons is
allowed to be the end (`AllGone`).

### What the properties say

*Rule loop.* `LoopComputesDecision`: at the end the running variables are what RuleEvaluation declares for the
whole list. `SummaryJustifiesVerdict`: an ALLOW was given by every rule, a DENY ends the summary.
`NeverSofter`: no step moves the verdict down, and none follows a DENY.

*Server.* `AuditIsRecentHistory`: the log is a gapless suffix of the history of this process, of the right
length. `CountersAgree`, `SequencesIncrease`: the counters count exactly that history; numbers increase, and
sequence = decisions + refused builds. `AuditOnlyGrows`: an entry leaves the log only with the process or as
the oldest of a full log.

*Session.* `ResultMatchesCommand`: a verify that returns, returns the decision on its own command.
`StreamInSync`: the connection the next request will be written to is clean, and the one a request is in progress
on carries that request or the answer to it; both although `close()` and `connect()` change the connection
without the lock. `KeepsPromise`: the session implements VerifyContract. `DecisionsBounded`: a command is decided at most
`max_retries + 1` times, those included that are still unread. `AtMostOnce`: without `reconnect`, at most once
for each `connect()` of the user that succeeded (the one before the first call, if there was one, included); the ghost `connects` counts
these and nothing else, so a `close()` buys no further decision. It is counted for a client without `reconnect` only, as nothing is said of it for
others. `OneConnectionPerAttempt`: abandoned connections do not grow
faster than attempts, and without `reconnect` no method makes any. `CallsReturn`: every call ends, unless from some point on a method waits in `drain` for a
server that does not read (`Stalled`). `NeverInvented`: even where responses may be matched to the
wrong requests (other methods, cancelled tasks), what a verify returns is a decision a server took on a command that was
submitted. `AnswersOnce`: two tasks never hold the same numbered decision, and one that was handed over is on no
connection any more. It is checked with L1 enabled only, since without it decisions carry no number and two may be equal.
`LockPassedOn`: the line for the lock is exactly the calls in progress, each once. `StepsRunOut`: a call
uses up one of a bounded number of steps with each step of its own, and is given none by anybody else.

*Lifecycle.* `SocketIsOwnerOnly`: the socket through which a serving daemon is reached has its permissions, even
if another start put it there or removed it in between. `FailedStartLeavesNoFile`, `StartFailsOnlyIfDisturbed`:
a start fails only when another daemon changed the path while it ran or holds the port, never because of what
a dead one left, and then leaves nothing of its own. `PathLostOnlyToStart`: a serving daemon loses the path to another
one's start (which unlinks the socket of a live daemon as readily as a stale one) or to its own stop, never to another
one's stop. `SignalEndsServing`: a `stop()` that is queued for a serving daemon ends it, unless its loop never
wakes again or, from 3.12.1 on, a client never leaves. `NoLostWakeup`: whoever starts or was told to stop has its next
step in the queue of a loop that is awake, or waits for clients that are still there.

*Modes.* `OneEvaluator`: never a client beside an own server, and what `verify`, `averify` and `health_check` return
comes from the side the mode names, although the three look at different attributes. `ModeIsSettled`, `NeverFallsBack`, and `AnswersThisCall`: a program that calls `verify`
and `close` only gets the answer to this call, through retries, `close()` and restarts. With `averify` from a
second loop, or `health_check`, the code does not have this property, which is why its premise names the methods.

*Receipts.* `AcceptedIsGenuine`: what `evaluate_trust` accepts was signed, in all its fields, with a key pinned
for its issuer; a fingerprint in common or an issuer name in common is not enough. `CheckedIsGenuine`: the same
for a client and its server. `ExpiryFollowsIssuer`: while the clocks agree within the skew, nothing is
refused as expired before the issuer's clock has reached `expires_at`, and nothing is accepted later than twice the skew after.
What happens when the party's clock shows exactly `expires_at + max_clock_skew` is left open, because the source
contradicts itself there (section 4). `PinnedIsAccepted`: a receipt that was signed, is in time and has its key pinned
for its issuer is refused only while another key of that issuer stands before it in the list. `SignedIsConsistent`:
what gets signed has its bindings, an expiry and a timestamp not before `issued_at`, and verifies; `from_dict`, which is partial
(a set of at most one receipt), reads it back unchanged, or refuses it because its `trace_id` is empty or a field exceeds 4096 characters: both are
signed by the builder, and both occur in `receipt_builds`. `OldIsReadNotVerified`: documents of v1.1.6 are read as long as they have
a signature field, and what is read never verifies.

### Fairness

* `VerifierSession`: for each task, weak fairness of `ClientStep`: asyncio runs what is ready and fires the
  timers of `wait_for` and `sleep`. Connecting has its own time limit, and reading has `timeout_ms`, so some step
  of the lock holder is always possible, except in `drain()`, which has none: it is only certain to return once the
  server has read what filled the buffer. Nothing is assumed of the server, which may stop reading or answering for
  good, nor of `close()` and `connect()`.
* `ServerLifecycle`: for each daemon, weak fairness of `LoopStep`: a loop runs what is queued, and then sleeps.
  Nobody has to start a daemon, signal it, connect to it or leave it, so a sleeping loop may sleep for ever.
* No other module states liveness.

## 4. What the violated runs show

* **`session_stale`** (`client.py:128`). A health check times out and its response stays on the connection,
  which stays in use. The next `verify` reads it and raises KeyError; its own response is read by the
  `verify` after it, which returns the decision on *another command*. Nothing compares `trace_id`.
* **`session_server_loss`** (`client.py:160`). `asyncio.IncompleteReadError` is an EOFError, which no except
  clause of `verify` names: if the server closes the connection, `verify` raises it, without a retry and with
  `_connected` still true. The docstring promises TransportError.
* **`modes_async_auto`** (`client.py:342`). `averify` runs inside a loop, so the probe's `run_until_complete`
  raises RuntimeError, which `except (TransportError, Exception)` takes for a missing server: the verifier
  evaluates in-process for good although a server listens.
* **`lifecycle_signal`** (`__main__.py:135`). The handlers are set with `signal.signal` and call
  `loop.create_task(server.stop())`. A stop that runs before `start()` has set `_server` finds nothing to stop
  (`server.py:398`), and a loop that sleeps in `select` is not woken: "Shutting down..." is logged, and the daemon
  goes on, for good or until the next event of one of its sockets.

Seen while reading, and not runs of their own:

* `self._audit_log[-0:]` is the whole list: with `max_audit_log = 0` the log is never trimmed (`server.py:253`),
  although the comment says "Trim audit log if too large". `Trimmed` and its lemma treat that value as the code does.
* The key a client fetched is kept until `close()` (`client.py:235`), also across reconnections: after the server
  was started with another key, what it signs is invalid to that client. `CheckedIsGenuine` is about what it accepts.
* A start removes the socket of a live server (`unix_socket.py:33`), where the comment above speaks of a stale one;
  the live one goes on serving whoever is connected and cannot be reached any more. Up to Python 3.12 a stopped server
  leaves its socket file.
* Whatever ends the daemon, `run()` ends with `CancelledError`, which `main` does not catch; its branch for
  KeyboardInterrupt is not reached, since SIGINT has a handler (`__main__.py:138`).
* `close()` forgets the streams it finds after `wait_closed()` (`client.py:246-251`): a connection that a method made
  meanwhile leaks, and a method that was in `drain` calls `None.readexactly`; the AttributeError passes every
  except clause of `verify`.

* A restarted server starts numbering at 1 again (`server.py:91`), where the draft
  (`drafts/draft-correctover-ccs-01.xml:858`) wants numbers that increase per issuer; `SequencesIncrease` is
  therefore per process.
* A retry sends the same `trace_id` (`client.py:152`), which becomes the nonce (`server.py:228`) of a second
  receipt; `DecisionsBounded` says how many there may be.
* `averify` from a second loop leaves its response to the first one (`client.py:395`).
* `health_check` of a verifier made with `mode="out-of-process"` raises "No verifier available"
  (`client.py:403`), as `_oop_available` is only set by the probe; and the probing client, with its 1000 ms, is
  kept for good (`client.py:339`), while the fallback server is made without `signing_key` (`client.py:367`).
* `evaluate_trust` contradicts its docstring at one instant: "receipt.expires_at must be > now - max_clock_skew"
  (`trust.py:126`) refuses at `now = expires_at + max_clock_skew`, the code (`current > receipt.expires_at + skew`,
  `trust.py:140`) accepts there. `Expired` is what the code does; `ExpiryFollowsIssuer` says nothing about that instant, and
  `PinnedIsAccepted` takes "in time" in the docstring's sense.
* `evaluate_trust` also accepts a receipt whose `issued_at` is in the future, and compares only the first anchor of
  an issuer, so that while a key is rotated a good receipt is refused because another key of its issuer was pinned before
  (`trust.py:149`). `PinnedIsAccepted` says that this is the only way in which a pinned key does not help.
* The builder signs receipts that nobody reads back: `from_dict` refuses an empty `trace_id`
  (`ccs_verifier_l1.py:476`) and fields of more than 4096 characters (`:488`); it also refuses the empty signature fields that
  `to_dict` writes for an unsigned receipt (`:494`). `SignedIsConsistent` names the first two.

## 5. The proofs

TLAPS checks all of them; `tlapm <module>` proves each module from nothing. They hold for every value of the
constants that satisfies the named assumptions: `NRulesAssumption`, `ServerAssumption`, `SessionAssumption`,
`LifecycleAssumption`,
`ModesAssumption`, `ReceiptAssumption` and `TrustAssumption`, each next to its constants. The assumptions give
types, order the bounds of the clocks (`Start`, `MaxTime`), and state three facts about the world: every call has a `trace_id` of its own (`Commands = Tasks \X (1 ..
MaxCalls)`), no two servers share a signing key, and a fingerprint is a function of its key. Nothing is assumed of
the rules, the network, the clocks, or collisions of fingerprints.

| module | theorem | what it states |
|---|---|---|
| RuleLoopProofs | `TypeCorrect`, `LoopDecides`, `SummaryHolds`, `VerdictNeverSofter`, `LoopRunsOut`, `StrictestAnswerWins`, `ObjectionsNeverSoften` | `TypeOK`, `LoopComputesDecision`, `SummaryJustifiesVerdict`, `NeverSofter`, for any number of rules; that the loop takes at most `NRules + 1` steps; and of the declared verdict, that it is the strictest answer in whatever order the rules are listed, and that stricter answers never soften it |
| VerifierServerProofs | `ServerTypes`, `AuditLogIsTail`, `DecisionsStayLogged`, `ReceiptsAreOrdered`, `HealthCountersAgree` | the server's type invariant, its three invariants and `AuditOnlyGrows`, for any `max_audit_log`, rules and commands, with or without L1 |
| ServerLifecycleProofs | `LifecycleTyped`, `ReachedPrivately`, `FailuresLeaveNothing`, `StartsFailOnlyDisturbed`, `PathsLostToStarts`, `WakeupsAreKept`, `StopsAreKept` | `TypeOK`, `SocketIsOwnerOnly`, `FailedStartLeavesNoFile`, `StartFailsOnlyIfDisturbed`, `PathLostOnlyToStart`, `NoLostWakeup`, and that a queued stop is not lost, for any number of daemons, signals and clients |
| VerifierModesProofs | `ModesTyped`, `HasOneEvaluator`, `ModeStaysSettled`, `RequireOopHolds`, `VerifyAnswersItsCall` | `TypeOK`, `OneEvaluator`, `ModeIsSettled`, `NeverFallsBack`, `AnswersThisCall`, for any loops, calls and failures |
| ReceiptTrustProofs | `ReceiptTypes`, `AcceptedWasSigned`, `PinnedIsTrusted`, `CheckedWasSigned`, `ExpiryIsTheIssuers`, `SignedWasConsistent`, `OldNeverVerifies` | `TypeOK`, `AcceptedIsGenuine`, `PinnedIsAccepted`, `CheckedIsGenuine`, `ExpiryFollowsIssuer`, `SignedIsConsistent`, `OldIsReadNotVerified`, for any keys, fingerprints, documents, anchors and clocks |
| VerifierSessionProofs | `SessionTypes`, `ServerStaysRight`, `VerdictsAreNotInvented`, `ReceiptsAnswerOnce` | the session's type invariant, the properties of VerifierServer in every session, `NeverInvented`, `AnswersOnce`, for all methods and cancellations, slow writes, `close()` and `connect()` at any time |
| VerifyPromiseProofs | `VerifyAnswersItsCommand`, `StreamStaysInSync`, `VerifyKeepsPromise` | `ResultMatchesCommand`, `StreamInSync`, and that the session implements VerifyContract, for tasks that only verify, while others call `close()` and `connect()` |
| SessionBoundsProofs | `DecisionsStayBounded`, `NoReconnectNoRepeat`, `ConnectionsBounded`, `LockStaysInUse`, `CallsRunOut` | `DecisionsBounded`, `AtMostOnce`, `OneConnectionPerAttempt`, `LockPassedOn`, `StepsRunOut`, for any number of tasks, calls, retries and connections, all methods, cancelled or not |

### The arguments

*Rule loop.* The invariant says what the running variables are after any prefix: the results are the
outcomes of the rules so far, none of which denied or raised while the loop is on, and the verdict and the
blocking rule are those of the prefix. `LoopComputesDecision` speaks only about the end, so it is not inductive.

The two theorems about RuleEvaluation are about the declared verdict, for lists of any length. The first rule
that would stop the loop is always reached (`FirstStopRuns`, the least element of a set of positions). So if no rule
that is reached raises, a DENY anywhere in the list decides, and without one every rule runs. The condition is
needed: a rule that raises before a DENY makes `verify` raise, and after it is never called.

*Server.* `AuditIsRecentHistory` needs to know that trimming a log that is a suffix of the history gives a
suffix (`TrimKeepsRecent`, which treats `max_audit_log = 0` as well). `CountersAgree` counts a set of positions
of the history; a lemma says that one more decision adds one position. Ordered numbers need that every
number so far is at most `sequence`. `AuditOnlyGrows` rests on what one more entry does to the log (`LogGrows`): each
old entry is still there, or it was the oldest of a full log.

*Lifecycle.* `PathKnown` ties a place in the code to the file system: a file at the path belongs to a daemon that has
bound, or to a dead one, and a start that was not disturbed still finds what it left: something at the path
before `unlink`, nothing before `bind`, its own file before `chmod`. `StartFailsOnlyIfDisturbed` is the contraposition. A daemon's
file gets to the path by its `bind` only, and the `chmod` that follows takes whatever is there: its own file, or
another one's, in which case the daemon is not the one that is reached (`SocketIsOwnerOnly`).
`NoLostWakeup` needs, besides, that a loop is not asleep before it starts (`Awake`), and two facts about queues: what is
added to one hides nothing in it, and a callback leaves it only by being run (`AppendHas`, `TailHas`). The last client
that leaves puts back what `wait_closed` took.

*Modes.* `Settled`: an unresolved verifier has neither client nor server, a resolved one has exactly the one its
mode names, and the last decision came from there. `NeverFallsBack` needs, besides (`Remotely`), that with
`require_oop` the mode is never `in-process` and the last decision never came from here. `AnswersThisCall` follows
from `Quiet`, an invariant of programs that call `verify` and `close` only: a connection whose loop is still open
belongs to the loop that the next call runs, and nothing is left on it.

*Receipts.* `Provenance`: the signature of every document is missing, was made by v1.1.6, or is that of a
receipt some server signed, whatever else was changed in the document. Since the payload binds all fields with the key and the algorithm, a document whose signature
verifies is the signed receipt; since the anchor's key is compared, and not only its fingerprint, the key that
signed is the pinned one. What is read back with old names has another payload than the one that was signed.
`Contents` adds the values: every field has its type, whatever was damaged, and what was signed is complete, has an expiry, and has a
timestamp not before its `issued_at`. `ExpiryFollowsIssuer` is then arithmetic on two clocks that its premise holds together. `PinnedIsAccepted` goes through the
checks of `evaluate_trust` from the other side: what was signed verifies, what is in time is not refused as expired, and the first anchor
of its issuer (`FirstIsMatching`) either carries its key or stands before the one that does. `SignedIsConsistent` needs from
`Provenance` that what is signed carries a signature and, from the builder, the current version, so that only the sizes of
its fields can make `from_dict` refuse it.

*Session, types.* `TypedSession` strengthens `TypeOK`: only the holder of the lock is past it; who sends or
reads has a connection; who reads a payload has a frame in front of it; who pauses has an attempt left. The
server's own invariant rides along, because a handler's step is one of VerifierServer's. The lemma `SessionsServe` states that; it holds
by the way the modules are composed and is no result of its own, but through it the theorems about VerifierServer are used of sessions
(`ServerStaysRight`).

*Session, what is handed over.* `Honest`: requests and decisions are on commands that were submitted; every response to a
verify that is on a connection carries a decision in the history, and so does every one that a task was handed. A step
moves a response on or loses it; only a handler makes one, in the step that records its decision (`TaskEffects`,
`ServerEffects`). Hence `NeverInvented`, without any premise about methods or cancellation. `AnswersOnce` follows
decisions through the places where they may be, on connections and in tasks' hands. `Apart` says that none is in two of
them; reading takes a response from its connection in the step that hands it over. A new decision is in none of them:
those already recorded are of an earlier process, or carry a number that is used up (`Numbered`, `DecidedIsNew`).

*Session, the promise.* `PInv` speaks of two connections. `NextIsClean`: the current one, if it is marked as connected and
`close()` has not left it, carries nothing, unless it is the one the lock holder has in its hands. `InSync`: what
is on the stream of the lock holder is that task's request or a decision on that task's command; and while it drains, the current
connection is that stream, none, or a clean one, which is what makes the second look at `_reader` harmless.
Every way to give up on an answer clears the mark (`Fails` for `verify`), ends the stream or resets it; a
new connection is empty (`Unused`); one that `close()` has left is not reused, because `is_closing()` is looked at
(`MayReuse`). Requests are only for calls that were made (`Made`), which the contract's `Decide` needs. Each step
then is `Invoke`, `Decide`, `Return`, `Raise` or a stutter of VerifyContract.

*Session, the bounds.* For one command, let its load be the decisions on it together with the requests for it that a
server may still read. `Counted` says that the load is at most the attempts made: a request enters by `write`, once per
attempt; a decision takes the place of a request; a lost connection only takes requests away. The decisions alone would
not do, since a request that its caller gave up may be decided much later. `Once` is about a client without
`reconnect`: it writes only while the connection counts as connected, a `verify` that tries again has left that
state, and only the user's `connect()` restores it, so that the load is at most `connects`, and one less for a call that may
still write. It also keeps count of the connections of such a client: `nextConn - 1 = connects`, the other half of
`OneConnectionPerAttempt`. With `reconnect`, connections are counted together with those still to
come (`Budgeted`): whoever waits for the lock has all attempts ahead, its holder those that are left (`Left`), and what was
made and what is left never exceed `max_retries + 1` per call, one more for the first connection and one for each
`connect()` or `close()`. That needs `InLine`: nobody waits twice, and whoever waits has made no attempt.

*Session, the lock.* `LockPassedOn` is `InLine` with its converse, `Waiting`: whoever is in a call is in line. The step to
watch is a cancellation in the middle of the line, which takes out one place and moves up those behind it
(`RemovedIsIdle`). `StepsRunOut` orders the places of a method as `Place` does: each step inside a round goes down, and the
one that goes up, `Wakes`, costs an attempt, worth as much as a whole round. Together they are the safety half of
`CallsReturn`: the lock is always with a call in progress, and that call can take finitely many steps. What remains is
that it takes them, which is the fairness of asyncio.

*The premise.* The three theorems of VerifyPromiseProofs assume `OnlyVerify`: `Kinds = {"verify"}` and no cancellation. Run
`session_stale` shows that the first half is needed. A task that is cancelled while it reads leaves `_connected` true just
as well (`CancelledError` is no `Exception`), so the second half is needed too. An
`IncompleteReadError` leaves `_connected` true as well, which does no harm here: that stream has ended and
carries nothing.

### Model-checked only

* Liveness: `CallsReturn` and `SignalEndsServing` (liveness under fairness is outside the prover's reach). What they rest
  on without fairness is proved: `LockPassedOn` and `StepsRunOut`; `NoLostWakeup` and `StopsAreKept`. That the rule loop ends is
  `LoopRunsOut`: it takes finitely many steps, and has no `await` that could keep it from taking them.
  Every invariant and every action property of a passing run is also proved.
* Nothing here rests on a RECURSIVE operator or on induction over data; what a cardinality does when one
  element is added is taken from the library's theorems on finite sets.

## 6. How far the model goes

* *Time.* A timeout may happen at any await that has one, and a pause ends at any time; durations, the backoff
  (`0.1 * (attempt + 1)`) and latencies are not modelled. Receipts have real clock values.
* *Frames.* One queue element is one frame; `torn` is the one thing bytes do that frames cannot: a header
  that was consumed by a cancelled decode. The next four payload bytes are JSON text, which as a length
  exceed the limit.
* *Requests.* A command is its `trace_id`. What its fields say matters only through what rules answer,
  whether it can be hashed, and whether the builder refuses it.
* *One server at a time* in VerifierSession: its `Crashes` and `StartsAgain` stand for whatever ServerLifecycle allows
  at the address. That a new server takes the path while the old one still serves its connections is in
  ServerLifecycle only. Restarts there are other daemons; each process is started once.
* *Failing system calls.* Of `exists`, `unlink`, `bind` and `chmod` the model has the two failures that the order of the
  steps of several daemons brings about, a file that has gone (FileNotFoundError) and an address in use (EADDRINUSE). What the
  permissions of the machine bring about, such as a PermissionError on another user's stale socket, is left out.
* *asyncio's own steps* are folded where nothing of this code can see them: the `stat` of 3.13 after `bind` is part of
  `Binds`. A callback runs to its next real suspension in one step.
* *Server identity.* A process that is started again has the same issuer and key in VerifierSession, and
  possibly another key in ReceiptTrust.
* *Cryptography* is ideal: signatures verify for exactly the key and payload they were made with.
  Fingerprints may collide.
* *Verifier* is called one call at a time, as its methods from synchronous code are; two threads in one
  verifier are not modelled.

## 7. Not modelled, and what comes next

| part | why not, or when |
|---|---|
| `verify`, `averify` and `close` of one `Verifier` from two threads | asyncio objects are not thread-safe and the code takes no lock: everything is possible |
| several `close()` at once | each clears what the other cleared; one at a time reaches the states that differ |
| `canonical_json`, Base64, duplicate keys in `from_json` | pure functions over text; their effect (a refused value, a refused spelling of a signature, an ideal signature) is modelled |
| L0 receipts (`protocol.py:sign_receipt`) | one HMAC over one string without state: an ideal MAC holds by construction. The key is made anew by each process, so L0 receipts do not survive a restart |
| built-in rules, `audit_cli` | not in the repository |
| license gate, telemetry, package metadata, build files | no state that a decision depends on |

The plan, in order: (1) the refinement of VerifierModes' one connection by
VerifierSession, for the methods they share; (2) ServerLifecycle's daemons as the servers of VerifierSession, so that a
client may be connected to a daemon that has lost the path.
