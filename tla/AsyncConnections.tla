-------------------------- MODULE AsyncConnections --------------------------
(***************************************************************************)
(* The TCP connections of AsyncHFTPServer: start(), stop() and one         *)
(* coroutine of handle_tcp_client per connection, on one event loop.       *)
(*                                                                         *)
(* A step is what a coroutine does between two awaits that suspend it.     *)
(* handle_order has none, and client_count_lock is never waited for: no    *)
(* holder awaits anything.  asyncio.run cancels the coroutines that are    *)
(* left when start() ends, and waits for them.                             *)
(***************************************************************************)
EXTENDS Integers, FiniteSets

CONSTANTS
    Peers,          \* the peers; each has one connection at a time
    MaxConnects     \* bound of the model: connections made in a behaviour

ASSUME PeersAssumption == IsFiniteSet(Peers)
ASSUME ConnectsAssumption == MaxConnects \in Nat

VARIABLES
    phase,      \* of start(): "listening", "serving" or "ended"
    up,         \* self.running
    coroutine,  \* coroutine[c]: where the coroutine of c's connection is
    broken,     \* the connections lost with an exception (reset, write error)
    total,      \* self.client_count
    leaked,     \* history: coroutines that ended without counting down
    connects    \* connections made so far

avars == <<phase, up, coroutine, broken, total, leaked, connects>>

At(places) == {c \in Peers : coroutine[c] \in places}

-----------------------------------------------------------------------------
(* start() and stop().                                                     *)

\* Mutant: running is not set.
OpenUnset ==
    /\ phase = "listening"
    /\ phase' = "serving"
    /\ UNCHANGED <<up, coroutine, broken, total, leaked, connects>>

\* create_datagram_endpoint returns and running = True.  TCP connections are
\* accepted since start_server returned.
OpenUdp ==
    /\ phase = "listening"
    /\ phase' = "serving"
    /\ up' = TRUE
    /\ UNCHANGED <<coroutine, broken, total, leaked, connects>>

\* Mutant: stop() leaves the coroutines alone.
EndOnly ==
    /\ phase # "ended"
    /\ phase' = "ended"
    /\ up' = FALSE
    /\ UNCHANGED <<coroutine, broken, total, leaked, connects>>

\* Ctrl-C, or the UDP port is taken, and asyncio.run cancels the coroutines (stop()
\* follows only Ctrl-C: a failed start leaves start() before its try). One that
\* serves goes to its finally, with bytes still to be sent or without; one that
\* is in its finally has none left, and one that has not begun never does.
End ==
    /\ phase # "ended"
    /\ phase' = "ended"
    /\ up' = FALSE
    /\ \E unsent \in SUBSET At({"reading"}) :
          coroutine' = [c \in Peers |->
              IF c \in unsent \cup At({"draining"}) THEN "flushing"
              ELSE IF c \in At({"reading"}) THEN "closing" ELSE "none"]
    /\ leaked' = leaked + Cardinality(At({"closing", "flushing"}))
    /\ UNCHANGED <<broken, total, connects>>

-----------------------------------------------------------------------------
(* handle_tcp_client.                                                      *)

Goes(c, from, to) ==
    /\ coroutine[c] \in from
    /\ coroutine' = [coroutine EXCEPT ![c] = to]

\* The test of `while self.running`; after the loop the writer is closed.
NextRound == IF up THEN "reading" ELSE "closing"

\* A peer connects and the event loop makes a task for it.
Arrive(c) ==
    /\ phase # "ended"
    /\ connects < MaxConnects
    /\ Goes(c, {"none"}, "created")
    /\ connects' = connects + 1
    /\ broken' = broken \ {c}
    /\ UNCHANGED <<phase, up, total, leaked>>

\* The first step: client_count += 1, and the test of the loop.
Begin(c) ==
    /\ Goes(c, {"created"}, NextRound)
    /\ total' = total + 1
    /\ UNCHANGED <<phase, up, broken, leaked, connects>>

\* A request is read, handled and answered; drain has nothing to wait for ...
Serve(c) ==
    /\ Goes(c, {"reading"}, NextRound)
    /\ UNCHANGED <<phase, up, broken, total, leaked, connects>>

\* ... or waits until the peer has taken what was sent before.
Drain(c) ==
    /\ Goes(c, {"reading"}, "draining")
    /\ UNCHANGED <<phase, up, broken, total, leaked, connects>>

Drained(c) ==
    /\ Goes(c, {"draining"}, NextRound)
    /\ UNCHANGED <<phase, up, broken, total, leaked, connects>>

\* read returns nothing, nothing came for 30 s, or handle_order raised.
Depart(c) ==
    /\ \E place \in {"closing", "flushing"} : Goes(c, {"reading"}, place)
    /\ UNCHANGED <<phase, up, broken, total, leaked, connects>>

\* The connection is reset, or a write fails.
Break(c) ==
    /\ coroutine[c] \in {"reading", "draining", "flushing"}
    /\ broken' = broken \cup {c}
    /\ UNCHANGED <<phase, up, coroutine, total, leaked, connects>>

\* read or drain raises, or there is nothing to flush to any more.
Raised(c) ==
    /\ c \in broken
    /\ Goes(c, {"reading", "draining", "flushing"}, "closing")
    /\ UNCHANGED <<phase, up, broken, total, leaked, connects>>

\* close() lets the peer take what was sent before.
Flushed(c) ==
    /\ Goes(c, {"flushing"}, "closing")
    /\ UNCHANGED <<phase, up, broken, total, leaked, connects>>

\* Mutant: the count goes down before wait_closed too.
CountDownTwice(c) ==
    /\ c \notin broken
    /\ Goes(c, {"closing"}, "none")
    /\ total' = total - 2
    /\ UNCHANGED <<phase, up, broken, leaked, connects>>

\* wait_closed returns, and client_count -= 1.
CountDown(c) ==
    /\ c \notin broken
    /\ Goes(c, {"closing"}, "none")
    /\ total' = total - 1
    /\ UNCHANGED <<phase, up, broken, leaked, connects>>

\* wait_closed raises what the connection was lost with: finally ends there.
CloseRaises(c) ==
    /\ c \in broken
    /\ Goes(c, {"closing"}, "none")
    /\ leaked' = leaked + 1
    /\ UNCHANGED <<phase, up, broken, total, connects>>

AsyncInit ==
    /\ phase = "listening"
    /\ up = FALSE
    /\ coroutine = [c \in Peers |-> "none"]
    /\ broken = {}
    /\ total = 0
    /\ leaked = 0
    /\ connects = 0

\* The steps of c's coroutine that wait for nobody outside.
Runs(c) == Begin(c) \/ Raised(c) \/ CountDown(c) \/ CloseRaises(c)

AsyncNext ==
    \/ OpenUdp \/ End
    \/ \E c \in Peers :
          \/ Arrive(c) \/ Serve(c) \/ Drain(c) \/ Drained(c) \/ Depart(c)
          \/ Break(c) \/ Flushed(c) \/ Runs(c)

\* The event loop runs what is ready; a peer owes nothing, not even to take the
\* bytes it is sent.
AsyncFairness ==
    /\ WF_avars(OpenUdp)
    /\ \A c \in Peers : WF_avars(Runs(c))

AsyncSpec == AsyncInit /\ [][AsyncNext]_avars /\ AsyncFairness

-----------------------------------------------------------------------------
(* Properties.                                                             *)

\* The coroutines that have counted their connection.
Counted == At({"reading", "draining", "flushing", "closing"})

Places == {"none", "created", "reading", "draining", "flushing", "closing"}

\* Every variable has its type.
AsyncTypeOK ==
    /\ phase \in {"listening", "serving", "ended"}
    /\ up \in BOOLEAN
    /\ coroutine \in [Peers -> Places]
    /\ broken \subseteq Peers
    /\ total \in Int /\ leaked \in Nat /\ connects \in Nat

\* client_count, the "Total" that is printed with every connection, is the
\* connections that are served or being closed and, for good, each one whose
\* close ended in an exception (main_server.py:288); resets, cancellations and
\* connections that come before start() is done included.
TotalExplained == total = Cardinality(Counted) + leaked

\* Once the server is up, a connection that was accepted gets its turn to be
\* read, unless the server ends first.
AcceptedRead ==
    \A c \in Peers :
        (phase = "serving" /\ coroutine[c] = "created")
            ~> (coroutine[c] = "reading" \/ phase = "ended")

\* When the server ends every coroutine does, except for peers that do not take
\* what they were sent: close() waits for them without a limit.
Exits ==
    \A c \in Peers :
        phase = "ended" ~> coroutine[c] \in {"none", "flushing"}
=============================================================================
