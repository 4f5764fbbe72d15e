------------------------- MODULE ServerConnections -------------------------
(***************************************************************************)
(* The TCP connections of HFTPServer: the accept loop of start(), one      *)
(* handler thread per admitted connection, and client_count, which bounds  *)
(* them.  client_count is written under self.lock and tested without it.   *)
(* The model follows the server until stop() returns; the handler threads  *)
(* are daemons and die with the process soon after.                        *)
(***************************************************************************)
EXTENDS Integers, Sequences, FiniteSets

CONSTANTS
    Clients,            \* the peers; each has one connection at a time
    MaxConnections,     \* server.max_connections of server_settings.json
    MaxArrivals         \* bound of the model: connections made in a behaviour

ASSUME ClientsAssumption == IsFiniteSet(Clients)
ASSUME LimitsAssumption == MaxConnections \in Nat /\ MaxArrivals \in Nat

VARIABLES
    running,    \* self.running
    acceptor,   \* where the thread of start() is
    backlog,    \* connections the kernel holds for accept (external)
    incoming,   \* the connection accept returned, none or one
    handler,    \* handler[c]: where the thread of c's connection is
    count,      \* self.client_count
    turnedAway, \* history: counted connections that never got a thread
    arrivals    \* connections made so far

vars == <<running, acceptor, backlog, incoming, handler, count, turnedAway, arrivals>>

\* The connections that have a handler thread.
Live == {c \in Clients : handler[c] # "none"}

\* A peer connects: the listening socket queues it.
Connect(c) ==
    /\ running
    /\ arrivals < MaxArrivals
    /\ c \notin Live \cup incoming
    /\ \A i \in 1..Len(backlog) : backlog[i] # c
    /\ backlog' = Append(backlog, c)
    /\ arrivals' = arrivals + 1
    /\ UNCHANGED <<running, acceptor, incoming, handler, count, turnedAway>>

-----------------------------------------------------------------------------
(* start(): the accept loop.                                               *)

\* accept returns; client_count += 1 under the lock.
Accept ==
    /\ acceptor = "accepting"
    /\ backlog # <<>>
    /\ incoming' = {Head(backlog)}
    /\ backlog' = Tail(backlog)
    /\ count' = count + 1
    /\ acceptor' = "counted"
    /\ UNCHANGED <<running, handler, turnedAway, arrivals>>

\* Mutant: `>=` on a count that does not include the newcomer any more.
FullLate == count > MaxConnections + 1

\* The test, without the lock: handlers may have left since Accept.
Full == count > MaxConnections

\* Mutant: `return` for `continue`.
RejectAndReturn ==
    /\ acceptor = "counted"
    /\ Full
    /\ incoming' = {}
    /\ turnedAway' = turnedAway + 1
    /\ acceptor' = "ended"
    /\ UNCHANGED <<running, backlog, handler, count, arrivals>>

\* client_socket.close() and continue: the count keeps the connection.
Reject ==
    /\ acceptor = "counted"
    /\ Full
    /\ incoming' = {}
    /\ turnedAway' = turnedAway + 1
    /\ acceptor' = "accepting"
    /\ UNCHANGED <<running, backlog, handler, count, arrivals>>

\* setsockopt and Thread.start.
Admit ==
    /\ acceptor = "counted"
    /\ ~Full
    /\ handler' = [c \in Clients |-> IF c \in incoming THEN "starting" ELSE handler[c]]
    /\ incoming' = {}
    /\ acceptor' = "accepting"
    /\ UNCHANGED <<running, backlog, count, turnedAway, arrivals>>

\* accept, setsockopt or Thread.start raises, or Ctrl-C: finally stop().
Stop ==
    /\ acceptor \in {"accepting", "counted"}
    /\ acceptor' = "ended"
    /\ running' = FALSE
    /\ backlog' = <<>>
    /\ incoming' = {}
    /\ turnedAway' = turnedAway + Cardinality(incoming)
    /\ UNCHANGED <<handler, count, arrivals>>

-----------------------------------------------------------------------------
(* handle_tcp_client.                                                      *)

Moves(c, from, to) ==
    /\ handler[c] = from
    /\ handler' = [handler EXCEPT ![c] = to]
    /\ UNCHANGED <<running, acceptor, backlog, incoming, turnedAway, arrivals>>

\* The test of `while self.running`.
LoopHead == IF running THEN "recv" ELSE "closing"

Enter(c) == Moves(c, "starting", LoopHead) /\ UNCHANGED count

\* recv returns a request.
Data(c) == Moves(c, "recv", "handling") /\ UNCHANGED count

\* recv returns nothing, times out after 30 s, or raises.
Leave(c) == Moves(c, "recv", "closing") /\ UNCHANGED count

\* The response is sent.
Respond(c) == Moves(c, "handling", LoopHead) /\ UNCHANGED count

\* Mutant: a handler that dies of an exception skips the finally block.
FailAtOnce(c) == Moves(c, "handling", "none") /\ UNCHANGED count

\* _process_data or sendall raises.
Fail(c) == Moves(c, "handling", "closing") /\ UNCHANGED count

\* finally: close ...
Close(c) == Moves(c, "closing", "closed") /\ UNCHANGED count

\* Mutant: the exception handler and the finally block both count down.
UncountTwice(c) == Moves(c, "closed", "none") /\ count' = count - 2

\* ... and client_count -= 1 under the lock.
Uncount(c) == Moves(c, "closed", "none") /\ count' = count - 1

Init ==
    /\ running = TRUE
    /\ acceptor = "accepting"
    /\ backlog = <<>>
    /\ incoming = {}
    /\ handler = [c \in Clients |-> "none"]
    /\ count = 0
    /\ turnedAway = 0
    /\ arrivals = 0

Next ==
    \/ \E c \in Clients : Connect(c)
    \/ Accept \/ Reject \/ Admit \/ Stop
    \/ \E c \in Clients :
          \/ Enter(c) \/ Data(c) \/ Leave(c) \/ Respond(c) \/ Fail(c)
          \/ Close(c) \/ Uncount(c)

\* The accept loop and a thread that has something to do keep running; peers
\* owe nothing.
Fairness ==
    /\ WF_vars(Accept) /\ WF_vars(Reject) /\ WF_vars(Admit)
    /\ \A c \in Clients :
          /\ WF_vars(Enter(c)) /\ WF_vars(Respond(c))
          /\ WF_vars(Close(c)) /\ WF_vars(Uncount(c))

Spec == Init /\ [][Next]_vars /\ Fairness

-----------------------------------------------------------------------------
(* Properties.                                                             *)

\* Where a handler thread may be.
Stages == {"starting", "recv", "handling", "closing", "closed"}

\* Every variable has its type; client_count never goes below zero.
TypeOK ==
    /\ running \in BOOLEAN
    /\ acceptor \in {"accepting", "counted", "ended"}
    /\ backlog \in Seq(Clients)
    /\ incoming \subseteq Clients
    /\ handler \in [Clients -> {"none"} \cup Stages]
    /\ count \in Nat /\ turnedAway \in Nat /\ arrivals \in Nat

\* client_count is exactly the connections with a thread, the one in the accept
\* loop, and every connection that was ever turned away: it never undercounts,
\* and each rejection raises it for good.
CountExplained ==
    count = Cardinality(Live) + Cardinality(incoming) + turnedAway

\* max_connections holds although the test is not under the lock: a stale count
\* errs on the side of refusing.
AtMostMax == Cardinality(Live) <= MaxConnections

\* The connection between accept and its thread is one, and in no other place.
InBetween ==
    /\ acceptor = "counted" => \E c \in Clients : incoming = {c}
    /\ acceptor # "counted" => incoming = {}
    /\ incoming \cap Live = {}

\* A connection waits in the backlog once, and before it is accepted.
BacklogApart ==
    \A i \in 1..Len(backlog) :
        /\ backlog[i] \notin Live \cup incoming
        /\ \A j \in 1..Len(backlog) : backlog[i] = backlog[j] => i = j

\* The inductive invariant behind the theorems of ServersProofs.
IInv == TypeOK /\ InBetween /\ BacklogApart /\ CountExplained /\ AtMostMax

\* The accept loop never waits for a handler: whoever is in the backlog is
\* admitted or refused.
QueuedDecided ==
    \A c \in Clients :
        (\E i \in 1..Len(backlog) : backlog[i] = c)
            ~> (\A i \in 1..Len(backlog) : backlog[i] # c)

\* What the server prints when it refuses a connection, "Max connections
\* reached" (main_server.py:103), is true when it does so.
FullWhenRejecting ==
    (acceptor = "counted" /\ Full) => Cardinality(Live) >= MaxConnections
=============================================================================
