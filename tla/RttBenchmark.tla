---------------------------- MODULE RttBenchmark ----------------------------
(***************************************************************************)
(* What main.py runs: LatencyBenchmark with one protocol, or with TCP and  *)
(* then UDP, and the file of what was measured.  Orders are sent one after *)
(* another, each waits for an answer or a timeout, and what came back is   *)
(* taken for the answer to the order just sent: send_order (client.py)     *)
(* never looks at the order_id of a response.                              *)
(*                                                                         *)
(* An order is its number in the run; a response is the set of orders the  *)
(* server read with one recv: over TCP several orders that arrive together *)
(* are one request that does not parse, and get one answer.  It has `Bars`  *)
(* separators and a tail behind the last of them (the message text).  Over *)
(* TCP it may arrive in pieces; the loop of send_order counts separators   *)
(* and is over before a tail that comes alone, which the next call reads.  *)
(* Other pieces without a separator come along with the next one.          *)
(* Requests reach the server in order; responses may be lost and reordered *)
(* over UDP (the netem scenarios shape the server's egress), and are       *)
(* delayed over both.  The server may end at any moment, or not run at all. *)
(***************************************************************************)
EXTENDS Integers, Sequences, FiniteSets, SequencesExt

CONSTANTS
    Warmup,     \* warmup_orders
    Tests,      \* test_orders
    Bars        \* the separators of a response: 5

ASSUME CountsAssumption == Warmup \in Nat /\ Tests \in Nat /\ Bars \in Nat \ {0}

VARIABLES
    todo,       \* the protocols that are still to be tested
    protocol,   \* the one under test
    phase,      \* "connect", "warmup", "test", "over", and at last "reported"
    saved,      \* the protocols in logger.results
    alive,      \* the server runs
    sent,       \* orders sent so far
    waiting,    \* send_order is in recv
    requests,   \* orders on their way to the server or in its socket buffer
    flying,     \* responses under way, in the order they were sent
    inbox,      \* responses and pieces in the client's socket buffer
    tails,      \* where there is a tail that comes alone: "flying", "inbox"
    data,       \* what the loop of send_order has received
    open,       \* the server has not closed the connection; with UDP: is alive
    results     \* per order: what send_order made of it

program == <<todo, saved>>
server == <<alive, open>>
vars == <<program, protocol, phase, sent, waiting, requests, flying, inbox, tails, data, server, results>>

\* kind: what was recorded; answer: the responses of which a separator was read.
Result(kind, answer) == [kind |-> kind, answer |-> answer]

\* Bytes of a response, with so many of its separators.
Piece(orders, bars) == [of |-> orders, bars |-> bars]

NoData == [bars |-> 0, of |-> {}]

-----------------------------------------------------------------------------
(* main, run_comparison, run, _warmup and run_single_test.                 *)

\* connect: over UDP it asks nobody; over TCP it may also time out.
Connect ==
    /\ phase = "connect"
    /\ phase' \in IF protocol = "udp" THEN {"warmup"}
                  ELSE IF alive THEN {"warmup", "over"} ELSE {"over"}
    /\ open' = (alive /\ phase' = "warmup")
    /\ UNCHANGED <<program, protocol, sent, waiting, requests, flying, inbox, tails, data, alive, results>>

\* The run of a protocol is over and has disconnected, whatever became of it;
\* the next one begins, with a socket of its own ...
NextRun ==
    /\ phase = "over"
    /\ todo # <<>>
    /\ protocol' = Head(todo) /\ todo' = Tail(todo)
    /\ phase' = "connect"
    /\ sent' = 0
    /\ requests' = <<>> /\ flying' = <<>> /\ inbox' = <<>> /\ results' = <<>>
    /\ tails' = {} /\ data' = NoData
    /\ UNCHANGED <<saved, waiting, server>>

\* ... or the results are written to a file, if there are any.
Report ==
    /\ phase = "over"
    /\ todo = <<>>
    /\ phase' = "reported"
    /\ UNCHANGED <<program, protocol, sent, waiting, requests, flying, inbox, tails, data, server, results>>

\* Mutant: one order too many.
SendOneMore ==
    /\ phase \in {"warmup", "test"}
    /\ ~waiting
    /\ sent <= Warmup + Tests
    /\ phase = "test" <=> sent >= Warmup
    /\ sent' = sent + 1
    /\ waiting' = TRUE
    /\ requests' = Append(requests, sent + 1)
    /\ UNCHANGED <<program, protocol, phase, flying, inbox, tails, data, server, results>>

\* send_order sends the next order; over TCP the bytes go nowhere once the
\* server has closed.
Send ==
    /\ phase \in {"warmup", "test"}
    /\ ~waiting
    /\ sent < Warmup + Tests
    /\ phase = "test" <=> sent >= Warmup
    /\ sent' = sent + 1
    /\ waiting' = TRUE
    /\ requests' = IF open THEN Append(requests, sent + 1) ELSE requests
    /\ UNCHANGED <<program, protocol, phase, flying, inbox, tails, data, server, results>>

\* send or recv raises: the server has closed the connection, or nobody listens
\* at the UDP port.  A failed order in the test phase, the end of the run in the
\* warmup.
Broken ==
    /\ waiting
    /\ ~open
    /\ waiting' = FALSE
    /\ data' = NoData
    /\ phase' = IF phase = "warmup" THEN "over" ELSE phase
    /\ results' = Append(results, Result("error", data.of))
    /\ UNCHANGED <<program, protocol, sent, requests, flying, inbox, tails, server>>

BeginTest ==
    /\ phase = "warmup"
    /\ ~waiting
    /\ sent = Warmup
    /\ phase' = "test"
    /\ UNCHANGED <<program, protocol, sent, waiting, requests, flying, inbox, tails, data, server, results>>

\* The test orders that have a time: valid_latencies.
Measured == {i \in (Warmup + 1)..Len(results) : results[i].kind \in {"rtt", "eof"}}

AddResult == saved \cup {protocol}

\* Mutant: a result is made of complete runs only.
EndTestComplete ==
    /\ phase = "test"
    /\ ~waiting
    /\ sent = Warmup + Tests
    /\ phase' = "over"
    /\ saved' = IF Cardinality(Measured) = Tests THEN AddResult ELSE saved
    /\ UNCHANGED <<todo, protocol, sent, waiting, requests, flying, inbox, tails, data, server, results>>

\* The statistics are made, and saved unless nothing was measured.
EndTest ==
    /\ phase = "test"
    /\ ~waiting
    /\ sent = Warmup + Tests
    /\ phase' = "over"
    /\ saved' = IF Measured # {} THEN AddResult ELSE saved
    /\ UNCHANGED <<todo, protocol, sent, waiting, requests, flying, inbox, tails, data, server, results>>

-----------------------------------------------------------------------------
(* send_order: the receive loop and the timeout.                           *)

\* What one call of recv returns: a datagram, or all the bytes that are there.
Taken == IF protocol = "udp" THEN <<Head(inbox)>> ELSE inbox

\* recv has something to return, if only a tail.
Arrived == inbox # <<>> \/ "inbox" \in tails

\* The separators in some bytes, and data += chunk.
Separators(pieces) == SumFunction([i \in DOMAIN pieces |-> pieces[i].bars])

Joined == [bars |-> data.bars + Separators(Taken),
           of   |-> data.of \cup {Taken[i].of : i \in DOMAIN Taken}]

\* All separators have come; over UDP nobody counts them.
Complete == protocol = "udp" \/ Joined.bars >= Bars

Returns(kind, answer) ==
    /\ waiting' = FALSE
    /\ data' = NoData
    /\ results' = Append(results, Result(kind, answer))
    /\ UNCHANGED <<program, protocol, phase, sent, requests, flying, server>>

\* Mutant: the bytes are looked at and left in the socket (MSG_PEEK).
Peeked ==
    /\ waiting /\ inbox # <<>>
    /\ Complete
    /\ Returns("rtt", Joined.of)
    /\ UNCHANGED <<inbox, tails>>

\* A round-trip time is recorded (a tail alone never makes it complete) ...
Receive ==
    /\ waiting /\ inbox # <<>>
    /\ Complete
    /\ inbox' = SubSeq(inbox, Len(Taken) + 1, Len(inbox))
    /\ tails' = tails \ {"inbox"}
    /\ Returns("rtt", Joined.of)

\* ... or recv is called once more.
ReceivePart ==
    /\ waiting /\ Arrived
    /\ ~Complete
    /\ inbox' = <<>> /\ tails' = tails \ {"inbox"}
    /\ data' = Joined
    /\ UNCHANGED <<program, protocol, phase, sent, waiting, requests, flying, server, results>>

\* recv returns nothing, the loop breaks, and the time is recorded all the same.
ReceiveEnd ==
    /\ protocol = "tcp"
    /\ waiting
    /\ inbox = <<>> /\ flying = <<>> /\ tails = {} /\ ~open
    /\ Returns("eof", data.of)
    /\ UNCHANGED <<inbox, tails>>

\* Mutants: a timeout that counts as a measurement; no timeout over TCP.
TimeoutUnseen ==
    /\ waiting /\ ~Arrived
    /\ Returns("rtt", data.of)
    /\ UNCHANGED <<inbox, tails>>

TimeoutUdp ==
    /\ protocol = "udp"
    /\ waiting /\ ~Arrived
    /\ Returns("timeout", data.of)
    /\ UNCHANGED <<inbox, tails>>

\* socket.timeout: -1, and what the loop had received is dropped.
Timeout ==
    /\ waiting /\ ~Arrived
    /\ Returns("timeout", data.of)
    /\ UNCHANGED <<inbox, tails>>

-----------------------------------------------------------------------------
(* The server's receive loops and the network.                             *)

\* handle_tcp_client, handle_udp: one recv, one response.
Serve(n) ==
    /\ open
    /\ n \in 1..Len(requests)
    /\ protocol = "udp" => n = 1
    /\ requests' = SubSeq(requests, n + 1, Len(requests))
    /\ flying' = Append(flying, Piece({requests[i] : i \in 1..n}, Bars))
    /\ UNCHANGED <<program, protocol, phase, sent, waiting, inbox, tails, data, server, results>>

\* An exception in the handler: a TCP connection is closed, with whatever was
\* not read yet; over UDP only the request is gone.
ServeFails ==
    /\ open
    /\ requests # <<>>
    /\ open' = (protocol = "udp")
    /\ requests' = IF protocol = "udp" THEN Tail(requests) ELSE <<>>
    /\ UNCHANGED <<program, protocol, phase, sent, waiting, flying, inbox, tails, data, results, alive>>

\* The server ends; a request that it has not read is gone.
ServerEnds ==
    /\ alive
    /\ alive' = FALSE /\ open' = FALSE
    /\ requests' = <<>>
    /\ UNCHANGED <<program, protocol, phase, sent, waiting, flying, inbox, tails, data, results>>

\* The oldest response over TCP, or a piece of it, and any over UDP, arrives;
\* over TCP the tail may be missing.
Deliver(i, bars) ==
    /\ i \in 1..Len(flying)
    /\ protocol = "tcp" => i = 1 /\ "flying" \notin tails
    /\ protocol = "udp" => bars = Bars
    /\ inbox' = Append(inbox, Piece(flying[i].of, bars))
    /\ flying' = IF bars = flying[i].bars THEN RemoveAt(flying, i)
                 ELSE [flying EXCEPT ![i].bars = @ - bars]
    /\ \/ UNCHANGED tails
       \/ /\ protocol = "tcp" /\ bars = flying[i].bars
          /\ tails' = tails \cup {"flying"}
    /\ UNCHANGED <<program, protocol, phase, sent, waiting, requests, data, server, results>>

DeliverTail ==
    /\ "flying" \in tails
    /\ tails' = {"inbox"}
    /\ UNCHANGED <<program, protocol, phase, sent, waiting, requests, flying, inbox, data, server, results>>

Lose(i) ==
    /\ protocol = "udp"
    /\ i \in 1..Len(flying)
    /\ flying' = RemoveAt(flying, i)
    /\ UNCHANGED <<program, protocol, phase, sent, waiting, requests, inbox, tails, data, server, results>>

Init ==
    /\ \E run \in {<<"tcp">>, <<"udp">>, <<"tcp", "udp">>} :
          protocol = Head(run) /\ todo = Tail(run)
    /\ phase = "connect"
    /\ saved = {}
    /\ alive \in BOOLEAN
    /\ open = FALSE
    /\ sent = 0
    /\ waiting = FALSE
    /\ requests = <<>> /\ flying = <<>> /\ inbox = <<>> /\ tails = {}
    /\ data = NoData /\ results = <<>>

Next ==
    \/ Connect \/ NextRun \/ Report
    \/ Send \/ Broken \/ BeginTest \/ EndTest
    \/ Receive \/ ReceivePart \/ ReceiveEnd \/ Timeout
    \/ \E n \in 1..Len(requests) : Serve(n)
    \/ ServeFails \/ ServerEnds \/ DeliverTail
    \/ \E i \in 1..Len(flying) :
          Lose(i) \/ \E bars \in 1..flying[i].bars : Deliver(i, bars)

\* The client's thread runs and its socket timeout fires; server and network
\* owe nothing.
Fairness ==
    /\ WF_vars(Connect) /\ WF_vars(NextRun) /\ WF_vars(Report)
    /\ WF_vars(Send) /\ WF_vars(BeginTest) /\ WF_vars(EndTest)
    /\ WF_vars(Receive \/ ReceivePart \/ Timeout)

Spec == Init /\ [][Next]_vars /\ Fairness

-----------------------------------------------------------------------------
(* Properties.                                                             *)

Orders == 1..sent

\* Every variable has its type.
TypeOK ==
    /\ protocol \in {"tcp", "udp"} /\ saved \subseteq {"tcp", "udp"}
    /\ todo \in {<<>>, <<"udp">>} /\ alive \in BOOLEAN
    /\ phase \in {"connect", "warmup", "test", "over", "reported"}
    /\ sent \in 0..(Warmup + Tests)
    /\ waiting \in BOOLEAN /\ open \in BOOLEAN
    /\ requests \in Seq(Orders)
    /\ flying \in Seq([of : SUBSET Orders, bars : 1..Bars])
    /\ inbox \in Seq([of : SUBSET Orders, bars : 1..Bars])
    /\ tails \subseteq {"flying", "inbox"}
    /\ data \in [of : SUBSET SUBSET Orders, bars : 0..(Bars - 1)]
    /\ results \in Seq([kind : {"rtt", "eof", "timeout", "error"},
                       answer : SUBSET SUBSET Orders])

\* The measurements before the first order that timed out.
Undisturbed(i) == \A j \in 1..(i - 1) : results[j].kind = "rtt"

\* Until an order times out (or the connection ends), in the warmup included,
\* every recorded time is the time of its own order.
ExactUntilTimeout ==
    \A i \in 1..Len(results) :
        Undisturbed(i) /\ results[i].kind = "rtt" => results[i].answer = {{i}}

\* A time recorded for an answer (not for the end of the connection) is covered
\* by a response that came, and no response came to an order not yet sent.
AnswersCover ==
    \A i \in 1..Len(results) :
        LET came == UNION {results[j].answer : j \in 1..i}
        IN  /\ Cardinality({j \in 1..i : results[j].kind = "rtt"}) <= Cardinality(came)
            /\ UNION came \subseteq 1..i

\* From the first time recorded for the end of a TCP connection on, which no
\* answer covers, the server is gone and nothing more is answered in the run.
NothingAfterEnd ==
    \A i \in 1..Len(results) :
        results[i].kind = "eof" =>
            /\ protocol = "tcp" /\ ~open
            /\ \A j \in (i + 1)..Len(results) :
                  results[j].kind # "rtt" /\ results[j].answer = {}

\* Whatever is lost, late, out of order or cut in pieces: until the server closes
\* the connection no more times are recorded than responses came, none of them to
\* a later order.  The times that no response covers, which client.py:56-63 records
\* and benchmark.py:67 counts like the others, are all behind that point; so the
\* orders reported delivered are more than the server answered by no more than
\* the orders that ended after it closed.
TimesExplained == AnswersCover /\ NothingAfterEnd

\* The program ends, and has tried every protocol it was asked for, even if the
\* server never answers, ends half-way or does not run.
BenchmarkEnds == <>[](phase = "reported" /\ todo = <<>>)

\* A protocol with one test order that got a time is in the saved results,
\* whatever became of the other orders and of the other protocol.
MeasuredIsSaved ==
    \A p \in {"tcp", "udp"} :
        (protocol = p /\ Measured # {}) ~> [](p \in saved)

\* README.md, section 2: "For every order it records the round-trip time".
RttIsOwn ==
    \A i \in 1..Len(results) :
        i > Warmup /\ results[i].kind = "rtt" => i \in UNION results[i].answer

-----------------------------------------------------------------------------
(* The inductive invariant behind the safety theorems of RttProofs.        *)

\* Every order sent has its result, but the one that waits.
InOrder ==
    /\ waiting => phase \in {"warmup", "test"}
    /\ Len(results) = IF waiting THEN sent - 1 ELSE sent
    /\ ~waiting => data = NoData

\* Datagrams are not cut.
Whole ==
    protocol = "udp" =>
        /\ data = NoData /\ tails = {}
        /\ \A i \in 1..Len(inbox) : inbox[i].bars = Bars
        /\ \A i \in 1..Len(flying) : flying[i].bars = Bars

\* The responses that results were taken from, and those of which the client's
\* socket has got something.
Came == UNION {results[j].answer : j \in 1..Len(results)}
Seen == Came \cup data.of \cup {inbox[i].of : i \in 1..Len(inbox)}

\* An order is answered once: what still waits for the server has no response,
\* and a response that is whole and on its way is nowhere else.
AnsweredOnce ==
    /\ \A i, j \in 1..Len(requests) : i # j => requests[i] # requests[j]
    /\ \A i \in 1..Len(requests) :
          /\ \A response \in Seen : requests[i] \notin response
          /\ \A k \in 1..Len(flying) : requests[i] \notin flying[k].of
    /\ \A i, j \in 1..Len(flying) : i # j => flying[i].of # flying[j].of
    /\ \A i \in 1..Len(flying) : flying[i].bars = Bars => flying[i].of \notin Seen
    /\ protocol = "tcp" => \A i \in 2..Len(flying) : flying[i].bars = Bars

Timed == {j \in 1..Len(results) : results[j].kind = "rtt"}

\* The separators that the response being delivered still has to come.
Rest == IF flying # <<>> /\ flying[1].bars < Bars THEN flying[1].bars ELSE 0

\* What a time recorded for an answer used up: a datagram, or as many separators
\* as a response has.
Credit ==
    IF protocol = "udp"
    THEN /\ \A i, j \in 1..Len(inbox) : i # j => inbox[i].of # inbox[j].of
         /\ \A i \in 1..Len(inbox) : inbox[i].of \notin Came
         /\ Cardinality(Timed) <= Cardinality(Came)
    ELSE Bars * Cardinality(Timed) + data.bars + Separators(inbox) + Rest
            <= Bars * Cardinality(Seen)

\* While every order got its time, nothing is under way but the order that
\* waits, or the one response to it.
Exact ==
    Undisturbed(Len(results) + 1) =>
        \/ requests = <<>> /\ flying = <<>> /\ inbox = <<>> /\ data = NoData
        \/ waiting /\ requests = <<sent>> /\ flying = <<>> /\ inbox = <<>> /\ data = NoData
        \/ /\ waiting /\ requests = <<>>
           /\ Len(flying) <= 1
           /\ protocol = "udp" => Len(flying) + Len(inbox) <= 1
           /\ \A i \in 1..Len(flying) : flying[i].of = {sent}
           /\ \A i \in 1..Len(inbox) : inbox[i].of = {sent}
           /\ data.of \subseteq {{sent}}
           /\ flying # <<>> => data.bars + Separators(inbox) + flying[1].bars <= Bars

Accounted ==
    /\ TypeOK
    /\ InOrder
    /\ Whole
    /\ AnsweredOnce
    /\ Credit
    /\ AnswersCover
    /\ Exact
    /\ ExactUntilTimeout

\* Once the end was read nothing is under way any more but a request that nobody
\* will read, and the run does not connect again.
Ended ==
    (\E i \in 1..Len(results) : results[i].kind = "eof") =>
        /\ protocol = "tcp" /\ ~open /\ phase # "connect"
        /\ flying = <<>> /\ inbox = <<>> /\ data = NoData

IInv == Accounted /\ Ended /\ NothingAfterEnd
=============================================================================
