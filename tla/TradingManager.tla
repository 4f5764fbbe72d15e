--------------------------- MODULE TradingManager ---------------------------
(***************************************************************************)
(* The dashboard of web_server.py: TradingManager.start and stop, each     *)
(* called by the thread of a Socket.IO event, the trading threads they     *)
(* start and stop, and the two buttons of every open page (app.js).        *)
(*                                                                         *)
(* start never takes the lock to look at `running`; a trading thread looks *)
(* at it between orders, and uses self.client, whoever's that is by then.  *)
(* An action is what runs between two places where the interpreter may     *)
(* switch threads; a `with self._lock` block is one action.                *)
(*                                                                         *)
(* The k-th start event, the trading thread it may start and the           *)
(* connection that thread makes share the number k.  An event is handled   *)
(* any time after the click; the answer reaches the page at once (a click  *)
(* made before an answer arrives is one made before it is sent, and        *)
(* handled later).  The join of stop may end before the thread it waits    *)
(* for: it gives up after 2 s, and connect and send_order may take longer  *)
(* (name resolution has no timeout, and each recv has one of its own).     *)
(***************************************************************************)
EXTENDS Integers, FiniteSets

CONSTANTS
    Pages,        \* the pages open in browsers
    MaxStarts,    \* bounds of the model: start events,
    MaxStops,     \* stop events,
    MaxOrders     \* and the count at which a thread begins no other order

ASSUME BoundsAssumption == MaxStarts \in Nat /\ MaxStops \in Nat /\ MaxOrders \in Nat

Sessions == 1..MaxStarts

VARIABLES
    running,     \* self.running
    client,      \* self.client: whose connection, 0 for None
    thread,      \* self.thread: the last one created, 0 for None
    tally,       \* self._total, _successful, _timeouts
    starts,      \* the handler of each start event: where it is, for which page
    stops,       \* the handler of each stop event, and the client it took
    trade,       \* each trading thread: where it is and its local variables
    conn,        \* the connection of each trading thread
    stoppable,   \* the pages whose Stop button is enabled, and Start is not
    overlapped,  \* history: a start was accepted beside a live session
    recalled     \* history: threads that stop() was called for as they connected

vars == <<running, client, thread, tally, starts, stops, trade, conn,
          stoppable, overlapped, recalled>>

-----------------------------------------------------------------------------
(* The pages: app.js.                                                      *)

Unused(f) == {i \in DOMAIN f : f[i].pc = "unused"}
FirstUnused(f) == CHOOSE i \in Unused(f) : \A j \in Unused(f) : i <= j

\* A click on Start; the button stays enabled until the answer.
ClickStart(p) ==
    /\ p \notin stoppable
    /\ Unused(starts) # {}
    /\ starts' = [starts EXCEPT ![FirstUnused(starts)] = [pc |-> "check", from |-> {p}]]
    /\ UNCHANGED <<running, client, thread, tally, stops, trade, conn,
                   stoppable, overlapped, recalled>>

ClickStop(p) ==
    /\ p \in stoppable
    /\ Unused(stops) # {}
    /\ stops' = [stops EXCEPT ![FirstUnused(stops)] = [pc |-> "take", from |-> {p}, took |-> 0]]
    /\ UNCHANGED <<running, client, thread, tally, starts, trade, conn,
                   stoppable, overlapped, recalled>>

\* The page loses its socket, or is loaded again.
Reload(p) ==
    /\ p \in stoppable
    /\ stoppable' = stoppable \ {p}
    /\ UNCHANGED <<running, client, thread, tally, starts, stops, trade, conn,
                   overlapped, recalled>>

-----------------------------------------------------------------------------
(* start() and handle_start_trading.                                       *)

StartAt(k, from, to) ==
    /\ starts[k].pc = from
    /\ starts' = [starts EXCEPT ![k].pc = to]

\* Where a thread still looks at the manager's state, and a start on its way.
Trading == {"connect", "failed", "adopt", "loop", "send", "recv", "count", "leave"}
Starting == {"reset", "flag", "spawn", "launch"}

\* `if self.running: return`
Check(k) ==
    /\ StartAt(k, "check", IF running THEN "reply" ELSE "reset")
    /\ overlapped' = \/ overlapped
                     \/ ~running /\ \E i \in Sessions \ {k} :
                          trade[i].pc \in Trading \/ starts[i].pc \in Starting
    /\ UNCHANGED <<running, client, thread, tally, stops, trade, conn, stoppable,
                   recalled>>

\* The counters, under the lock.
Reset(k) ==
    /\ StartAt(k, "reset", "flag")
    /\ tally' = [total |-> 0, successful |-> 0, timeouts |-> 0, orphans |-> 0]
    /\ UNCHANGED <<running, client, thread, stops, trade, conn, stoppable,
                   overlapped, recalled>>

Flag(k) ==
    /\ StartAt(k, "flag", "spawn")
    /\ running' = TRUE
    /\ UNCHANGED <<client, thread, tally, stops, trade, conn, stoppable,
                   overlapped, recalled>>

Spawn(k) ==
    /\ StartAt(k, "spawn", "launch")
    /\ thread' = k
    /\ UNCHANGED <<running, client, tally, stops, trade, conn, stoppable,
                   overlapped, recalled>>

Launch(k) ==
    /\ StartAt(k, "launch", "reply")
    /\ trade' = [trade EXCEPT ![k].pc = "connect"]
    /\ UNCHANGED <<running, client, thread, tally, stops, conn, stoppable,
                   overlapped, recalled>>

\* trading_started, to the page that asked, also when nothing was started.
ReplyStarted(k) ==
    /\ StartAt(k, "reply", "done")
    /\ stoppable' = stoppable \cup starts[k].from
    /\ UNCHANGED <<running, client, thread, tally, stops, trade, conn,
                   overlapped, recalled>>

-----------------------------------------------------------------------------
(* stop() and handle_stop_trading.                                         *)

StopAt(j, from, to) ==
    /\ stops[j].pc = from
    /\ stops' = [stops EXCEPT ![j].pc = to]

\* Mutant: running is left to the trading thread.
TakeOnly(j) ==
    /\ stops[j].pc = "take"
    /\ stops' = [stops EXCEPT ![j].pc = "disconnect", ![j].took = client]
    /\ client' = 0
    /\ UNCHANGED <<running, thread, tally, starts, trade, conn, stoppable,
                   overlapped, recalled>>

\* The first block, under the lock.
Take(j) ==
    /\ stops[j].pc = "take"
    /\ stops' = [stops EXCEPT ![j].pc = "disconnect", ![j].took = client]
    /\ running' = FALSE
    /\ client' = 0
    /\ recalled' = recalled \cup {k \in Sessions : trade[k].pc \in {"connect", "adopt"}}
    /\ UNCHANGED <<thread, tally, starts, trade, conn, stoppable, overlapped>>

\* Mutant: the client is dropped and not disconnected.
DropClient(j) ==
    /\ StopAt(j, "disconnect", "join")
    /\ UNCHANGED <<running, client, thread, tally, starts, trade, conn, stoppable,
                   overlapped, recalled>>

Closed(k) == IF k = 0 THEN conn ELSE [conn EXCEPT ![k] = "closed"]

Disconnect(j) ==
    /\ stops[j].pc = "disconnect"
    /\ stops' = [stops EXCEPT ![j].pc = "join", ![j].took = 0]
    /\ conn' = Closed(stops[j].took)
    /\ UNCHANGED <<running, client, thread, tally, starts, trade, stoppable,
                   overlapped, recalled>>

\* join raises on a thread that is created and not started yet: no answer.
Join(j) ==
    /\ StopAt(j, "join", IF thread # 0 /\ trade[thread].pc = "unborn"
                         THEN "done" ELSE "reply")
    /\ UNCHANGED <<running, client, thread, tally, starts, trade, conn, stoppable,
                   overlapped, recalled>>

\* trading_stopped, to the page that asked.
ReplyStopped(j) ==
    /\ StopAt(j, "reply", "done")
    /\ stoppable' = stoppable \ stops[j].from
    /\ UNCHANGED <<running, client, thread, tally, starts, trade, conn,
                   overlapped, recalled>>

-----------------------------------------------------------------------------
(* _run(): a trading thread.                                               *)

TradeAt(k, from, to) ==
    /\ trade[k].pc = from
    /\ trade' = [trade EXCEPT ![k].pc = to]

Connect(k) ==
    /\ \/ TradeAt(k, "connect", "adopt") /\ conn' = [conn EXCEPT ![k] = "open"]
       \/ TradeAt(k, "connect", "failed") /\ UNCHANGED conn
    /\ UNCHANGED <<running, client, thread, tally, starts, stops, stoppable,
                   overlapped, recalled>>

\* An exception between two orders: sending an event to the pages, for one, is
\* inside the try as well.
Raise(k) ==
    /\ TradeAt(k, "loop", "failed")
    /\ UNCHANGED <<running, client, thread, tally, starts, stops, conn, stoppable,
                   overlapped, recalled>>

\* The except branches: connection_error, to every page.
Failed(k) ==
    /\ TradeAt(k, "failed", "leave")
    /\ stoppable' = {}
    /\ UNCHANGED <<running, client, thread, tally, starts, stops, conn,
                   overlapped, recalled>>

\* Under the lock: the connection is the manager's, unless stop() has come.
Adopt(k) ==
    /\ \/ /\ ~running
          /\ TradeAt(k, "adopt", "leave")
          /\ conn' = [conn EXCEPT ![k] = "closed"]
          /\ UNCHANGED client
       \/ /\ running
          /\ TradeAt(k, "adopt", "loop")
          /\ client' = k
          /\ UNCHANGED conn
    /\ UNCHANGED <<running, thread, tally, starts, stops, stoppable,
                   overlapped, recalled>>

\* Mutant: `while True`.
LoopForever(k) ==
    /\ tally.total < MaxOrders
    /\ TradeAt(k, "loop", "send")
    /\ UNCHANGED <<running, client, thread, tally, starts, stops, conn, stoppable,
                   overlapped, recalled>>

\* `while self.running`
Loop(k) ==
    /\ running => tally.total < MaxOrders
    /\ TradeAt(k, "loop", IF running THEN "send" ELSE "leave")
    /\ UNCHANGED <<running, client, thread, tally, starts, stops, conn, stoppable,
                   overlapped, recalled>>

\* self.client.send_order: AttributeError, swallowed, if there is no client.
Send(k) ==
    /\ trade[k].pc = "send"
    /\ trade' = IF client = 0
                THEN [trade EXCEPT ![k].pc = "count", ![k].result = "orphan"]
                ELSE [trade EXCEPT ![k].pc = "recv", ![k].using = client]
    /\ UNCHANGED <<running, client, thread, tally, starts, stops, conn, stoppable,
                   overlapped, recalled>>

\* send_order returns a time or -1; an exception if its socket was closed.
Return(k) ==
    /\ trade[k].pc = "recv"
    /\ \E result \in IF conn[trade[k].using] = "open" THEN {"time", "timeout"}
                     ELSE {"orphan"} :
          trade' = [trade EXCEPT ![k].pc = "count", ![k].result = result, ![k].using = 0]
    /\ UNCHANGED <<running, client, thread, tally, starts, stops, conn, stoppable,
                   overlapped, recalled>>

One(condition) == IF condition THEN 1 ELSE 0

\* Mutant: the `else` of the timeout test is missing.
CountBoth(k) ==
    /\ trade[k].pc = "count"
    /\ trade' = [trade EXCEPT ![k].pc = "loop", ![k].result = "none"]
    /\ tally' = [total      |-> tally.total + 1,
                 successful |-> tally.successful + 1,
                 timeouts   |-> tally.timeouts + One(trade[k].result # "time"),
                 orphans    |-> tally.orphans + One(trade[k].result = "orphan")]
    /\ UNCHANGED <<running, client, thread, starts, stops, conn, stoppable,
                   overlapped, recalled>>

\* Under the lock; then the events for the pages, the sleep, the next round.
Count(k) ==
    /\ trade[k].pc = "count"
    /\ trade' = [trade EXCEPT ![k].pc = "loop", ![k].result = "none"]
    /\ tally' = [total      |-> tally.total + 1,
                 successful |-> tally.successful + One(trade[k].result = "time"),
                 timeouts   |-> tally.timeouts + One(trade[k].result # "time"),
                 orphans    |-> tally.orphans + One(trade[k].result = "orphan")]
    /\ UNCHANGED <<running, client, thread, starts, stops, conn, stoppable,
                   overlapped, recalled>>

\* Mutant: the finally block clears the client alone.
LeaveRunning(k) ==
    /\ trade[k].pc = "leave"
    /\ trade' = [trade EXCEPT ![k].pc = "hangup", ![k].took = client]
    /\ client' = 0
    /\ UNCHANGED <<running, thread, tally, starts, stops, conn, stoppable,
                   overlapped, recalled>>

\* finally, under the lock: whatever client the manager has now ...
Leave(k) ==
    /\ trade[k].pc = "leave"
    /\ trade' = [trade EXCEPT ![k].pc = "hangup", ![k].took = client]
    /\ client' = 0
    /\ running' = FALSE
    /\ UNCHANGED <<thread, tally, starts, stops, conn, stoppable, overlapped, recalled>>

\* ... is disconnected ...
HangUp(k) ==
    /\ trade[k].pc = "hangup"
    /\ trade' = [trade EXCEPT ![k].pc = "farewell", ![k].took = 0]
    /\ conn' = Closed(trade[k].took)
    /\ UNCHANGED <<running, client, thread, tally, starts, stops, stoppable,
                   overlapped, recalled>>

\* ... and trading_stopped goes to every page.
Farewell(k) ==
    /\ TradeAt(k, "farewell", "ended")
    /\ stoppable' = {}
    /\ UNCHANGED <<running, client, thread, tally, starts, stops, conn,
                   overlapped, recalled>>

-----------------------------------------------------------------------------
StartStep(k) ==
    Check(k) \/ Reset(k) \/ Flag(k) \/ Spawn(k) \/ Launch(k) \/ ReplyStarted(k)

StopStep(j) == Take(j) \/ Disconnect(j) \/ Join(j) \/ ReplyStopped(j)

TradeStep(k) ==
    \/ Connect(k) \/ Failed(k) \/ Adopt(k) \/ Loop(k) \/ Send(k) \/ Return(k)
    \/ Count(k) \/ Leave(k) \/ HangUp(k) \/ Farewell(k)

Init ==
    /\ running = FALSE
    /\ client = 0
    /\ thread = 0
    /\ tally = [total |-> 0, successful |-> 0, timeouts |-> 0, orphans |-> 0]
    /\ starts = [k \in Sessions |-> [pc |-> "unused", from |-> {}]]
    /\ stops = [j \in 1..MaxStops |-> [pc |-> "unused", from |-> {}, took |-> 0]]
    /\ trade = [k \in Sessions |->
                  [pc |-> "unborn", using |-> 0, took |-> 0, result |-> "none"]]
    /\ conn = [k \in Sessions |-> "none"]
    /\ stoppable = {}
    /\ overlapped = FALSE
    /\ recalled = {}

Next ==
    \/ \E p \in Pages : ClickStart(p) \/ ClickStop(p) \/ Reload(p)
    \/ \E k \in Sessions : StartStep(k)
    \/ \E j \in 1..MaxStops : StopStep(j)
    \/ \E k \in Sessions : TradeStep(k) \/ Raise(k)

\* Threads that can run do; users need not click, and no exception is owed.
Fairness ==
    /\ \A k \in Sessions : WF_vars(StartStep(k)) /\ WF_vars(TradeStep(k))
    /\ \A j \in 1..MaxStops : WF_vars(StopStep(j))

Spec == Init /\ [][Next]_vars /\ Fairness

-----------------------------------------------------------------------------
(* Properties.                                                             *)

StartRecord == [pc : Starting \cup {"unused", "check", "reply", "done"},
                from : SUBSET Pages]

StopRecord == [pc : {"unused", "take", "disconnect", "join", "reply", "done"},
               from : SUBSET Pages, took : Sessions \cup {0}]

TradeRecord == [pc : Trading \cup {"unborn", "hangup", "farewell", "ended"},
                using : Sessions \cup {0}, took : Sessions \cup {0},
                result : {"none", "time", "timeout", "orphan"}]

\* Every variable has its type, and every order counts as one of the two.
TypeOK ==
    /\ running \in BOOLEAN /\ overlapped \in BOOLEAN
    /\ client \in Sessions \cup {0} /\ thread \in Sessions \cup {0}
    /\ tally \in [total : Nat, successful : Nat, timeouts : Nat, orphans : Nat]
    /\ tally.total = tally.successful + tally.timeouts
    /\ starts \in [Sessions -> StartRecord]
    /\ stops \in [1..MaxStops -> StopRecord]
    /\ trade \in [Sessions -> TradeRecord]
    /\ conn \in [Sessions -> {"none", "open", "closed"}]
    /\ stoppable \subseteq Pages /\ recalled \subseteq Sessions

\* The one who will close connection k.
Held(k) ==
    \/ client = k
    \/ trade[k].pc = "adopt"
    \/ \E i \in Sessions : trade[i].pc = "hangup" /\ trade[i].took = k
    \/ \E j \in 1..MaxStops : stops[j].pc = "disconnect" /\ stops[j].took = k

\* As long as no start was accepted while an earlier session was still on its
\* way in or out: one thread trades, with its own open connection while trading
\* is on, and no connection is forgotten, wherever stop() comes in between.
SoleTrader ==
    ~overlapped =>
      /\ Cardinality({k \in Sessions : trade[k].pc \in Trading}) <= 1
      /\ \A k \in Sessions :
            /\ running /\ trade[k].pc \in {"loop", "send", "recv", "count"} =>
                  client = k /\ conn[k] = "open"
            /\ conn[k] = "open" => Held(k)

\* Under the same condition a stop costs one order at most: counted as lost
\* though the network lost nothing, because the client went away under it.
StopCostsOneOrder == ~overlapped => tally.orphans <= 1

Quiet ==
    /\ \A k \in Sessions : trade[k].pc \in {"unborn", "ended"}
    /\ \A k \in Sessions : starts[k].pc \notin Starting

\* When no session is on, whatever the starts and stops that overlapped, the
\* manager is ready for the next start: no run is left marked as running, and
\* without overlap no connection is left open.
RestsClean ==
    Quiet => /\ ~running /\ client = 0
             /\ ~overlapped /\ (\A j \in 1..MaxStops : stops[j].pc # "disconnect") =>
                  \A k \in Sessions : conn[k] # "open"

\* Once trading is off for good every trading thread ends, also the ones a
\* stop did not wait for.
TradingEnds ==
    \A k \in Sessions :
        <>[](~running) => <>[](trade[k].pc \in {"unborn", "ended"})

\* The comment at web_server.py:150: if stop() was called while the thread was
\* connecting, it cleans up at once; it never gets to trade.
StoppedInConnect ==
    \A k \in recalled : trade[k].pc \notin {"loop", "send", "recv", "count"}

-----------------------------------------------------------------------------
(* The inductive invariant behind the safety theorems of TradingProofs.    *)

\* A session that is on its way in, or trading, or on its way out.
Active(k) == trade[k].pc \in Trading \/ starts[k].pc \in Starting

\* Where a thread may be once it has adopted its connection, before it leaves.
Adopted == {"loop", "send", "recv", "count", "failed", "leave"}

\* Who asked for connection k to be closed and has not done it yet.
TakenBy(k) ==
    \/ \E i \in Sessions : trade[i].pc = "hangup" /\ trade[i].took = k
    \/ \E j \in 1..MaxStops : stops[j].pc = "disconnect" /\ stops[j].took = k

\* A thread exists once its start launched it.
Unlaunched ==
    \A k \in Sessions :
        starts[k].pc \in Starting \cup {"unused", "check"} => trade[k].pc = "unborn"

\* Whoever marks a run or adopts a connection is there to take it back.
RunHasSession ==
    running => \E k \in Sessions : \/ trade[k].pc \in Trading
                                   \/ starts[k].pc \in {"spawn", "launch"}

ClientLive == client # 0 => trade[client].pc \in Adopted

\* A connection that is not adopted yet is nobody's, one that is given up is
\* not the manager's any more.
Untouched ==
    \A k \in Sessions :
        /\ trade[k].pc \in {"unborn", "connect"} => conn[k] = "none"
        /\ trade[k].pc = "adopt" => conn[k] = "open"
        /\ TakenBy(k) => trade[k].pc \notin {"unborn", "connect", "adopt"}
        /\ TakenBy(k) => client # k

\* Without overlap: one session at a time, which uses its own connection and
\* has lost no order before trading is off.
Alone == \A i, k \in Sessions : Active(i) /\ Active(k) => i = k

OwnConnection ==
    \A k \in Sessions :
        /\ running /\ trade[k].pc \in {"loop", "send", "recv", "count"} =>
              client = k /\ conn[k] = "open"
        /\ trade[k].pc = "recv" => trade[k].using = k
        /\ conn[k] = "open" => Held(k)

OrphanLast ==
    /\ tally.orphans <= 1
    /\ \A k \in Sessions :
          /\ \/ starts[k].pc \in {"flag", "spawn", "launch"}
             \/ trade[k].pc \in {"connect", "adopt", "send", "recv", "count"}
             \/ trade[k].pc = "loop" /\ running
             => tally.orphans = 0
          /\ trade[k].pc = "count" /\ trade[k].result = "orphan" => ~running

IInv ==
    /\ TypeOK
    /\ Unlaunched
    /\ RunHasSession
    /\ ClientLive
    /\ Untouched
    /\ ~overlapped => Alone /\ OwnConnection /\ OrphanLast
=============================================================================
