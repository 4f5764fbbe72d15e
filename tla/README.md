# Models and proofs of the HFT exchange simulator

The repository is a benchmark of TCP against UDP: an exchange server with an
order book and a matching engine (`hft_server`), a client that measures
round-trip times (`hft_client/main.py`), and a web dashboard that sends orders
continuously (`hft_client/web_server.py`). This directory holds TLA+ models of
the parts with logic of their own, TLC configurations that check them on small
instances, and TLAPS proofs of the main results for instances of any size.
All paths below are relative to `src/`.

## 1. The system

| Part | State | Operations | Interacts with |
|---|---|---|---|
| Order handler, matcher, order book (`hft_server/src/{handler,matcher,order_book}.py`) | per symbol a sorted list of bids and one of asks; the dictionary of resting orders; the list of trades | `handle_order`: parse, validate, match, record, rest or cancel, answer | called with the bytes of one `recv` by every server below |
| Threaded server (`main_server.py`, `HFTPServer`) | `running`, `client_count`, one thread per connection, one UDP thread | accept loop, `handle_tcp_client`, `handle_udp`, `stop` | all its threads call one order handler, without a lock |
| Asyncio server (`AsyncHFTPServer`) | `running`, `client_count` | one coroutine per connection, a datagram protocol | calls the order handler between two awaits |
| Benchmark client (`hft_client/main.py`, `hft_client/src/{client,benchmark}.py`) | the socket with whatever has arrived in it, the list of times, the results | `connect`, `send_order`, warmup, test, comparison of protocols | one request and one answer at a time, over a network shaped by `tc netem` |
| Dashboard (`web_server.py`, `static/js/app.js`) | `running`, `client`, `thread`, counters; two buttons per page | start and stop events, the trading thread | several event threads and trading threads over one manager, partly under its lock |
| Statistics (`hft_client/src/utils.py`, `_build_stats`, `get_stats`) | a list of times, the dashboard's rolling window of 2000 | percentiles, histogram, loss rate | fed by `send_order` of either client, and by the handler |
| `DummyHandler`, wire format, command lines, containers, scripts, slides | | | |

What is hard here, and the list `hazards` of `PROJECT.json` gives at its lines:

* **Order of arrival against priority.** A list is sorted by price and by the
  timestamp the *client* put into the order, with ties left in order of arrival.
  A request may sweep several levels, fill the last one in part, and rest.
* **Threads.** The handler was written for one request at a time and the
  threaded server calls it from all its threads: a list is tested, read again,
  filled and popped in separate steps, and `list.sort` empties the list while
  it calls its key function.
* **Counts under a lock that are tested outside it** (`client_count`).
* **Late answers.** A client that timed out sends the next order and takes the
  next bytes that come for its answer; over TCP these may be half an answer.
* **Cancellation and resets.** A coroutine of the asyncio server may be
  cancelled at each of its awaits, those of its `finally` block included.
* **Start and stop from several threads**, with a join that gives up.

What each part must guarantee: the books are never crossed, sorted, complete
and free of dead orders; every trade is at a fair price and within the limits;
what is answered is what was done; every request is answered once; the
connection limit holds and each count means what it says; a server that ends
can end; a recorded time is the
time of the order it is recorded for, what is measured is saved, and the numbers
that are shown are those of the orders they claim to be about; trading stops when
it is stopped and leaves nothing behind.

## 2. Modules

| Module | Models | Uses |
|---|---|---|
| `Matching` | the order handler with its books, one request after another | |
| `PriceTimeExchange` | abstract: what a price-time exchange promises, one atomic step per request, the allotment in closed form | |
| `MatchingRefinement` | the refinement mapping from `Matching` to `PriceTimeExchange` | both |
| `SumLemmas` | lemmas about the sums of the community modules, sizes of unions, least elements, sequences with an element more | TLAPS |
| `MatchingProofs` | theorems about `Matching` | `Matching`, `SumLemmas` |
| `RefinementProofs` | the theorem that `Matching` implements `PriceTimeExchange` | `MatchingRefinement`, `MatchingProofs` |
| `ThreadedExchange` | the same handler run by several threads, and the mapping of one thread to `Matching` | instance of `Matching` |
| `ThreadedProofs` | theorems about `ThreadedExchange` | `ThreadedExchange`, `SumLemmas` |
| `ServerConnections` | accept loop, connection threads, `client_count` | |
| `AsyncConnections` | the same of the asyncio server: start-up, coroutines, resets, cancellation | |
| `ServersProofs` | theorems about both | `ServerConnections`, `AsyncConnections`, TLAPS |
| `RttBenchmark` | `main.py`, client, network and the server's receive loops | |
| `RttProofs` | theorems about `RttBenchmark` | `RttBenchmark`, `SumLemmas` |
| `LatencyReports` | counters, rolling window, percentiles, histogram | |
| `LatencyProofs` | theorems about `LatencyReports` | `LatencyReports`, `SumLemmas` |
| `TradingManager` | the dashboard's start, stop and trading threads, and its buttons | |
| `TradingProofs` | theorems about `TradingManager` | `TradingManager`, TLAPS |
| `MCServers` | `main()` of the server: one of the two servers, as `--mode` says | `ServerConnections`, `AsyncConnections` |
| `MCDashboard` | one instance of both halves of the dashboard | `TradingManager`, `MCReports` |
| `MCMatching`, `MCThreaded`, `MCReports` | the requests, symbols and bounds of the instances | |

### Matching

The state is the state of the code: `objs` are the `Order` objects, named by
order of arrival; `book[s][side]` is `OrderBook.bids` / `asks`; `registry` is
`ExchangeState.orders`; `tape` is `ExchangeState.trades` (`OrderBook.trades` is
its projection to a symbol). `cur`, `fills` and `exec` are the local variables
of `_execute_order` and of the matcher's loop. The actions follow the control
flow: `RejectUnparsed`, `RejectInvalid`, `Accept` (up to the entry of the
loop), `MatchStep` (one round: trade, both fills, pop), `RecordTrade` (one round
of the loop over the trades), and the three endings `FinishMarket`,
`FinishFilledLimit`, `RestLimit`. The bid and ask branches are mirror images in
the code and one definition here. `InsertPosition` inserts where append followed
by a stable sort would put the order; `ListSteps` checks exactly that against a
definition of stable sorting.

### ThreadedExchange

Each thread has a `frame` with its place in the handler and its local
variables. Each action is a stretch between two places where CPython 3.11 (the
version of both Dockerfiles) can hand the interpreter lock to another thread:
the entry of a Python function, the return of a builtin, the end of a loop. So
the test of a loop condition, the price test, the second `get_best_ask`, the
computation of the quantity, the fill and the pop are separate. `SortBegin` and
`SortEnd` model what `list.sort` does when its key is a Python function: the list
looks empty meanwhile, and is overwritten at the end; if something was appended
(`bare` is then FALSE) that is lost and `ValueError` is raised. `Raise` is an
exception that leaves the handler: the connection is closed without an answer.

### ServerConnections

`count` is `client_count`; `incoming` is the connection between `accept` and its
thread; `handler[c]` is where the thread of a connection is. `Accept` counts,
`Reject` and `Admit` test later and without the lock. The backlog and the peers
that connect are external. `turnedAway` is a history variable.

### AsyncConnections

A step is what a coroutine does between two awaits that suspend it, so the
handling of a request is one step, and the lock around `client_count`, whose
holders await nothing, needs none. `phase` is where `start()` is: TCP
connections are accepted from "listening" on, `running` (here `up`, since
`MCServers` joins this module with `ServerConnections`) is set one await later.
`coroutine[c]` is where the coroutine of a connection is; "flushing" is
`wait_closed` with bytes that the peer has not taken. `End` is what
`asyncio.run` does after Ctrl-C: each coroutine gets a `CancelledError` where
it waits. One in its loop goes to its `finally`; one in its `finally` loses the
rest of it; one that never ran never does. `CloseRaises` is `wait_closed`
raising the exception a connection was lost with, which CPython 3.11's streams
do after a reset: `client_count -= 1` is skipped. `leaked` counts these.

### RttBenchmark

An order is a number; a response is the set of orders the server read with one
`recv`, with `Bars` separators. The server's egress may delay responses, over
UDP lose and reorder them, and over TCP cut them in pieces; `Receive` and
`ReceivePart` are the loop that counts separators. The bytes behind the last
separator of a response, its tail, may come alone (`tails`): `send_order` is done
by then, and the next call finds them. `Timeout` may happen at any
moment at which nothing has arrived. `results[i].answer` is what the i-th
`send_order` really received, `kind` what it recorded: "eof" is the time until
the server closed the connection. `todo` and `NextRun` are `run_comparison`: the
protocols of `--protocol`, each with a connection of its own; `saved` is
`logger.results`. The server may be down, or end at any moment; a UDP socket
learns of that as an error of its next call.

### LatencyReports

`counters` and `window` are the counters of the manager, `results` the history
they are compared with. The dashboard counts, resets and takes the snapshot of
`_build_stats` under one lock, so an update may come at any state, and its
content is the operator `BuildStats`. `Percentile`, `TwiceMedian` and
`ServerP99` follow the three index computations of the code, with lists from 1
and percentages in tenths. `Ascending`, what `sorted()` returns, is defined by
counting: at place k is the time with fewer than k below it and at least k not
above it; `Valid` is the filter of the results, a recursive function on the
prefixes. Times are integers in the unit of the bounds, and
the rounding to two decimals is modelled for the loss rate.

### TradingManager

Start event k, the thread it may create and that thread's connection share the
number k. A `with self._lock` block is one action, everything else is cut at the
same switch points as above. `recalled` and `overlapped` are history variables;
`tally.orphans` counts the orders recorded as lost because their client was
taken away. Both ways into the `except` branches are there: a `connect` that fails,
and an exception after the connection was adopted (`Raise`). `MCDashboard` runs
this module and `LatencyReports` in one instance; they share no state, since the
statistics decide nothing in the manager.

## 3. Runs

| Run | Instance | Shows |
|---|---|---|
| `matching_core` | 4 requests over two symbols, prices, timestamps | the safety properties of the books, trades and responses; how a list may change; every order is answered; `Matching` implements `PriceTimeExchange` |
| `threaded_solo` | 1 thread, 4 requests | `ThreadedExchange` with one thread implements `Matching` |
| `threaded_pair` | 2 threads, 3 requests, 2 symbols | what survives the missing lock |
| `threaded_lost_order` (violation) | 2 threads, 3 requests | an order answered PENDING is in no list |
| `threaded_limit` (violation) | 2 threads, 4 requests | a LIMIT order trades beyond its limit |
| `servers` | either server, 3 peers, 5 connections, limit 2 of the threaded one | the counts, the limit, the accept loop; the asyncio server's first steps and its end |
| `connections_leak` (violation) | threaded server, the same | refusals while there is room |
| `rtt` | 1 warmup and 3 test orders; TCP, UDP, or both in turn | what a recorded time is the time of, what is saved, and that the program ends |
| `rtt_own` (violation) | 1 warmup and 2 test orders | a time recorded for the wrong order |
| `dashboard` | either 2 starts, 1 stop, 1 page, 2 orders; or 6 results over 3 times and a loss, window of 4, 2 bounds | one trader, no leak, and an end; what the dashboard shows, and that the reports agree |
| `trading_recall` (violation) | the starts and stops of the same | a stopped thread trades after all |
| `reports_loss` (violation) | the results of the same | a loss rate of 0 % while every order is lost |

**Bounds.** `MaxRequests`, `MaxArrivals`, `MaxConnects`, `MaxStarts`, `MaxStops`,
`MaxOrders`, `MaxResults`, `Warmup` and `Tests` bound behaviours; each is a guard of one
action. Three requests are the fewest in which an order sweeps two levels or a
third order is placed between two, and the fourth comes to the books these
leave; two threads are the fewest that race, and three requests
let them meet over an order that already rests; four let the head change to one
outside a limit. With a limit of two, three peers and five connections there are
refusals, a slot given back, and a refusal after that. Three test orders let one
late answer shift the next two. Responses have two separators instead of five:
the one cut that leaves a half on either side. Six results fill a window of four
and push two out, at every position of losses; each bound of the histogram is
also a time; at these lengths the 50th and 75th percentiles fall on their
boundaries, the higher ones on the last element (for the others there is the
theorem). Two starts and one stop are what it takes to
restart over a thread that has not noticed yet; the page may be loaded again at
any moment, which gives it the clicks of a second page. Deadlock is not checked:
clients may stop sending, and the models stop at their bounds.

**Fairness.** A started request goes on (`Matching`: the handler waits for
nothing; `ThreadedExchange`: the interpreter hands its lock around). The accept
loop accepts what is queued, and a connection thread with a request finishes it
and runs its `finally`; nobody has to connect, send or leave. The event loop of
the asyncio server runs what is ready; no peer has to take what it is sent, which
is why `Exits` excepts the coroutines that wait for that: `wait_closed` has no
limit, and a peer that does not read can keep the server from ending. The client's
thread runs and its socket timeout fires; server and network owe nothing. The
threads of the dashboard run, and `connect` and `send_order` return one day;
users owe nothing, and no exception need come.

**What survives threads without a lock** (`threaded_pair`): symbols do not
disturb each other (`Isolation`); fills and tape agree until a handler raises
(`FillsAccounted`); an overfill is at most one stale quantity per thread until a
handler raises or a negative quantity is traded (`OverfillBounded`); a handler never misreports or overfills its own order
(`OwnFillsExact`); concurrent sorts may lose an order and never double it
(`HeldOnce`); each request has one outcome (`OneOutcome`), and no interleaving
makes a handler loop for ever (`Served`). `OverfillBounded` has its two conditions
because it is false without them, which the proof brought to light: once two
handlers have overfilled a resting order, a third that took it from the list
before it was popped computes `min` of the two remaining quantities, which is
negative (`matcher.py:79`), makes a trade of it and goes on with more left than
was asked for. This takes three threads and four requests; `threaded_pair` has
two, so there the second condition always holds, and the theorem is what covers
more threads. `FillsAccounted` and `OwnFillsExact` hold through it.

**The counts.** `CountExplained` and `TotalExplained` say what the two
`client_count` are, and so what is wrong with them: each refusal stays counted in
the threaded server (`connections_leak`), each close that raises in the asyncio
one, where the number is only printed.

**What a recorded time stands for.** `TimesExplained` has two parts. A time
recorded for an answer is covered by a response: of any first orders of a run no
more have one than responses came. A time recorded because the server closed the
connection is covered by nothing: `send_order` leaves its loop at the empty `recv`
and returns the time (`client.py:56-63`), and `run_single_test` takes it for a
measurement like any other (`benchmark.py:67`). What holds is that these times are
all at the end: from the first of them on the server is gone and no order is
answered. So over TCP the benchmark reports as delivered, beside the answered
orders, each one that waited when the connection was closed, or that was sent
after that without an error.

**The shown loss.** Once an order was answered the loss rate is right to half of
its last digit (`StatsTruthful`). A rate of 0 does
not mean that nothing was lost: it is rounded to two decimals (`web_server.py:117`),
so one loss in more than 20000 orders shows as 0. An earlier form of the property,
with an equivalence, held in the run with its six orders and broke in the proof.
Before the first answer the rate is the constant 0.0, whatever was lost
(`web_server.py:134`): that is `reports_loss`, a finding.

**Starts that overlap.** `SoleTrader` and `StopCostsOneOrder` say what holds unless
a start was accepted beside a live session. With two starts that pass the test of
`running` together (`web_server.py:50`) two threads do trade with one client; what
holds then is that the manager comes to rest and can start again (`RestsClean`)
and that every thread ends when trading is off (`TradingEnds`).

**What does not survive** is in `findings`, with the sentence of the documentation that
says otherwise. A lock around
`handle_order` would leave no stretches to interleave, and `threaded_solo` shows
that what remains is `Matching`. The other four
findings: a refused connection is never counted down; `send_order` does not look
at the `order_id` of an answer; a start hides an earlier stop from a thread that
is still connecting; a dashboard that gets no answers shows no loss.

## 4. Proofs

`MatchingProofs`, for any symbols, requests, size limits and number of requests:

* `Invariance`: `IInv` is inductive. `IInv` joins `TypeOK`; `InHandler` (the
  order inside the handler is the last one parsed and a valid one); `NoOverfill`;
  `EntriesLive` and `EntriesDistinct` (a list holds each order once, never the
  one in the handler, and only LIMIT orders of its symbol and side with
  something left); `NothingLost` (an order of that kind is in its list);
  `PriceTimeOrder`; `NotCrossed`; and `FairPrice`. The properties of the runs
  are not inductive alone: a book is not crossed after `RestLimit` because the
  loop ended on a head that does not cross, which says something about the
  other entries only in a sorted list, which stays sorted because an insertion
  at `InsertPosition` keeps it so; a pop takes the order that was filled, and no
  other, because entries are live and distinct.
* From it `TypeCorrect`, `NeverCrossed`, `SortedLists`, `NeverOverfilled`,
  `TradesFair`, `BooksComplete`, and the action properties `PriorityRespected` and
  `BooksPopOrSort` (`ListSteps`: the insertion position is where a stable sort
  would put the new order, because the list was sorted before).
* `AccountsKept`: `AInv` is inductive. It joins `IInv`, `FillsAccounted`,
  `AnsweredOnce` and `RepliesTruthful` with what links them: the local list holds
  trades of the order in the handler, and the running totals are the sums of
  those already on the tape (`ExecutionSums`); the prices it trades at only get
  worse, because the lists are sorted, so the last one is the worst, which a
  response promises (`PricesWorsen`). From it `QuantityConserved`, `AnswersTrue`
  and `OneAnswerEach`.

`RefinementProofs`, for the same: `Matching` implements `PriceTimeExchange`
(`Refinement`). The exchange gives the i-th of the resting orders that cross, in
order of priority, the least of what it offers and of what the ones before it
have left of the request; the code takes the head until it stops crossing. The
mapping hands back what the order in the handler took, so nothing happens to the
exchange until the response, and that step must be one `Submit`. `RInv` adds to
`AInv` what it needs of the walk so far (`Greedy`): whoever the order traded with
crosses it and was ahead of all that are left, is used up but for the last one,
and made one trade with it, in their order; what they gave adds up to what it
filled. `WalkAllots` shows that a walk with these properties gives the closed
form, by a sum over those ahead; `OffersAfter`, `TradesSettled` and
`PriceAnswered` that list, trades and price after the response are those of
`Submit`. Refused requests are `Refuse` and `RefuseUnparsed`, every other step
leaves the mapped variables alone (the sums move a quantity from "remaining" to
"given").

`ThreadedProofs`, for any finite sets of threads and symbols, any requests of the
right type and every interleaving: `ThreadedInvariant`, with the conjuncts of
`IInv` at the end of `ThreadedExchange`:

* `HandlerKnows` (what a thread knows at each place: the order it took is on the
  other side of its symbol and was accepted), `TradesName`, `RepliesName`, and
  `Outcome` (each order is with one thread, in one response, or failed);
* an order that its handler has not appended yet is in no list and no sort, and
  nobody has taken it (`Fresh`, `Unlisted`): so nobody else fills it, which gives
  `OwnFillsExact`, with `SizedRight` for the step from `Size` to `FillBoth`;
* `Listed`: what lists and running sorts hold is of the right symbol and side,
  and no order is twice in all of them together. The sort is the hard step: it
  replaces the list by a permutation of what it saved, for which the proof shows
  that the ranks of a strict order are all taken (`RanksTaken`,
  `SortPermutes`); what other threads appended meanwhile is lost, and cannot
  come back. `NeverDoubled` then counts: disjoint lists, each without repetitions;
* `FillsAccounted` is a sum over the threads of which each step moves one
  summand;
* `StaleBounded`: what is filled, plus what the threads at "fill" are about to
  add, is at most one quantity per thread. When a thread sizes, what it adds and
  what is filled are one quantity at most, and each of the others is about to add
  one at most; a fill only moves a quantity from the one sum to the other.

From it `TypeCorrect`, `OwnFills`, `NothingUnaccounted`, `OverfillsBounded`,
`NeverDoubled` and `OneEnd`.

`SymbolsIsolated` (`Isolation`) needs more: `IInv` says nothing of the order in
the lists, or of what a test was good for. `SInv`, in the middle of
`ThreadedProofs`, adds `Peaceful(s)` for every symbol that no two handlers worked
on at once (`SoleWorker`):

* `Undisturbed`: what the one handler tested is still so when it uses it. The
  list it found non-empty still is, its order is open and crosses the head, the
  head is the order it took, the quantity is the smaller of the two; when it gives
  up, the head does not cross; the list it sorts is sorted but for its own order
  at the end, and nobody appends meanwhile, so the sort does not raise;
* `WithinQty`, `SortedLists`, `EntriesOpen` (nothing filled rests, but for what is
  about to be popped), `NoneMissing` (what is open rests, or its handler has not
  put it there yet) and `Uncrossed`. That an order which comes to rest crosses
  nobody is where they meet: it does not cross the head, and the list is sorted.

Eleven lemmas (`PeaceLooks` to `PeaceEnds`) are for a step of that one handler.
`PeaceElsewhere` is for all other steps, which leave alone what the symbol owns
(`WorkTouches`). A request for a symbol on which somebody works ends the peace:
`contended` then has the symbol.

`OneThreadIsMatching` (`ImplementsMatching`, for any set of one thread) rests on
`SInv` too: with one thread nothing is contended, so `Undisturbed` says of each
place in the handler that what was read still holds. `OneInv` adds that the order
in the handler is the last and all others are answered, so that the bounds on
requests of the two modules agree. The mapping shows the trade at `FillBoth` and
the resting of an order at `SortEnd`: a list about to be popped is shown without
its head, one that was appended to and not sorted yet without its last
(`Settled`). So `Look`, `Peek`, `Take`, `Size`, `Drop`, `Rest` and `SortBegin`
show nothing, and each other step is one of `Matching`'s (`ReceiveShows` to
`SortEndShows`). Two of them are more than bookkeeping: `LoopDone`, that a handler
which left the loop would find nothing more to trade with, and `SortInserts`, that
`append` and a stable sort put an order where `Insert` does.

`RttProofs`, for any numbers of warmup and test orders and any positive number of
separators: `RttInvariant`. Its core is an account (`Credit`): every time recorded for
an answer used up a datagram, or as many separators as a response has; so
separators that were consumed, kept, received or on their way are at most those of
the responses that came. Half answers left behind by a timeout only take credit
away. `Exact`
says what can be under way while every order so far got its time, and gives
`TimesAreOwn`. `TimesAreExplained` is `TimesExplained`: the part about answers also
needs that the server answers each order once (`AnsweredOnce`) and that datagrams
are not cut (`Whole`), the part about the end of the connection that nothing is
under way once it was read (`Ended`).

`TradingProofs`, for any numbers of starts, stops and orders:
`ManagerInvariant`. A run that is marked as running has a session on its way that
will take it back (`RunHasSession`); `client` is the connection of a thread that
has adopted it and not left (`ClientLive`); a connection that somebody took to
close is nobody's any more (`Untouched`). Unless a start was accepted beside
a live session there is one session at a time (`Alone`), which uses its own
connection (`OwnConnection`) and can lose an order to `stop()` only as its last
(`OrphanLast`). From it `OneTrader`, `OneOrderLost`, `ReadyAgain`.

`ServersProofs`, for any finite set of peers and any limit of connections.
`IInv` of the threaded server is
inductive (the count is the sum of the connections with a thread, the one
between accept and its thread, and those turned away; and the test, although it
is made later than the count, can only be too strict), from which
`CountIsExplained` and `LimitHolds` follow.

For the asyncio server, and any number of connections,
`AIInv`, types and `TotalExplained`, is inductive. The cancellation step is the
one that needs an argument: the coroutines in their loop stay counted, the ones
in their `finally` are disjoint from them and are leaked, so the sum is the same.

`LatencyProofs`, for any number of orders, any length of the window and any
ascending bounds: `StatsTruthful` (`StatisticsTruthful`) and `ReportsAgree`
(`ProgramsAgree`). The inductive invariant `LInv` says that the counters count
`results` and that the window is the last of `Valid(results)`; it holds through
two lemmas, that a filter goes on from the filter of the prefix (`ValidOfAppend`,
by minimal counterexample on the prefixes) and that the last n of the last n and
one more are the last n of all (`LastOfAppend`). The rest is about lists:
`sorted()` as defined here sorts and loses nothing (`SortingRearranges`); a
percentile splits the list at p (`PercentileSplits`, `PercentileOfSorted`),
percentiles are in order (`PercentilesOrdered`), the index of `get_stats`, which
has no cap, is never out of the list and is the one of the clients
(`ServerP99Agrees`); a time is in the one bucket it lies in (`BucketWithin`); the
rounded rate is off by half of its last digit at most (`RateRounds`).

`SumLemmas` holds what these proofs share: `SumFunction` is a fold, which TLAPS
sees through its recursive function on sets; since the induction theorems of the
library cannot be used (an operator is their parameter), each lemma takes a
minimal counterexample among the subsets of a finite set.

The modules assume of their constants: finite sets of peers, threads and symbols
(there is no limit on connections in the threaded exchange, but there are
finitely many at a time), positive sizes and separators, natural bounds, requests
that are records of the parsed fields, times above zero, ascending bounds of the
histogram. All are evaluated by TLC in the runs.

Only model-checked: the liveness properties, which are out of this prover's reach.
Every invariant and every action property that a run checks is proved. Only proved: the type invariants of
`ServerConnections` and `AsyncConnections`.

## 5. Abstractions and what is left out

* Prices are integers: the code compares and copies them. Values that are not
  ordered (nan) are outside the model.
* Message texts, formats and times of processing. Requests that do not parse
  are one action.
* `ThreadedExchange` leaves out `ExchangeState.orders` and `Order.status`: no
  handler reads them. (Under threads the status of a resting order may be
  stale; nothing depends on it.)
* A request travels whole, in `RttBenchmark`. Its answers have two separators. A
  piece of an answer without a separator, other than the tail, comes along with the
  next piece: alone it would only make the loop call `recv` once more.
* `AsyncConnections` leaves out what is in the requests: that is `Matching`.
* `LatencyReports` leaves out mean and deviation, and the rate of the updates;
  quotients are exact, where the code divides floats.
* Not modelled: `DummyHandler` (keeps nothing), the wire format (no state), the
  methods nothing in the program calls (`remove_order`, `get_order`,
  `match_orders`, `get_spread`), the layout of result files, charts, scripts,
  containers.

## 6. Plan

Done: the modules above, in this order: `Matching` with its proofs, the abstract
exchange and the refinement, the threads, the connections, the client, the
dashboard; then the asyncio server with its proofs, the statistics with theirs,
and the comparison of protocols.

Then the proofs: the sums of `Matching`, `ThreadedExchange`, `RttBenchmark` and
`TradingManager`, the refinement of `PriceTimeExchange`, and of `Matching` by one
thread.

Last, the statistics of `LatencyReports` as a whole. Nothing of the plan is left but
what section 5 leaves out.
