---------------------------- MODULE TradingProofs ----------------------------
(***************************************************************************)
(* Proofs about TradingManager, for any number of start and stop events,   *)
(* any set of pages and any number of orders.                              *)
(***************************************************************************)
EXTENDS TradingManager, SumLemmas

-----------------------------------------------------------------------------
(* What the three kinds of threads change of their own place.              *)

StartPlaces == Starting \cup {"unused", "check", "reply", "done"}
StopPlaces == {"unused", "take", "disconnect", "join", "reply", "done"}
TradePlaces == Trading \cup {"unborn", "hangup", "farewell", "ended"}

LEMMA StartAtFacts ==
    ASSUME TypeOK, NEW k \in Sessions, NEW from, NEW to \in StartPlaces,
           StartAt(k, from, to)
    PROVE  /\ starts' \in [Sessions -> StartRecord]
           /\ starts[k].pc = from /\ starts'[k].pc = to
           /\ \A i \in Sessions : i # k => starts'[i] = starts[i]
<1>1. starts \in [Sessions -> StartRecord] /\ starts' = [starts EXCEPT ![k].pc = to]
  BY DEF TypeOK, StartAt
<1>2. [starts[k] EXCEPT !.pc = to] \in StartRecord
  BY <1>1 DEF StartRecord, StartPlaces
<1> QED
  BY <1>1, <1>2 DEF StartAt, StartRecord

LEMMA StopAtFacts ==
    ASSUME TypeOK, NEW j \in 1..MaxStops, NEW from, NEW to \in StopPlaces,
           StopAt(j, from, to)
    PROVE  /\ stops' \in [1..MaxStops -> StopRecord]
           /\ stops[j].pc = from /\ stops'[j].pc = to
           /\ \A i \in 1..MaxStops : i # j => stops'[i] = stops[i]
<1>1. stops \in [1..MaxStops -> StopRecord] /\ stops' = [stops EXCEPT ![j].pc = to]
  BY DEF TypeOK, StopAt
<1>2. [stops[j] EXCEPT !.pc = to] \in StopRecord
  BY <1>1 DEF StopRecord, StopPlaces
<1> QED
  BY <1>1, <1>2 DEF StopAt, StopRecord

LEMMA TradeAtFacts ==
    ASSUME TypeOK, NEW k \in Sessions, NEW from, NEW to \in TradePlaces,
           TradeAt(k, from, to)
    PROVE  /\ trade' \in [Sessions -> TradeRecord]
           /\ trade[k].pc = from /\ trade'[k].pc = to
           /\ trade'[k].using = trade[k].using /\ trade'[k].took = trade[k].took
           /\ trade'[k].result = trade[k].result
           /\ \A i \in Sessions : i # k => trade'[i] = trade[i]
<1>1. trade \in [Sessions -> TradeRecord] /\ trade' = [trade EXCEPT ![k].pc = to]
  BY DEF TypeOK, TradeAt
<1>2. [trade[k] EXCEPT !.pc = to] \in TradeRecord
  BY <1>1 DEF TradeRecord, TradePlaces
<1> QED
  BY <1>1, <1>2 DEF TradeAt, TradeRecord

\* Closing the connection someone took, if any.
LEMMA ClosedFacts ==
    ASSUME TypeOK, NEW m \in Sessions \cup {0}
    PROVE  /\ Closed(m) \in [Sessions -> {"none", "open", "closed"}]
           /\ \A i \in Sessions : Closed(m)[i] = IF i = m THEN "closed" ELSE conn[i]
<1>1. 0 \notin Sessions
  BY DEF Sessions
<1> QED
  BY <1>1 DEF TypeOK, Closed

\* The history of overlaps only grows.
LEMMA OverlapStays ==
    ASSUME [Next]_vars, TypeOK
    PROVE  overlapped => overlapped'
BY DEF Next, vars, StartStep, StopStep, TradeStep, ClickStart, ClickStop, Reload,
       Check, Reset, Flag, Spawn, Launch, ReplyStarted, Take, Disconnect, Join,
       ReplyStopped, Connect, Raise, Failed, Adopt, Loop, Send, Return, Count, Leave,
       HangUp, Farewell

-----------------------------------------------------------------------------
(* The invariant is inductive: the pages.                                  *)

\* The first unused entry is an unused one.
LEMMA FirstIsUnused ==
    ASSUME NEW n \in Nat, NEW f, DOMAIN f = 1..n, Unused(f) # {}
    PROVE  FirstUnused(f) \in Unused(f) /\ FirstUnused(f) \in 1..n
<1>1. Unused(f) \subseteq Nat
  BY DEF Unused
<1>2. \E i \in Unused(f) : \A j \in Unused(f) : i <= j
  BY <1>1, LeastElement
<1>3. FirstUnused(f) \in Unused(f)
  BY <1>2, Zenon DEF FirstUnused
<1> QED
  BY <1>3 DEF Unused

LEMMA ClickKeepsIInv ==
    ASSUME IInv, NEW p \in Pages, ClickStart(p) \/ ClickStop(p) \/ Reload(p)
    PROVE  IInv'
<1>1. /\ UNCHANGED <<running, client, thread, tally, trade, conn, overlapped, recalled>>
      /\ stoppable' \subseteq Pages
  BY DEF ClickStart, ClickStop, Reload, IInv, TypeOK
<1>2. /\ starts' \in [Sessions -> StartRecord]
      /\ \A k \in Sessions : /\ starts'[k].pc \in Starting <=> starts[k].pc \in Starting
                             /\ starts'[k].pc \in {"unused", "check"}
                                  <=> starts[k].pc \in {"unused", "check"}
                             /\ starts[k].pc \in Starting => starts'[k].pc = starts[k].pc
  <2>1. CASE ClickStart(p)
    <3> DEFINE k == FirstUnused(starts)
    <3>1. starts \in [Sessions -> StartRecord] /\ DOMAIN starts = 1..MaxStarts
      BY DEF IInv, TypeOK, Sessions
    <3>2. k \in Sessions /\ starts[k].pc = "unused"
      BY <2>1, <3>1, BoundsAssumption, FirstIsUnused DEF ClickStart, Unused, Sessions
    <3>3. starts' = [starts EXCEPT ![k] = [pc |-> "check", from |-> {p}]]
      BY <2>1 DEF ClickStart
    <3> HIDE DEF k
    <3> QED
      BY <3>1, <3>2, <3>3 DEF StartRecord, Starting
  <2>2. CASE starts' = starts
    BY <2>2 DEF IInv, TypeOK
  <2> QED
    BY <2>1, <2>2 DEF ClickStop, Reload
<1>3. /\ stops' \in [1..MaxStops -> StopRecord]
      /\ \A j \in 1..MaxStops : stops'[j].pc = "disconnect" <=> stops[j].pc = "disconnect"
      /\ \A j \in 1..MaxStops : stops[j].pc = "disconnect" => stops'[j] = stops[j]
  <2>1. CASE ClickStop(p)
    <3> DEFINE j == FirstUnused(stops)
    <3>1. stops \in [1..MaxStops -> StopRecord] /\ DOMAIN stops = 1..MaxStops
      BY DEF IInv, TypeOK
    <3>2. j \in 1..MaxStops /\ stops[j].pc = "unused"
      BY <2>1, <3>1, BoundsAssumption, FirstIsUnused DEF ClickStop, Unused
    <3>3. stops' = [stops EXCEPT ![j] = [pc |-> "take", from |-> {p}, took |-> 0]]
      BY <2>1 DEF ClickStop
    <3> HIDE DEF j
    <3> QED
      BY <3>1, <3>2, <3>3 DEF StopRecord
  <2>2. CASE stops' = stops
    BY <2>2 DEF IInv, TypeOK
  <2> QED
    BY <2>1, <2>2 DEF ClickStart, Reload
<1>4. TypeOK'
  BY <1>1, <1>2, <1>3 DEF IInv, TypeOK
<1>5. Unlaunched' /\ RunHasSession' /\ ClientLive'
  BY <1>1, <1>2 DEF IInv, Unlaunched, RunHasSession, ClientLive, Starting
<1>6. \A k \in Sessions : (TakenBy(k)' <=> TakenBy(k)) /\ (Held(k)' <=> Held(k))
                          /\ (Active(k)' <=> Active(k))
  BY <1>1, <1>2, <1>3 DEF TakenBy, Held, Active
<1>7. Untouched'
  BY <1>1, <1>6 DEF IInv, Untouched
<1>8. ~overlapped' => Alone' /\ OwnConnection' /\ OrphanLast'
  BY <1>1, <1>2, <1>6 DEF IInv, Alone, OwnConnection, OrphanLast, Starting
<1> QED
  BY <1>4, <1>5, <1>7, <1>8 DEF IInv

-----------------------------------------------------------------------------
(* ... the handler of a start event.                                       *)

\* An accepted start finds no session on, or the overlap is recorded.
LEMMA CheckKeepsIInv ==
    ASSUME IInv, NEW k \in Sessions, Check(k)
    PROVE  IInv'
<1> DEFINE to == IF running THEN "reply" ELSE "reset"
<1>1. to \in StartPlaces /\ StartAt(k, "check", to)
  BY DEF Check, StartPlaces, Starting
<1>2. /\ starts' \in [Sessions -> StartRecord]
      /\ starts[k].pc = "check" /\ starts'[k].pc = to
      /\ \A i \in Sessions : i # k => starts'[i] = starts[i]
  BY <1>1, StartAtFacts DEF IInv
<1> HIDE DEF to
<1>3. UNCHANGED <<running, client, thread, tally, stops, trade, conn, stoppable, recalled>>
  BY DEF Check
<1>4. /\ overlapped' \in BOOLEAN
      /\ ~overlapped' => ~overlapped
      /\ ~overlapped' => running \/ \A i \in Sessions : i # k => ~Active(i)
  BY DEF Check, Active, IInv, TypeOK
<1>5. to \in {"reply", "reset"} /\ (running => to = "reply")
  BY DEF to
<1>6. TypeOK'
  BY <1>2, <1>3, <1>4 DEF IInv, TypeOK
<1>7. Unlaunched' /\ RunHasSession' /\ ClientLive'
  BY <1>2, <1>3, <1>5 DEF IInv, Unlaunched, RunHasSession, ClientLive, Starting
<1>8. \A i \in Sessions : (TakenBy(i)' <=> TakenBy(i)) /\ (Held(i)' <=> Held(i))
  BY <1>3 DEF TakenBy, Held
<1>9. Untouched'
  BY <1>3, <1>8 DEF IInv, Untouched
<1>10. ~overlapped' => Alone'
  <2> SUFFICES ASSUME ~overlapped' PROVE Alone'
    OBVIOUS
  <2>1. \A i \in Sessions : i # k => (Active(i)' <=> Active(i))
    BY <1>2, <1>3 DEF Active
  <2>2. CASE running
    <3>1. ~(starts'[k].pc \in Starting)
      BY <2>2, <1>2, <1>5 DEF Starting
    <3>2. Active(k)' => Active(k)
      BY <3>1, <1>3 DEF Active
    <3> QED
      BY <2>1, <3>2, <1>4 DEF Alone, IInv
  <2>3. CASE \A i \in Sessions : i # k => ~Active(i)
    BY <2>1, <2>3 DEF Alone
  <2> QED
    BY <2>2, <2>3, <1>4
<1>11. ~overlapped' => OwnConnection' /\ OrphanLast'
  BY <1>2, <1>3, <1>4, <1>5, <1>8 DEF IInv, OwnConnection, OrphanLast
<1> QED
  BY <1>6, <1>7, <1>9, <1>10, <1>11 DEF IInv

LEMMA ResetKeepsIInv ==
    ASSUME IInv, NEW k \in Sessions, Reset(k)
    PROVE  IInv'
<1>1. /\ starts' \in [Sessions -> StartRecord]
      /\ starts[k].pc = "reset" /\ starts'[k].pc = "flag"
      /\ \A i \in Sessions : i # k => starts'[i] = starts[i]
  BY StartAtFacts DEF Reset, IInv, StartPlaces, Starting
<1>2. /\ UNCHANGED <<running, client, thread, stops, trade, conn, stoppable,
                     overlapped, recalled>>
      /\ tally' = [total |-> 0, successful |-> 0, timeouts |-> 0, orphans |-> 0]
  BY DEF Reset
<1>3. TypeOK'
  BY <1>1, <1>2 DEF IInv, TypeOK
<1>4. Unlaunched' /\ RunHasSession' /\ ClientLive'
  BY <1>1, <1>2 DEF IInv, Unlaunched, RunHasSession, ClientLive, Starting
<1>5. \A i \in Sessions : (TakenBy(i)' <=> TakenBy(i)) /\ (Held(i)' <=> Held(i))
  BY <1>2 DEF TakenBy, Held
<1>6. \A i \in Sessions : Active(i)' <=> Active(i)
  BY <1>1, <1>2 DEF Active, Starting
<1>7. Untouched'
  BY <1>2, <1>5 DEF IInv, Untouched
<1>8. Active(k)
  BY <1>1 DEF Active, Starting
\* An order on its way as the counters are cleared is another session's.
<1>9. ~overlapped => \A i \in Sessions : trade[i].pc = "count" => i = k
  BY <1>8 DEF Active, Trading, IInv, Alone
<1>10. trade[k].pc = "unborn"
  BY <1>1 DEF IInv, Unlaunched, Starting
<1>11. ~overlapped' => Alone' /\ OwnConnection'
  BY <1>2, <1>5, <1>6 DEF IInv, Alone, OwnConnection
<1>12. ~overlapped' => OrphanLast'
  BY <1>2, <1>9, <1>10 DEF OrphanLast
<1> QED
  BY <1>3, <1>4, <1>7, <1>11, <1>12 DEF IInv

LEMMA FlagKeepsIInv ==
    ASSUME IInv, NEW k \in Sessions, Flag(k)
    PROVE  IInv'
<1>1. /\ starts' \in [Sessions -> StartRecord]
      /\ starts[k].pc = "flag" /\ starts'[k].pc = "spawn"
      /\ \A i \in Sessions : i # k => starts'[i] = starts[i]
  BY StartAtFacts DEF Flag, IInv, StartPlaces, Starting
<1>2. /\ UNCHANGED <<client, thread, tally, stops, trade, conn, stoppable,
                     overlapped, recalled>>
      /\ running' = TRUE
  BY DEF Flag
<1>3. TypeOK'
  BY <1>1, <1>2 DEF IInv, TypeOK
<1>4. Unlaunched' /\ RunHasSession' /\ ClientLive'
  BY <1>1, <1>2 DEF IInv, Unlaunched, RunHasSession, ClientLive, Starting
<1>5. \A i \in Sessions : (TakenBy(i)' <=> TakenBy(i)) /\ (Held(i)' <=> Held(i))
  BY <1>2 DEF TakenBy, Held
<1>6. \A i \in Sessions : Active(i)' <=> Active(i)
  BY <1>1, <1>2 DEF Active, Starting
<1>7. Untouched'
  BY <1>2, <1>5 DEF IInv, Untouched
<1>8. Active(k) /\ trade[k].pc = "unborn"
  BY <1>1 DEF Active, IInv, Unlaunched, Starting
<1>9. ~overlapped => \A i \in Sessions : trade[i].pc \notin Trading
  BY <1>8 DEF Active, Trading, IInv, Alone
<1>10. ~overlapped' => Alone' /\ OwnConnection'
  BY <1>2, <1>5, <1>6, <1>9 DEF IInv, Alone, OwnConnection, Trading
<1>11. ~overlapped' => OrphanLast'
  BY <1>1, <1>2, <1>9 DEF IInv, OrphanLast, Trading
<1> QED
  BY <1>3, <1>4, <1>7, <1>10, <1>11 DEF IInv

LEMMA SpawnKeepsIInv ==
    ASSUME IInv, NEW k \in Sessions, Spawn(k)
    PROVE  IInv'
<1>1. /\ starts' \in [Sessions -> StartRecord]
      /\ starts[k].pc = "spawn" /\ starts'[k].pc = "launch"
      /\ \A i \in Sessions : i # k => starts'[i] = starts[i]
  BY StartAtFacts DEF Spawn, IInv, StartPlaces, Starting
<1>2. /\ UNCHANGED <<running, client, tally, stops, trade, conn, stoppable,
                     overlapped, recalled>>
      /\ thread' = k
  BY DEF Spawn
<1>3. TypeOK'
  BY <1>1, <1>2 DEF IInv, TypeOK
<1>4. Unlaunched' /\ RunHasSession' /\ ClientLive'
  BY <1>1, <1>2 DEF IInv, Unlaunched, RunHasSession, ClientLive, Starting
<1>5. \A i \in Sessions : (TakenBy(i)' <=> TakenBy(i)) /\ (Held(i)' <=> Held(i))
  BY <1>2 DEF TakenBy, Held
<1>6. \A i \in Sessions : Active(i)' <=> Active(i)
  BY <1>1, <1>2 DEF Active, Starting
<1>7. Untouched'
  BY <1>2, <1>5 DEF IInv, Untouched
<1>8. ~overlapped' => Alone' /\ OwnConnection' /\ OrphanLast'
  BY <1>1, <1>2, <1>5, <1>6 DEF IInv, Alone, OwnConnection, OrphanLast
<1> QED
  BY <1>3, <1>4, <1>7, <1>8 DEF IInv

LEMMA LaunchKeepsIInv ==
    ASSUME IInv, NEW k \in Sessions, Launch(k)
    PROVE  IInv'
<1>1. /\ starts' \in [Sessions -> StartRecord]
      /\ starts[k].pc = "launch" /\ starts'[k].pc = "reply"
      /\ \A i \in Sessions : i # k => starts'[i] = starts[i]
  BY StartAtFacts DEF Launch, IInv, StartPlaces, Starting
<1>2. /\ UNCHANGED <<running, client, thread, tally, stops, conn, stoppable,
                     overlapped, recalled>>
      /\ trade' = [trade EXCEPT ![k].pc = "connect"]
  BY DEF Launch
<1>3. trade[k].pc = "unborn"
  BY <1>1 DEF IInv, Unlaunched, Starting
<1>4. /\ trade' \in [Sessions -> TradeRecord]
      /\ trade'[k].pc = "connect"
      /\ \A i \in Sessions : i # k => trade'[i] = trade[i]
  BY <1>2, <1>3, TradeAtFacts DEF TradeAt, TradePlaces, Trading, IInv
<1>5. TypeOK'
  BY <1>1, <1>2, <1>4 DEF IInv, TypeOK
<1>6. Unlaunched' /\ RunHasSession'
  BY <1>1, <1>2, <1>4 DEF IInv, Unlaunched, RunHasSession, Starting, Trading
<1>7. ClientLive'
  BY <1>2, <1>3, <1>4 DEF IInv, TypeOK, ClientLive, Adopted
<1>8. \A i \in Sessions : (TakenBy(i)' <=> TakenBy(i)) /\ (Held(i)' <=> Held(i))
  BY <1>2, <1>3, <1>4 DEF TakenBy, Held
<1>9. \A i \in Sessions : Active(i)' <=> Active(i)
  BY <1>1, <1>3, <1>4 DEF Active, Starting, Trading
<1>10. Untouched'
  BY <1>2, <1>3, <1>4, <1>8 DEF IInv, Untouched
<1>11. ~overlapped' => Alone' /\ OwnConnection'
  BY <1>2, <1>4, <1>8, <1>9 DEF IInv, Alone, OwnConnection
<1>12. ~overlapped' => OrphanLast'
  BY <1>1, <1>2, <1>4 DEF IInv, OrphanLast
<1> QED
  BY <1>5, <1>6, <1>7, <1>10, <1>11, <1>12 DEF IInv

LEMMA ReplyStartedKeepsIInv ==
    ASSUME IInv, NEW k \in Sessions, ReplyStarted(k)
    PROVE  IInv'
<1>1. /\ starts' \in [Sessions -> StartRecord]
      /\ starts[k].pc = "reply" /\ starts'[k].pc = "done"
      /\ \A i \in Sessions : i # k => starts'[i] = starts[i]
  BY StartAtFacts DEF ReplyStarted, IInv, StartPlaces
<1>2. /\ UNCHANGED <<running, client, thread, tally, stops, trade, conn,
                     overlapped, recalled>>
      /\ stoppable' = stoppable \cup starts[k].from
  BY DEF ReplyStarted
<1>3. starts[k].from \subseteq Pages
  BY DEF IInv, TypeOK, StartRecord
<1>4. TypeOK'
  BY <1>1, <1>2, <1>3 DEF IInv, TypeOK
<1>5. Unlaunched' /\ RunHasSession' /\ ClientLive'
  BY <1>1, <1>2 DEF IInv, Unlaunched, RunHasSession, ClientLive, Starting
<1>6. \A i \in Sessions : (TakenBy(i)' <=> TakenBy(i)) /\ (Held(i)' <=> Held(i))
                          /\ (Active(i)' <=> Active(i))
  BY <1>1, <1>2 DEF TakenBy, Held, Active, Starting
<1>7. Untouched'
  BY <1>2, <1>6 DEF IInv, Untouched
<1>8. ~overlapped' => Alone' /\ OwnConnection' /\ OrphanLast'
  BY <1>1, <1>2, <1>6 DEF IInv, Alone, OwnConnection, OrphanLast
<1> QED
  BY <1>4, <1>5, <1>7, <1>8 DEF IInv

-----------------------------------------------------------------------------
(* ... the handler of a stop event.                                        *)

LEMMA TakeKeepsIInv ==
    ASSUME IInv, NEW j \in 1..MaxStops, Take(j)
    PROVE  IInv'
<1>1. /\ UNCHANGED <<thread, tally, starts, trade, conn, stoppable, overlapped>>
      /\ running' = FALSE /\ client' = 0
      /\ stops[j].pc = "take"
  BY DEF Take
<1>2. /\ stops' \in [1..MaxStops -> StopRecord]
      /\ stops'[j].pc = "disconnect" /\ stops'[j].took = client
      /\ \A i \in 1..MaxStops : i # j => stops'[i] = stops[i]
  <2>1. stops \in [1..MaxStops -> StopRecord] /\ client \in Sessions \cup {0}
    BY DEF IInv, TypeOK
  <2>2. stops' = [stops EXCEPT ![j].pc = "disconnect", ![j].took = client]
    BY DEF Take
  <2> QED
    BY <2>1, <2>2 DEF StopRecord
<1>3. 0 \notin Sessions
  BY DEF Sessions
<1>4. recalled' \subseteq Sessions
  BY DEF Take, IInv, TypeOK
<1>5. TypeOK'
  BY <1>1, <1>2, <1>4 DEF IInv, TypeOK
<1>6. Unlaunched' /\ RunHasSession' /\ ClientLive'
  BY <1>1 DEF IInv, Unlaunched, RunHasSession, ClientLive
<1>7. \A i \in Sessions : TakenBy(i)' => TakenBy(i) \/ i = client
  BY <1>1, <1>2 DEF TakenBy
<1>8. client # 0 => trade[client].pc \in Adopted
  BY DEF IInv, ClientLive
<1>9. Untouched'
  BY <1>1, <1>3, <1>7, <1>8 DEF IInv, Untouched, Adopted
<1>10. \A i \in Sessions : Held(i) => Held(i)'
  BY <1>1, <1>2 DEF Held
<1>11. ~overlapped' => Alone' /\ OwnConnection' /\ OrphanLast'
  BY <1>1, <1>10 DEF IInv, Alone, OwnConnection, OrphanLast, Active
<1> QED
  BY <1>5, <1>6, <1>9, <1>11 DEF IInv

LEMMA DisconnectKeepsIInv ==
    ASSUME IInv, NEW j \in 1..MaxStops, Disconnect(j)
    PROVE  IInv'
<1> DEFINE m == stops[j].took
<1>1. /\ UNCHANGED <<running, client, thread, tally, starts, trade, stoppable,
                     overlapped, recalled>>
      /\ stops[j].pc = "disconnect"
      /\ conn' = Closed(m)
  BY DEF Disconnect
<1>2. /\ stops' \in [1..MaxStops -> StopRecord]
      /\ stops'[j].pc = "join"
      /\ \A i \in 1..MaxStops : i # j => stops'[i] = stops[i]
  <2>1. stops \in [1..MaxStops -> StopRecord]
    BY DEF IInv, TypeOK
  <2>2. stops' = [stops EXCEPT ![j].pc = "join", ![j].took = 0]
    BY DEF Disconnect
  <2> QED
    BY <2>1, <2>2 DEF StopRecord
<1>3. m \in Sessions \cup {0}
  BY DEF IInv, TypeOK, StopRecord
<1>4. m \in Sessions => TakenBy(m)
  BY <1>1 DEF TakenBy
<1>5. \A i \in Sessions : TakenBy(i)' => TakenBy(i)
  BY <1>1, <1>2 DEF TakenBy
<1>6. \A i \in Sessions : i # m /\ Held(i) => Held(i)'
  BY <1>1, <1>2 DEF Held
<1> HIDE DEF m
<1>7. /\ conn' \in [Sessions -> {"none", "open", "closed"}]
      /\ \A i \in Sessions : conn'[i] = IF i = m THEN "closed" ELSE conn[i]
  BY <1>1, <1>3, ClosedFacts DEF IInv
<1>8. TypeOK'
  BY <1>1, <1>2, <1>7 DEF IInv, TypeOK
<1>9. Unlaunched' /\ RunHasSession' /\ ClientLive'
  BY <1>1 DEF IInv, Unlaunched, RunHasSession, ClientLive
<1>10. Untouched'
  BY <1>1, <1>4, <1>5, <1>7 DEF IInv, Untouched
<1>11. ~overlapped' => OwnConnection'
  BY <1>1, <1>4, <1>6, <1>7 DEF IInv, OwnConnection, Untouched
<1>12. ~overlapped' => Alone' /\ OrphanLast'
  BY <1>1 DEF IInv, Alone, OrphanLast, Active
<1> QED
  BY <1>8, <1>9, <1>10, <1>11, <1>12 DEF IInv

LEMMA AnswerStopKeepsIInv ==
    ASSUME IInv, NEW j \in 1..MaxStops, Join(j) \/ ReplyStopped(j)
    PROVE  IInv'
<1>1. /\ UNCHANGED <<running, client, thread, tally, starts, trade, conn,
                     overlapped, recalled>>
      /\ stoppable' \subseteq Pages
  BY DEF Join, ReplyStopped, IInv, TypeOK
<1>2. PICK from \in {"join", "reply"}, to \in {"reply", "done"} : StopAt(j, from, to)
  BY DEF Join, ReplyStopped
<1>3. /\ stops' \in [1..MaxStops -> StopRecord]
      /\ stops[j].pc = from /\ stops'[j].pc = to
      /\ \A i \in 1..MaxStops : i # j => stops'[i] = stops[i]
  BY <1>2, StopAtFacts DEF IInv, StopPlaces
<1>4. TypeOK'
  BY <1>1, <1>3 DEF IInv, TypeOK
<1>5. Unlaunched' /\ RunHasSession' /\ ClientLive'
  BY <1>1 DEF IInv, Unlaunched, RunHasSession, ClientLive
<1>6. \A i \in Sessions : (TakenBy(i)' <=> TakenBy(i)) /\ (Held(i)' <=> Held(i))
  BY <1>1, <1>3 DEF TakenBy, Held
<1>7. Untouched'
  BY <1>1, <1>6 DEF IInv, Untouched
<1>8. ~overlapped' => Alone' /\ OwnConnection' /\ OrphanLast'
  BY <1>1, <1>6 DEF IInv, Alone, OwnConnection, OrphanLast, Active
<1> QED
  BY <1>4, <1>5, <1>7, <1>8 DEF IInv

-----------------------------------------------------------------------------
(* ... a trading thread.                                                   *)

LEMMA ConnectKeepsIInv ==
    ASSUME IInv, NEW k \in Sessions, Connect(k)
    PROVE  IInv'
<1>1. UNCHANGED <<running, client, thread, tally, starts, stops, stoppable,
                  overlapped, recalled>>
  BY DEF Connect
<1>2. PICK to \in {"adopt", "failed"} :
        /\ TradeAt(k, "connect", to)
        /\ conn' = IF to = "adopt" THEN [conn EXCEPT ![k] = "open"] ELSE conn
  BY DEF Connect
<1>3. /\ trade' \in [Sessions -> TradeRecord]
      /\ trade[k].pc = "connect" /\ trade'[k].pc = to
      /\ \A i \in Sessions : i # k => trade'[i] = trade[i]
  BY <1>2, TradeAtFacts DEF IInv, TradePlaces, Trading
<1>4. /\ conn' \in [Sessions -> {"none", "open", "closed"}]
      /\ conn'[k] = IF to = "adopt" THEN "open" ELSE conn[k]
      /\ \A i \in Sessions : i # k => conn'[i] = conn[i]
  BY <1>2 DEF IInv, TypeOK
<1>5. conn[k] = "none"
  BY <1>3 DEF IInv, Untouched
<1>6. TypeOK'
  BY <1>1, <1>3, <1>4 DEF IInv, TypeOK
<1>7. Unlaunched' /\ RunHasSession'
  BY <1>1, <1>3 DEF IInv, Unlaunched, RunHasSession, Trading
<1>8. ClientLive'
  BY <1>1, <1>3 DEF IInv, TypeOK, ClientLive, Adopted
<1>9. \A i \in Sessions : TakenBy(i)' <=> TakenBy(i)
  BY <1>1, <1>3 DEF TakenBy
<1>10. Untouched'
  BY <1>1, <1>3, <1>4, <1>9 DEF IInv, Untouched
<1>11. \A i \in Sessions : i # k => (Held(i)' <=> Held(i))
  BY <1>1, <1>3 DEF Held
<1>12. \A i \in Sessions : Active(i)' <=> Active(i)
  BY <1>1, <1>3 DEF Active, Trading
<1>13. ~overlapped' => Alone'
  BY <1>1, <1>12 DEF IInv, Alone
<1>14. conn'[k] = "open" => Held(k)'
  BY <1>3, <1>4, <1>5 DEF Held
<1>15. ~overlapped' => OwnConnection'
  BY <1>1, <1>3, <1>4, <1>11, <1>14 DEF IInv, OwnConnection
<1>16. ~overlapped' => OrphanLast'
  BY <1>1, <1>3 DEF IInv, OrphanLast
<1> QED
  BY <1>6, <1>7, <1>8, <1>10, <1>13, <1>15, <1>16 DEF IInv

LEMMA AdoptKeepsIInv ==
    ASSUME IInv, NEW k \in Sessions, Adopt(k)
    PROVE  IInv'
<1>1. UNCHANGED <<running, thread, tally, starts, stops, stoppable,
                  overlapped, recalled>>
  BY DEF Adopt
<1>2. PICK to \in {"leave", "loop"} :
        /\ TradeAt(k, "adopt", to)
        /\ to = "leave" => /\ ~running /\ client' = client
                           /\ conn' = [conn EXCEPT ![k] = "closed"]
        /\ to = "loop" => running /\ client' = k /\ conn' = conn
  BY DEF Adopt
<1>3. /\ trade' \in [Sessions -> TradeRecord]
      /\ trade[k].pc = "adopt" /\ trade'[k].pc = to
      /\ \A i \in Sessions : i # k => trade'[i] = trade[i]
  BY <1>2, TradeAtFacts DEF IInv, TradePlaces, Trading
<1>4. conn[k] = "open" /\ ~TakenBy(k)
  BY <1>3 DEF IInv, Untouched
<1>5. /\ conn' \in [Sessions -> {"none", "open", "closed"}]
      /\ conn'[k] = IF to = "leave" THEN "closed" ELSE "open"
      /\ \A i \in Sessions : i # k => conn'[i] = conn[i]
  BY <1>2, <1>4 DEF IInv, TypeOK
<1>6. TypeOK'
  BY <1>1, <1>2, <1>3, <1>5 DEF IInv, TypeOK
<1>7. Unlaunched' /\ RunHasSession'
  BY <1>1, <1>3 DEF IInv, Unlaunched, RunHasSession, Trading
<1>8. ClientLive'
  BY <1>1, <1>2, <1>3 DEF IInv, TypeOK, ClientLive, Adopted
<1>9. \A i \in Sessions : TakenBy(i)' <=> TakenBy(i)
  BY <1>1, <1>3 DEF TakenBy
<1>10. \A i \in Sessions : TakenBy(i)' => client' # i
  BY <1>2, <1>4, <1>9 DEF IInv, Untouched
<1>11. Untouched'
  BY <1>3, <1>5, <1>9, <1>10 DEF IInv, Untouched
<1>12. Active(k) /\ \A i \in Sessions : Active(i)' <=> Active(i)
  BY <1>1, <1>3 DEF Active, Trading
<1>13. ~overlapped' => Alone'
  BY <1>1, <1>12 DEF IInv, Alone
\* The manager has no other session's client to lose.
<1>14. ~overlapped => client \in {0, k}
  <2> SUFFICES ASSUME ~overlapped, client # 0 PROVE client = k
    OBVIOUS
  <2>1. client \in Sessions /\ Active(client)
    BY DEF IInv, TypeOK, ClientLive, Adopted, Active, Trading
  <2> QED
    BY <2>1, <1>12 DEF IInv, Alone
<1>15. ~overlapped => \A i \in Sessions : trade[i].pc \in Trading => i = k
  BY <1>12 DEF IInv, Alone, Active
<1>16. ~overlapped => \A i \in Sessions : i # k /\ Held(i) => Held(i)'
  BY <1>1, <1>3, <1>14 DEF Held, Sessions
<1>17. to = "loop" => Held(k)'
  BY <1>2 DEF Held
<1>18. ~overlapped' => OwnConnection'
  <2> SUFFICES ASSUME ~overlapped PROVE OwnConnection'
    BY <1>1
  <2> SUFFICES ASSUME NEW i \in Sessions
               PROVE  /\ running' /\ trade'[i].pc \in {"loop", "send", "recv", "count"} =>
                            client' = i /\ conn'[i] = "open"
                      /\ trade'[i].pc = "recv" => trade'[i].using = i
                      /\ conn'[i] = "open" => Held(i)'
    BY DEF OwnConnection
  <2>1. CASE i = k
    BY <2>1, <1>1, <1>2, <1>3, <1>5, <1>17
  <2>2. CASE i # k
    BY <2>2, <1>3, <1>5, <1>15, <1>16 DEF IInv, OwnConnection, Trading
  <2> QED
    BY <2>1, <2>2
<1>19. ~overlapped' => OrphanLast'
  BY <1>1, <1>3 DEF IInv, OrphanLast
<1> QED
  BY <1>6, <1>7, <1>8, <1>11, <1>13, <1>18, <1>19 DEF IInv

\* The steps between orders, and an exception: only the thread's place.
LEMMA WalkKeepsIInv ==
    ASSUME IInv, NEW k \in Sessions, Raise(k) \/ Failed(k) \/ Loop(k)
    PROVE  IInv'
<1>1. /\ UNCHANGED <<running, client, thread, tally, starts, stops, conn,
                     overlapped, recalled>>
      /\ stoppable' \subseteq Pages
  BY DEF Raise, Failed, Loop, IInv, TypeOK
<1>2. PICK from \in {"failed", "loop"}, to \in {"failed", "leave", "send"} :
        /\ TradeAt(k, from, to)
        /\ to = "send" => from = "loop" /\ running
  BY DEF Raise, Failed, Loop
<1>3. /\ trade' \in [Sessions -> TradeRecord]
      /\ trade[k].pc = from /\ trade'[k].pc = to
      /\ \A i \in Sessions : i # k => trade'[i] = trade[i]
  BY <1>2, TradeAtFacts DEF IInv, TradePlaces, Trading
<1>4. TypeOK'
  BY <1>1, <1>3 DEF IInv, TypeOK
<1>5. Unlaunched' /\ RunHasSession'
  BY <1>1, <1>3 DEF IInv, Unlaunched, RunHasSession, Trading
<1>6. ClientLive'
  BY <1>1, <1>3 DEF IInv, TypeOK, ClientLive, Adopted
<1>7. \A i \in Sessions : (TakenBy(i)' <=> TakenBy(i)) /\ (Held(i)' <=> Held(i))
                          /\ (Active(i)' <=> Active(i))
  BY <1>1, <1>3 DEF TakenBy, Held, Active, Trading
<1>8. Untouched'
  BY <1>1, <1>3, <1>7 DEF IInv, Untouched
<1>9. ~overlapped' => Alone' /\ OwnConnection' /\ OrphanLast'
  BY <1>1, <1>2, <1>3, <1>7 DEF IInv, Alone, OwnConnection, OrphanLast
<1> QED
  BY <1>4, <1>5, <1>6, <1>8, <1>9 DEF IInv

LEMMA SendKeepsIInv ==
    ASSUME IInv, NEW k \in Sessions, Send(k)
    PROVE  IInv'
<1>1. /\ UNCHANGED <<running, client, thread, tally, starts, stops, conn, stoppable,
                     overlapped, recalled>>
      /\ trade[k].pc = "send"
  BY DEF Send
<1>2. /\ trade' \in [Sessions -> TradeRecord]
      /\ trade'[k].pc = IF client = 0 THEN "count" ELSE "recv"
      /\ client # 0 => trade'[k].using = client
      /\ trade'[k].took = trade[k].took
      /\ \A i \in Sessions : i # k => trade'[i] = trade[i]
  <2>1. trade \in [Sessions -> TradeRecord] /\ client \in Sessions \cup {0}
    BY DEF IInv, TypeOK
  <2>2. trade' = IF client = 0
                 THEN [trade EXCEPT ![k].pc = "count", ![k].result = "orphan"]
                 ELSE [trade EXCEPT ![k].pc = "recv", ![k].using = client]
    BY DEF Send
  <2>3. [trade[k] EXCEPT !.pc = "count", !.result = "orphan"] \in TradeRecord
    BY <2>1 DEF TradeRecord, Trading
  <2>4. [trade[k] EXCEPT !.pc = "recv", !.using = client] \in TradeRecord
    BY <2>1 DEF TradeRecord, Trading
  <2>5. CASE client = 0
    BY <2>1, <2>2, <2>3, <2>5 DEF TradeRecord
  <2>6. CASE client # 0
    BY <2>1, <2>2, <2>4, <2>6 DEF TradeRecord
  <2> QED
    BY <2>5, <2>6
<1>3. TypeOK'
  BY <1>1, <1>2 DEF IInv, TypeOK
<1>4. Unlaunched' /\ RunHasSession'
  BY <1>1, <1>2 DEF IInv, Unlaunched, RunHasSession, Trading
<1>5. ClientLive'
  BY <1>1, <1>2 DEF IInv, TypeOK, ClientLive, Adopted
<1>6. \A i \in Sessions : (TakenBy(i)' <=> TakenBy(i)) /\ (Held(i)' <=> Held(i))
                          /\ (Active(i)' <=> Active(i))
  BY <1>1, <1>2 DEF TakenBy, Held, Active, Trading
<1>7. Untouched'
  BY <1>1, <1>2, <1>6 DEF IInv, Untouched
<1>8. Active(k)
  BY <1>1 DEF Active, Trading
\* The connection it sends on is its own, or trading is off.
<1>9. ~overlapped => IF client = 0 THEN ~running ELSE client = k
  <2>1. ASSUME ~overlapped, client # 0 PROVE client = k
    <3>1. client \in Sessions /\ Active(client)
      BY <2>1 DEF IInv, TypeOK, ClientLive, Adopted, Active, Trading
    <3> QED
      BY <2>1, <3>1, <1>8 DEF IInv, Alone
  <2>2. ASSUME ~overlapped, client = 0 PROVE ~running
    BY <2>2, <1>1 DEF IInv, OwnConnection, Sessions
  <2> QED
    BY <2>1, <2>2
<1>10. ~overlapped' => Alone' /\ OwnConnection'
  BY <1>1, <1>2, <1>6, <1>9 DEF IInv, Alone, OwnConnection
<1>11. ~overlapped' => OrphanLast'
  BY <1>1, <1>2, <1>9 DEF IInv, OrphanLast
<1> QED
  BY <1>3, <1>4, <1>5, <1>7, <1>10, <1>11 DEF IInv

LEMMA ReturnKeepsIInv ==
    ASSUME IInv, NEW k \in Sessions, Return(k)
    PROVE  IInv'
<1>1. /\ UNCHANGED <<running, client, thread, tally, starts, stops, conn, stoppable,
                     overlapped, recalled>>
      /\ trade[k].pc = "recv"
  BY DEF Return
<1>2. PICK result \in {"time", "timeout", "orphan"} :
        /\ trade' = [trade EXCEPT ![k].pc = "count", ![k].result = result,
                                  ![k].using = 0]
        /\ result = "orphan" => conn[trade[k].using] # "open"
  BY DEF Return
<1>3. /\ trade' \in [Sessions -> TradeRecord]
      /\ trade'[k].pc = "count"
      /\ trade'[k].result = result
      /\ trade'[k].took = trade[k].took
      /\ \A i \in Sessions : i # k => trade'[i] = trade[i]
  <2>1. trade \in [Sessions -> TradeRecord]
    BY DEF IInv, TypeOK
  <2>2. [trade[k] EXCEPT !.pc = "count", !.result = result, !.using = 0] \in TradeRecord
    BY <2>1 DEF TradeRecord, Trading
  <2> QED
    BY <1>2, <2>1, <2>2 DEF TradeRecord
<1>4. TypeOK'
  BY <1>1, <1>3 DEF IInv, TypeOK
<1>5. Unlaunched' /\ RunHasSession'
  BY <1>1, <1>3 DEF IInv, Unlaunched, RunHasSession, Trading
<1>6. ClientLive'
  BY <1>1, <1>3 DEF IInv, TypeOK, ClientLive, Adopted
<1>7. \A i \in Sessions : (TakenBy(i)' <=> TakenBy(i)) /\ (Held(i)' <=> Held(i))
                          /\ (Active(i)' <=> Active(i))
  BY <1>1, <1>3 DEF TakenBy, Held, Active, Trading
<1>8. Untouched'
  BY <1>1, <1>3, <1>7 DEF IInv, Untouched
\* Its socket is closed under it only when trading is off.
<1>9. ~overlapped => (result = "orphan" => ~running)
  BY <1>1, <1>2 DEF IInv, OwnConnection
<1>10. ~overlapped' => Alone' /\ OwnConnection'
  BY <1>1, <1>3, <1>7 DEF IInv, Alone, OwnConnection
<1>11. ~overlapped' => OrphanLast'
  BY <1>1, <1>3, <1>9 DEF IInv, OrphanLast
<1> QED
  BY <1>4, <1>5, <1>6, <1>8, <1>10, <1>11 DEF IInv

LEMMA CountKeepsIInv ==
    ASSUME IInv, NEW k \in Sessions, Count(k)
    PROVE  IInv'
<1>1. /\ UNCHANGED <<running, client, thread, starts, stops, conn, stoppable,
                     overlapped, recalled>>
      /\ trade[k].pc = "count"
  BY DEF Count
<1>2. /\ trade' \in [Sessions -> TradeRecord]
      /\ trade'[k].pc = "loop"
      /\ trade'[k].took = trade[k].took
      /\ \A i \in Sessions : i # k => trade'[i] = trade[i]
  <2>1. trade \in [Sessions -> TradeRecord]
    BY DEF IInv, TypeOK
  <2>2. trade' = [trade EXCEPT ![k].pc = "loop", ![k].result = "none"]
    BY DEF Count
  <2>3. [trade[k] EXCEPT !.pc = "loop", !.result = "none"] \in TradeRecord
    BY <2>1 DEF TradeRecord, Trading
  <2> QED
    BY <2>1, <2>2, <2>3 DEF TradeRecord
<1>3. /\ tally' \in [total : Nat, successful : Nat, timeouts : Nat, orphans : Nat]
      /\ tally'.total = tally'.successful + tally'.timeouts
      /\ trade[k].result = "orphan" => tally'.orphans = tally.orphans + 1
      /\ trade[k].result # "orphan" => tally'.orphans = tally.orphans
  BY DEF Count, One, IInv, TypeOK
<1>4. TypeOK'
  BY <1>1, <1>2, <1>3 DEF IInv, TypeOK
<1>5. Unlaunched' /\ RunHasSession'
  BY <1>1, <1>2 DEF IInv, Unlaunched, RunHasSession, Trading
<1>6. ClientLive'
  BY <1>1, <1>2 DEF IInv, TypeOK, ClientLive, Adopted
<1>7. \A i \in Sessions : (TakenBy(i)' <=> TakenBy(i)) /\ (Held(i)' <=> Held(i))
                          /\ (Active(i)' <=> Active(i))
  BY <1>1, <1>2 DEF TakenBy, Held, Active, Trading
<1>8. Untouched'
  BY <1>1, <1>2, <1>7 DEF IInv, Untouched
<1>9. ~overlapped' => Alone' /\ OwnConnection'
  BY <1>1, <1>2, <1>7 DEF IInv, Alone, OwnConnection
<1>10. ~overlapped' => OrphanLast'
  <2> SUFFICES ASSUME ~overlapped PROVE OrphanLast'
    BY <1>1
  <2>1. OrphanLast /\ Alone
    BY DEF IInv
  <2>2. tally.orphans = 0 /\ (trade[k].result = "orphan" => ~running)
    BY <2>1, <1>1 DEF OrphanLast
  <2>3. tally'.orphans <= 1 /\ (running => tally'.orphans = 0)
    BY <2>2, <1>3
  \* No other session is on.
  <2>4. \A i \in Sessions : i # k => trade[i].pc \notin Trading
                                     /\ starts[i].pc \notin Starting
    BY <2>1, <1>1 DEF Alone, Active, Trading
  <2>5. starts[k].pc \notin Starting
    BY <1>1 DEF IInv, Unlaunched
  <2> SUFFICES ASSUME NEW i \in Sessions
               PROVE  /\ \/ starts'[i].pc \in {"flag", "spawn", "launch"}
                         \/ trade'[i].pc \in {"connect", "adopt", "send", "recv", "count"}
                         \/ trade'[i].pc = "loop" /\ running'
                         => tally'.orphans = 0
                      /\ trade'[i].pc = "count" /\ trade'[i].result = "orphan" => ~running'
    BY <2>3 DEF OrphanLast
  <2>6. CASE i = k
    BY <2>6, <2>3, <2>5, <1>1, <1>2 DEF Starting
  <2>7. CASE i # k
    BY <2>7, <2>4, <1>1, <1>2 DEF Starting, Trading
  <2> QED
    BY <2>6, <2>7
<1> QED
  BY <1>4, <1>5, <1>6, <1>8, <1>9, <1>10 DEF IInv

LEMMA LeaveKeepsIInv ==
    ASSUME IInv, NEW k \in Sessions, Leave(k)
    PROVE  IInv'
<1>1. /\ UNCHANGED <<thread, tally, starts, stops, conn, stoppable, overlapped, recalled>>
      /\ running' = FALSE /\ client' = 0
      /\ trade[k].pc = "leave"
  BY DEF Leave
<1>2. /\ trade' \in [Sessions -> TradeRecord]
      /\ trade'[k].pc = "hangup" /\ trade'[k].took = client
      /\ \A i \in Sessions : i # k => trade'[i] = trade[i]
  <2>1. trade \in [Sessions -> TradeRecord] /\ client \in Sessions \cup {0}
    BY DEF IInv, TypeOK
  <2>2. trade' = [trade EXCEPT ![k].pc = "hangup", ![k].took = client]
    BY DEF Leave
  <2>3. [trade[k] EXCEPT !.pc = "hangup", !.took = client] \in TradeRecord
    BY <2>1 DEF TradeRecord, Trading
  <2> QED
    BY <2>1, <2>2, <2>3 DEF TradeRecord
<1>3. 0 \notin Sessions
  BY DEF Sessions
<1>4. TypeOK'
  BY <1>1, <1>2 DEF IInv, TypeOK
<1>5. Unlaunched' /\ RunHasSession' /\ ClientLive'
  BY <1>1, <1>2 DEF IInv, Unlaunched, RunHasSession, ClientLive
<1>6. \A i \in Sessions : TakenBy(i)' => TakenBy(i) \/ i = client
  BY <1>1, <1>2 DEF TakenBy
<1>7. client # 0 => trade[client].pc \in Adopted
  BY DEF IInv, ClientLive
<1>8. Untouched'
  BY <1>1, <1>2, <1>3, <1>6, <1>7 DEF IInv, Untouched, Adopted
<1>9. \A i \in Sessions : Held(i) => Held(i)'
  BY <1>1, <1>2 DEF Held
<1>10. \A i \in Sessions : Active(i)' => Active(i)
  BY <1>1, <1>2 DEF Active, Trading
<1>11. ~overlapped' => Alone' /\ OwnConnection' /\ OrphanLast'
  BY <1>1, <1>2, <1>9, <1>10 DEF IInv, Alone, OwnConnection, OrphanLast
<1> QED
  BY <1>4, <1>5, <1>8, <1>11 DEF IInv

LEMMA HangUpKeepsIInv ==
    ASSUME IInv, NEW k \in Sessions, HangUp(k)
    PROVE  IInv'
<1> DEFINE m == trade[k].took
<1>1. /\ UNCHANGED <<running, client, thread, tally, starts, stops, stoppable,
                     overlapped, recalled>>
      /\ trade[k].pc = "hangup"
      /\ conn' = Closed(m)
  BY DEF HangUp
<1>2. /\ trade' \in [Sessions -> TradeRecord]
      /\ trade'[k].pc = "farewell"
      /\ \A i \in Sessions : i # k => trade'[i] = trade[i]
  <2>1. trade \in [Sessions -> TradeRecord]
    BY DEF IInv, TypeOK
  <2>2. trade' = [trade EXCEPT ![k].pc = "farewell", ![k].took = 0]
    BY DEF HangUp
  <2>3. [trade[k] EXCEPT !.pc = "farewell", !.took = 0] \in TradeRecord
    BY <2>1 DEF TradeRecord
  <2> QED
    BY <2>1, <2>2, <2>3 DEF TradeRecord
<1>3. m \in Sessions \cup {0}
  BY DEF IInv, TypeOK, TradeRecord
<1>4. m \in Sessions => TakenBy(m)
  BY <1>1 DEF TakenBy
<1>5. \A i \in Sessions : TakenBy(i)' => TakenBy(i)
  BY <1>1, <1>2 DEF TakenBy
<1>6. \A i \in Sessions : i # m /\ Held(i) => Held(i)'
  BY <1>1, <1>2 DEF Held
<1> HIDE DEF m
<1>7. /\ conn' \in [Sessions -> {"none", "open", "closed"}]
      /\ \A i \in Sessions : conn'[i] = IF i = m THEN "closed" ELSE conn[i]
  BY <1>1, <1>3, ClosedFacts DEF IInv
<1>8. TypeOK'
  BY <1>1, <1>2, <1>7 DEF IInv, TypeOK
<1>9. Unlaunched' /\ RunHasSession'
  BY <1>1, <1>2 DEF IInv, Unlaunched, RunHasSession, Trading
<1>10. ClientLive'
  BY <1>1, <1>2 DEF IInv, TypeOK, ClientLive, Adopted
<1>11. Untouched'
  BY <1>1, <1>2, <1>4, <1>5, <1>7 DEF IInv, Untouched
<1>12. ~overlapped' => OwnConnection'
  BY <1>1, <1>2, <1>4, <1>6, <1>7 DEF IInv, OwnConnection, Untouched
<1>13. \A i \in Sessions : Active(i)' <=> Active(i)
  BY <1>1, <1>2 DEF Active, Trading
<1>14. ~overlapped' => Alone' /\ OrphanLast'
  BY <1>1, <1>2, <1>13 DEF IInv, Alone, OrphanLast
<1> QED
  BY <1>8, <1>9, <1>10, <1>11, <1>12, <1>14 DEF IInv

LEMMA FarewellKeepsIInv ==
    ASSUME IInv, NEW k \in Sessions, Farewell(k)
    PROVE  IInv'
<1>1. /\ UNCHANGED <<running, client, thread, tally, starts, stops, conn,
                     overlapped, recalled>>
      /\ stoppable' \subseteq Pages
  BY DEF Farewell
<1>2. /\ trade' \in [Sessions -> TradeRecord]
      /\ trade[k].pc = "farewell" /\ trade'[k].pc = "ended"
      /\ \A i \in Sessions : i # k => trade'[i] = trade[i]
  BY TradeAtFacts DEF Farewell, IInv, TradePlaces
<1>3. TypeOK'
  BY <1>1, <1>2 DEF IInv, TypeOK
<1>4. Unlaunched' /\ RunHasSession'
  BY <1>1, <1>2 DEF IInv, Unlaunched, RunHasSession, Trading
<1>5. ClientLive'
  BY <1>1, <1>2 DEF IInv, TypeOK, ClientLive, Adopted
<1>6. \A i \in Sessions : (TakenBy(i)' <=> TakenBy(i)) /\ (Held(i)' <=> Held(i))
                          /\ (Active(i)' <=> Active(i))
  BY <1>1, <1>2 DEF TakenBy, Held, Active, Trading
<1>7. Untouched'
  BY <1>1, <1>2, <1>6 DEF IInv, Untouched
<1>8. ~overlapped' => Alone' /\ OwnConnection' /\ OrphanLast'
  BY <1>1, <1>2, <1>6 DEF IInv, Alone, OwnConnection, OrphanLast
<1> QED
  BY <1>3, <1>4, <1>5, <1>7, <1>8 DEF IInv

-----------------------------------------------------------------------------
(* The invariant, and what follows from it.                                *)

LEMMA InitEstablishesIInv ==
    ASSUME Init
    PROVE  IInv
<1>1. TypeOK
  <2>1. starts \in [Sessions -> StartRecord]
    BY DEF Init, StartRecord
  <2>2. stops \in [1..MaxStops -> StopRecord]
    BY DEF Init, StopRecord
  <2>3. trade \in [Sessions -> TradeRecord]
    BY DEF Init, TradeRecord
  <2>4. tally \in [total : Nat, successful : Nat, timeouts : Nat, orphans : Nat]
        /\ tally.total = tally.successful + tally.timeouts
    BY DEF Init
  <2>5. conn \in [Sessions -> {"none", "open", "closed"}]
    BY DEF Init
  <2> QED
    BY <2>1, <2>2, <2>3, <2>4, <2>5 DEF Init, TypeOK
<1>2. Unlaunched /\ RunHasSession /\ ClientLive
  BY DEF Init, Unlaunched, RunHasSession, ClientLive
<1>3. \A k \in Sessions : ~TakenBy(k) /\ ~Active(k)
  BY DEF Init, TakenBy, Active, Trading, Starting
<1>4. Untouched
  BY <1>3 DEF Init, Untouched
<1>5. Alone /\ OwnConnection /\ OrphanLast
  BY <1>3 DEF Init, Alone, OwnConnection, OrphanLast
<1> QED
  BY <1>1, <1>2, <1>4, <1>5 DEF IInv

LEMMA StutterKeepsIInv ==
    ASSUME IInv, UNCHANGED vars
    PROVE  IInv'
BY DEF vars, IInv, TypeOK, Unlaunched, RunHasSession, ClientLive, Untouched, TakenBy,
       Alone, Active, OwnConnection, Held, OrphanLast

LEMMA NextKeepsIInv ==
    ASSUME IInv, [Next]_vars
    PROVE  IInv'
<1>1. ASSUME NEW p \in Pages, ClickStart(p) \/ ClickStop(p) \/ Reload(p)
      PROVE  IInv'
  BY <1>1, ClickKeepsIInv
<1>2. ASSUME NEW k \in Sessions, StartStep(k)
      PROVE  IInv'
  BY <1>2, CheckKeepsIInv, ResetKeepsIInv, FlagKeepsIInv, SpawnKeepsIInv,
     LaunchKeepsIInv, ReplyStartedKeepsIInv DEF StartStep
<1>3. ASSUME NEW j \in 1..MaxStops, StopStep(j)
      PROVE  IInv'
  BY <1>3, TakeKeepsIInv, DisconnectKeepsIInv, AnswerStopKeepsIInv DEF StopStep
<1>4. ASSUME NEW k \in Sessions, TradeStep(k) \/ Raise(k)
      PROVE  IInv'
  BY <1>4, ConnectKeepsIInv, AdoptKeepsIInv, WalkKeepsIInv, SendKeepsIInv,
     ReturnKeepsIInv, CountKeepsIInv, LeaveKeepsIInv, HangUpKeepsIInv,
     FarewellKeepsIInv DEF TradeStep
<1> QED
  BY <1>1, <1>2, <1>3, <1>4, StutterKeepsIInv DEF Next

\* However starts, stops, reloads and trading threads interleave, the invariant
\* behind the theorems below holds.
THEOREM ManagerInvariant == Spec => []IInv
<1>1. Init => IInv
  BY InitEstablishesIInv
<1>2. IInv /\ [Next]_vars => IInv'
  BY NextKeepsIInv
<1> QED
  BY <1>1, <1>2, PTL DEF Spec

\* Every variable keeps its type, and every order counts as one of the two.
THEOREM TypeCorrect == Spec => []TypeOK
<1>1. IInv => TypeOK
  BY DEF IInv
<1> QED
  BY <1>1, ManagerInvariant, PTL

\* Unless a start was accepted beside a live session, one thread trades, on its
\* own open connection, and somebody will close every connection that is open.
THEOREM OneTrader == Spec => []SoleTrader
<1>1. IInv => SoleTrader
  <2> SUFFICES ASSUME IInv, ~overlapped PROVE SoleTrader
    BY DEF SoleTrader
  <2> DEFINE T == {k \in Sessions : trade[k].pc \in Trading}
  <2>1. Cardinality(T) <= 1
    <3>1. \A i, k \in T : i = k
      BY DEF IInv, Alone, Active
    <3>2. CASE T = {}
      BY <3>2, FS_EmptySet
    <3>3. CASE T # {}
      <4>1. PICK x : x \in T
        BY <3>3
      <4>2. T = {x}
        BY <4>1, <3>1
      <4> QED
        BY <4>2, FS_Singleton
    <3> QED
      BY <3>2, <3>3
  <2> QED
    BY <2>1 DEF IInv, OwnConnection, SoleTrader
<1> QED
  BY <1>1, ManagerInvariant, PTL

\* Under the same condition a stop makes the benchmark lose one order at most.
THEOREM OneOrderLost == Spec => []StopCostsOneOrder
<1>1. IInv => StopCostsOneOrder
  BY DEF IInv, OrphanLast, StopCostsOneOrder
<1> QED
  BY <1>1, ManagerInvariant, PTL

\* Once no session is on, overlapped or not, the manager can start again, and
\* without overlap every connection is closed.
THEOREM ReadyAgain == Spec => []RestsClean
<1>1. IInv => RestsClean
  <2> SUFFICES ASSUME IInv, Quiet PROVE RestsClean
    BY DEF RestsClean
  <2>1. \A k \in Sessions : trade[k].pc \in {"unborn", "ended"}
                            /\ starts[k].pc \notin Starting
    BY DEF Quiet
  <2>2. ~running
    BY <2>1 DEF IInv, RunHasSession, Trading, Starting
  <2>3. client = 0
    BY <2>1 DEF IInv, TypeOK, ClientLive, Adopted
  <2>4. ASSUME ~overlapped, \A j \in 1..MaxStops : stops[j].pc # "disconnect"
        PROVE  \A k \in Sessions : conn[k] # "open"
    BY <2>1, <2>3, <2>4 DEF IInv, OwnConnection, Held, Sessions
  <2> QED
    BY <2>2, <2>3, <2>4 DEF RestsClean
<1> QED
  BY <1>1, ManagerInvariant, PTL
=============================================================================
