--------------------------- MODULE ThreadedProofs ---------------------------
(***************************************************************************)
(* Proofs about ThreadedExchange, for any number of threads, symbols and   *)
(* requests: what the races over the books leave intact; that the symbols  *)
(* nobody raced over are undisturbed; and that one thread is Matching.     *)
(***************************************************************************)
EXTENDS ThreadedExchange, SumLemmas

-----------------------------------------------------------------------------
(* Types.                                                                  *)

Pcs == {"recv", "look", "peek", "take", "size", "fill", "drop",
        "record", "sort", "sorting"}

Fields(A, B, C, D, E, F, G) ==
    [pc : A, order : B, best : C, qty : D, trades : E, sum : F, saved : G]

\* A frame that names the first n orders.
FrameUpTo(n) ==
    Fields(Pcs, 1..n \cup {0}, 1..n \cup {0}, Int, Seq(Sequential!TradeRecord),
           [qty : Int, price : Int], Seq(1..n))

LEMMA FrameGrows ==
    ASSUME NEW m \in Nat, NEW n \in Nat, m <= n
    PROVE  FrameUpTo(m) \subseteq FrameUpTo(n)
<1>1. 1..m \subseteq 1..n
  OBVIOUS
<1>2. Seq(1..m) \subseteq Seq(1..n)
  BY <1>1, SeqMonotonic
<1>3. 1..m \cup {0} \subseteq 1..n \cup {0}
  BY <1>1
<1> HIDE DEF Pcs
<1> QED
  BY <1>2, <1>3, Zenon DEF FrameUpTo, Fields

LEMMA TypeFacts ==
    ASSUME TypeOK
    PROVE  /\ Len(objs) \in Nat /\ objs \in Seq(OrderObject)
           /\ tape \in Seq(Sequential!TradeRecord)
           /\ replies \in Seq(Sequential!ReplyRecord) /\ Len(replies) \in Nat
           /\ frame \in [Threads -> FrameUpTo(Len(objs))]
           /\ \A n \in Orders : objs[n] \in OrderObject
           /\ \A s \in Symbols, d \in Sides :
                 book[s][d] \in Seq(Orders) /\ Len(book[s][d]) \in Nat
<1>1. Len(objs) \in Nat /\ Len(replies) \in Nat
  BY LenProperties DEF TypeOK
<1>2. frame \in [Threads -> FrameUpTo(Len(objs))]
  BY Zenon DEF TypeOK, Frame, FrameUpTo, Fields, Pcs, Orders
<1>3. \A n \in Orders : objs[n] \in OrderObject
  BY ElementOfSeq DEF TypeOK, Orders
<1>4. \A s \in Symbols, d \in Sides :
         book[s][d] \in Seq(Orders) /\ Len(book[s][d]) \in Nat
  <2> TAKE s \in Symbols, d \in Sides
  <2>1. book[s][d] \in Seq(Orders)
    BY Zenon DEF TypeOK
  <2> QED
    BY <2>1, LenProperties
<1> QED
  BY <1>1, <1>2, <1>3, <1>4 DEF TypeOK

LEMMA FrameFacts ==
    ASSUME TypeOK, NEW t \in Threads
    PROVE  /\ frame[t].pc \in Pcs
           /\ frame[t].order \in Orders \cup {0} /\ frame[t].best \in Orders \cup {0}
           /\ frame[t].qty \in Int
           /\ frame[t].trades \in Seq(Sequential!TradeRecord)
           /\ frame[t].sum.qty \in Int /\ frame[t].sum.price \in Int
           /\ frame[t].saved \in Seq(Orders)
           /\ Len(frame[t].trades) \in Nat /\ Len(frame[t].saved) \in Nat
<1>1. frame[t] \in FrameUpTo(Len(objs))
  BY TypeFacts
<1>2. /\ frame[t].pc \in Pcs
      /\ frame[t].order \in Orders \cup {0} /\ frame[t].best \in Orders \cup {0}
      /\ frame[t].qty \in Int
      /\ frame[t].trades \in Seq(Sequential!TradeRecord)
      /\ frame[t].sum \in [qty : Int, price : Int]
      /\ frame[t].saved \in Seq(Orders)
  BY <1>1, Zenon DEF FrameUpTo, Fields, Orders
<1>3. Len(frame[t].trades) \in Nat /\ Len(frame[t].saved) \in Nat
  BY <1>2, LenProperties
<1> QED
  BY <1>2, <1>3

LEMMA OrderFacts ==
    ASSUME TypeOK, NEW n \in Orders
    PROVE  /\ objs[n].ts \in Int /\ objs[n].price \in Int /\ objs[n].qty \in Int
           /\ objs[n].side \in Sides /\ objs[n].type \in {"MARKET", "LIMIT"}
           /\ objs[n].filled \in Int /\ objs[n].refused \in BOOLEAN
<1>1. objs[n] \in OrderObject
  BY TypeFacts
<1> QED
  BY <1>1 DEF OrderObject

-----------------------------------------------------------------------------
(* What a step does to the frame of its thread.                            *)

\* The frame of t, and nobody else's, becomes f.
Becomes(t, f) == frame' = [frame EXCEPT ![t] = f]

LEMMA BecomesFacts ==
    ASSUME TypeOK, NEW t \in Threads, NEW f, Becomes(t, f)
    PROVE  frame'[t] = f /\ \A u \in Threads \ {t} : frame'[u] = frame[u]
BY TypeFacts DEF Becomes

LEMMA BecomesTyped ==
    ASSUME TypeOK, NEW t \in Threads, NEW f, Becomes(t, f), NEW n \in Nat,
           Len(objs) <= n, f \in FrameUpTo(n)
    PROVE  frame' \in [Threads -> FrameUpTo(n)]
<1>1. FrameUpTo(Len(objs)) \subseteq FrameUpTo(n)
  BY FrameGrows, TypeFacts
<1>2. frame \in [Threads -> FrameUpTo(n)]
  BY <1>1, TypeFacts
<1> QED
  BY <1>2 DEF Becomes

\* Only the program counter, the best order and its quantity change.
Walks(t, pc, best, qty) ==
    Becomes(t, [pc |-> pc, order |-> frame[t].order, best |-> best, qty |-> qty,
                trades |-> frame[t].trades, sum |-> frame[t].sum,
                saved |-> frame[t].saved])

\* A change of some fields of a frame, as a new frame.
LEMMA FieldsChange ==
    ASSUME NEW n, NEW f \in FrameUpTo(n), NEW pc, NEW best, NEW qty, NEW trades, NEW saved
    PROVE  /\ [f EXCEPT !.pc = pc] =
            [pc |-> pc, order |-> f.order, best |-> f.best, qty |-> f.qty,
             trades |-> f.trades, sum |-> f.sum, saved |-> f.saved]
           /\ [f EXCEPT !.pc = pc, !.best = best] =
            [pc |-> pc, order |-> f.order, best |-> best, qty |-> f.qty,
             trades |-> f.trades, sum |-> f.sum, saved |-> f.saved]
           /\ [f EXCEPT !.pc = pc, !.qty = qty] =
            [pc |-> pc, order |-> f.order, best |-> f.best, qty |-> qty,
             trades |-> f.trades, sum |-> f.sum, saved |-> f.saved]
           /\ [f EXCEPT !.pc = pc, !.trades = trades] =
            [pc |-> pc, order |-> f.order, best |-> f.best, qty |-> f.qty,
             trades |-> trades, sum |-> f.sum, saved |-> f.saved]
           /\ [f EXCEPT !.pc = pc, !.saved = saved] =
            [pc |-> pc, order |-> f.order, best |-> f.best, qty |-> f.qty,
             trades |-> f.trades, sum |-> f.sum, saved |-> saved]
<1>1. PICK A, B, C, D, E, F, G : f \in Fields(A, B, C, D, E, F, G)
  BY Zenon DEF FrameUpTo
<1>2. [f EXCEPT !.pc = pc] =
            [pc |-> pc, order |-> f.order, best |-> f.best, qty |-> f.qty, trades |-> f.trades,
             sum |-> f.sum, saved |-> f.saved]
  BY <1>1 DEF Fields
<1>4. PICK g : g = [f EXCEPT !.pc = pc]
  OBVIOUS
<1>6. g \in Fields({pc}, B, C, D, E, F, G)
  BY <1>1, <1>2, <1>4 DEF Fields
<1>8. [g EXCEPT !.best = best] =
            [pc |-> g.pc, order |-> g.order, best |-> best, qty |-> g.qty, trades |-> g.trades,
             sum |-> g.sum, saved |-> g.saved]
  BY <1>6 DEF Fields
<1>9. [g EXCEPT !.qty = qty] =
            [pc |-> g.pc, order |-> g.order, best |-> g.best, qty |-> qty, trades |-> g.trades,
             sum |-> g.sum, saved |-> g.saved]
  BY <1>6 DEF Fields
<1>10. [g EXCEPT !.trades = trades] =
            [pc |-> g.pc, order |-> g.order, best |-> g.best, qty |-> g.qty, trades |-> trades,
             sum |-> g.sum, saved |-> g.saved]
  BY <1>6 DEF Fields
<1>11. [g EXCEPT !.saved = saved] =
            [pc |-> g.pc, order |-> g.order, best |-> g.best, qty |-> g.qty, trades |-> g.trades,
             sum |-> g.sum, saved |-> saved]
  BY <1>6 DEF Fields
<1>13. /\ g.pc = pc /\ g.order = f.order /\ g.best = f.best /\ g.qty = f.qty
       /\ g.trades = f.trades /\ g.sum = f.sum /\ g.saved = f.saved
  BY <1>2, <1>4
<1>15. /\ [f EXCEPT !.pc = pc, !.best = best] = [g EXCEPT !.best = best]
       /\ [f EXCEPT !.pc = pc, !.qty = qty] = [g EXCEPT !.qty = qty]
       /\ [f EXCEPT !.pc = pc, !.trades = trades] = [g EXCEPT !.trades = trades]
       /\ [f EXCEPT !.pc = pc, !.saved = saved] = [g EXCEPT !.saved = saved]
  BY <1>4
<1> QED
  BY <1>2, <1>8, <1>9, <1>10, <1>11, <1>13, <1>15, Zenon

LEMMA SumsChange ==
    ASSUME NEW n, NEW f \in FrameUpTo(n), NEW trades, NEW sum
    PROVE  [f EXCEPT !.trades = trades, !.sum = sum] =
             [pc |-> f.pc, order |-> f.order, best |-> f.best, qty |-> f.qty,
              trades |-> trades, sum |-> sum, saved |-> f.saved]
<1>1. PICK A, B, C, D, E, F, G : f \in Fields(A, B, C, D, E, F, G)
  BY Zenon DEF FrameUpTo
<1>2. [f EXCEPT !.trades = trades] =
        [pc |-> f.pc, order |-> f.order, best |-> f.best, qty |-> f.qty,
         trades |-> trades, sum |-> f.sum, saved |-> f.saved]
  BY <1>1 DEF Fields
<1>3. PICK h : h = [f EXCEPT !.trades = trades]
  OBVIOUS
<1>4. h \in Fields(A, B, C, D, {trades}, F, G)
  BY <1>1, <1>2, <1>3 DEF Fields
<1>5. [h EXCEPT !.sum = sum] =
        [pc |-> h.pc, order |-> h.order, best |-> h.best, qty |-> h.qty,
         trades |-> h.trades, sum |-> sum, saved |-> h.saved]
  BY <1>4 DEF Fields
<1>6. /\ h.pc = f.pc /\ h.order = f.order /\ h.best = f.best /\ h.qty = f.qty
      /\ h.trades = trades /\ h.saved = f.saved
  BY <1>2, <1>3
<1> QED
  BY <1>3, <1>5, <1>6, Zenon

\* What a step of t leaves alone, besides the frames of others.
Untouched == UNCHANGED <<objs, tape, replies, failed, contended>>

LEMMA LookFacts ==
    ASSUME TypeOK, NEW t \in Threads, Look(t)
    PROVE  /\ frame[t].pc = "look" /\ Untouched /\ UNCHANGED <<book, bare>>
           /\ \E pc \in {"record", "peek", "take"} :
                 /\ Walks(t, pc, frame[t].best, frame[t].qty)
                 /\ pc = "peek" => Mine(t).type = "LIMIT"
<1>1. PICK pc \in {"record", "peek", "take"} :
        Goto(t, pc) /\ (pc = "peek" => Mine(t).type = "LIMIT")
  BY DEF Look
<1>2. frame[t] \in FrameUpTo(Len(objs))
  BY TypeFacts
<1>3. frame' = [frame EXCEPT ![t] = [frame[t] EXCEPT !.pc = pc]]
  BY <1>1 DEF Goto
<1>4. Walks(t, pc, frame[t].best, frame[t].qty)
  BY <1>2, <1>3, FieldsChange DEF Walks, Becomes
<1> QED
  BY <1>1, <1>4 DEF Look, At, Untouched

\* Both ends of a request: with an exception, or a response.
Raises(t) ==
    /\ Becomes(t, Waiting) /\ failed' = failed \cup {frame[t].order}
    /\ UNCHANGED replies

Answers1(t) ==
    /\ Becomes(t, Waiting) /\ UNCHANGED failed
    /\ \E r \in Sequential!ReplyRecord :
          replies' = Append(replies, r) /\ r.order = frame[t].order

LEMMA PeekFacts ==
    ASSUME TypeOK, NEW t \in Threads, Peek(t)
    PROVE  /\ frame[t].pc = "peek"
           /\ UNCHANGED <<objs, book, bare, tape, contended>>
           /\ \/ Raises(t)
              \/ /\ Untouched
                 /\ \E pc \in {"record", "take"} :
                       Walks(t, pc, frame[t].best, frame[t].qty)
<1>1. frame[t].pc = "peek" /\ UNCHANGED <<objs, book, bare, tape, replies, contended>>
  BY DEF Peek, At
<1>2. CASE Raise(t)
  BY <1>1, <1>2 DEF Raise, Raises, Becomes
<1>3. CASE UNCHANGED failed /\ \E pc \in {"record", "take"} : Goto(t, pc)
  <2>1. PICK pc \in {"record", "take"} : Goto(t, pc)
    BY <1>3
  <2>2. frame[t] \in FrameUpTo(Len(objs))
    BY TypeFacts
  <2>3. frame' = [frame EXCEPT ![t] = [frame[t] EXCEPT !.pc = pc]]
    BY <2>1 DEF Goto
  <2>4. Walks(t, pc, frame[t].best, frame[t].qty)
    BY <2>2, <2>3, FieldsChange DEF Walks, Becomes
  <2> QED
    BY <1>1, <1>3, <2>4 DEF Untouched
<1> QED
  BY <1>2, <1>3 DEF Peek

LEMMA TakeFacts ==
    ASSUME TypeOK, NEW t \in Threads, Take(t)
    PROVE  /\ frame[t].pc = "take" /\ Untouched /\ UNCHANGED <<book, bare>>
           /\ \/ Walks(t, "record", frame[t].best, frame[t].qty)
              \/ /\ Makers(t) # <<>>
                 /\ Walks(t, "size", Head(Makers(t)), frame[t].qty)
<1>1. frame[t].pc = "take" /\ Untouched /\ UNCHANGED <<book, bare>>
  BY DEF Take, At, Untouched
<1>2. frame[t] \in FrameUpTo(Len(objs))
  BY TypeFacts
<1>3. CASE Makers(t) = <<>>
  <2>1. frame' = [frame EXCEPT ![t] = [frame[t] EXCEPT !.pc = "record"]]
    BY <1>3 DEF Take
  <2>2. Walks(t, "record", frame[t].best, frame[t].qty)
    BY <1>2, <2>1, FieldsChange DEF Walks, Becomes
  <2> QED
    BY <1>1, <2>2
<1>4. CASE Makers(t) # <<>>
  <2>1. PICK h : h = Head(Makers(t))
    OBVIOUS
  <2>2. frame' = [frame EXCEPT ![t] = [frame[t] EXCEPT !.pc = "size", !.best = h]]
    BY <1>4, <2>1 DEF Take
  <2>3. [frame[t] EXCEPT !.pc = "size", !.best = h] =
          [pc |-> "size", order |-> frame[t].order, best |-> h, qty |-> frame[t].qty,
           trades |-> frame[t].trades, sum |-> frame[t].sum, saved |-> frame[t].saved]
    BY <1>2, FieldsChange, Zenon
  <2>4. Walks(t, "size", h, frame[t].qty)
    BY <2>2, <2>3, Zenon DEF Walks, Becomes
  <2> QED
    BY <1>1, <1>4, <2>1, <2>4
<1> QED
  BY <1>3, <1>4

LEMMA SizeFacts ==
    ASSUME TypeOK, NEW t \in Threads, Size(t)
    PROVE  /\ frame[t].pc = "size" /\ Untouched /\ UNCHANGED <<book, bare>>
           /\ Walks(t, "fill", frame[t].best,
                    Sequential!Lesser(Sequential!Remaining(Mine(t)),
                                      Sequential!Remaining(objs[frame[t].best])))
<1>1. frame[t].pc = "size" /\ Untouched /\ UNCHANGED <<book, bare>>
  BY DEF Size, At, Untouched
<1>2. frame[t] \in FrameUpTo(Len(objs))
  BY TypeFacts
<1>3. PICK q : q = Sequential!Lesser(Sequential!Remaining(Mine(t)),
                                     Sequential!Remaining(objs[frame[t].best]))
  OBVIOUS
<1>4. frame' = [frame EXCEPT ![t] = [frame[t] EXCEPT !.pc = "fill", !.qty = q]]
  BY <1>3 DEF Size
<1>5. [frame[t] EXCEPT !.pc = "fill", !.qty = q] =
        [pc |-> "fill", order |-> frame[t].order, best |-> frame[t].best, qty |-> q,
         trades |-> frame[t].trades, sum |-> frame[t].sum, saved |-> frame[t].saved]
  BY <1>2, FieldsChange, Zenon
<1>6. Walks(t, "fill", frame[t].best, q)
  BY <1>4, <1>5, Zenon DEF Walks, Becomes
<1> QED
  BY <1>1, <1>3, <1>6

\* The trade that FillBoth makes.
NewTrade(t) == Sequential!Trade(frame[t].order, frame[t].best, frame[t].qty)

LEMMA NewTradeFacts ==
    ASSUME TypeOK, NEW t \in Threads, frame[t].order # 0, frame[t].best # 0
    PROVE  /\ NewTrade(t) \in Sequential!TradeRecord
           /\ NewTrade(t).qty = frame[t].qty
           /\ {NewTrade(t).buy, NewTrade(t).sell} = {frame[t].order, frame[t].best}
<1>1. PICK o \in Orders, b \in Orders : o = frame[t].order /\ b = frame[t].best
  BY FrameFacts
<1>2. objs[o] \in OrderObject /\ objs[b] \in OrderObject /\ frame[t].qty \in Int
      /\ o \in Nat /\ b \in Nat
  BY FrameFacts, TypeFacts DEF Orders
<1>3. objs[o].symbol \in Names /\ objs[b].price \in Int
  BY <1>2 DEF OrderObject
<1>4. PICK q \in Int : q = frame[t].qty
  BY <1>2
<1>5. NewTrade(t) = [buy |-> IF objs[o].side = "BUY" THEN o ELSE b,
                     sell |-> IF objs[o].side = "BUY" THEN b ELSE o,
                     symbol |-> objs[o].symbol, price |-> objs[b].price, qty |-> q]
  BY <1>1, <1>4 DEF NewTrade, Sequential!Trade, Orders
<1>6. NewTrade(t) \in Sequential!TradeRecord
  BY <1>2, <1>3, <1>5 DEF Sequential!TradeRecord
<1> QED
  BY <1>1, <1>4, <1>5, <1>6

LEMMA FillFacts ==
    ASSUME TypeOK, NEW t \in Threads, FillBoth(t), frame[t].order # 0, frame[t].best # 0,
           frame[t].best # frame[t].order
    PROVE  /\ frame[t].pc = "fill"
           /\ UNCHANGED <<book, bare, tape, replies, failed, contended>>
           /\ Becomes(t, [pc |-> "drop", order |-> frame[t].order, best |-> frame[t].best,
                          qty |-> frame[t].qty,
                          trades |-> Append(frame[t].trades, NewTrade(t)),
                          sum |-> frame[t].sum, saved |-> frame[t].saved])
           /\ objs' \in Seq(OrderObject) /\ Len(objs') = Len(objs)
           /\ \A n \in Orders :
                 /\ objs'[n].id = objs[n].id /\ objs'[n].ts = objs[n].ts
                 /\ objs'[n].symbol = objs[n].symbol /\ objs'[n].side = objs[n].side
                 /\ objs'[n].price = objs[n].price /\ objs'[n].qty = objs[n].qty
                 /\ objs'[n].type = objs[n].type /\ objs'[n].refused = objs[n].refused
                 /\ objs'[n].filled = IF n \in {frame[t].order, frame[t].best}
                                      THEN objs[n].filled + frame[t].qty
                                      ELSE objs[n].filled
<1>1. PICK o \in Orders, b \in Orders, q \in Int :
        o = frame[t].order /\ b = frame[t].best /\ q = frame[t].qty
  BY FrameFacts
<1>2. objs' = [objs EXCEPT ![b].filled = @ + q, ![o].filled = @ + q]
  BY <1>1 DEF FillBoth
<1>3. Len(objs) \in Nat /\ objs \in [1..Len(objs) -> OrderObject]
  BY TypeFacts, LenProperties
<1>4. PICK mid : mid = [objs EXCEPT ![b].filled = @ + q]
  OBVIOUS
<1>5. \A x \in OrderObject : [x EXCEPT !.filled = @ + q] \in OrderObject
  <2> TAKE x \in OrderObject
  <2>1. x.filled + q \in Int
    BY DEF OrderObject
  <2> QED
    BY <2>1 DEF OrderObject
<1>6. mid \in [1..Len(objs) -> OrderObject]
  <2>1. mid = [objs EXCEPT ![b] = [objs[b] EXCEPT !.filled = @ + q]]
    BY <1>4
  <2> QED
    BY <2>1, <1>3, <1>5 DEF Orders
<1>7. objs' = [mid EXCEPT ![o] = [mid[o] EXCEPT !.filled = @ + q]]
  <2>1. mid[o] = objs[o]
    BY <1>1, <1>3, <1>4 DEF Orders
  <2>2. objs' = [mid EXCEPT ![o].filled = objs[o].filled + q]
    BY <1>2, <1>4, Zenon
  <2> QED
    BY <2>1, <2>2
<1>8. objs' \in [1..Len(objs) -> OrderObject]
  BY <1>5, <1>6, <1>7 DEF Orders
<1>9. objs' \in Seq(OrderObject) /\ Len(objs') = Len(objs)
  BY <1>3, <1>8, LenProperties, SeqDef
<1>10. ASSUME NEW x \in OrderObject, NEW y, y = [x EXCEPT !.filled = @ + q]
       PROVE  /\ y.id = x.id /\ y.ts = x.ts /\ y.symbol = x.symbol /\ y.side = x.side
              /\ y.price = x.price /\ y.qty = x.qty /\ y.type = x.type
              /\ y.refused = x.refused /\ y.filled = x.filled + q
  BY <1>10 DEF OrderObject
<1>11. ASSUME NEW n \in Orders
       PROVE  /\ objs'[n].id = objs[n].id /\ objs'[n].ts = objs[n].ts
              /\ objs'[n].symbol = objs[n].symbol /\ objs'[n].side = objs[n].side
              /\ objs'[n].price = objs[n].price /\ objs'[n].qty = objs[n].qty
              /\ objs'[n].type = objs[n].type /\ objs'[n].refused = objs[n].refused
              /\ objs'[n].filled = IF n \in {o, b} THEN objs[n].filled + q
                                   ELSE objs[n].filled
  <2>1. objs[n] \in OrderObject /\ mid[n] \in OrderObject
    BY <1>3, <1>6 DEF Orders
  <2>2. mid[n] = IF n = b THEN [objs[n] EXCEPT !.filled = @ + q] ELSE objs[n]
    BY <1>3, <1>4 DEF Orders
  <2>3. objs'[n] = IF n = o THEN [mid[n] EXCEPT !.filled = @ + q] ELSE mid[n]
    BY <1>6, <1>7 DEF Orders
  <2>4. /\ mid[n].id = objs[n].id /\ mid[n].ts = objs[n].ts
        /\ mid[n].symbol = objs[n].symbol /\ mid[n].side = objs[n].side
        /\ mid[n].price = objs[n].price /\ mid[n].qty = objs[n].qty
        /\ mid[n].type = objs[n].type /\ mid[n].refused = objs[n].refused
        /\ mid[n].filled = IF n = b THEN objs[n].filled + q ELSE objs[n].filled
    BY <1>10, <2>1, <2>2
  <2>5. /\ objs'[n].id = mid[n].id /\ objs'[n].ts = mid[n].ts
        /\ objs'[n].symbol = mid[n].symbol /\ objs'[n].side = mid[n].side
        /\ objs'[n].price = mid[n].price /\ objs'[n].qty = mid[n].qty
        /\ objs'[n].type = mid[n].type /\ objs'[n].refused = mid[n].refused
        /\ objs'[n].filled = IF n = o THEN mid[n].filled + q ELSE mid[n].filled
    BY <1>10, <2>1, <2>3
  <2> QED
    BY <1>1, <2>4, <2>5
<1>12. frame[t] \in FrameUpTo(Len(objs))
  BY TypeFacts
<1>13. PICK ts : ts = Append(frame[t].trades, NewTrade(t))
  OBVIOUS
<1>14. frame' = [frame EXCEPT ![t] = [frame[t] EXCEPT !.pc = "drop", !.trades = ts]]
  BY <1>13 DEF FillBoth, NewTrade
<1>15. [frame[t] EXCEPT !.pc = "drop", !.trades = ts] =
         [pc |-> "drop", order |-> frame[t].order, best |-> frame[t].best,
          qty |-> frame[t].qty, trades |-> ts, sum |-> frame[t].sum,
          saved |-> frame[t].saved]
  BY <1>12, FieldsChange, Zenon
<1>16. Becomes(t, [pc |-> "drop", order |-> frame[t].order, best |-> frame[t].best,
                   qty |-> frame[t].qty, trades |-> ts, sum |-> frame[t].sum,
                   saved |-> frame[t].saved])
  BY <1>14, <1>15, Zenon DEF Becomes
<1> QED
  BY <1>1, <1>9, <1>11, <1>13, <1>16, ZenonT(60) DEF FillBoth, At


-----------------------------------------------------------------------------
(* What a step does to a list.                                             *)

\* The list of s on side d becomes l.
Puts(s, d, l) == book' = [book EXCEPT ![s][d] = l]

LEMMA PutsFacts ==
    ASSUME TypeOK, NEW s \in Symbols, NEW d \in Sides, NEW l \in Seq(Orders), Puts(s, d, l)
    PROVE  /\ book' \in [Symbols -> [Sides -> Seq(Orders)]]
           /\ \A r \in Symbols, e \in Sides :
                 book'[r][e] = IF r = s /\ e = d THEN l ELSE book[r][e]
<1>1. book \in [Symbols -> [Sides -> Seq(Orders)]]
  BY Zenon DEF TypeOK
<1>2. PICK S : S = Seq(Orders)
  OBVIOUS
<1>3. book \in [Symbols -> [Sides -> S]] /\ l \in S
  BY <1>1, <1>2
<1> QED
  BY <1>2, <1>3 DEF Puts

LEMMA BareTyped ==
    ASSUME TypeOK, NEW s \in Symbols, NEW d \in Sides, NEW b \in BOOLEAN,
           bare' = [bare EXCEPT ![s][d] = b]
    PROVE  bare' \in [Symbols -> [Sides -> BOOLEAN]]
BY DEF TypeOK

\* The lists a handler works with.
LEMMA HandlerLists ==
    ASSUME TypeOK, NEW t \in Threads, HandlerKnows(t), frame[t].pc # "recv"
    PROVE  /\ frame[t].order \in Orders /\ frame[t].order # 0
           /\ Mine(t).symbol \in Symbols /\ Mine(t).side \in Sides
           /\ Sequential!Opposite(Mine(t).side) \in Sides
           /\ Sequential!Opposite(Mine(t).side) # Mine(t).side
           /\ Makers(t) \in Seq(Orders) /\ Own(t) \in Seq(Orders)
<1>1. frame[t].order \in Orders /\ frame[t].order # 0
  BY FrameFacts DEF HandlerKnows
<1>2. Mine(t).symbol \in Symbols /\ Mine(t).side \in Sides
  BY <1>1, OrderFacts DEF HandlerKnows, Mine
<1>3. Sequential!Opposite(Mine(t).side) \in Sides \ {Mine(t).side}
  BY <1>2 DEF Sequential!Opposite, Sides
<1> QED
  BY <1>1, <1>2, <1>3, TypeFacts DEF Makers, Own

LEMMA DropFacts ==
    ASSUME TypeOK, NEW t \in Threads, Drop(t)
    PROVE  /\ frame[t].pc = "drop"
           /\ UNCHANGED <<objs, bare, tape, replies, contended>>
           /\ \/ /\ Untouched /\ UNCHANGED book
                 /\ Walks(t, "look", frame[t].best, frame[t].qty)
              \/ /\ Untouched /\ Makers(t) # <<>>
                 /\ Walks(t, "look", frame[t].best, frame[t].qty)
                 /\ Puts(Mine(t).symbol, Sequential!Opposite(Mine(t).side), Tail(Makers(t)))
              \/ Raises(t) /\ UNCHANGED book
<1>1. frame[t].pc = "drop" /\ UNCHANGED <<objs, bare, tape, replies, contended>>
  BY DEF Drop, At
<1>2. Goto(t, "look") => Walks(t, "look", frame[t].best, frame[t].qty)
  <2> HAVE Goto(t, "look")
  <2>1. frame[t] \in FrameUpTo(Len(objs))
    BY TypeFacts
  <2>2. frame' = [frame EXCEPT ![t] = [frame[t] EXCEPT !.pc = "look"]]
    BY DEF Goto
  <2> QED
    BY <2>1, <2>2, FieldsChange DEF Walks, Becomes
<1>3. \/ Goto(t, "look") /\ UNCHANGED <<book, failed>>
      \/ /\ Goto(t, "look") /\ UNCHANGED failed /\ Makers(t) # <<>>
         /\ Puts(Mine(t).symbol, Sequential!Opposite(Mine(t).side), Tail(Makers(t)))
      \/ Raise(t) /\ UNCHANGED book
  BY DEF Drop, Puts, Makers
<1>4. Raise(t) => Raises(t)
  BY <1>1 DEF Raise, Raises, Becomes
<1> QED
  BY <1>1, <1>2, <1>3, <1>4 DEF Untouched

LEMMA RecordFacts ==
    ASSUME TypeOK, NEW t \in Threads, Record(t)
    PROVE  /\ frame[t].pc = "record" /\ frame[t].trades # <<>>
           /\ UNCHANGED <<objs, book, bare, replies, failed, contended>>
           /\ tape' = Append(tape, Head(frame[t].trades))
           /\ Becomes(t, [pc |-> frame[t].pc, order |-> frame[t].order,
                          best |-> frame[t].best, qty |-> frame[t].qty,
                          trades |-> Tail(frame[t].trades),
                          sum |-> [qty |-> frame[t].sum.qty + Head(frame[t].trades).qty,
                                   price |-> Head(frame[t].trades).price],
                          saved |-> frame[t].saved])
<1>1. /\ frame[t].pc = "record" /\ frame[t].trades # <<>>
      /\ UNCHANGED <<objs, book, bare, replies, failed, contended>>
      /\ tape' = Append(tape, Head(frame[t].trades))
  BY DEF Record, At
<1>2. PICK ts, sum : /\ ts = Tail(frame[t].trades)
                     /\ sum = [qty |-> frame[t].sum.qty + Head(frame[t].trades).qty,
                               price |-> Head(frame[t].trades).price]
  OBVIOUS
<1>3. frame' = [frame EXCEPT ![t] = [frame[t] EXCEPT !.trades = ts, !.sum = sum]]
  BY <1>2 DEF Record
<1>4. frame[t] \in FrameUpTo(Len(objs))
  BY TypeFacts
<1>5. [frame[t] EXCEPT !.trades = ts, !.sum = sum] =
        [pc |-> frame[t].pc, order |-> frame[t].order, best |-> frame[t].best,
         qty |-> frame[t].qty, trades |-> ts, sum |-> sum, saved |-> frame[t].saved]
  BY <1>4, SumsChange, Zenon
<1>6. Becomes(t, [pc |-> frame[t].pc, order |-> frame[t].order, best |-> frame[t].best,
                  qty |-> frame[t].qty, trades |-> ts, sum |-> sum,
                  saved |-> frame[t].saved])
  BY <1>3, <1>5, Zenon DEF Becomes
<1> QED
  BY <1>1, <1>2, <1>6

LEMMA ReplyTyped ==
    ASSUME TypeOK, NEW n \in Orders \cup {0}, NEW price \in Int, NEW qty \in Int,
           NEW status \in {"PENDING", "PARTIALLY_FILLED", "FILLED", "REJECTED"}
    PROVE  /\ Sequential!Reply(n, status, price, qty) \in Sequential!ReplyRecord
           /\ Sequential!Reply(n, status, price, qty).order = n
<1>1. n \in Nat
  BY TypeFacts DEF Orders
<1> QED
  BY <1>1 DEF Sequential!Reply, Sequential!ReplyRecord, Sequential!Statuses

LEMMA AnswerFacts ==
    ASSUME TypeOK, NEW t \in Threads, UNCHANGED failed,
           NEW status \in {"PENDING", "PARTIALLY_FILLED", "FILLED", "REJECTED"},
           Answer(t, status)
    PROVE  Answers1(t)
<1>1. PICK n \in Orders \cup {0}, p \in Int, q \in Int :
        n = frame[t].order /\ p = frame[t].sum.price /\ q = frame[t].sum.qty
  BY FrameFacts
<1>2. PICK r : r = Sequential!Reply(n, status, p, q)
  OBVIOUS
<1>3. r \in Sequential!ReplyRecord /\ r.order = n
  BY <1>2, ReplyTyped
<1> QED
  BY <1>1, <1>2, <1>3 DEF Answer, Answers1, Becomes

LEMMA FinishFacts ==
    ASSUME TypeOK, NEW t \in Threads, Finish(t)
    PROVE  /\ frame[t].pc = "record" /\ frame[t].trades = <<>>
           /\ UNCHANGED <<objs, book, bare, tape, failed, contended>>
           /\ Answers1(t)
<1>1. /\ frame[t].pc = "record" /\ frame[t].trades = <<>>
      /\ UNCHANGED <<objs, book, bare, tape, failed, contended>>
  BY DEF Finish, At
<1>2. \E status \in {"PENDING", "PARTIALLY_FILLED", "FILLED", "REJECTED"} : Answer(t, status)
  BY DEF Finish
<1> QED
  BY <1>1, <1>2, AnswerFacts

LEMMA RestFacts ==
    ASSUME TypeOK, NEW t \in Threads, HandlerKnows(t), Rest(t)
    PROVE  /\ frame[t].pc = "record" /\ frame[t].trades = <<>> /\ Mine(t).type = "LIMIT"
           /\ Untouched
           /\ Puts(Mine(t).symbol, Mine(t).side, Append(Own(t), frame[t].order))
           /\ bare' \in [Symbols -> [Sides -> BOOLEAN]]
           /\ Walks(t, "sort", frame[t].best, frame[t].qty)
<1>1. /\ frame[t].pc = "record" /\ frame[t].trades = <<>> /\ Mine(t).type = "LIMIT"
      /\ Untouched
      /\ Puts(Mine(t).symbol, Mine(t).side, Append(Own(t), frame[t].order))
      /\ Goto(t, "sort")
  BY DEF Rest, At, Puts, Own, Untouched
<1>2. bare' \in [Symbols -> [Sides -> BOOLEAN]]
  BY <1>1, HandlerLists, BareTyped DEF Rest
<1>3. frame[t] \in FrameUpTo(Len(objs))
  BY TypeFacts
<1>4. frame' = [frame EXCEPT ![t] = [frame[t] EXCEPT !.pc = "sort"]]
  BY <1>1 DEF Goto
<1>5. Walks(t, "sort", frame[t].best, frame[t].qty)
  BY <1>3, <1>4, FieldsChange DEF Walks, Becomes
<1> QED
  BY <1>1, <1>2, <1>5

LEMMA SortBeginFacts ==
    ASSUME TypeOK, NEW t \in Threads, HandlerKnows(t), SortBegin(t)
    PROVE  /\ frame[t].pc = "sort" /\ UNCHANGED <<objs, tape, failed, contended>>
           /\ \/ Answers1(t) /\ UNCHANGED <<book, bare>>
              \/ /\ UNCHANGED replies
                 /\ Puts(Mine(t).symbol, Mine(t).side, <<>>)
                 /\ bare' \in [Symbols -> [Sides -> BOOLEAN]]
                 /\ Becomes(t, [pc |-> "sorting", order |-> frame[t].order,
                                best |-> frame[t].best, qty |-> frame[t].qty,
                                trades |-> frame[t].trades, sum |-> frame[t].sum,
                                saved |-> Own(t)])
<1>1. frame[t].pc = "sort" /\ UNCHANGED <<objs, tape, failed, contended>>
  BY DEF SortBegin, At
<1>2. CASE Answer(t, RestStatus(t)) /\ UNCHANGED <<book, bare>>
  BY <1>1, <1>2, AnswerFacts DEF RestStatus
<1>3. CASE /\ frame' = [frame EXCEPT ![t].pc = "sorting", ![t].saved = Own(t)]
           /\ book' = [book EXCEPT ![Mine(t).symbol][Mine(t).side] = <<>>]
           /\ bare' = [bare EXCEPT ![Mine(t).symbol][Mine(t).side] = TRUE]
           /\ UNCHANGED replies
  <2>1. bare' \in [Symbols -> [Sides -> BOOLEAN]]
    BY <1>1, <1>3, HandlerLists, BareTyped
  <2>2. PICK l : l = Own(t)
    OBVIOUS
  <2>3. frame' = [frame EXCEPT ![t] = [frame[t] EXCEPT !.pc = "sorting", !.saved = l]]
    BY <1>3, <2>2
  <2>4. frame[t] \in FrameUpTo(Len(objs))
    BY TypeFacts
  <2>5. [frame[t] EXCEPT !.pc = "sorting", !.saved = l] =
          [pc |-> "sorting", order |-> frame[t].order, best |-> frame[t].best,
           qty |-> frame[t].qty, trades |-> frame[t].trades, sum |-> frame[t].sum,
           saved |-> l]
    BY <2>4, FieldsChange, Zenon
  <2>6. Becomes(t, [pc |-> "sorting", order |-> frame[t].order, best |-> frame[t].best,
                    qty |-> frame[t].qty, trades |-> frame[t].trades,
                    sum |-> frame[t].sum, saved |-> l])
    BY <2>3, <2>5, Zenon DEF Becomes
  <2> QED
    BY <1>1, <1>3, <2>1, <2>2, <2>6 DEF Puts
<1> QED
  BY <1>2, <1>3 DEF SortBegin

LEMMA SortEndFacts ==
    ASSUME TypeOK, NEW t \in Threads, HandlerKnows(t), SortEnd(t)
    PROVE  /\ frame[t].pc = "sorting" /\ UNCHANGED <<objs, tape, contended>>
           /\ Puts(Mine(t).symbol, Mine(t).side, Sequential!StableSort(frame[t].saved))
           /\ bare' \in [Symbols -> [Sides -> BOOLEAN]]
           /\ Answers1(t) \/ Raises(t)
<1>1. /\ frame[t].pc = "sorting" /\ UNCHANGED <<objs, tape, contended>>
      /\ Puts(Mine(t).symbol, Mine(t).side, Sequential!StableSort(frame[t].saved))
  BY DEF SortEnd, At, Puts
<1>2. bare' \in [Symbols -> [Sides -> BOOLEAN]]
  BY <1>1, HandlerLists, BareTyped DEF SortEnd
<1>3. CASE Answer(t, RestStatus(t)) /\ UNCHANGED failed
  BY <1>1, <1>2, <1>3, AnswerFacts DEF RestStatus
<1>4. CASE Raise(t) /\ UNCHANGED replies
  BY <1>1, <1>2, <1>4 DEF Raise, Raises, Becomes
<1> QED
  BY <1>3, <1>4 DEF SortEnd

\* An order that has just been parsed, and a handler that has just begun.
LEMMA ParsedFacts ==
    ASSUME NEW m \in Messages, NEW r \in BOOLEAN
    PROVE  /\ Parsed(m, r) \in OrderObject
           /\ Parsed(m, r).filled = 0 /\ Parsed(m, r).refused = r
           /\ Parsed(m, r).symbol = m.symbol /\ Parsed(m, r).qty = m.qty
           /\ Sequential!Valid(m) => m.symbol \in Symbols /\ m.qty > 0
<1>1. m \in Sequential!Message /\ MinOrderSize \in Nat \ {0}
  BY RequestsAssumption
<1>2. Parsed(m, r) \in OrderObject
  BY <1>1 DEF Parsed, OrderObject, Sides, Sequential!Message, Sequential!Sides,
              Sequential!OrderTypes
<1>3. m.qty \in Int
  BY <1>1 DEF Sequential!Message
<1> QED
  BY <1>1, <1>2, <1>3 DEF Parsed, Sequential!Valid

\* What both kinds of request do to the list of orders.
LEMMA ArrivalFacts ==
    ASSUME TypeOK, NEW x \in OrderObject, objs' = Append(objs, x)
    PROVE  /\ objs' \in Seq(OrderObject) /\ Len(objs') = Len(objs) + 1
           /\ Len(objs) \in Nat
           /\ \A n \in Orders : objs'[n] = objs[n]
           /\ objs'[Len(objs) + 1] = x
<1>1. Len(objs) \in Nat /\ objs \in Seq(OrderObject)
  BY TypeFacts
<1> QED
  BY <1>1, AppendProperties DEF Orders

LEMMA ReceiveFacts ==
    ASSUME TypeOK, NEW t \in Threads, NEW m \in Messages, Receive(t, m)
    PROVE  /\ frame[t].pc = "recv" /\ Sequential!Valid(m)
           /\ objs' = Append(objs, Parsed(m, FALSE))
           /\ UNCHANGED <<book, bare, tape, replies, failed>>
           /\ contended' \subseteq contended \cup {m.symbol}
           /\ Becomes(t, [pc |-> "look", order |-> Len(objs) + 1, best |-> 0, qty |-> 0,
                          trades |-> <<>>, sum |-> [qty |-> 0, price |-> 0],
                          saved |-> <<>>])
<1>1. /\ frame[t].pc = "recv" /\ Sequential!Valid(m)
      /\ objs' = Append(objs, Parsed(m, FALSE))
      /\ UNCHANGED <<book, bare, tape, replies, failed>>
      /\ contended' \subseteq contended \cup {m.symbol}
  BY DEF Receive, At
<1>2. PICK n : n = Len(objs) + 1
  OBVIOUS
<1>3. [Waiting EXCEPT !.pc = "look", !.order = n] =
        [pc |-> "look", order |-> n, best |-> 0, qty |-> 0, trades |-> <<>>,
         sum |-> [qty |-> 0, price |-> 0], saved |-> <<>>]
  <2>1. PICK w : w = [Waiting EXCEPT !.pc = "look"]
    OBVIOUS
  <2>2. PICK zero, none : zero = [qty |-> 0, price |-> 0] /\ none = <<>>
    OBVIOUS
  <2>3. Waiting = [pc |-> "recv", order |-> 0, best |-> 0, qty |-> 0, trades |-> none,
                   sum |-> zero, saved |-> none]
    BY <2>2, Zenon DEF Waiting
  <2>4. w = [pc |-> "look", order |-> 0, best |-> 0, qty |-> 0, trades |-> none,
             sum |-> zero, saved |-> none]
    BY <2>1, <2>3
  <2>5. [w EXCEPT !.order = n] = [pc |-> "look", order |-> n, best |-> 0, qty |-> 0,
                                  trades |-> none, sum |-> zero, saved |-> none]
    BY <2>4
  <2>6. [Waiting EXCEPT !.pc = "look", !.order = n] = [w EXCEPT !.order = n]
    BY <2>1, Zenon
  <2> QED
    BY <2>2, <2>5, <2>6, Zenon
<1> QED
  BY <1>1, <1>2, <1>3 DEF Receive, Becomes

LEMMA RefuseFacts ==
    ASSUME TypeOK, NEW t \in Threads, NEW m \in Messages, Refuse(t, m)
    PROVE  /\ objs' = Append(objs, Parsed(m, TRUE))
           /\ UNCHANGED <<book, bare, tape, frame, failed, contended>>
           /\ \E r : replies' = Append(replies, r)
                     /\ r.order = Len(objs) + 1 /\ r \in Sequential!ReplyRecord
<1>1. PICK r : r = Sequential!Reply(Len(objs) + 1, "REJECTED", 0, 0)
  OBVIOUS
<1>2. Len(objs) + 1 \in Nat
  BY TypeFacts
<1>3. r \in Sequential!ReplyRecord /\ r.order = Len(objs) + 1
  BY <1>1, <1>2 DEF Sequential!Reply, Sequential!ReplyRecord, Sequential!Statuses
<1> QED
  BY <1>1, <1>3 DEF Refuse

-----------------------------------------------------------------------------
(* Type correctness.                                                       *)

LEMMA FrameTyped ==
    ASSUME NEW n \in Nat, NEW pc \in Pcs, NEW order \in 1..n \cup {0},
           NEW best \in 1..n \cup {0}, NEW qty \in Int,
           NEW trades \in Seq(Sequential!TradeRecord), NEW sum \in [qty : Int, price : Int],
           NEW saved \in Seq(1..n)
    PROVE  [pc |-> pc, order |-> order, best |-> best, qty |-> qty, trades |-> trades,
            sum |-> sum, saved |-> saved] \in FrameUpTo(n)
<1> DEFINE O == 1..n \cup {0}
           T == Seq(Sequential!TradeRecord)
           S == [qty : Int, price : Int]
           L == Seq(1..n)
<1>1. order \in O /\ best \in O /\ trades \in T /\ sum \in S /\ saved \in L
  OBVIOUS
<1>2. FrameUpTo(n) = [pc : Pcs, order : O, best : O, qty : Int, trades : T, sum : S,
                      saved : L]
  BY Zenon DEF FrameUpTo, Fields
<1> HIDE DEF O, T, S, L, Pcs
<1> QED
  BY <1>1, <1>2

LEMMA WaitingTyped == ASSUME NEW n \in Nat PROVE Waiting \in FrameUpTo(n)
<1>1. /\ <<>> \in Seq(Sequential!TradeRecord) /\ <<>> \in Seq(1..n)
      /\ [qty |-> 0, price |-> 0] \in [qty : Int, price : Int]
      /\ 0 \in 1..n \cup {0} /\ "recv" \in Pcs /\ 0 \in Int
  BY DEF Pcs
<1> QED
  BY <1>1, FrameTyped, Zenon DEF Waiting

LEMMA TypeParts ==
    ASSUME TypeOK
    PROVE  /\ objs \in Seq(OrderObject)
           /\ book \in [Symbols -> [Sides -> Seq(Orders)]]
           /\ bare \in [Symbols -> [Sides -> BOOLEAN]]
           /\ tape \in Seq(Sequential!TradeRecord)
           /\ frame \in [Threads -> FrameUpTo(Len(objs))]
           /\ replies \in Seq(Sequential!ReplyRecord)
           /\ failed \subseteq Orders /\ contended \subseteq Symbols
BY TypeFacts, Zenon DEF TypeOK

\* Where the orders stay, the rest of the types need not be looked at twice.
LEMMA TypeSame ==
    ASSUME TypeOK, objs' \in Seq(OrderObject), Len(objs') = Len(objs),
           book' \in [Symbols -> [Sides -> Seq(Orders)]],
           bare' \in [Symbols -> [Sides -> BOOLEAN]],
           tape' \in Seq(Sequential!TradeRecord),
           frame' \in [Threads -> FrameUpTo(Len(objs))],
           replies' \in Seq(Sequential!ReplyRecord),
           failed' \subseteq Orders, contended' \subseteq Symbols
    PROVE  TypeOK'
<1>1. Orders' = Orders
  BY DEF Orders
<1>2. frame' \in [Threads -> FrameUpTo(Len(objs'))]
  BY Zenon
<1>3. /\ book' \in [Symbols -> [Sides -> Seq(Orders')]]
      /\ failed' \subseteq Orders'
  BY <1>1, Zenon
<1> QED
  BY <1>2, <1>3, Zenon DEF TypeOK, Frame, FrameUpTo, Fields, Pcs, Orders

LEMMA WalksTyped ==
    ASSUME TypeOK, NEW t \in Threads, NEW pc \in Pcs, NEW best \in Orders \cup {0},
           NEW qty \in Int, Walks(t, pc, best, qty)
    PROVE  frame' \in [Threads -> FrameUpTo(Len(objs))]
<1>1. PICK n \in Nat : n = Len(objs)
  BY TypeFacts
<1>2. PICK f : f = [pc |-> pc, order |-> frame[t].order, best |-> best, qty |-> qty,
                    trades |-> frame[t].trades, sum |-> frame[t].sum,
                    saved |-> frame[t].saved]
  OBVIOUS
<1>3. frame[t] \in FrameUpTo(n)
  BY <1>1, TypeFacts
<1>4. f \in FrameUpTo(n)
  BY <1>1, <1>2, <1>3, FrameTyped, Zenon DEF FrameUpTo, Fields, Orders
<1> QED
  BY <1>1, <1>2, <1>4, BecomesTyped DEF Walks

LEMMA EndsTyped ==
    ASSUME TypeOK, NEW t \in Threads, frame[t].order # 0, Answers1(t) \/ Raises(t)
    PROVE  /\ frame' \in [Threads -> FrameUpTo(Len(objs))]
           /\ replies' \in Seq(Sequential!ReplyRecord) /\ failed' \subseteq Orders
<1>1. PICK n \in Nat : n = Len(objs)
  BY TypeFacts
<1>2. frame' \in [Threads -> FrameUpTo(n)]
  BY <1>1, WaitingTyped, BecomesTyped DEF Answers1, Raises
<1>3. failed' \subseteq Orders
  BY FrameFacts, TypeParts DEF Answers1, Raises
<1>4. replies' \in Seq(Sequential!ReplyRecord)
  <2>1. PICK R : R = Sequential!ReplyRecord
    OBVIOUS
  <2>2. replies \in Seq(R)
    BY <2>1, TypeParts
  <2>3. CASE Raises(t)
    BY <2>1, <2>2, <2>3 DEF Raises
  <2>4. CASE Answers1(t)
    <3>1. PICK r \in R : replies' = Append(replies, r)
      BY <2>1, <2>4 DEF Answers1
    <3> QED
      BY <2>1, <2>2, <3>1, AppendProperties
  <2> QED
    BY <2>3, <2>4
<1> QED
  BY <1>1, <1>2, <1>3, <1>4

-----------------------------------------------------------------------------
(* Sorting: every rank of a strict total order is taken, so that a sorted  *)
(* list holds what the list held, each element once.                       *)

LEMMA RanksTaken ==
    ASSUME NEW n \in Nat, NEW R,
           \A i \in 1..n : <<i, i>> \notin R,
           \A i, j \in 1..n : i # j => <<i, j>> \in R \/ <<j, i>> \in R,
           \A i, j, k \in 1..n : <<i, j>> \in R /\ <<j, k>> \in R => <<i, k>> \in R
    PROVE  \A k \in 1..n : \E i \in 1..n :
              Cardinality({j \in 1..n : <<j, i>> \in R}) = k - 1
<1> DEFINE Below(i) == {j \in 1..n : <<j, i>> \in R}
           S == 1..n
           T == 0..(n - 1)
           f == [i \in S |-> Cardinality(Below(i))]
<1>1. /\ IsFiniteSet(S) /\ Cardinality(S) = n
      /\ IsFiniteSet(T) /\ Cardinality(T) = n
  BY FS_Interval
<1>2. \A i \in S : IsFiniteSet(Below(i)) /\ Cardinality(Below(i)) \in T
  <2> TAKE i \in S
  <2>1. Below(i) \subseteq S \ {i}
    OBVIOUS
  <2>2. IsFiniteSet(S \ {i}) /\ Cardinality(S \ {i}) = n - 1
    BY <1>1, FS_RemoveElement
  <2>3. IsFiniteSet(Below(i)) /\ Cardinality(Below(i)) <= n - 1
    <3> HIDE DEF Below
    <3> QED
      BY <2>1, <2>2, FS_Subset
  <2>4. Cardinality(Below(i)) \in Nat
    BY <2>3, FS_CardinalityType
  <2> QED
    BY <2>3, <2>4
<1>3. ASSUME NEW i \in S, NEW j \in S, <<i, j>> \in R
      PROVE  Cardinality(Below(i)) # Cardinality(Below(j))
  <2>1. Below(i) \subseteq Below(j) /\ i \in Below(j) /\ i \notin Below(i)
    BY <1>3
  <2>2. Cardinality(Below(j)) = Cardinality(Below(i)) => Below(j) = Below(i)
    <3> HIDE DEF Below
    <3> QED
      BY <1>2, <2>1, FS_Subset
  <2> QED
    BY <2>1, <2>2
<1>4. f \in Injection(S, T)
  <2>1. f \in [S -> T]
    BY <1>2
  <2>2. ASSUME NEW i \in S, NEW j \in S, f[i] = f[j]
        PROVE  i = j
    <3>1. f[i] = Cardinality(Below(i)) /\ f[j] = Cardinality(Below(j))
      OBVIOUS
    <3> HIDE DEF f, Below
    <3> QED
      BY <1>3, <2>2, <3>1
  <2> HIDE DEF f, S, T
  <2> QED
    BY <2>1, <2>2 DEF Injection, IsInjective
<1>5. f \in Surjection(S, T)
  <2> HIDE DEF f, S, T
  <2> QED
    BY <1>1, <1>4, FS_Injection
<1>6. \A k \in T : \E i \in S : f[i] = k
  <2> HIDE DEF f, S, T
  <2> QED
    BY <1>5 DEF Surjection
<1> QED
  <2> TAKE k \in 1..n
  <2>1. k - 1 \in T
    OBVIOUS
  <2>2. PICK i \in S : f[i] = k - 1
    BY <1>6, <2>1
  <2> QED
    BY <2>2

\* What an order is compared by.
LEMMA ViewFacts ==
    ASSUME TypeOK, NEW a \in Orders, NEW b \in Orders
    PROVE  Sequential!Before(a, b) <=>
             \/ IF objs[a].side = "BUY" THEN objs[a].price > objs[b].price
                ELSE objs[a].price < objs[b].price
             \/ objs[a].price = objs[b].price /\ objs[a].ts < objs[b].ts
BY DEF Sequential!Before, Sequential!Better, Orders

LEMMA SortPermutes ==
    ASSUME TypeOK, NEW l \in Seq(Orders), NEW d \in Sides,
           \A i \in 1..Len(l) : objs[l[i]].side = d
    PROVE  /\ Sequential!StableSort(l) \in Seq(Orders)
           /\ Len(Sequential!StableSort(l)) = Len(l)
           /\ \A k \in 1..Len(l) :
                 /\ Sequential!StableRank(l, k) \in 1..Len(l)
                 /\ Sequential!StableSort(l)[k] = l[Sequential!StableRank(l, k)]
           /\ \A j, k \in 1..Len(l) :
                 Sequential!StableRank(l, j) = Sequential!StableRank(l, k) => j = k
           /\ \A j, k \in 1..Len(l) : j < k =>
                 ~Sequential!Before(Sequential!StableSort(l)[k], Sequential!StableSort(l)[j])
<1>1. PICK n \in Nat : n = Len(l)
  BY LenProperties
<1>2. \A i \in 1..n : l[i] \in Orders /\ objs[l[i]].side = d
                      /\ objs[l[i]].price \in Int /\ objs[l[i]].ts \in Int
  BY <1>1, ElementOfSeq, OrderFacts
<1> DEFINE before(i, j) == Sequential!Before(l[i], l[j])
           precedes(i, j) == \/ before(i, j)
                             \/ ~before(j, i) /\ i < j
           R == {p \in (1..n) \X (1..n) : precedes(p[1], p[2])}
           Count(i) == Cardinality({j \in 1..n : precedes(j, i)})
<1>3. \A i, j \in 1..n : before(i, j) <=>
         \/ IF d = "BUY" THEN objs[l[i]].price > objs[l[j]].price
            ELSE objs[l[i]].price < objs[l[j]].price
         \/ objs[l[i]].price = objs[l[j]].price /\ objs[l[i]].ts < objs[l[j]].ts
  BY <1>2, ViewFacts
<1>4. PICK price \in [1..n -> Int], ts \in [1..n -> Int] :
        \A i \in 1..n : price[i] = objs[l[i]].price /\ ts[i] = objs[l[i]].ts
  <2> DEFINE p == [i \in 1..n |-> objs[l[i]].price]
             q == [i \in 1..n |-> objs[l[i]].ts]
  <2>1. p \in [1..n -> Int] /\ q \in [1..n -> Int]
    BY <1>2
  <2>2. \A i \in 1..n : p[i] = objs[l[i]].price /\ q[i] = objs[l[i]].ts
    OBVIOUS
  <2> HIDE DEF p, q
  <2> QED
    BY <2>1, <2>2
<1>5. \A i, j \in 1..n : before(i, j) <=>
         \/ IF d = "BUY" THEN price[i] > price[j] ELSE price[i] < price[j]
         \/ price[i] = price[j] /\ ts[i] < ts[j]
  BY <1>3, <1>4
<1>6. \A i, j \in 1..n : <<i, j>> \in R <=>
         \/ \/ IF d = "BUY" THEN price[i] > price[j] ELSE price[i] < price[j]
            \/ price[i] = price[j] /\ ts[i] < ts[j]
         \/ price[i] = price[j] /\ ts[i] = ts[j] /\ i < j
  <2> TAKE i, j \in 1..n
  <2>1. /\ price[i] \in Int /\ price[j] \in Int /\ ts[i] \in Int /\ ts[j] \in Int
        /\ i \in Int /\ j \in Int
    OBVIOUS
  <2>2. <<i, j>> \in R <=> precedes(i, j)
    OBVIOUS
  <2>3. PICK a \in Int, b \in Int, x \in Int, y \in Int :
          a = price[i] /\ b = price[j] /\ x = ts[i] /\ y = ts[j]
    BY <2>1
  <2>4. /\ before(i, j) <=> \/ IF d = "BUY" THEN a > b ELSE a < b
                            \/ a = b /\ x < y
        /\ before(j, i) <=> \/ IF d = "BUY" THEN b > a ELSE b < a
                            \/ a = b /\ y < x
    BY <1>5, <2>3
  <2>5. PICK f, g : f = before(i, j) /\ g = before(j, i)
    OBVIOUS
  <2>6. <<i, j>> \in R <=> (f \/ (~g /\ i < j))
    BY <2>2, <2>5
  <2>7. (f \/ (~g /\ i < j)) <=>
          \/ IF d = "BUY" THEN a > b ELSE a < b
          \/ a = b /\ x < y
          \/ a = b /\ x = y /\ i < j
    <3> HIDE DEF before, R
    <3>1. CASE d = "BUY"
      BY <2>1, <2>4, <2>5, <3>1
    <3>2. CASE d # "BUY"
      BY <2>1, <2>4, <2>5, <3>2
    <3> QED
      BY <3>1, <3>2
  <2> HIDE DEF before, R
  <2> QED
    BY <2>3, <2>6, <2>7
<1> HIDE DEF before, R
<1>7. /\ \A i \in 1..n : <<i, i>> \notin R
      /\ \A i, j \in 1..n : i # j => <<i, j>> \in R \/ <<j, i>> \in R
      /\ \A i, j, k \in 1..n : <<i, j>> \in R /\ <<j, k>> \in R => <<i, k>> \in R
  <2>1. \A i \in 1..n : price[i] \in Int /\ ts[i] \in Int
    OBVIOUS
  <2>2. \A i \in 1..n : <<i, i>> \notin R
    BY <1>6, <2>1, SMTT(30)
  <2>3. ASSUME NEW i \in 1..n, NEW j \in 1..n, i # j
        PROVE  <<i, j>> \in R \/ <<j, i>> \in R
    <3>1. PICK a \in Int, b \in Int, x \in Int, y \in Int :
            a = price[i] /\ b = price[j] /\ x = ts[i] /\ y = ts[j]
      BY <2>1
    <3>2. i < j \/ j < i
      BY <2>3
    <3>5. /\ <<i, j>> \in R <=> \/ IF d = "BUY" THEN a > b ELSE a < b
                                \/ a = b /\ x < y
                                \/ a = b /\ x = y /\ i < j
          /\ <<j, i>> \in R <=> \/ IF d = "BUY" THEN b > a ELSE b < a
                                \/ b = a /\ y < x
                                \/ b = a /\ y = x /\ j < i
      BY <1>6, <3>1
    <3>3. CASE d = "BUY"
      BY <3>1, <3>2, <3>3, <3>5
    <3>4. CASE d # "BUY"
      BY <3>1, <3>2, <3>4, <3>5
    <3> QED
      BY <3>3, <3>4
  <2>4. ASSUME NEW i \in 1..n, NEW j \in 1..n, NEW k \in 1..n,
               <<i, j>> \in R, <<j, k>> \in R
        PROVE  <<i, k>> \in R
    <3>1. PICK a \in Int, b \in Int, c \in Int, x \in Int, y \in Int, z \in Int :
            /\ a = price[i] /\ b = price[j] /\ c = price[k]
            /\ x = ts[i] /\ y = ts[j] /\ z = ts[k]
      BY <2>1
    <3>2. /\ <<i, j>> \in R <=> \/ IF d = "BUY" THEN a > b ELSE a < b
                                \/ a = b /\ x < y
                                \/ a = b /\ x = y /\ i < j
          /\ <<j, k>> \in R <=> \/ IF d = "BUY" THEN b > c ELSE b < c
                                \/ b = c /\ y < z
                                \/ b = c /\ y = z /\ j < k
          /\ <<i, k>> \in R <=> \/ IF d = "BUY" THEN a > c ELSE a < c
                                \/ a = c /\ x < z
                                \/ a = c /\ x = z /\ i < k
      BY <1>6, <3>1
    <3>3. i \in Int /\ j \in Int /\ k \in Int
      BY <2>4
    <3>4. CASE d = "BUY"
      BY <2>4, <3>1, <3>2, <3>3, <3>4, SMTT(30)
    <3>5. CASE d # "BUY"
      BY <2>4, <3>1, <3>2, <3>3, <3>5, SMTT(30)
    <3> QED
      BY <3>4, <3>5
  <2> QED
    BY <2>2, <2>3, <2>4
<1>8. \A k \in 1..n : \E i \in 1..n : Cardinality({j \in 1..n : <<j, i>> \in R}) = k - 1
  BY <1>7, RanksTaken, ZenonT(60)
<1>9. \A i \in 1..n : {j \in 1..n : <<j, i>> \in R} = {j \in 1..n : precedes(j, i)}
  BY DEF R
<1>10. \A k \in 1..n : \E i \in 1..n : Count(i) = k - 1
  BY <1>8, <1>9
<1>11. \A k \in 1..n :
          Sequential!StableRank(l, k) = CHOOSE i \in 1..n : Count(i) = k - 1
  <2> TAKE k \in 1..n
  <2>1. Sequential!StableRank(l, k) =
          CHOOSE i \in 1..Len(l) :
            Sequential!Cardinality({j \in 1..Len(l) : precedes(j, i)}) = k - 1
    BY Zenon DEF Sequential!StableRank, before
  <2>2. \A S : Sequential!Cardinality(S) = Cardinality(S)
    BY Zenon DEF Sequential!Cardinality, Cardinality
  <2> HIDE DEF precedes
  <2> QED
    BY <1>1, <2>1, <2>2
<1> HIDE DEF Count
<1>12. \A k \in 1..n : /\ Sequential!StableRank(l, k) \in 1..n
                       /\ Count(Sequential!StableRank(l, k)) = k - 1
  BY <1>10, <1>11
<1>13. PICK r \in [1..n -> 1..n] : \A k \in 1..n : r[k] = Sequential!StableRank(l, k)
  <2> DEFINE r == [k \in 1..n |-> Sequential!StableRank(l, k)]
  <2>1. r \in [1..n -> 1..n]
    BY <1>12
  <2> QED
    BY <2>1
<1>14. Sequential!StableSort(l) = [k \in 1..n |-> l[r[k]]]
  BY <1>1, <1>13 DEF Sequential!StableSort
<1>15. Sequential!StableSort(l) \in [1..n -> Orders]
  BY <1>2, <1>14
<1>16. Sequential!StableSort(l) \in Seq(Orders) /\ Len(Sequential!StableSort(l)) = n
  BY <1>15, LenProperties, SeqDef
<1>17. \A j, k \in 1..n : r[j] = r[k] => j = k
  BY <1>12, <1>13
<1>18. ASSUME NEW j \in 1..n, NEW k \in 1..n, j < k
       PROVE  ~Sequential!Before(l[r[k]], l[r[j]])
  <2> SUFFICES ASSUME before(r[k], r[j])
               PROVE  FALSE
    BY DEF before
  <2> DEFINE Below(i) == {m \in 1..n : <<m, i>> \in R}
  <2>1. r[j] \in 1..n /\ r[k] \in 1..n /\ <<r[k], r[j]>> \in R
    BY DEF R
  <2>2. Below(r[k]) \subseteq Below(r[j])
    BY <1>7, <2>1
  <2>3. IsFiniteSet(1..n)
    BY FS_Interval
  <2>4. IsFiniteSet(Below(r[j]))
    BY <2>3, FS_Subset
  <2>5. Cardinality(Below(r[k])) <= Cardinality(Below(r[j]))
    BY <2>2, <2>4, FS_Subset
  <2>6. \A i \in 1..n : Cardinality(Below(i)) = Count(i)
    BY <1>9, Zenon DEF Count
  <2>7. Count(r[k]) = k - 1 /\ Count(r[j]) = j - 1
    BY <1>12, <1>13
  <2>8. Cardinality(Below(r[k])) = k - 1 /\ Cardinality(Below(r[j])) = j - 1
    BY <2>1, <2>6, <2>7
  <2> HIDE DEF Below
  <2> QED
    BY <1>18, <2>5, <2>8
<1> QED
  <2>1. \A k \in 1..n : Sequential!StableSort(l)[k] = l[r[k]]
    BY <1>14
  <2>2. \A j, k \in 1..n : j < k =>
           ~Sequential!Before(Sequential!StableSort(l)[k], Sequential!StableSort(l)[j])
    BY <1>18, <2>1
  <2>3. \A k \in 1..n : /\ Sequential!StableRank(l, k) \in 1..n
                         /\ Sequential!StableSort(l)[k] = l[Sequential!StableRank(l, k)]
    BY <1>12, <1>13, <2>1
  <2>4. \A j, k \in 1..n :
           Sequential!StableRank(l, j) = Sequential!StableRank(l, k) => j = k
    BY <1>13, <1>17
  <2> QED
    BY <1>1, <1>16, <2>2, <2>3, <2>4, Zenon

-----------------------------------------------------------------------------
(* Each part of the inductive invariant, step by step.                     *)

\* Every handler knows what it should, and lists hold what they should.
Known == TypeOK /\ (\A t \in Threads : HandlerKnows(t)) /\ Listed

LEMMA SavedSorts ==
    ASSUME Known, NEW t \in Threads, frame[t].pc = "sorting"
    PROVE  /\ Sequential!StableSort(frame[t].saved) \in Seq(Orders)
           /\ Len(Sequential!StableSort(frame[t].saved)) = Len(frame[t].saved)
           /\ Len(frame[t].saved) \in Nat
           /\ \A k \in 1..Len(frame[t].saved) :
                 /\ Sequential!StableRank(frame[t].saved, k) \in 1..Len(frame[t].saved)
                 /\ Sequential!StableSort(frame[t].saved)[k] =
                      frame[t].saved[Sequential!StableRank(frame[t].saved, k)]
           /\ \A j, k \in 1..Len(frame[t].saved) :
                 Sequential!StableRank(frame[t].saved, j) =
                   Sequential!StableRank(frame[t].saved, k) => j = k
           /\ \A j, k \in 1..Len(frame[t].saved) : j < k =>
                 ~Sequential!Before(Sequential!StableSort(frame[t].saved)[k],
                                    Sequential!StableSort(frame[t].saved)[j])
<1>1. PICK l : l = frame[t].saved
  OBVIOUS
<1>2. l \in Seq(Orders) /\ Len(l) \in Nat
  BY <1>1, FrameFacts DEF Known
<1>3. Mine(t).side \in Sides
  BY HandlerLists DEF Known
<1>4. \A i \in 1..Len(l) : objs[l[i]].side = Mine(t).side
  BY <1>1 DEF Known, Listed, MayList
<1>5. TypeOK
  BY DEF Known
<1> HIDE DEF Known
<1> QED
  <2>1. /\ Sequential!StableSort(l) \in Seq(Orders)
        /\ Len(Sequential!StableSort(l)) = Len(l)
        /\ \A k \in 1..Len(l) :
              /\ Sequential!StableRank(l, k) \in 1..Len(l)
              /\ Sequential!StableSort(l)[k] = l[Sequential!StableRank(l, k)]
        /\ \A j, k \in 1..Len(l) :
              Sequential!StableRank(l, j) = Sequential!StableRank(l, k) => j = k
        /\ \A j, k \in 1..Len(l) : j < k =>
              ~Sequential!Before(Sequential!StableSort(l)[k], Sequential!StableSort(l)[j])
    BY <1>2, <1>3, <1>4, <1>5, SortPermutes
  <2> QED
    BY <1>1, <1>2, <2>1, Zenon

LEMMA ArrivalTyped ==
    ASSUME TypeOK, NEW x \in OrderObject, objs' = Append(objs, x),
           UNCHANGED <<book, bare, tape, failed>>,
           frame' \in [Threads -> FrameUpTo(Len(objs) + 1)],
           replies' \in Seq(Sequential!ReplyRecord), contended' \subseteq Symbols
    PROVE  TypeOK'
<1>1. /\ objs' \in Seq(OrderObject) /\ Len(objs') = Len(objs) + 1
      /\ Len(objs) \in Nat
  BY ArrivalFacts
<1>2. Orders \subseteq Orders'
  BY <1>1 DEF Orders
<1>3. Seq(Orders) \subseteq Seq(Orders')
  BY <1>2, SeqMonotonic
<1>4. book' \in [Symbols -> [Sides -> Seq(Orders')]]
  <2>1. book \in [Symbols -> [Sides -> Seq(Orders)]]
    BY TypeParts
  <2>2. PICK A, B : A = Seq(Orders) /\ B = Seq(Orders')
    OBVIOUS
  <2>3. A \subseteq B /\ book \in [Symbols -> [Sides -> A]]
    BY <1>3, <2>1, <2>2
  <2>4. book \in [Symbols -> [Sides -> B]]
    BY <2>3
  <2> QED
    BY <2>2, <2>4
<1>5. /\ bare' \in [Symbols -> [Sides -> BOOLEAN]]
      /\ tape' \in Seq(Sequential!TradeRecord)
      /\ failed' \subseteq Orders'
  BY <1>2, TypeParts
<1>6. frame' \in [Threads -> FrameUpTo(Len(objs'))]
  BY <1>1, Zenon
<1> QED
  BY <1>1, <1>4, <1>5, <1>6, Zenon DEF TypeOK, Frame, FrameUpTo, Fields, Pcs, Orders

LEMMA SizeTyped ==
    ASSUME TypeOK, NEW t \in Threads, HandlerKnows(t), frame[t].pc = "size"
    PROVE  Sequential!Lesser(Sequential!Remaining(Mine(t)),
                             Sequential!Remaining(objs[frame[t].best])) \in Int
<1>1. PICK o \in Orders, b \in Orders : o = frame[t].order /\ b = frame[t].best
  BY FrameFacts DEF HandlerKnows
<1>2. PICK x \in Int, y \in Int, z \in Int, w \in Int :
        x = objs[o].qty /\ y = objs[o].filled /\ z = objs[b].qty /\ w = objs[b].filled
  BY OrderFacts
<1> QED
  BY <1>1, <1>2 DEF Sequential!Lesser, Sequential!Remaining, Mine

LEMMA FillKnows ==
    ASSUME TypeOK, NEW t \in Threads, HandlerKnows(t),
           frame[t].pc \in {"size", "fill", "drop"}
    PROVE  /\ frame[t].order \in Orders /\ frame[t].best \in Orders
           /\ frame[t].order # 0 /\ frame[t].best # 0 /\ frame[t].best # frame[t].order
<1>1. frame[t].order \in Orders /\ frame[t].order # 0 /\ frame[t].best \in Orders
      /\ frame[t].best # 0
  BY HandlerLists, FrameFacts DEF HandlerKnows
<1>2. objs[frame[t].best].side # Mine(t).side
  BY HandlerLists DEF HandlerKnows
<1> QED
  BY <1>1, <1>2 DEF Mine

LEMMA TypeKept ==
    ASSUME Known, Next
    PROVE  TypeOK'
<1>1. TypeOK /\ \A t \in Threads : HandlerKnows(t)
  BY DEF Known
<1>2. /\ Len(objs) \in Nat /\ objs \in Seq(OrderObject)
      /\ book \in [Symbols -> [Sides -> Seq(Orders)]]
      /\ bare \in [Symbols -> [Sides -> BOOLEAN]]
      /\ tape \in Seq(Sequential!TradeRecord)
      /\ frame \in [Threads -> FrameUpTo(Len(objs))]
      /\ replies \in Seq(Sequential!ReplyRecord)
      /\ failed \subseteq Orders /\ contended \subseteq Symbols
  BY <1>1, TypeParts, TypeFacts
<1>3. ASSUME NEW t \in Threads, NEW m \in Messages, Receive(t, m)
      PROVE  TypeOK'
  <2>1. /\ Sequential!Valid(m) /\ objs' = Append(objs, Parsed(m, FALSE))
        /\ UNCHANGED <<book, bare, tape, replies, failed>>
        /\ contended' \subseteq contended \cup {m.symbol}
        /\ Becomes(t, [pc |-> "look", order |-> Len(objs) + 1, best |-> 0, qty |-> 0,
                       trades |-> <<>>, sum |-> [qty |-> 0, price |-> 0], saved |-> <<>>])
    BY <1>1, <1>3, ReceiveFacts
  <2>2. Parsed(m, FALSE) \in OrderObject /\ m.symbol \in Symbols
    BY <2>1, ParsedFacts
  <2>3. PICK n \in Nat : n = Len(objs) + 1
    BY <1>2
  <2>4. frame' \in [Threads -> FrameUpTo(n)]
    <3>1. /\ "look" \in Pcs /\ n \in 1..n \cup {0} /\ 0 \in 1..n \cup {0} /\ 0 \in Int
          /\ <<>> \in Seq(Sequential!TradeRecord) /\ <<>> \in Seq(1..n)
          /\ [qty |-> 0, price |-> 0] \in [qty : Int, price : Int]
      BY <1>2, <2>3 DEF Pcs
    <3>2. [pc |-> "look", order |-> n, best |-> 0, qty |-> 0, trades |-> <<>>,
           sum |-> [qty |-> 0, price |-> 0], saved |-> <<>>] \in FrameUpTo(n)
      BY <3>1, FrameTyped, Zenon
    <3>3. Len(objs) <= n
      BY <1>2, <2>3
    <3> QED
      BY <1>1, <2>1, <2>3, <3>2, <3>3, BecomesTyped
  <2> QED
    BY <1>1, <1>2, <2>1, <2>2, <2>3, <2>4, ArrivalTyped
<1>4. ASSUME NEW t \in Threads, NEW m \in Messages, Refuse(t, m)
      PROVE  TypeOK'
  <2>1. /\ objs' = Append(objs, Parsed(m, TRUE))
        /\ UNCHANGED <<book, bare, tape, frame, failed, contended>>
    BY <1>1, <1>4, RefuseFacts
  <2>2. Parsed(m, TRUE) \in OrderObject
    BY ParsedFacts
  <2>3. replies' \in Seq(Sequential!ReplyRecord)
    <3>1. PICK r \in Sequential!ReplyRecord : replies' = Append(replies, r)
      BY <1>1, <1>4, RefuseFacts
    <3> QED
      BY <1>2, <3>1, AppendProperties
  <2>4. FrameUpTo(Len(objs)) \subseteq FrameUpTo(Len(objs) + 1)
    BY <1>2, FrameGrows
  <2>5. frame' \in [Threads -> FrameUpTo(Len(objs) + 1)]
    BY <1>2, <2>1, <2>4
  <2> QED
    BY <1>1, <1>2, <2>1, <2>2, <2>3, <2>5, ArrivalTyped
<1>5. ASSUME NEW t \in Threads, Work(t)
      PROVE  TypeOK'
  <2>1. HandlerKnows(t)
    BY <1>1
  <2>2. frame[t].best \in Orders \cup {0} /\ frame[t].qty \in Int
    BY <1>1, FrameFacts
  <2>3. ASSUME UNCHANGED <<objs, tape>>,
               book' \in [Symbols -> [Sides -> Seq(Orders)]],
               bare' \in [Symbols -> [Sides -> BOOLEAN]],
               UNCHANGED contended, Answers1(t) \/ Raises(t), frame[t].order # 0
        PROVE  TypeOK'
    BY <1>1, <1>2, <2>3, EndsTyped, TypeSame
  <2>4. ASSUME NEW pc \in Pcs, NEW best \in Orders \cup {0}, NEW qty \in Int,
               Walks(t, pc, best, qty), Untouched,
               book' \in [Symbols -> [Sides -> Seq(Orders)]],
               bare' \in [Symbols -> [Sides -> BOOLEAN]]
        PROVE  TypeOK'
    <3>1. frame' \in [Threads -> FrameUpTo(Len(objs))]
      BY <1>1, <2>4, WalksTyped
    <3> QED
      BY <1>1, <1>2, <2>4, <3>1, TypeSame DEF Untouched
  <2>5. ASSUME frame[t].pc # "recv"
        PROVE  /\ frame[t].order \in Orders /\ frame[t].order # 0
               /\ Makers(t) \in Seq(Orders) /\ Own(t) \in Seq(Orders)
               /\ \A l \in Seq(Orders) :
                     /\ Puts(Mine(t).symbol, Mine(t).side, l) =>
                           book' \in [Symbols -> [Sides -> Seq(Orders)]]
                     /\ Puts(Mine(t).symbol, Sequential!Opposite(Mine(t).side), l) =>
                           book' \in [Symbols -> [Sides -> Seq(Orders)]]
    BY <1>1, <2>1, <2>5, HandlerLists, PutsFacts
  <2>6. CASE Look(t)
    <3>1. PICK pc \in {"record", "peek", "take"} : Walks(t, pc, frame[t].best, frame[t].qty)
      BY <1>1, <2>6, LookFacts
    <3>2. Untouched /\ UNCHANGED <<book, bare>> /\ pc \in Pcs
      BY <1>1, <2>6, LookFacts DEF Pcs
    <3> QED
      BY <1>2, <2>2, <2>4, <3>1, <3>2
  <2>7. CASE Peek(t)
    <3>1. /\ frame[t].pc = "peek" /\ UNCHANGED <<objs, book, bare, tape, contended>>
          /\ \/ Raises(t)
             \/ /\ Untouched
                /\ \E pc \in {"record", "take"} : Walks(t, pc, frame[t].best, frame[t].qty)
      BY <1>1, <2>7, PeekFacts
    <3>2. CASE Raises(t)
      BY <1>2, <2>3, <2>5, <3>1, <3>2
    <3>3. CASE ~Raises(t)
      <4>1. PICK pc \in {"record", "take"} : Walks(t, pc, frame[t].best, frame[t].qty)
        BY <3>1, <3>3
      <4>2. pc \in Pcs /\ Untouched
        BY <3>1, <3>3 DEF Pcs
      <4> QED
        BY <1>2, <2>2, <2>4, <3>1, <4>1, <4>2
    <3> QED
      BY <3>2, <3>3
  <2>8. CASE Take(t)
    <3>1. /\ frame[t].pc = "take" /\ Untouched /\ UNCHANGED <<book, bare>>
          /\ \/ Walks(t, "record", frame[t].best, frame[t].qty)
             \/ /\ Makers(t) # <<>>
                /\ Walks(t, "size", Head(Makers(t)), frame[t].qty)
      BY <1>1, <2>8, TakeFacts
    <3>2. Makers(t) # <<>> => Head(Makers(t)) \in Orders \cup {0}
      BY <2>5, <3>1, HeadTailProperties
    <3>3. "record" \in Pcs /\ "size" \in Pcs
      BY DEF Pcs
    <3> QED
      BY <1>2, <2>2, <2>4, <3>1, <3>2, <3>3
  <2>9. CASE Size(t)
    <3>1. /\ frame[t].pc = "size" /\ Untouched /\ UNCHANGED <<book, bare>>
          /\ Walks(t, "fill", frame[t].best,
                   Sequential!Lesser(Sequential!Remaining(Mine(t)),
                                     Sequential!Remaining(objs[frame[t].best])))
      BY <1>1, <2>9, SizeFacts
    <3>2. "fill" \in Pcs
      BY DEF Pcs
    <3>3. PICK q \in Int :
            q = Sequential!Lesser(Sequential!Remaining(Mine(t)),
                                  Sequential!Remaining(objs[frame[t].best]))
      BY <1>1, <2>1, <3>1, SizeTyped
    <3> QED
      BY <1>2, <2>2, <2>4, <3>1, <3>2, <3>3
  <2>10. CASE FillBoth(t)
    <3>1. frame[t].pc = "fill"
      BY <2>10 DEF FillBoth, At
    <3>2. /\ frame[t].order \in Orders /\ frame[t].best \in Orders
          /\ frame[t].order # 0 /\ frame[t].best # 0 /\ frame[t].best # frame[t].order
      BY <1>1, <2>1, <3>1, FillKnows
    <3>3. /\ UNCHANGED <<book, bare, tape, replies, failed, contended>>
          /\ Becomes(t, [pc |-> "drop", order |-> frame[t].order, best |-> frame[t].best,
                         qty |-> frame[t].qty,
                         trades |-> Append(frame[t].trades, NewTrade(t)),
                         sum |-> frame[t].sum, saved |-> frame[t].saved])
          /\ objs' \in Seq(OrderObject) /\ Len(objs') = Len(objs)
      BY <1>1, <2>10, <3>2, FillFacts
    <3>4. Append(frame[t].trades, NewTrade(t)) \in Seq(Sequential!TradeRecord)
      BY <1>1, <3>2, FrameFacts, NewTradeFacts, AppendProperties
    <3>5. PICK f, ts : /\ ts = Append(frame[t].trades, NewTrade(t))
                       /\ f = [pc |-> "drop", order |-> frame[t].order,
                               best |-> frame[t].best, qty |-> frame[t].qty,
                               trades |-> ts, sum |-> frame[t].sum,
                               saved |-> frame[t].saved]
      OBVIOUS
    <3>6. f \in FrameUpTo(Len(objs))
      <4>1. frame[t] \in FrameUpTo(Len(objs)) /\ "drop" \in Pcs
        BY <1>2 DEF Pcs
      <4> QED
        BY <1>2, <3>4, <3>5, <4>1, FrameTyped, Zenon DEF FrameUpTo, Fields
    <3>7. frame' \in [Threads -> FrameUpTo(Len(objs))]
      <4>1. Becomes(t, f)
        BY <3>3, <3>5, Zenon
      <4> QED
        BY <1>1, <1>2, <3>6, <4>1, BecomesTyped
    <3> QED
      BY <1>1, <1>2, <3>3, <3>7, TypeSame
  <2>11. CASE Drop(t)
    <3>1. /\ frame[t].pc = "drop"
          /\ UNCHANGED <<objs, bare, tape, replies, contended>>
          /\ \/ /\ Untouched /\ UNCHANGED book
                /\ Walks(t, "look", frame[t].best, frame[t].qty)
             \/ /\ Untouched /\ Makers(t) # <<>>
                /\ Walks(t, "look", frame[t].best, frame[t].qty)
                /\ Puts(Mine(t).symbol, Sequential!Opposite(Mine(t).side), Tail(Makers(t)))
             \/ Raises(t) /\ UNCHANGED book
      BY <1>1, <2>11, DropFacts
    <3>2. Makers(t) # <<>> => Tail(Makers(t)) \in Seq(Orders)
      BY <2>5, <3>1, HeadTailProperties
    <3>3. book' \in [Symbols -> [Sides -> Seq(Orders)]]
      BY <1>2, <2>5, <3>1, <3>2
    <3>4. "look" \in Pcs /\ frame[t].order # 0
      BY <2>5, <3>1 DEF Pcs
    <3> QED
      BY <1>2, <2>2, <2>3, <2>4, <3>1, <3>3, <3>4
  <2>12. CASE Record(t)
    <3>1. /\ frame[t].trades # <<>>
          /\ UNCHANGED <<objs, book, bare, replies, failed, contended>>
          /\ tape' = Append(tape, Head(frame[t].trades))
          /\ Becomes(t, [pc |-> frame[t].pc, order |-> frame[t].order,
                         best |-> frame[t].best, qty |-> frame[t].qty,
                         trades |-> Tail(frame[t].trades),
                         sum |-> [qty |-> frame[t].sum.qty + Head(frame[t].trades).qty,
                                  price |-> Head(frame[t].trades).price],
                         saved |-> frame[t].saved])
      BY <1>1, <2>12, RecordFacts
    <3>2. /\ Head(frame[t].trades) \in Sequential!TradeRecord
          /\ Tail(frame[t].trades) \in Seq(Sequential!TradeRecord)
      BY <1>1, <3>1, FrameFacts, HeadTailProperties
    <3>3. tape' \in Seq(Sequential!TradeRecord)
      BY <1>2, <3>1, <3>2, AppendProperties
    <3>4. PICK sum, ts, f :
            /\ sum = [qty |-> frame[t].sum.qty + Head(frame[t].trades).qty,
                      price |-> Head(frame[t].trades).price]
            /\ ts = Tail(frame[t].trades)
            /\ f = [pc |-> frame[t].pc, order |-> frame[t].order,
                    best |-> frame[t].best, qty |-> frame[t].qty, trades |-> ts,
                    sum |-> sum, saved |-> frame[t].saved]
      OBVIOUS
    <3>5. sum \in [qty : Int, price : Int]
      <4>1. /\ frame[t].sum.qty \in Int /\ Head(frame[t].trades).qty \in Int
            /\ Head(frame[t].trades).price \in Int
        BY <1>1, <3>2, FrameFacts DEF Sequential!TradeRecord
      <4> QED
        BY <3>4, <4>1
    <3>6. f \in FrameUpTo(Len(objs))
      <4>1. frame[t] \in FrameUpTo(Len(objs)) /\ ts \in Seq(Sequential!TradeRecord)
        BY <1>2, <3>2, <3>4
      <4> QED
        BY <1>2, <3>4, <3>5, <4>1, FrameTyped, Zenon DEF FrameUpTo, Fields
    <3>7. frame' \in [Threads -> FrameUpTo(Len(objs))]
      BY <1>1, <1>2, <3>1, <3>4, <3>6, BecomesTyped
    <3> QED
      BY <1>1, <1>2, <3>1, <3>3, <3>7, TypeSame
  <2>13. CASE Finish(t)
    <3>1. /\ frame[t].pc = "record" /\ Answers1(t)
          /\ UNCHANGED <<objs, book, bare, tape, failed, contended>>
      BY <1>1, <2>13, FinishFacts
    <3> QED
      BY <1>2, <2>3, <2>5, <3>1
  <2>14. CASE Rest(t)
    <3>1. /\ frame[t].pc = "record" /\ Untouched
          /\ Puts(Mine(t).symbol, Mine(t).side, Append(Own(t), frame[t].order))
          /\ bare' \in [Symbols -> [Sides -> BOOLEAN]]
          /\ Walks(t, "sort", frame[t].best, frame[t].qty)
      BY <1>1, <2>1, <2>14, RestFacts
    <3>2. Append(Own(t), frame[t].order) \in Seq(Orders)
      BY <2>5, <3>1, AppendProperties
    <3>3. "sort" \in Pcs
      BY DEF Pcs
    <3> QED
      BY <2>2, <2>4, <2>5, <3>1, <3>2, <3>3
  <2>15. CASE SortBegin(t)
    <3>1. /\ frame[t].pc = "sort" /\ UNCHANGED <<objs, tape, failed, contended>>
          /\ \/ Answers1(t) /\ UNCHANGED <<book, bare>>
             \/ /\ UNCHANGED replies
                /\ Puts(Mine(t).symbol, Mine(t).side, <<>>)
                /\ bare' \in [Symbols -> [Sides -> BOOLEAN]]
                /\ Becomes(t, [pc |-> "sorting", order |-> frame[t].order,
                               best |-> frame[t].best, qty |-> frame[t].qty,
                               trades |-> frame[t].trades, sum |-> frame[t].sum,
                               saved |-> Own(t)])
      BY <1>1, <2>1, <2>15, SortBeginFacts
    <3>2. CASE Answers1(t) /\ UNCHANGED <<book, bare>>
      BY <1>2, <2>3, <2>5, <3>1, <3>2
    <3>3. CASE ~(Answers1(t) /\ UNCHANGED <<book, bare>>)
      <4>1. book' \in [Symbols -> [Sides -> Seq(Orders)]]
        <5>1. <<>> \in Seq(Orders)
          OBVIOUS
        <5> QED
          BY <2>5, <3>1, <3>3, <5>1
      <4>2. PICK f : f = [pc |-> "sorting", order |-> frame[t].order,
                          best |-> frame[t].best, qty |-> frame[t].qty,
                          trades |-> frame[t].trades, sum |-> frame[t].sum,
                          saved |-> Own(t)]
        OBVIOUS
      <4>3. f \in FrameUpTo(Len(objs))
        <5>1. /\ frame[t] \in FrameUpTo(Len(objs)) /\ "sorting" \in Pcs
              /\ Own(t) \in Seq(1..Len(objs))
          BY <1>2, <2>5, <3>1 DEF Pcs, Orders
        <5> QED
          BY <1>2, <4>2, <5>1, FrameTyped, Zenon DEF FrameUpTo, Fields
      <4>4. frame' \in [Threads -> FrameUpTo(Len(objs))]
        <5>1. Becomes(t, f)
          BY <3>1, <3>3, <4>2, Zenon
        <5> QED
          BY <1>1, <1>2, <4>3, <5>1, BecomesTyped
      <4> QED
        BY <1>1, <1>2, <3>1, <3>3, <4>1, <4>4, TypeSame
    <3> QED
      BY <3>2, <3>3
  <2>16. CASE SortEnd(t)
    <3>1. /\ frame[t].pc = "sorting" /\ UNCHANGED <<objs, tape, contended>>
          /\ Puts(Mine(t).symbol, Mine(t).side, Sequential!StableSort(frame[t].saved))
          /\ bare' \in [Symbols -> [Sides -> BOOLEAN]]
          /\ Answers1(t) \/ Raises(t)
      BY <1>1, <2>1, <2>16, SortEndFacts
    <3>2. Sequential!StableSort(frame[t].saved) \in Seq(Orders)
      BY <3>1, SavedSorts
    <3> QED
      BY <2>3, <2>5, <3>1, <3>2
  <2> QED
    BY <1>5, <2>6, <2>7, <2>8, <2>9, <2>10, <2>11, <2>12, <2>13, <2>14, <2>15, <2>16
       DEF Work
<1> QED
  BY <1>3, <1>4, <1>5 DEF Next

-----------------------------------------------------------------------------
(* The kinds of steps a handler takes, as far as the other parts of the    *)
(* invariant tell them apart.                                              *)

\* On to the next test, after a pop perhaps.
MovesOn(t) ==
    /\ frame[t].pc \in {"look", "peek", "take", "drop"} /\ Untouched
    /\ \E pc \in {"look", "peek", "take", "record"} :
          /\ Walks(t, pc, frame[t].best, frame[t].qty)
          /\ pc = "peek" => Mine(t).type = "LIMIT"
    /\ \/ UNCHANGED book
       \/ /\ Makers(t) # <<>>
          /\ Puts(Mine(t).symbol, Sequential!Opposite(Mine(t).side), Tail(Makers(t)))

Takes(t) ==
    /\ frame[t].pc = "take" /\ Untouched /\ UNCHANGED book
    /\ Makers(t) # <<>> /\ Walks(t, "size", Head(Makers(t)), frame[t].qty)

Sizes(t) ==
    /\ frame[t].pc = "size" /\ Untouched /\ UNCHANGED book
    /\ Walks(t, "fill", frame[t].best,
             Sequential!Lesser(Sequential!Remaining(Mine(t)),
                               Sequential!Remaining(objs[frame[t].best])))

Fills(t) ==
    /\ frame[t].pc = "fill"
    /\ UNCHANGED <<book, tape, replies, failed, contended>>
    /\ Becomes(t, [pc |-> "drop", order |-> frame[t].order, best |-> frame[t].best,
                   qty |-> frame[t].qty,
                   trades |-> Append(frame[t].trades, NewTrade(t)),
                   sum |-> frame[t].sum, saved |-> frame[t].saved])
    /\ Len(objs') = Len(objs)
    /\ \A n \in Orders :
          /\ objs'[n].id = objs[n].id /\ objs'[n].ts = objs[n].ts
          /\ objs'[n].symbol = objs[n].symbol /\ objs'[n].side = objs[n].side
          /\ objs'[n].price = objs[n].price /\ objs'[n].qty = objs[n].qty
          /\ objs'[n].type = objs[n].type /\ objs'[n].refused = objs[n].refused
          /\ objs'[n].filled = IF n \in {frame[t].order, frame[t].best}
                               THEN objs[n].filled + frame[t].qty ELSE objs[n].filled

Records(t) ==
    /\ frame[t].pc = "record" /\ frame[t].trades # <<>>
    /\ UNCHANGED <<objs, book, replies, failed, contended>>
    /\ tape' = Append(tape, Head(frame[t].trades))
    /\ Becomes(t, [pc |-> frame[t].pc, order |-> frame[t].order,
                   best |-> frame[t].best, qty |-> frame[t].qty,
                   trades |-> Tail(frame[t].trades),
                   sum |-> [qty |-> frame[t].sum.qty + Head(frame[t].trades).qty,
                            price |-> Head(frame[t].trades).price],
                   saved |-> frame[t].saved])

Rests(t) ==
    /\ frame[t].pc = "record" /\ frame[t].trades = <<>> /\ Mine(t).type = "LIMIT"
    /\ Untouched
    /\ Puts(Mine(t).symbol, Mine(t).side, Append(Own(t), frame[t].order))
    /\ Walks(t, "sort", frame[t].best, frame[t].qty)

Begins(t) ==
    /\ frame[t].pc = "sort" /\ UNCHANGED <<objs, tape, replies, failed, contended>>
    /\ Puts(Mine(t).symbol, Mine(t).side, <<>>)
    /\ Becomes(t, [pc |-> "sorting", order |-> frame[t].order,
                   best |-> frame[t].best, qty |-> frame[t].qty,
                   trades |-> frame[t].trades, sum |-> frame[t].sum,
                   saved |-> Own(t)])

\* A response or an exception.
Ends(t) ==
    /\ frame[t].pc # "recv" /\ UNCHANGED <<objs, tape, contended>>
    /\ (Answers1(t) /\ frame[t].trades = <<>>) \/ Raises(t)
    /\ \/ UNCHANGED book
       \/ /\ frame[t].pc = "sorting"
          /\ Puts(Mine(t).symbol, Mine(t).side, Sequential!StableSort(frame[t].saved))

Handles(t) ==
    \/ MovesOn(t) \/ Takes(t) \/ Sizes(t) \/ Fills(t) \/ Records(t) \/ Rests(t)
    \/ Begins(t) \/ Ends(t)

LEMMA WorkShapes ==
    ASSUME Known, NEW t \in Threads, Work(t)
    PROVE  frame[t].pc # "recv" /\ Handles(t)
<1>1. TypeOK /\ HandlerKnows(t)
  BY DEF Known
<1>2. frame[t].pc \in {"sort", "sorting"} => frame[t].trades = <<>>
  BY <1>1 DEF HandlerKnows
<1>3. CASE Look(t)
  <2>1. MovesOn(t)
    BY <1>1, <1>3, LookFacts DEF MovesOn
  <2> QED
    BY <2>1 DEF Handles, MovesOn
<1>4. CASE Peek(t)
  <2>1. MovesOn(t) \/ Ends(t)
    BY <1>1, <1>4, PeekFacts DEF MovesOn, Ends
  <2> QED
    BY <2>1 DEF Handles, MovesOn, Ends
<1>5. CASE Take(t)
  <2>1. MovesOn(t) \/ Takes(t)
    BY <1>1, <1>5, TakeFacts DEF MovesOn, Takes
  <2> QED
    BY <2>1 DEF Handles, MovesOn, Takes
<1>6. CASE Size(t)
  <2>1. Sizes(t)
    BY <1>1, <1>6, SizeFacts DEF Sizes
  <2> QED
    BY <2>1 DEF Handles, Sizes
<1>7. CASE FillBoth(t)
  <2>1. frame[t].pc = "fill"
    BY <1>7 DEF FillBoth, At
  <2>2. frame[t].order # 0 /\ frame[t].best # 0 /\ frame[t].best # frame[t].order
    BY <1>1, <2>1, FillKnows
  <2>3. Fills(t)
    BY <1>1, <1>7, <2>2, FillFacts DEF Fills
  <2> QED
    BY <2>1, <2>3 DEF Handles
<1>8. CASE Drop(t)
  <2>1. MovesOn(t) \/ Ends(t)
    BY <1>1, <1>8, DropFacts DEF MovesOn, Ends
  <2> QED
    BY <2>1 DEF Handles, MovesOn, Ends
<1>9. CASE Record(t)
  <2>1. Records(t)
    BY <1>1, <1>9, RecordFacts DEF Records
  <2> QED
    BY <2>1 DEF Handles, Records
<1>10. CASE Finish(t)
  <2>1. Ends(t)
    BY <1>1, <1>10, FinishFacts DEF Ends
  <2> QED
    BY <2>1 DEF Handles, Ends
<1>11. CASE Rest(t)
  <2>1. Rests(t)
    BY <1>1, <1>11, RestFacts DEF Rests
  <2> QED
    BY <2>1 DEF Handles, Rests
<1>12. CASE SortBegin(t)
  <2>1. Begins(t) \/ Ends(t)
    BY <1>1, <1>2, <1>12, SortBeginFacts DEF Begins, Ends
  <2> QED
    BY <2>1 DEF Handles, Begins, Ends
<1>13. CASE SortEnd(t)
  <2>1. Ends(t)
    BY <1>1, <1>2, <1>13, SortEndFacts DEF Ends
  <2> QED
    BY <2>1 DEF Handles, Ends
<1> QED
  BY <1>3, <1>4, <1>5, <1>6, <1>7, <1>8, <1>9, <1>10, <1>11, <1>12, <1>13 DEF Work

LEMMA WalksFacts ==
    ASSUME TypeOK, NEW t \in Threads, NEW pc, NEW best, NEW qty, Walks(t, pc, best, qty)
    PROVE  /\ frame'[t].pc = pc /\ frame'[t].order = frame[t].order
           /\ frame'[t].best = best /\ frame'[t].qty = qty
           /\ frame'[t].trades = frame[t].trades /\ frame'[t].sum = frame[t].sum
           /\ frame'[t].saved = frame[t].saved
           /\ \A u \in Threads \ {t} : frame'[u] = frame[u]
BY BecomesFacts DEF Walks

LEMMA OtherFrames ==
    ASSUME TypeOK, NEW t \in Threads, Handles(t)
    PROVE  \A u \in Threads \ {t} : frame'[u] = frame[u]
<1>1. \E f : Becomes(t, f)
  BY DEF Handles, MovesOn, Takes, Sizes, Fills, Records, Rests, Begins, Ends, Answers1,
         Raises, Walks
<1> QED
  BY <1>1, BecomesFacts

LEMMA RecordsFrame ==
    ASSUME TypeOK, NEW t \in Threads, Records(t)
    PROVE  /\ frame'[t].pc = frame[t].pc /\ frame'[t].order = frame[t].order
           /\ frame'[t].best = frame[t].best /\ frame'[t].qty = frame[t].qty
           /\ frame'[t].trades = Tail(frame[t].trades)
           /\ frame'[t].sum.qty = frame[t].sum.qty + Head(frame[t].trades).qty
           /\ frame'[t].saved = frame[t].saved
<1>1. PICK sum, ts : /\ sum = [qty |-> frame[t].sum.qty + Head(frame[t].trades).qty,
                               price |-> Head(frame[t].trades).price]
                     /\ ts = Tail(frame[t].trades)
  OBVIOUS
<1>2. Becomes(t, [pc |-> frame[t].pc, order |-> frame[t].order,
                  best |-> frame[t].best, qty |-> frame[t].qty, trades |-> ts,
                  sum |-> sum, saved |-> frame[t].saved])
  BY <1>1, Zenon DEF Records
<1>3. frame'[t] = [pc |-> frame[t].pc, order |-> frame[t].order,
                   best |-> frame[t].best, qty |-> frame[t].qty, trades |-> ts,
                   sum |-> sum, saved |-> frame[t].saved]
  BY <1>2, BecomesFacts
<1> QED
  BY <1>1, <1>3

LEMMA EndsFrame ==
    ASSUME TypeOK, NEW t \in Threads, Ends(t)
    PROVE  frame'[t] = Waiting
<1>1. Becomes(t, Waiting)
  BY DEF Ends, Answers1, Raises
<1> QED
  BY <1>1, BecomesFacts

\* The orders there are keep what they were parsed with.
SameOrders ==
    /\ Len(objs') \in Nat /\ Len(objs) <= Len(objs')
    /\ \A n \in Orders :
          /\ objs'[n].id = objs[n].id /\ objs'[n].ts = objs[n].ts
          /\ objs'[n].symbol = objs[n].symbol /\ objs'[n].side = objs[n].side
          /\ objs'[n].price = objs[n].price /\ objs'[n].qty = objs[n].qty
          /\ objs'[n].type = objs[n].type /\ objs'[n].refused = objs[n].refused

LEMMA ArrivalSame ==
    ASSUME TypeOK, NEW x \in OrderObject, objs' = Append(objs, x)
    PROVE  SameOrders
<1>1. /\ Len(objs') = Len(objs) + 1 /\ Len(objs) \in Nat
      /\ \A n \in Orders : objs'[n] = objs[n]
  BY ArrivalFacts
<1>2. Len(objs') \in Nat /\ Len(objs) <= Len(objs')
  BY <1>1
<1>3. \A n \in Orders :
         /\ objs'[n].id = objs[n].id /\ objs'[n].ts = objs[n].ts
         /\ objs'[n].symbol = objs[n].symbol /\ objs'[n].side = objs[n].side
         /\ objs'[n].price = objs[n].price /\ objs'[n].qty = objs[n].qty
         /\ objs'[n].type = objs[n].type /\ objs'[n].refused = objs[n].refused
  <2> TAKE n \in Orders
  <2>1. objs'[n] = objs[n]
    BY <1>1
  <2> QED
    BY <2>1
<1> QED
  BY <1>2, <1>3 DEF SameOrders

LEMMA HandlesSame ==
    ASSUME TypeOK, NEW t \in Threads, Handles(t)
    PROVE  SameOrders /\ Len(objs') = Len(objs)
<1>1. Len(objs) \in Nat
  BY TypeFacts
<1>2. CASE Fills(t)
  BY <1>1, <1>2 DEF Fills, SameOrders
<1>3. CASE ~Fills(t)
  <2>1. objs' = objs
    BY <1>3 DEF Handles, MovesOn, Takes, Sizes, Records, Rests, Begins, Ends, Untouched
  <2> QED
    BY <1>1, <2>1 DEF SameOrders
<1> QED
  BY <1>2, <1>3

-----------------------------------------------------------------------------
(* What handlers know.                                                     *)

LEMMA OtherKnows ==
    ASSUME TypeOK, SameOrders, NEW u \in Threads, HandlerKnows(u), frame'[u] = frame[u]
    PROVE  HandlerKnows(u)'
<1>1. PICK o, b : o = frame[u].order /\ b = frame[u].best
  OBVIOUS
<1>2. o \in Orders \cup {0} /\ b \in Orders \cup {0}
  BY <1>1, FrameFacts
<1>3. \A n \in {o, b} : n # 0 =>
         /\ objs'[n].symbol = objs[n].symbol /\ objs'[n].side = objs[n].side
         /\ objs'[n].qty = objs[n].qty /\ objs'[n].type = objs[n].type
         /\ objs'[n].refused = objs[n].refused
  BY <1>2 DEF SameOrders
<1>4. o = 0 => frame[u].pc = "recv"
  BY <1>1 DEF HandlerKnows
<1> QED
  BY <1>1, <1>3, <1>4 DEF HandlerKnows, Mine

LEMMA WaitingKnows ==
    ASSUME NEW t \in Threads, frame'[t] = Waiting
    PROVE  HandlerKnows(t)'
BY DEF HandlerKnows, Waiting

\* The head of the list a handler matches against is an order to trade with.
LEMMA HeadOfMakers ==
    ASSUME Known, NEW t \in Threads, frame[t].pc # "recv", Makers(t) # <<>>
    PROVE  /\ Head(Makers(t)) \in Orders /\ Head(Makers(t)) # 0
           /\ MayList(Head(Makers(t)), Mine(t).symbol, Sequential!Opposite(Mine(t).side))
<1>1. /\ Mine(t).symbol \in Symbols /\ Sequential!Opposite(Mine(t).side) \in Sides
      /\ Makers(t) \in Seq(Orders)
  BY HandlerLists DEF Known
<1>2. PICK l \in Seq(Orders), s \in Symbols, d \in Sides :
        /\ l = Makers(t) /\ l = book[s][d] /\ l # <<>>
        /\ s = Mine(t).symbol /\ d = Sequential!Opposite(Mine(t).side)
  BY <1>1 DEF Makers
<1>3. 1 \in 1..Len(l) /\ Head(l) = l[1] /\ Head(l) \in Orders
  BY <1>2, HeadTailProperties, LenProperties
<1>4. MayList(l[1], s, d)
  BY <1>2, <1>3 DEF Known, Listed
<1>5. Head(l) # 0
  BY <1>3 DEF Orders
<1> QED
  BY <1>2, <1>3, <1>4, <1>5

LEMMA HandlersKept ==
    ASSUME Known, Next
    PROVE  \A u \in Threads : HandlerKnows(u)'
<1>1. TypeOK /\ \A t \in Threads : HandlerKnows(t)
  BY DEF Known
<1>2. ASSUME NEW t \in Threads, NEW m \in Messages, Receive(t, m), NEW u \in Threads
      PROVE  HandlerKnows(u)'
  <2>1. /\ Sequential!Valid(m) /\ objs' = Append(objs, Parsed(m, FALSE))
        /\ Becomes(t, [pc |-> "look", order |-> Len(objs) + 1, best |-> 0, qty |-> 0,
                       trades |-> <<>>, sum |-> [qty |-> 0, price |-> 0], saved |-> <<>>])
    BY <1>1, <1>2, ReceiveFacts
  <2>2. /\ Parsed(m, FALSE) \in OrderObject /\ m.symbol \in Symbols /\ m.qty > 0
        /\ Parsed(m, FALSE).refused = FALSE /\ Parsed(m, FALSE).symbol = m.symbol
        /\ Parsed(m, FALSE).qty = m.qty
    BY <2>1, ParsedFacts
  <2>3. SameOrders /\ objs'[Len(objs) + 1] = Parsed(m, FALSE) /\ Len(objs) \in Nat
    BY <1>1, <2>1, <2>2, ArrivalSame, ArrivalFacts
  <2>4. CASE u # t
    BY <1>1, <2>1, <2>3, <2>4, BecomesFacts, OtherKnows
  <2>5. CASE u = t
    <3>1. /\ frame'[t].pc = "look" /\ frame'[t].order = Len(objs) + 1
          /\ frame'[t].saved = <<>>
      BY <1>1, <2>1, BecomesFacts
    <3>2. frame'[t].order # 0
      BY <2>3, <3>1
    <3> QED
      BY <2>2, <2>3, <2>5, <3>1, <3>2 DEF HandlerKnows, Mine
  <2> QED
    BY <2>4, <2>5
<1>3. ASSUME NEW t \in Threads, NEW m \in Messages, Refuse(t, m), NEW u \in Threads
      PROVE  HandlerKnows(u)'
  <2>1. objs' = Append(objs, Parsed(m, TRUE)) /\ UNCHANGED frame
    BY <1>1, <1>3, RefuseFacts
  <2>2. SameOrders
    BY <1>1, <2>1, ParsedFacts, ArrivalSame
  <2> QED
    BY <1>1, <2>1, <2>2, OtherKnows
<1>4. ASSUME NEW t \in Threads, Work(t), NEW u \in Threads
      PROVE  HandlerKnows(u)'
  <2>1. frame[t].pc # "recv" /\ Handles(t)
    BY <1>4, WorkShapes
  <2>2. SameOrders
    BY <1>1, <2>1, HandlesSame
  <2>3. CASE u # t
    BY <1>1, <2>1, <2>2, <2>3, OtherFrames, OtherKnows
  <2>4. CASE u = t
    <3>1. PICK o \in Orders, b \in Orders \cup {0} :
            o = frame[t].order /\ b = frame[t].best /\ o # 0
      BY <1>1, <2>1, HandlerLists, FrameFacts
    <3>2. \A n \in Orders :
             /\ objs'[n].symbol = objs[n].symbol /\ objs'[n].side = objs[n].side
             /\ objs'[n].qty = objs[n].qty /\ objs'[n].type = objs[n].type
             /\ objs'[n].refused = objs[n].refused
      BY <2>2 DEF SameOrders
    <3>3. HandlerKnows(t)
      BY <1>1
    <3>4. CASE MovesOn(t)
      <4>1. PICK pc \in {"look", "peek", "take", "record"} :
              /\ Walks(t, pc, frame[t].best, frame[t].qty)
              /\ pc = "peek" => Mine(t).type = "LIMIT"
        BY <3>4 DEF MovesOn
      <4>2. frame'[t].pc = pc /\ frame'[t].order = o /\ frame'[t].saved = frame[t].saved
        BY <1>1, <3>1, <4>1, WalksFacts
      <4>3. frame[t].saved = <<>>
        BY <3>3, <3>4 DEF HandlerKnows, MovesOn
      <4> QED
        BY <2>4, <3>1, <3>2, <3>3, <4>1, <4>2, <4>3 DEF HandlerKnows, Mine
    <3>5. CASE Takes(t)
      <4>1. Head(Makers(t)) \in Orders /\ Head(Makers(t)) # 0
            /\ MayList(Head(Makers(t)), Mine(t).symbol, Sequential!Opposite(Mine(t).side))
        BY <2>1, <3>5, HeadOfMakers DEF Takes
      <4>2. PICK h : h = Head(Makers(t))
        OBVIOUS
      <4>3. Walks(t, "size", h, frame[t].qty) /\ frame[t].pc = "take"
        BY <3>5, <4>2 DEF Takes
      <4>4. frame'[t].pc = "size" /\ frame'[t].order = o /\ frame'[t].saved = frame[t].saved
            /\ frame'[t].best = h
        BY <1>1, <3>1, <4>3, WalksFacts
      <4> QED
        BY <2>4, <3>1, <3>2, <3>3, <4>1, <4>2, <4>3, <4>4 DEF HandlerKnows, Mine, MayList
    <3>6. CASE Sizes(t)
      <4>1. PICK q : Walks(t, "fill", frame[t].best, q)
        BY <3>6 DEF Sizes
      <4>2. frame'[t].pc = "fill" /\ frame'[t].order = o /\ frame'[t].saved = frame[t].saved
            /\ frame'[t].best = b /\ frame[t].pc = "size"
        BY <1>1, <3>1, <3>6, <4>1, WalksFacts DEF Sizes
      <4> QED
        BY <2>4, <3>1, <3>2, <3>3, <4>2 DEF HandlerKnows, Mine
    <3>7. CASE Fills(t)
      <4>1. frame'[t].pc = "drop" /\ frame'[t].order = o /\ frame'[t].saved = frame[t].saved
            /\ frame'[t].best = b /\ frame[t].pc = "fill"
        BY <1>1, <3>1, <3>7, BecomesFacts DEF Fills
      <4> QED
        BY <2>4, <3>1, <3>2, <3>3, <4>1 DEF HandlerKnows, Mine
    <3>8. CASE Records(t)
      <4>1. frame'[t].pc = "record" /\ frame'[t].order = o
            /\ frame'[t].saved = frame[t].saved /\ frame[t].pc = "record"
        BY <1>1, <3>1, <3>8, BecomesFacts DEF Records
      <4> QED
        BY <2>4, <3>1, <3>2, <3>3, <4>1 DEF HandlerKnows, Mine
    <3>9. CASE Rests(t)
      <4>1. frame'[t].pc = "sort" /\ frame'[t].order = o
            /\ frame'[t].saved = frame[t].saved /\ frame[t].pc = "record"
            /\ frame'[t].trades = <<>> /\ objs[o].type = "LIMIT"
        BY <1>1, <3>1, <3>9, WalksFacts DEF Rests, Mine
      <4> QED
        BY <2>4, <3>1, <3>2, <3>3, <4>1 DEF HandlerKnows, Mine
    <3>10. CASE Begins(t)
      <4>1. frame'[t].pc = "sorting" /\ frame'[t].order = o
            /\ frame[t].pc = "sort" /\ frame'[t].trades = frame[t].trades
        BY <1>1, <3>1, <3>10, BecomesFacts DEF Begins
      <4> QED
        BY <2>4, <3>1, <3>2, <3>3, <4>1 DEF HandlerKnows, Mine
    <3>11. CASE Ends(t)
      BY <1>1, <2>4, <3>11, EndsFrame, WaitingKnows
    <3> QED
      BY <2>1, <3>4, <3>5, <3>6, <3>7, <3>8, <3>9, <3>10, <3>11 DEF Handles
  <2> QED
    BY <2>3, <2>4
<1> QED
  BY <1>2, <1>3, <1>4 DEF Next

-----------------------------------------------------------------------------
(* What trades name.                                                       *)

LEMMA AppendElements ==
    ASSUME NEW S, NEW s \in Seq(S), NEW x \in S
    PROVE  /\ Append(s, x) \in Seq(S) /\ Len(s) \in Nat /\ Len(Append(s, x)) = Len(s) + 1
           /\ \A i \in 1..Len(s) : Append(s, x)[i] = s[i]
           /\ Append(s, x)[Len(s) + 1] = x
           /\ \A i \in 1..Len(Append(s, x)) :
                 (i \in 1..Len(s) /\ Append(s, x)[i] = s[i]) \/ Append(s, x)[i] = x
<1>1. Len(s) \in Nat
  BY LenProperties
<1> QED
  BY <1>1, AppendProperties

LEMMA TailElements ==
    ASSUME NEW S, NEW s \in Seq(S), s # <<>>
    PROVE  /\ Len(s) \in Nat /\ Len(s) > 0 /\ Head(s) = s[1] /\ s[1] \in S
           /\ Tail(s) \in Seq(S) /\ Len(Tail(s)) = Len(s) - 1
           /\ \A i \in 1..Len(Tail(s)) : i + 1 \in 1..Len(s) /\ Tail(s)[i] = s[i + 1]
<1>1. Len(s) \in Nat /\ Len(s) > 0
  BY LenProperties, EmptySeq
<1>2. Head(s) = s[1] /\ Tail(s) \in Seq(S) /\ Len(Tail(s)) = Len(s) - 1
      /\ Head(s) \in S
  BY HeadTailProperties
<1>3. \A i \in 1..(Len(s) - 1) : Tail(s)[i] = s[i + 1]
  BY <1>1, HeadTailProperties
<1> QED
  BY <1>1, <1>2, <1>3

LEMMA TradesNameKept ==
    ASSUME Known, TradesName, Next
    PROVE  TradesName'
<1>1. TypeOK /\ \A t \in Threads : HandlerKnows(t)
  BY DEF Known
<1>2. ASSUME Orders \subseteq Orders', tape' = tape,
             \A u \in Threads :
                /\ frame'[u].trades = frame[u].trades /\ frame'[u].order = frame[u].order
                \/ frame'[u].trades = <<>>
      PROVE  TradesName'
  <2>1. ASSUME NEW u \in Threads, NEW i \in 1..Len(frame'[u].trades)
        PROVE  /\ frame'[u].trades[i].buy \in Orders' /\ frame'[u].trades[i].sell \in Orders'
               /\ frame'[u].order \in {frame'[u].trades[i].buy, frame'[u].trades[i].sell}
    BY <1>2, <2>1 DEF TradesName
  <2>2. ASSUME NEW i \in 1..Len(tape')
        PROVE  tape'[i].buy \in Orders' /\ tape'[i].sell \in Orders'
    BY <1>2, <2>2 DEF TradesName
  <2> QED
    BY <2>1, <2>2 DEF TradesName
<1>3. ASSUME NEW t \in Threads, NEW m \in Messages, Receive(t, m) \/ Refuse(t, m)
      PROVE  TradesName'
  <2>1. PICK x \in OrderObject : objs' = Append(objs, x)
    BY <1>1, <1>3, ReceiveFacts, RefuseFacts, ParsedFacts
  <2>2. Orders \subseteq Orders'
    BY <1>1, <2>1, ArrivalFacts DEF Orders
  <2>3. CASE Receive(t, m)
    <3>1. /\ UNCHANGED tape
          /\ Becomes(t, [pc |-> "look", order |-> Len(objs) + 1, best |-> 0, qty |-> 0,
                         trades |-> <<>>, sum |-> [qty |-> 0, price |-> 0],
                         saved |-> <<>>])
      BY <1>1, <2>3, ReceiveFacts
    <3>2. frame'[t].trades = <<>> /\ \A u \in Threads \ {t} : frame'[u] = frame[u]
      BY <1>1, <3>1, BecomesFacts
    <3> QED
      BY <1>2, <2>2, <3>1, <3>2
  <2>4. CASE Refuse(t, m)
    BY <1>1, <1>2, <2>2, <2>4, RefuseFacts
  <2> QED
    BY <1>3, <2>3, <2>4
<1>4. ASSUME NEW t \in Threads, Work(t)
      PROVE  TradesName'
  <2>1. frame[t].pc # "recv" /\ Handles(t)
    BY <1>4, WorkShapes
  <2>2. Orders' = Orders
    BY <1>1, <2>1, HandlesSame DEF Orders
  <2>3. \A u \in Threads \ {t} : frame'[u] = frame[u]
    BY <1>1, <2>1, OtherFrames
  <2>4. CASE Fills(t)
    <3>1. /\ frame[t].order # 0 /\ frame[t].best # 0
          /\ frame[t].order \in Orders /\ frame[t].best \in Orders
      BY <1>1, <2>4, FillKnows DEF Fills
    <3>2. /\ frame'[t].trades = Append(frame[t].trades, NewTrade(t))
          /\ frame'[t].order = frame[t].order /\ tape' = tape
      BY <1>1, <2>4, BecomesFacts DEF Fills
    <3>3. /\ NewTrade(t) \in Sequential!TradeRecord
          /\ {NewTrade(t).buy, NewTrade(t).sell} = {frame[t].order, frame[t].best}
      BY <1>1, <3>1, NewTradeFacts
    <3>4. frame[t].trades \in Seq(Sequential!TradeRecord)
      BY <1>1, FrameFacts
    <3>5. ASSUME NEW i \in 1..Len(frame'[t].trades)
          PROVE  /\ frame'[t].trades[i].buy \in Orders
                 /\ frame'[t].trades[i].sell \in Orders
                 /\ frame'[t].order \in {frame'[t].trades[i].buy, frame'[t].trades[i].sell}
      <4>1. \/ i \in 1..Len(frame[t].trades) /\ frame'[t].trades[i] = frame[t].trades[i]
            \/ frame'[t].trades[i] = NewTrade(t)
        BY <3>2, <3>3, <3>4, <3>5, AppendElements
      <4>2. NewTrade(t).buy \in Orders /\ NewTrade(t).sell \in Orders
            /\ frame[t].order \in {NewTrade(t).buy, NewTrade(t).sell}
        BY <3>1, <3>3
      <4> QED
        BY <3>2, <4>1, <4>2 DEF TradesName
    <3> QED
      BY <2>2, <2>3, <3>2, <3>5, ZenonT(60) DEF TradesName
  <2>5. CASE Records(t)
    <3>1. /\ frame[t].trades # <<>> /\ tape' = Append(tape, Head(frame[t].trades))
          /\ frame'[t].trades = Tail(frame[t].trades)
          /\ frame'[t].order = frame[t].order
      BY <1>1, <2>5, RecordsFrame DEF Records
    <3>2. frame[t].trades \in Seq(Sequential!TradeRecord)
          /\ tape \in Seq(Sequential!TradeRecord)
      BY <1>1, FrameFacts, TypeFacts
    <3>3. /\ 1 \in 1..Len(frame[t].trades) /\ Head(frame[t].trades) = frame[t].trades[1]
          /\ Head(frame[t].trades) \in Sequential!TradeRecord
          /\ \A i \in 1..Len(frame'[t].trades) :
                /\ i + 1 \in 1..Len(frame[t].trades)
                /\ frame'[t].trades[i] = frame[t].trades[i + 1]
      BY <3>1, <3>2, TailElements
    <3>4. ASSUME NEW i \in 1..Len(tape')
          PROVE  tape'[i].buy \in Orders /\ tape'[i].sell \in Orders
      <4>1. \/ i \in 1..Len(tape) /\ tape'[i] = tape[i]
            \/ tape'[i] = Head(frame[t].trades)
        BY <3>1, <3>2, <3>3, <3>4, AppendElements
      <4> QED
        BY <3>3, <4>1 DEF TradesName
    <3>5. ASSUME NEW u \in Threads, NEW i \in 1..Len(frame'[u].trades)
          PROVE  /\ frame'[u].trades[i].buy \in Orders
                 /\ frame'[u].trades[i].sell \in Orders
                 /\ frame'[u].order \in {frame'[u].trades[i].buy, frame'[u].trades[i].sell}
      <4>1. CASE u = t
        BY <3>1, <3>3, <3>5, <4>1 DEF TradesName
      <4>2. CASE u # t
        BY <2>3, <3>5, <4>2 DEF TradesName
      <4> QED
        BY <4>1, <4>2
    <3> QED
      BY <2>2, <3>4, <3>5 DEF TradesName
  <2>6. CASE Ends(t)
    <3>1. frame'[t].trades = <<>>
      BY <1>1, <2>6, EndsFrame DEF Waiting
    <3> QED
      BY <1>2, <2>2, <2>3, <2>6, <3>1 DEF Ends
  <2>7. CASE Begins(t)
    <3>1. frame'[t].trades = frame[t].trades /\ frame'[t].order = frame[t].order
      BY <1>1, <2>7, BecomesFacts DEF Begins
    <3> QED
      BY <1>2, <2>2, <2>3, <2>7, <3>1 DEF Begins
  <2>8. CASE MovesOn(t) \/ Takes(t) \/ Sizes(t) \/ Rests(t)
    <3>1. \E pc, best, qty : Walks(t, pc, best, qty)
      BY <2>8 DEF MovesOn, Takes, Sizes, Rests
    <3>2. frame'[t].trades = frame[t].trades /\ frame'[t].order = frame[t].order
      BY <1>1, <3>1, WalksFacts
    <3>3. tape' = tape
      BY <2>8 DEF MovesOn, Takes, Sizes, Rests, Untouched
    <3> QED
      BY <1>2, <2>2, <2>3, <3>2, <3>3
  <2> QED
    BY <2>1, <2>4, <2>5, <2>6, <2>7, <2>8 DEF Handles
<1> QED
  BY <1>3, <1>4 DEF Next

-----------------------------------------------------------------------------
(* Where each request is.                                                  *)

Users(n) == {u \in Threads : frame[u].order = n}

LEMMA OutcomeForms ==
    ASSUME NEW n
    PROVE  Outcome(n) <=>
             \/ \E t \in Threads : Users(n) = {t} /\ Answers(n) = {} /\ n \notin failed
             \/ \E i \in 1..Len(replies) : Users(n) = {} /\ Answers(n) = {i} /\ n \notin failed
             \/ Users(n) = {} /\ Answers(n) = {} /\ n \in failed
BY Zenon DEF Outcome, Users

LEMMA OutcomeSame ==
    ASSUME NEW n, Outcome(n), Users(n)' = Users(n), Answers(n)' = Answers(n),
           Len(replies) \in Nat, Len(replies') \in Nat, Len(replies) <= Len(replies'),
           n \in failed' <=> n \in failed
    PROVE  Outcome(n)'
<1>1. \A i \in 1..Len(replies) : i \in 1..Len(replies')
  OBVIOUS
<1>2. CASE \E t \in Threads : Users(n) = {t} /\ Answers(n) = {} /\ n \notin failed
  BY <1>2 DEF Outcome, Users
<1>3. CASE \E i \in 1..Len(replies) : Users(n) = {} /\ Answers(n) = {i} /\ n \notin failed
  BY <1>1, <1>3 DEF Outcome, Users
<1>4. CASE Users(n) = {} /\ Answers(n) = {} /\ n \in failed
  BY <1>4 DEF Outcome, Users
<1> QED
  BY <1>2, <1>3, <1>4, OutcomeForms

\* One more response, to order n.
LEMMA OneMoreAnswer ==
    ASSUME TypeOK, NEW r \in Sequential!ReplyRecord, replies' = Append(replies, r)
    PROVE  /\ Len(replies) \in Nat /\ Len(replies') = Len(replies) + 1
           /\ \A n : Answers(n)' = IF n = r.order THEN Answers(n) \cup {Len(replies) + 1}
                                   ELSE Answers(n)
           /\ \A i \in 1..Len(replies') :
                 (i \in 1..Len(replies) /\ replies'[i] = replies[i]) \/ replies'[i] = r
<1>1. /\ Len(replies) \in Nat /\ Len(replies') = Len(replies) + 1
      /\ \A i \in 1..Len(replies) : replies'[i] = replies[i]
      /\ replies'[Len(replies) + 1] = r
      /\ \A i \in 1..Len(replies') :
            (i \in 1..Len(replies) /\ replies'[i] = replies[i]) \/ replies'[i] = r
  <2>1. PICK R : R = Sequential!ReplyRecord
    OBVIOUS
  <2>2. replies \in Seq(R) /\ r \in R
    BY <2>1, TypeFacts
  <2> QED
    BY <2>2, AppendElements
<1>2. ASSUME NEW n
      PROVE  Answers(n)' = IF n = r.order THEN Answers(n) \cup {Len(replies) + 1}
                           ELSE Answers(n)
  <2>1. PICK k \in Nat : k = Len(replies)
    BY <1>1
  <2>2. Answers(n)' = {i \in 1..(k + 1) : replies'[i].order = n}
    BY <1>1, <2>1 DEF Answers
  <2>3. Answers(n) = {i \in 1..k : replies[i].order = n}
    BY <2>1 DEF Answers
  <2>4. \A i \in 1..k : replies'[i].order = replies[i].order
    BY <1>1, <2>1
  <2>5. replies'[k + 1].order = r.order
    BY <1>1, <2>1
  <2> QED
    BY <2>1, <2>2, <2>3, <2>4, <2>5
<1> QED
  BY <1>1, <1>2

LEMMA OutcomesKept ==
    ASSUME Known, RepliesName, \A n \in Orders : Outcome(n), Next
    PROVE  RepliesName' /\ \A n \in Orders' : Outcome(n)'
<1>1. TypeOK /\ \A t \in Threads : HandlerKnows(t)
  BY DEF Known
<1>2. Len(replies) \in Nat /\ Len(objs) \in Nat
  BY <1>1, TypeFacts
<1>3. ASSUME NEW t \in Threads, NEW m \in Messages, Receive(t, m)
      PROVE  RepliesName' /\ \A n \in Orders' : Outcome(n)'
  <2>1. /\ frame[t].pc = "recv" /\ UNCHANGED <<replies, failed>>
        /\ objs' = Append(objs, Parsed(m, FALSE)) /\ Parsed(m, FALSE) \in OrderObject
        /\ Becomes(t, [pc |-> "look", order |-> Len(objs) + 1, best |-> 0, qty |-> 0,
                       trades |-> <<>>, sum |-> [qty |-> 0, price |-> 0],
                       saved |-> <<>>])
    BY <1>1, <1>3, ReceiveFacts, ParsedFacts
  <2>2. Len(objs') = Len(objs) + 1
    BY <1>1, <2>1, ArrivalFacts
  <2>3. /\ frame'[t].order = Len(objs) + 1 /\ frame[t].order = 0
        /\ \A u \in Threads \ {t} : frame'[u] = frame[u]
    BY <1>1, <2>1, BecomesFacts DEF HandlerKnows
  <2>4. RepliesName'
    BY <1>2, <2>1, <2>2 DEF RepliesName, Orders
  <2>5. ASSUME NEW n \in Orders'
        PROVE  Outcome(n)'
    <3>1. Answers(n)' = Answers(n) /\ n # 0
      BY <2>1 DEF Answers, Orders
    <3>2. CASE n \in Orders
      <4>1. n # Len(objs) + 1
        BY <1>2, <3>2 DEF Orders
      <4>2. Users(n)' = Users(n)
        BY <2>3, <3>1, <4>1 DEF Users
      <4> QED
        BY <1>2, <2>1, <3>1, <3>2, <4>2, OutcomeSame
    <3>3. CASE n \notin Orders
      <4>1. n = Len(objs) + 1
        BY <1>2, <2>2, <3>3 DEF Orders
      <4>2. \A u \in Threads : frame[u].order # n
        BY <1>1, <3>1, <3>3, FrameFacts
      <4>3. Users(n)' = {t}
        BY <2>3, <4>1, <4>2 DEF Users
      <4>4. Answers(n) = {}
        BY <3>3 DEF Answers, RepliesName
      <4>5. n \notin failed'
        BY <1>1, <2>1, <3>3, TypeParts
      <4> QED
        BY <3>1, <4>3, <4>4, <4>5 DEF Outcome, Users
    <3> QED
      BY <3>2, <3>3
  <2> QED
    BY <2>4, <2>5
<1>4. ASSUME NEW t \in Threads, NEW m \in Messages, Refuse(t, m)
      PROVE  RepliesName' /\ \A n \in Orders' : Outcome(n)'
  <2>1. /\ objs' = Append(objs, Parsed(m, TRUE)) /\ Parsed(m, TRUE) \in OrderObject
        /\ UNCHANGED <<frame, failed>>
    BY <1>1, <1>4, RefuseFacts, ParsedFacts
  <2>2. PICK r \in Sequential!ReplyRecord :
          replies' = Append(replies, r) /\ r.order = Len(objs) + 1
    BY <1>1, <1>4, RefuseFacts
  <2>3. Len(objs') = Len(objs) + 1
    BY <1>1, <2>1, ArrivalFacts
  <2>4. /\ Len(replies') = Len(replies) + 1
        /\ \A n : Answers(n)' = IF n = r.order THEN Answers(n) \cup {Len(replies) + 1}
                                ELSE Answers(n)
        /\ \A i \in 1..Len(replies') :
              (i \in 1..Len(replies) /\ replies'[i] = replies[i]) \/ replies'[i] = r
    BY <1>1, <2>2, OneMoreAnswer
  <2>5. RepliesName'
    BY <1>2, <2>2, <2>3, <2>4 DEF RepliesName, Orders
  <2>6. ASSUME NEW n \in Orders'
        PROVE  Outcome(n)'
    <3>1. Users(n)' = Users(n)
      BY <2>1 DEF Users
    <3>2. CASE n \in Orders
      <4>1. Answers(n)' = Answers(n)
        BY <1>2, <2>2, <2>4, <3>2 DEF Orders
      <4> QED
        BY <1>2, <2>1, <2>4, <3>1, <3>2, <4>1, OutcomeSame
    <3>3. CASE n \notin Orders
      <4>1. n = Len(objs) + 1 /\ n # 0
        BY <1>2, <2>3, <3>3 DEF Orders
      <4>2. \A u \in Threads : frame[u].order # n
        BY <1>1, <3>3, <4>1, FrameFacts
      <4>3. Users(n)' = {}
        BY <3>1, <4>2 DEF Users
      <4>4. Answers(n) = {}
        BY <3>3 DEF Answers, RepliesName
      <4>5. Answers(n)' = {Len(replies) + 1} /\ Len(replies) + 1 \in 1..Len(replies')
        BY <1>2, <2>2, <2>4, <4>1, <4>4
      <4>6. n \notin failed'
        BY <1>1, <2>1, <3>3, TypeParts
      <4> QED
        BY <4>3, <4>5, <4>6 DEF Outcome, Users
    <3> QED
      BY <3>2, <3>3
  <2> QED
    BY <2>5, <2>6
<1>5. ASSUME NEW t \in Threads, Work(t)
      PROVE  RepliesName' /\ \A n \in Orders' : Outcome(n)'
  <2>1. frame[t].pc # "recv" /\ Handles(t)
    BY <1>5, WorkShapes
  <2>2. Orders' = Orders /\ frame[t].order \in Orders
    BY <1>1, <2>1, HandlesSame, HandlerLists DEF Orders
  <2>3. \A u \in Threads \ {t} : frame'[u] = frame[u]
    BY <1>1, <2>1, OtherFrames
  <2>4. CASE Ends(t)
    <3>1. frame'[t].order = 0
      BY <1>1, <2>4, EndsFrame DEF Waiting
    <3>2. PICK o \in Orders : o = frame[t].order
      BY <2>2
    <3>3. /\ \A n \in Orders : n # o => Users(n)' = Users(n)
          /\ Users(o)' = Users(o) \ {t} /\ t \in Users(o)
      BY <2>3, <3>1, <3>2 DEF Users, Orders
    <3>4. Users(o) = {t} /\ Answers(o) = {} /\ o \notin failed
      BY <3>3, OutcomeForms
    <3>5. CASE Answers1(t)
      <4>1. PICK r \in Sequential!ReplyRecord :
              replies' = Append(replies, r) /\ r.order = o
        BY <3>2, <3>5 DEF Answers1
      <4>2. /\ Len(replies') = Len(replies) + 1
            /\ \A n : Answers(n)' = IF n = r.order THEN Answers(n) \cup {Len(replies) + 1}
                                    ELSE Answers(n)
            /\ \A i \in 1..Len(replies') :
                  (i \in 1..Len(replies) /\ replies'[i] = replies[i]) \/ replies'[i] = r
        BY <1>1, <4>1, OneMoreAnswer
      <4>3. RepliesName'
        BY <2>2, <4>1, <4>2 DEF RepliesName
      <4>4. UNCHANGED failed
        BY <3>5 DEF Answers1
      <4>5. ASSUME NEW n \in Orders
            PROVE  Outcome(n)'
        <5>1. CASE n # o
          BY <1>2, <3>3, <4>1, <4>2, <4>4, <5>1, OutcomeSame
        <5>2. CASE n = o
          <6>1. Users(n)' = {} /\ n \notin failed'
            BY <3>3, <3>4, <4>4, <5>2
          <6>2. Answers(n)' = {Len(replies) + 1} /\ Len(replies) + 1 \in 1..Len(replies')
            BY <1>2, <3>4, <4>1, <4>2, <5>2
          <6> QED
            BY <6>1, <6>2 DEF Outcome, Users
        <5> QED
          BY <5>1, <5>2
      <4> QED
        BY <2>2, <4>3, <4>5
    <3>6. CASE Raises(t)
      <4>1. UNCHANGED replies /\ failed' = failed \cup {o}
        BY <3>2, <3>6 DEF Raises
      <4>2. RepliesName' /\ \A n : Answers(n)' = Answers(n)
        BY <2>2, <4>1 DEF RepliesName, Answers
      <4>3. ASSUME NEW n \in Orders
            PROVE  Outcome(n)'
        <5>1. CASE n # o
          BY <1>2, <3>3, <4>1, <4>2, <5>1, OutcomeSame
        <5>2. CASE n = o
          <6>1. Users(n)' = {} /\ n \in failed' /\ Answers(n)' = {}
            BY <3>3, <3>4, <4>1, <4>2, <5>2
          <6> QED
            BY <6>1 DEF Outcome, Users
        <5> QED
          BY <5>1, <5>2
      <4> QED
        BY <2>2, <4>2, <4>3
    <3> QED
      BY <2>4, <3>5, <3>6 DEF Ends
  <2>5. CASE ~Ends(t)
    <3>1. frame'[t].order = frame[t].order
      <4>1. CASE MovesOn(t) \/ Takes(t) \/ Sizes(t) \/ Rests(t)
        <5>1. \E pc, best, qty : Walks(t, pc, best, qty)
          BY <4>1 DEF MovesOn, Takes, Sizes, Rests
        <5> QED
          BY <1>1, <5>1, WalksFacts
      <4>2. CASE Fills(t) \/ Begins(t)
        BY <1>1, <4>2, BecomesFacts DEF Fills, Begins
      <4>3. CASE Records(t)
        BY <1>1, <4>3, RecordsFrame
      <4> QED
        BY <2>1, <2>5, <4>1, <4>2, <4>3 DEF Handles
    <3>2. UNCHANGED <<replies, failed>>
      BY <2>1, <2>5 DEF Handles, MovesOn, Takes, Sizes, Fills, Records, Rests, Begins,
                        Untouched
    <3>3. RepliesName'
      BY <2>2, <3>2 DEF RepliesName
    <3>4. ASSUME NEW n \in Orders
          PROVE  Outcome(n)'
      <4>1. Users(n)' = Users(n) /\ Answers(n)' = Answers(n)
        BY <2>3, <3>1, <3>2 DEF Users, Answers
      <4> QED
        BY <1>2, <3>2, <4>1, OutcomeSame
    <3> QED
      BY <2>2, <3>3, <3>4
  <2> QED
    BY <2>4, <2>5
<1> QED
  BY <1>3, <1>4, <1>5 DEF Next

-----------------------------------------------------------------------------
(* What lists and sorts hold.                                              *)

LEMMA ListElements ==
    ASSUME TypeOK
    PROVE  /\ \A s \in Symbols, d \in Sides : \A i \in 1..Len(book[s][d]) :
                 book[s][d][i] \in Orders
           /\ \A u \in Threads : \A i \in 1..Len(frame[u].saved) : frame[u].saved[i] \in Orders
<1>1. ASSUME NEW s \in Symbols, NEW d \in Sides, NEW i \in 1..Len(book[s][d])
      PROVE  book[s][d][i] \in Orders
  BY <1>1, TypeFacts, ElementOfSeq
<1>2. ASSUME NEW u \in Threads, NEW i \in 1..Len(frame[u].saved)
      PROVE  frame[u].saved[i] \in Orders
  BY <1>2, FrameFacts, ElementOfSeq
<1> QED
  BY <1>1, <1>2

LEMMA MayListKept ==
    ASSUME SameOrders, NEW n \in Orders, NEW s, NEW d, MayList(n, s, d)
    PROVE  MayList(n, s, d)'
BY DEF SameOrders, MayList

\* Every list is what it was, or its tail, or empty.
BookShrinks ==
    \A s \in Symbols, d \in Sides : \E k \in {0, 1} :
       \A i \in 1..Len(book'[s][d]) :
          i + k \in 1..Len(book[s][d]) /\ book'[s][d][i] = book[s][d][i + k]

\* What a thread sorts is for the side of its order.
LEMMA SortsOwn ==
    ASSUME TypeOK, NEW u \in Threads, HandlerKnows(u), frame[u].saved # <<>>
    PROVE  frame[u].order \in Orders
BY HandlerLists DEF HandlerKnows

LEMMA SavedKept ==
    ASSUME Known, SameOrders, NEW u \in Threads, frame'[u].saved = frame[u].saved,
           frame'[u].order = frame[u].order
    PROVE  \A i \in 1..Len(frame'[u].saved) :
              MayList(frame[u].saved[i], Mine(u).symbol, Mine(u).side)'
<1> SUFFICES ASSUME NEW i \in 1..Len(frame[u].saved)
             PROVE  MayList(frame[u].saved[i], Mine(u).symbol, Mine(u).side)'
  OBVIOUS
<1>1. TypeOK /\ HandlerKnows(u)
  BY DEF Known
<1>2. frame[u].saved # <<>>
  OBVIOUS
<1>3. frame[u].order \in Orders
  BY <1>1, <1>2, SortsOwn
<1>4. /\ objs'[frame'[u].order].symbol = objs[frame[u].order].symbol
      /\ objs'[frame'[u].order].side = objs[frame[u].order].side
  BY <1>3 DEF SameOrders
<1>5. frame[u].saved[i] \in Orders
  BY <1>1, ListElements
<1>6. MayList(frame[u].saved[i], Mine(u).symbol, Mine(u).side)
  BY DEF Known, Listed
<1>8. PICK n, s, d : /\ n = frame[u].saved[i] /\ s = Mine(u).symbol /\ d = Mine(u).side
                     /\ n \in Orders
  BY <1>5
<1>9. MayList(n, s, d)'
  BY <1>6, <1>8, MayListKept
<1>10. frame'[u].saved[i] = n /\ Mine(u).symbol' = s /\ Mine(u).side' = d
  BY <1>4, <1>8 DEF Mine
<1> QED
  BY <1>9, <1>10 DEF MayList

LEMMA ListedShrinks ==
    ASSUME Known, SameOrders, BookShrinks,
           \A u \in Threads :
              \/ frame'[u].saved = <<>>
              \/ frame'[u].saved = frame[u].saved /\ frame'[u].order = frame[u].order
    PROVE  Listed'
<1>1. TypeOK /\ \A u \in Threads : HandlerKnows(u)
  BY DEF Known
<1>2. ASSUME NEW s \in Symbols, NEW d \in Sides, NEW i \in 1..Len(book'[s][d])
      PROVE  MayList(book[s][d][i], s, d)'
  <2>1. PICK k \in {0, 1} : i + k \in 1..Len(book[s][d])
                            /\ book'[s][d][i] = book[s][d][i + k]
    BY <1>2 DEF BookShrinks
  <2>2. PICK n \in Orders : n = book[s][d][i + k]
    BY <1>1, <2>1, ListElements
  <2>3. MayList(n, s, d)
    BY <2>1, <2>2 DEF Known, Listed
  <2>4. MayList(n, s, d)'
    BY <2>3, MayListKept
  <2> QED
    BY <2>1, <2>2, <2>4 DEF MayList
<1>3. ASSUME NEW u \in Threads, NEW i \in 1..Len(frame'[u].saved)
      PROVE  MayList(frame[u].saved[i], Mine(u).symbol, Mine(u).side)'
  BY <1>3, SavedKept
<1>4. ASSUME NEW s \in Symbols, NEW d \in Sides, NEW i \in 1..Len(book'[s][d]),
             NEW j \in 1..Len(book'[s][d]), book'[s][d][i] = book'[s][d][j]
      PROVE  i = j
  <2>1. PICK k \in {0, 1} : \A x \in 1..Len(book'[s][d]) :
          x + k \in 1..Len(book[s][d]) /\ book'[s][d][x] = book[s][d][x + k]
    BY DEF BookShrinks
  <2>2. i + k = j + k
    BY <1>4, <2>1 DEF Known, Listed
  <2> QED
    BY <1>1, <2>2
<1>5. ASSUME NEW u \in Threads, NEW v \in Threads, NEW i \in 1..Len(frame'[u].saved),
             NEW j \in 1..Len(frame'[v].saved), frame'[u].saved[i] = frame'[v].saved[j]
      PROVE  u = v /\ i = j
  <2>1. frame'[u].saved = frame[u].saved /\ frame'[v].saved = frame[v].saved
    BY <1>5
  <2> QED
    BY <1>5, <2>1 DEF Known, Listed
<1>6. ASSUME NEW u \in Threads, NEW s \in Symbols, NEW d \in Sides,
             NEW i \in 1..Len(frame'[u].saved), NEW j \in 1..Len(book'[s][d])
      PROVE  frame'[u].saved[i] # book'[s][d][j]
  <2>1. frame'[u].saved = frame[u].saved
    BY <1>6
  <2>2. PICK k \in {0, 1} : j + k \in 1..Len(book[s][d])
                            /\ book'[s][d][j] = book[s][d][j + k]
    BY <1>6 DEF BookShrinks
  <2> QED
    BY <2>1, <2>2, <1>6 DEF Known, Listed
<1> QED
  BY <1>2, <1>3, <1>4, <1>5, <1>6 DEF Listed

\* A list that a handler puts its order into, which is in no list or sort yet.
LEMMA ListedRests ==
    ASSUME Known, NEW t \in Threads, Rests(t), Unlisted(frame[t].order),
           HandlerKnows(t), frame[t].pc # "recv"
    PROVE  Listed'
<1>1. TypeOK /\ \A u \in Threads : HandlerKnows(u)
  BY DEF Known
<1>2. PICK o \in Orders, s0 \in Symbols, d0 \in Sides :
        o = frame[t].order /\ s0 = Mine(t).symbol /\ d0 = Mine(t).side /\ o # 0
  BY <1>1, HandlerLists
<1>3. PICK l \in Seq(Orders) : l = book[s0][d0]
  BY <1>1, TypeFacts
<1>4. /\ Append(l, o) \in Seq(Orders) /\ Len(l) \in Nat /\ Len(Append(l, o)) = Len(l) + 1
      /\ \A i \in 1..Len(l) : Append(l, o)[i] = l[i]
      /\ Append(l, o)[Len(l) + 1] = o
      /\ \A i \in 1..Len(Append(l, o)) :
            (i \in 1..Len(l) /\ Append(l, o)[i] = l[i]) \/ Append(l, o)[i] = o
  BY AppendElements
<1>5. Puts(s0, d0, Append(l, o)) /\ objs' = objs
  BY <1>2, <1>3 DEF Rests, Own, Untouched
<1>6. \A s \in Symbols, d \in Sides :
         book'[s][d] = IF s = s0 /\ d = d0 THEN Append(l, o) ELSE book[s][d]
  <2>1. PICK new : new = Append(l, o) /\ new \in Seq(Orders)
    BY <1>4
  <2>2. Puts(s0, d0, new)
    BY <1>5, <2>1
  <2>3. \A s \in Symbols, d \in Sides :
           book'[s][d] = IF s = s0 /\ d = d0 THEN new ELSE book[s][d]
    <3>1. TypeOK /\ s0 \in Symbols /\ d0 \in Sides /\ new \in Seq(Orders)
      BY <1>1, <1>2, <2>1
    <3>2. TypeOK /\ s0 \in Symbols /\ d0 \in Sides /\ new \in Seq(Orders) /\ Puts(s0, d0, new)
      BY <3>1, <2>2
    <3> QED
      BY <3>2, PutsFacts
  <2> QED
    BY <2>1, <2>3, Zenon
<1>7. \A u \in Threads : frame'[u].saved = frame[u].saved /\ frame'[u].order = frame[u].order
  <2>1. Walks(t, "sort", frame[t].best, frame[t].qty)
    BY DEF Rests
  <2> QED
    BY <1>1, <2>1, WalksFacts
<1>8. SameOrders
  <2>1. Len(objs) \in Nat
    BY <1>1, TypeFacts
  <2> QED
    BY <1>5, <2>1 DEF SameOrders
<1>9. MayList(o, s0, d0)
  BY <1>1, <1>2 DEF MayList, Rests, HandlerKnows, Mine
<1>10. \A n, s, d : MayList(n, s, d)' <=> MayList(n, s, d)
  BY <1>5 DEF MayList
<1>11. \A s \in Symbols, d \in Sides : \A i \in 1..Len(book'[s][d]) :
          \/ i \in 1..Len(book[s][d]) /\ book'[s][d][i] = book[s][d][i]
          \/ s = s0 /\ d = d0 /\ book'[s][d][i] = o
  BY <1>3, <1>4, <1>6
<1>12. \A s \in Symbols, d \in Sides : \A i \in 1..Len(book'[s][d]) :
          book'[s][d][i] = o => s = s0 /\ d = d0 /\ i = Len(l) + 1
  <2> SUFFICES ASSUME NEW s \in Symbols, NEW d \in Sides, NEW i \in 1..Len(book'[s][d]),
                      book'[s][d][i] = o
               PROVE  s = s0 /\ d = d0 /\ i = Len(l) + 1
    OBVIOUS
  <2>1. ~(i \in 1..Len(book[s][d]) /\ book'[s][d][i] = book[s][d][i])
    BY <1>2 DEF Unlisted
  <2>2. s = s0 /\ d = d0
    BY <1>11, <2>1
  <2>3. book[s][d] = l /\ book'[s][d] = Append(l, o)
    BY <1>3, <1>6, <2>2
  <2>4. i \in 1..(Len(l) + 1) /\ i \notin 1..Len(l)
    BY <1>4, <2>1, <2>3
  <2> QED
    BY <1>4, <2>2, <2>4
<1>13. ASSUME NEW s \in Symbols, NEW d \in Sides, NEW i \in 1..Len(book'[s][d])
       PROVE  MayList(book[s][d][i], s, d)'
  <2>1. MayList(book'[s][d][i], s, d)
    BY <1>9, <1>11, <1>13 DEF Known, Listed
  <2> QED
    BY <2>1, <1>5 DEF MayList
<1>14. ASSUME NEW u \in Threads, NEW i \in 1..Len(frame'[u].saved)
       PROVE  MayList(frame[u].saved[i], Mine(u).symbol, Mine(u).side)'
  BY <1>7, <1>8, <1>14, SavedKept
<1>15. ASSUME NEW s \in Symbols, NEW d \in Sides, NEW i \in 1..Len(book'[s][d]),
              NEW j \in 1..Len(book'[s][d]), book'[s][d][i] = book'[s][d][j]
       PROVE  i = j
  <2>1. CASE book'[s][d][i] = o
    BY <1>12, <1>15, <2>1
  <2>2. CASE book'[s][d][i] # o
    <3>1. /\ i \in 1..Len(book[s][d]) /\ book'[s][d][i] = book[s][d][i]
          /\ j \in 1..Len(book[s][d]) /\ book'[s][d][j] = book[s][d][j]
      BY <1>11, <1>15, <2>2
    <3> QED
      BY <1>15, <3>1 DEF Known, Listed
  <2> QED
    BY <2>1, <2>2
<1>16. ASSUME NEW u \in Threads, NEW s \in Symbols, NEW d \in Sides,
              NEW i \in 1..Len(frame'[u].saved), NEW j \in 1..Len(book'[s][d])
       PROVE  frame'[u].saved[i] # book'[s][d][j]
  <2>1. CASE book'[s][d][j] = o
    BY <1>2, <1>7, <1>16, <2>1 DEF Unlisted
  <2>2. CASE book'[s][d][j] # o
    <3>1. j \in 1..Len(book[s][d]) /\ book'[s][d][j] = book[s][d][j]
      BY <1>11, <1>16, <2>2
    <3>2. i \in 1..Len(frame[u].saved) /\ frame'[u].saved = frame[u].saved
      BY <1>7, <1>16
    <3>3. frame[u].saved[i] # book[s][d][j]
      BY <3>1, <3>2 DEF Known, Listed
    <3> QED
      BY <3>1, <3>2, <3>3
  <2> QED
    BY <2>1, <2>2
<1>17. ASSUME NEW u \in Threads, NEW v \in Threads, NEW i \in 1..Len(frame'[u].saved),
              NEW j \in 1..Len(frame'[v].saved), frame'[u].saved[i] = frame'[v].saved[j]
       PROVE  u = v /\ i = j
  BY <1>7, <1>17 DEF Known, Listed
<1> QED
  BY <1>13, <1>14, <1>15, <1>16, <1>17 DEF Listed

\* A list that a sort takes.
LEMMA ListedBegins ==
    ASSUME Known, NEW t \in Threads, Begins(t)
    PROVE  Listed'
<1>1. TypeOK /\ \A u \in Threads : HandlerKnows(u)
  BY DEF Known
<1>2. PICK o \in Orders, s0 \in Symbols, d0 \in Sides :
        o = frame[t].order /\ s0 = Mine(t).symbol /\ d0 = Mine(t).side /\ o # 0
  BY <1>1, HandlerLists DEF Begins
<1>3. PICK l \in Seq(Orders) : l = book[s0][d0]
  BY <1>1, TypeFacts
<1>4. Puts(s0, d0, <<>>) /\ objs' = objs /\ <<>> \in Seq(Orders)
  BY <1>2 DEF Begins
<1>5. \A s \in Symbols, d \in Sides :
         book'[s][d] = IF s = s0 /\ d = d0 THEN <<>> ELSE book[s][d]
  <2>1. PICK new : new = <<>> /\ new \in Seq(Orders)
    BY <1>4
  <2>2. Puts(s0, d0, new)
    BY <1>4, <2>1
  <2>3. \A s \in Symbols, d \in Sides :
           book'[s][d] = IF s = s0 /\ d = d0 THEN new ELSE book[s][d]
    <3>1. TypeOK /\ s0 \in Symbols /\ d0 \in Sides /\ new \in Seq(Orders)
      BY <1>1, <1>2, <2>1
    <3>2. TypeOK /\ s0 \in Symbols /\ d0 \in Sides /\ new \in Seq(Orders) /\ Puts(s0, d0, new)
      BY <3>1, <2>2
    <3> QED
      BY <3>2, PutsFacts
  <2> QED
    BY <2>1, <2>3, Zenon
<1>6. /\ frame'[t].saved = l /\ frame'[t].order = frame[t].order
      /\ \A u \in Threads \ {t} : frame'[u] = frame[u]
  BY <1>1, <1>2, <1>3, BecomesFacts DEF Begins, Own
<1>7. SameOrders
  <2>1. Len(objs) \in Nat
    BY <1>1, TypeFacts
  <2> QED
    BY <1>4, <2>1 DEF SameOrders
<1>8. \A s \in Symbols, d \in Sides : \A i \in 1..Len(book'[s][d]) :
         /\ s # s0 \/ d # d0
         /\ i \in 1..Len(book[s][d]) /\ book'[s][d][i] = book[s][d][i]
  BY <1>5
<1>9. \A i \in 1..Len(l) : MayList(l[i], s0, d0)
  BY <1>3 DEF Known, Listed
<1>10. ASSUME NEW s \in Symbols, NEW d \in Sides, NEW i \in 1..Len(book'[s][d])
       PROVE  MayList(book[s][d][i], s, d)'
  <2>1. MayList(book'[s][d][i], s, d)
    BY <1>8, <1>10 DEF Known, Listed
  <2> QED
    BY <2>1, <1>4 DEF MayList
<1>11. ASSUME NEW u \in Threads, NEW i \in 1..Len(frame'[u].saved)
       PROVE  MayList(frame[u].saved[i], Mine(u).symbol, Mine(u).side)'
  <2>1. CASE u = t
    <3>1. MayList(l[i], s0, d0)
      BY <1>6, <1>9, <1>11, <2>1
    <3>2. Mine(u)' = Mine(u)
      BY <1>4, <1>6, <2>1 DEF Mine
    <3> QED
      BY <1>2, <1>4, <1>6, <2>1, <3>1, <3>2 DEF MayList
  <2>2. CASE u # t
    BY <1>6, <1>7, <1>11, <2>2, SavedKept
  <2> QED
    BY <2>1, <2>2
<1>12. ASSUME NEW s \in Symbols, NEW d \in Sides, NEW i \in 1..Len(book'[s][d]),
              NEW j \in 1..Len(book'[s][d]), book'[s][d][i] = book'[s][d][j]
       PROVE  i = j
  BY <1>8, <1>12 DEF Known, Listed
<1>13. ASSUME NEW u \in Threads, NEW v \in Threads, NEW i \in 1..Len(frame'[u].saved),
              NEW j \in 1..Len(frame'[v].saved), frame'[u].saved[i] = frame'[v].saved[j]
       PROVE  u = v /\ i = j
  <2>1. CASE u = t /\ v = t
    BY <1>3, <1>6, <1>13, <2>1 DEF Known, Listed
  <2>2. CASE u = t /\ v # t
    BY <1>3, <1>6, <1>13, <2>2 DEF Known, Listed
  <2>3. CASE u # t /\ v = t
    BY <1>3, <1>6, <1>13, <2>3 DEF Known, Listed
  <2>4. CASE u # t /\ v # t
    BY <1>6, <1>13, <2>4 DEF Known, Listed
  <2> QED
    BY <2>1, <2>2, <2>3, <2>4
<1>14. ASSUME NEW u \in Threads, NEW s \in Symbols, NEW d \in Sides,
              NEW i \in 1..Len(frame'[u].saved), NEW j \in 1..Len(book'[s][d])
       PROVE  frame'[u].saved[i] # book'[s][d][j]
  <2>1. /\ s # s0 \/ d # d0
        /\ j \in 1..Len(book[s][d]) /\ book'[s][d][j] = book[s][d][j]
    BY <1>8, <1>14
  <2>2. CASE u = t
    <3>1. MayList(l[i], s0, d0) /\ frame'[u].saved[i] = l[i]
      BY <1>6, <1>9, <1>14, <2>2
    <3>2. MayList(book[s][d][j], s, d)
      BY <2>1 DEF Known, Listed
    <3> QED
      BY <2>1, <3>1, <3>2 DEF MayList
  <2>3. CASE u # t
    BY <1>6, <1>14, <2>1, <2>3 DEF Known, Listed
  <2> QED
    BY <2>2, <2>3
<1> QED
  BY <1>10, <1>11, <1>12, <1>13, <1>14 DEF Listed

\* A list that gets back what was sorted.
LEMMA ListedSorted ==
    ASSUME Known, NEW t \in Threads, Ends(t), frame[t].pc = "sorting",
           Puts(Mine(t).symbol, Mine(t).side, Sequential!StableSort(frame[t].saved))
    PROVE  Listed'
<1>1. TypeOK /\ \A u \in Threads : HandlerKnows(u)
  BY DEF Known
<1>2. PICK o \in Orders, s0 \in Symbols, d0 \in Sides :
        o = frame[t].order /\ s0 = Mine(t).symbol /\ d0 = Mine(t).side /\ o # 0
  BY <1>1, HandlerLists
<1>3. PICK l, new : l = frame[t].saved /\ new = Sequential!StableSort(l)
  OBVIOUS
<1>4. PICK rank : rank = [k \in 1..Len(l) |-> Sequential!StableRank(l, k)]
  OBVIOUS
<1>5. /\ new \in Seq(Orders) /\ Len(new) = Len(l) /\ Len(l) \in Nat
      /\ \A k \in 1..Len(l) : rank[k] \in 1..Len(l) /\ new[k] = l[rank[k]]
      /\ \A j, k \in 1..Len(l) : rank[j] = rank[k] => j = k
  BY <1>3, <1>4, SavedSorts
<1>6. \A s \in Symbols, d \in Sides :
         book'[s][d] = IF s = s0 /\ d = d0 THEN new ELSE book[s][d]
  BY <1>1, <1>2, <1>3, <1>5, PutsFacts
<1>7. /\ frame'[t].saved = <<>> /\ objs' = objs
      /\ \A u \in Threads \ {t} : frame'[u] = frame[u]
  <2>1. Handles(t)
    BY DEF Handles
  <2> QED
    BY <1>1, <2>1, EndsFrame, OtherFrames DEF Waiting, Ends
<1>8. SameOrders
  <2>1. Len(objs) \in Nat
    BY <1>1, TypeFacts
  <2> QED
    BY <1>7, <2>1 DEF SameOrders
<1>9. \A i \in 1..Len(l) : MayList(l[i], s0, d0)
  BY <1>2, <1>3 DEF Known, Listed
<1>10. ASSUME NEW s \in Symbols, NEW d \in Sides, NEW i \in 1..Len(book'[s][d])
       PROVE  MayList(book[s][d][i], s, d)'
  <2>1. MayList(book'[s][d][i], s, d)
    <3>1. CASE s = s0 /\ d = d0
      BY <1>5, <1>6, <1>9, <1>10, <3>1
    <3>2. CASE ~(s = s0 /\ d = d0)
      BY <1>6, <1>10, <3>2 DEF Known, Listed
    <3> QED
      BY <3>1, <3>2
  <2> QED
    BY <2>1, <1>7 DEF MayList
<1>11. ASSUME NEW u \in Threads, NEW i \in 1..Len(frame'[u].saved)
       PROVE  MayList(frame[u].saved[i], Mine(u).symbol, Mine(u).side)'
  BY <1>7, <1>8, <1>11, SavedKept
<1>12. ASSUME NEW s \in Symbols, NEW d \in Sides, NEW i \in 1..Len(book'[s][d]),
              NEW j \in 1..Len(book'[s][d]), book'[s][d][i] = book'[s][d][j]
       PROVE  i = j
  <2>1. CASE s = s0 /\ d = d0
    <3>1. /\ i \in 1..Len(l) /\ j \in 1..Len(l) /\ l[rank[i]] = l[rank[j]]
          /\ rank[i] \in 1..Len(l) /\ rank[j] \in 1..Len(l)
      BY <1>5, <1>6, <1>12, <2>1
    <3>2. rank[i] = rank[j]
      BY <1>3, <3>1 DEF Known, Listed
    <3> QED
      BY <1>5, <3>1, <3>2
  <2>2. CASE ~(s = s0 /\ d = d0)
    BY <1>6, <1>12, <2>2 DEF Known, Listed
  <2> QED
    BY <2>1, <2>2
<1>13. ASSUME NEW u \in Threads, NEW v \in Threads, NEW i \in 1..Len(frame'[u].saved),
              NEW j \in 1..Len(frame'[v].saved), frame'[u].saved[i] = frame'[v].saved[j]
       PROVE  u = v /\ i = j
  <2>1. u # t /\ v # t
    BY <1>7, <1>13
  <2> QED
    BY <1>7, <1>13, <2>1, SMTT(30) DEF Known, Listed
<1>14. ASSUME NEW u \in Threads, NEW s \in Symbols, NEW d \in Sides,
              NEW i \in 1..Len(frame'[u].saved), NEW j \in 1..Len(book'[s][d])
       PROVE  frame'[u].saved[i] # book'[s][d][j]
  <2>1. u # t /\ frame'[u].saved = frame[u].saved
    BY <1>7, <1>14
  <2>2. CASE s = s0 /\ d = d0
    <3>1. j \in 1..Len(l) /\ rank[j] \in 1..Len(l) /\ book'[s][d][j] = l[rank[j]]
      BY <1>5, <1>6, <1>14, <2>2
    <3> QED
      BY <1>3, <1>14, <2>1, <3>1 DEF Known, Listed
  <2>3. CASE ~(s = s0 /\ d = d0)
    BY <1>6, <1>14, <2>1, <2>3 DEF Known, Listed
  <2> QED
    BY <2>2, <2>3
<1> QED
  BY <1>10, <1>11, <1>12, <1>13, <1>14 DEF Listed
\* The order and the sorted list of a handler that goes on.
LEMMA GoesOn ==
    ASSUME TypeOK, NEW t \in Threads, Handles(t), ~Ends(t)
    PROVE  /\ frame'[t].order = frame[t].order
           /\ ~Begins(t) => frame'[t].saved = frame[t].saved
           /\ UNCHANGED <<replies, failed>>
<1>1. UNCHANGED <<replies, failed>>
  BY DEF Handles, MovesOn, Takes, Sizes, Fills, Records, Rests, Begins, Untouched
<1>2. CASE MovesOn(t) \/ Takes(t) \/ Sizes(t) \/ Rests(t)
  <2>1. \E pc, best, qty : Walks(t, pc, best, qty)
    BY <1>2 DEF MovesOn, Takes, Sizes, Rests
  <2> QED
    BY <1>1, <2>1, WalksFacts
<1>3. CASE Fills(t)
  BY <1>1, <1>3, BecomesFacts DEF Fills
<1>4. CASE Begins(t)
  BY <1>1, <1>4, BecomesFacts DEF Begins
<1>5. CASE Records(t)
  BY <1>1, <1>5, RecordsFrame
<1> QED
  BY <1>2, <1>3, <1>4, <1>5 DEF Handles

LEMMA ShrinksByTail ==
    ASSUME TypeOK, NEW s0 \in Symbols, NEW d0 \in Sides, book[s0][d0] # <<>>,
           Puts(s0, d0, Tail(book[s0][d0]))
    PROVE  BookShrinks
<1>1. PICK l \in Seq(Orders) : l = book[s0][d0] /\ l # <<>>
  BY TypeFacts
<1>2. PICK new : new = Tail(l) /\ new \in Seq(Orders)
  BY <1>1, TailElements
<1>3. /\ Len(new) = Len(l) - 1
      /\ \A i \in 1..Len(new) : i + 1 \in 1..Len(l) /\ new[i] = l[i + 1]
  BY <1>1, <1>2, TailElements
<1>4. TypeOK /\ s0 \in Symbols /\ d0 \in Sides /\ new \in Seq(Orders) /\ Puts(s0, d0, new)
  BY <1>1, <1>2
<1>5. \A s \in Symbols, d \in Sides :
         book'[s][d] = IF s = s0 /\ d = d0 THEN new ELSE book[s][d]
  BY <1>4, PutsFacts
<1>6. ASSUME NEW s \in Symbols, NEW d \in Sides
      PROVE  \E k \in {0, 1} : \A i \in 1..Len(book'[s][d]) :
                i + k \in 1..Len(book[s][d]) /\ book'[s][d][i] = book[s][d][i + k]
  <2>1. CASE s = s0 /\ d = d0
    BY <1>1, <1>3, <1>5, <2>1
  <2>2. CASE ~(s = s0 /\ d = d0)
    <3>1. book'[s][d] = book[s][d]
      BY <1>5, <2>2
    <3>2. \A i \in 1..Len(book[s][d]) : i + 0 = i
      BY TypeFacts
    <3> QED
      BY <3>1, <3>2
  <2> QED
    BY <2>1, <2>2
<1> QED
  BY <1>6 DEF BookShrinks

LEMMA ShrinksByNothing ==
    ASSUME TypeOK, UNCHANGED book
    PROVE  BookShrinks
<1>1. \A s \in Symbols, d \in Sides : \A i \in 1..Len(book[s][d]) : i + 0 = i
  BY TypeFacts
<1> QED
  BY <1>1 DEF BookShrinks

LEMMA ListedKept ==
    ASSUME Known, \A u \in Threads : Fresh(u) => Unlisted(frame[u].order), Next
    PROVE  Listed'
<1>1. TypeOK /\ \A u \in Threads : HandlerKnows(u)
  BY DEF Known
<1>2. ASSUME NEW t \in Threads, NEW m \in Messages, Receive(t, m)
      PROVE  Listed'
  <2>1. /\ UNCHANGED book /\ objs' = Append(objs, Parsed(m, FALSE))
        /\ Parsed(m, FALSE) \in OrderObject
        /\ Becomes(t, [pc |-> "look", order |-> Len(objs) + 1, best |-> 0, qty |-> 0,
                       trades |-> <<>>, sum |-> [qty |-> 0, price |-> 0],
                       saved |-> <<>>])
    BY <1>1, <1>2, ReceiveFacts, ParsedFacts
  <2>2. SameOrders /\ BookShrinks
    BY <1>1, <2>1, ArrivalSame, ShrinksByNothing
  <2>3. frame'[t].saved = <<>> /\ \A u \in Threads \ {t} : frame'[u] = frame[u]
    BY <1>1, <2>1, BecomesFacts
  <2> QED
    BY <2>2, <2>3, ListedShrinks
<1>3. ASSUME NEW t \in Threads, NEW m \in Messages, Refuse(t, m)
      PROVE  Listed'
  <2>1. /\ UNCHANGED <<book, frame>> /\ objs' = Append(objs, Parsed(m, TRUE))
        /\ Parsed(m, TRUE) \in OrderObject
    BY <1>1, <1>3, RefuseFacts, ParsedFacts
  <2>2. SameOrders /\ BookShrinks
    BY <1>1, <2>1, ArrivalSame, ShrinksByNothing
  <2> QED
    BY <2>1, <2>2, ListedShrinks
<1>4. ASSUME NEW t \in Threads, Work(t)
      PROVE  Listed'
  <2>1. frame[t].pc # "recv" /\ Handles(t)
    BY <1>4, WorkShapes
  <2>2. SameOrders
    BY <1>1, <2>1, HandlesSame
  <2>3. \A u \in Threads \ {t} : frame'[u] = frame[u]
    BY <1>1, <2>1, OtherFrames
  <2>4. CASE BookShrinks /\ ~Begins(t)
    <3>1. \/ frame'[t].saved = <<>>
          \/ frame'[t].saved = frame[t].saved /\ frame'[t].order = frame[t].order
      BY <1>1, <2>1, <2>4, GoesOn, EndsFrame DEF Waiting
    <3> QED
      BY <2>2, <2>3, <2>4, <3>1, ListedShrinks
  <2>5. CASE Rests(t)
    <3>1. Unlisted(frame[t].order)
      BY <1>1, <2>1, <2>5, HandlerLists DEF Rests, Fresh
    <3> QED
      BY <1>1, <2>1, <2>5, <3>1, ListedRests
  <2>6. CASE Begins(t)
    BY <2>6, ListedBegins
  <2>7. CASE MovesOn(t)
    <3>1. PICK s \in Symbols, d \in Sides :
            s = Mine(t).symbol /\ d = Sequential!Opposite(Mine(t).side)
      BY <1>1, <2>1, HandlerLists
    <3>2. Makers(t) = book[s][d]
      BY <3>1 DEF Makers
    <3>3. BookShrinks
      BY <1>1, <2>7, <3>1, <3>2, ShrinksByTail, ShrinksByNothing DEF MovesOn
    <3>4. ~Begins(t)
      BY <2>7 DEF MovesOn, Begins
    <3> QED
      BY <2>4, <3>3, <3>4
  <2>8. CASE Takes(t) \/ Sizes(t) \/ Fills(t) \/ Records(t)
    <3>1. UNCHANGED book /\ ~Begins(t)
      BY <2>8 DEF Takes, Sizes, Fills, Records, Begins
    <3> QED
      BY <1>1, <2>4, <3>1, ShrinksByNothing
  <2>9. CASE Ends(t)
    <3>1. CASE UNCHANGED book
      <4>1. BookShrinks
        BY <1>1, <3>1, ShrinksByNothing
      <4>2. \/ frame'[t].saved = <<>>
            \/ frame'[t].saved = frame[t].saved /\ frame'[t].order = frame[t].order
        BY <1>1, <2>9, EndsFrame DEF Waiting
      <4> QED
        BY <2>2, <2>3, <4>1, <4>2, ListedShrinks
    <3>2. CASE /\ frame[t].pc = "sorting"
               /\ Puts(Mine(t).symbol, Mine(t).side, Sequential!StableSort(frame[t].saved))
      BY <2>9, <3>2, ListedSorted
    <3> QED
      BY <2>9, <3>1, <3>2 DEF Ends
  <2> QED
    BY <2>1, <2>5, <2>6, <2>7, <2>8, <2>9 DEF Handles
<1> QED
  BY <1>2, <1>3, <1>4 DEF Next

-----------------------------------------------------------------------------
(* What is known to its handler only.                                      *)

\* A handler takes the head of a list; what others hold is what they held.
LEMMA UnlistedKept ==
    ASSUME Known, Next, NEW n \in Orders, Unlisted(n),
           \A t \in Threads : Rests(t) => frame[t].order # n
    PROVE  Unlisted(n)'
<1>1. TypeOK /\ (\A u \in Threads : HandlerKnows(u)) /\ n # 0
  BY DEF Known, Orders
<1>2. ASSUME BookShrinks,
             \A u \in Threads : frame'[u].saved = frame[u].saved \/ frame'[u].saved = <<>>,
             \A u \in Threads : frame'[u].best # n
      PROVE  Unlisted(n)'
  <2>1. ASSUME NEW s \in Symbols, NEW d \in Sides, NEW i \in 1..Len(book'[s][d])
        PROVE  book'[s][d][i] # n
    <3>1. PICK k \in {0, 1} : i + k \in 1..Len(book[s][d])
                              /\ book'[s][d][i] = book[s][d][i + k]
      BY <1>2, <2>1 DEF BookShrinks
    <3> QED
      BY <3>1 DEF Unlisted
  <2>2. ASSUME NEW u \in Threads, NEW i \in 1..Len(frame'[u].saved)
        PROVE  frame'[u].saved[i] # n
    <3>1. frame'[u].saved = frame[u].saved
      BY <1>2, <2>2
    <3> QED
      BY <2>2, <3>1 DEF Unlisted
  <2> QED
    BY <1>2, <2>1, <2>2 DEF Unlisted
<1>3. ASSUME NEW t \in Threads, NEW m \in Messages, Receive(t, m)
      PROVE  Unlisted(n)'
  <2>1. /\ UNCHANGED book
        /\ Becomes(t, [pc |-> "look", order |-> Len(objs) + 1, best |-> 0, qty |-> 0,
                       trades |-> <<>>, sum |-> [qty |-> 0, price |-> 0],
                       saved |-> <<>>])
    BY <1>1, <1>3, ReceiveFacts
  <2>2. /\ frame'[t].saved = <<>> /\ frame'[t].best = 0
        /\ \A u \in Threads \ {t} : frame'[u] = frame[u]
    BY <1>1, <2>1, BecomesFacts
  <2> QED
    BY <1>1, <1>2, <2>1, <2>2, ShrinksByNothing DEF Unlisted
<1>4. ASSUME NEW t \in Threads, NEW m \in Messages, Refuse(t, m)
      PROVE  Unlisted(n)'
  BY <1>1, <1>2, <1>4, RefuseFacts, ShrinksByNothing DEF Unlisted
<1>5. ASSUME NEW t \in Threads, Work(t)
      PROVE  Unlisted(n)'
  <2>1. frame[t].pc # "recv" /\ Handles(t)
    BY <1>5, WorkShapes
  <2>2. \A u \in Threads \ {t} : frame'[u] = frame[u]
    BY <1>1, <2>1, OtherFrames
  <2>3. PICK o \in Orders, s0 \in Symbols, d0 \in Sides, e0 \in Sides :
          /\ o = frame[t].order /\ s0 = Mine(t).symbol /\ d0 = Mine(t).side
          /\ e0 = Sequential!Opposite(Mine(t).side)
    BY <1>1, <2>1, HandlerLists
  <2>4. Makers(t) = book[s0][e0] /\ Own(t) = book[s0][d0]
    BY <2>3 DEF Makers, Own
  <2>5. CASE Ends(t)
    <3>1. frame'[t].saved = <<>> /\ frame'[t].best = 0
      BY <1>1, <2>5, EndsFrame DEF Waiting
    <3>2. CASE UNCHANGED book
      BY <1>1, <1>2, <2>2, <3>1, <3>2, ShrinksByNothing DEF Unlisted
    <3>3. CASE /\ frame[t].pc = "sorting"
               /\ Puts(Mine(t).symbol, Mine(t).side, Sequential!StableSort(frame[t].saved))
      <4>1. PICK l, new : l = frame[t].saved /\ new = Sequential!StableSort(l)
        OBVIOUS
      <4>2. PICK rank : rank = [k \in 1..Len(l) |-> Sequential!StableRank(l, k)]
        OBVIOUS
      <4>3. /\ new \in Seq(Orders) /\ Len(new) = Len(l)
            /\ \A k \in 1..Len(l) : rank[k] \in 1..Len(l) /\ new[k] = l[rank[k]]
        BY <3>3, <4>1, <4>2, SavedSorts
      <4>4. /\ TypeOK /\ s0 \in Symbols /\ d0 \in Sides /\ new \in Seq(Orders)
            /\ Puts(s0, d0, new)
        BY <1>1, <2>3, <3>3, <4>1, <4>3
      <4>5. \A s \in Symbols, d \in Sides :
               book'[s][d] = IF s = s0 /\ d = d0 THEN new ELSE book[s][d]
        BY <4>4, PutsFacts
      <4>6. \A i \in 1..Len(new) : new[i] # n
        BY <4>1, <4>3 DEF Unlisted
      <4> QED
        BY <1>1, <2>2, <3>1, <4>5, <4>6 DEF Unlisted
    <3> QED
      BY <2>5, <3>2, <3>3 DEF Ends
  <2>6. CASE Begins(t)
    <3>0. PICK new : new = <<>> /\ new \in Seq(Orders)
      <4>1. <<>> \in Seq(Orders)
        OBVIOUS
      <4> QED
        BY <4>1
    <3>1. /\ TypeOK /\ s0 \in Symbols /\ d0 \in Sides /\ new \in Seq(Orders)
          /\ Puts(s0, d0, new)
      BY <1>1, <2>3, <2>6, <3>0 DEF Begins
    <3>2. \A s \in Symbols, d \in Sides :
             book'[s][d] = IF s = s0 /\ d = d0 THEN new ELSE book[s][d]
      BY <3>1, PutsFacts
    <3>3. frame'[t].saved = book[s0][d0] /\ frame'[t].best = frame[t].best
      BY <1>1, <2>4, <2>6, BecomesFacts DEF Begins
    <3>4. ASSUME NEW s \in Symbols, NEW d \in Sides, NEW i \in 1..Len(book'[s][d])
          PROVE  book'[s][d][i] # n
      BY <3>0, <3>2, <3>4 DEF Unlisted
    <3>5. ASSUME NEW u \in Threads, NEW i \in 1..Len(frame'[u].saved)
          PROVE  frame'[u].saved[i] # n
      BY <2>2, <3>3, <3>5 DEF Unlisted
    <3>6. \A u \in Threads : frame'[u].best # n
      BY <2>2, <3>3 DEF Unlisted
    <3> QED
      BY <3>4, <3>5, <3>6 DEF Unlisted
  <2>7. CASE Rests(t)
    <3>1. PICK l \in Seq(Orders) : l = book[s0][d0]
      BY <1>1, TypeFacts
    <3>2. PICK new : new = Append(l, o) /\ new \in Seq(Orders)
      BY AppendElements
    <3>3. \A i \in 1..Len(new) : (i \in 1..Len(l) /\ new[i] = l[i]) \/ new[i] = o
      BY <3>2, AppendElements
    <3>4. /\ TypeOK /\ s0 \in Symbols /\ d0 \in Sides /\ new \in Seq(Orders)
          /\ Puts(s0, d0, new)
      BY <1>1, <2>3, <2>4, <2>7, <3>1, <3>2 DEF Rests
    <3>5. \A s \in Symbols, d \in Sides :
             book'[s][d] = IF s = s0 /\ d = d0 THEN new ELSE book[s][d]
      BY <3>4, PutsFacts
    <3>6. frame'[t].saved = frame[t].saved /\ frame'[t].best = frame[t].best
      BY <1>1, <2>7, WalksFacts DEF Rests
    <3>7. o # n
      BY <2>3, <2>7
    <3>8. ASSUME NEW s \in Symbols, NEW d \in Sides, NEW i \in 1..Len(book'[s][d])
          PROVE  book'[s][d][i] # n
      BY <3>1, <3>3, <3>5, <3>7, <3>8 DEF Unlisted
    <3>9. ASSUME NEW u \in Threads
          PROVE  frame'[u].saved = frame[u].saved /\ frame'[u].best = frame[u].best
      BY <2>2, <3>6
    <3> QED
      BY <3>8, <3>9 DEF Unlisted
  <2>8. CASE /\ MovesOn(t) \/ Takes(t) \/ Sizes(t) \/ Fills(t) \/ Records(t)
             /\ ~Ends(t)
    <3>1. frame'[t].saved = frame[t].saved
      <4>1. ~Ends(t) /\ ~Begins(t)
        BY <2>8 DEF MovesOn, Takes, Sizes, Fills, Records, Begins
      <4> QED
        BY <1>1, <2>1, <4>1, GoesOn
    <3>2. BookShrinks
      BY <1>1, <2>3, <2>4, <2>8, ShrinksByTail, ShrinksByNothing
      DEF MovesOn, Takes, Sizes, Fills, Records
    <3>3. frame'[t].best # n
      <4>1. CASE Takes(t)
        <5>1. Makers(t) # <<>> /\ frame'[t].best = Head(Makers(t))
          BY <1>1, <4>1, WalksFacts DEF Takes
        <5>2. Makers(t) \in Seq(Orders)
          BY <1>1, <2>1, HandlerLists
        <5>3. 1 \in 1..Len(Makers(t)) /\ Head(Makers(t)) = Makers(t)[1]
          BY <5>1, <5>2, TailElements
        <5> QED
          BY <2>3, <2>4, <5>1, <5>3 DEF Unlisted
      <4>2. CASE ~Takes(t)
        <5>1. frame'[t].best = frame[t].best
          <6>1. CASE MovesOn(t) \/ Sizes(t)
            <7>1. \E pc, qty : Walks(t, pc, frame[t].best, qty)
              BY <6>1 DEF MovesOn, Sizes
            <7> QED
              BY <1>1, <7>1, WalksFacts
          <6>2. CASE Fills(t)
            BY <1>1, <6>2, BecomesFacts DEF Fills
          <6>3. CASE Records(t)
            BY <1>1, <6>3, RecordsFrame
          <6> QED
            BY <2>8, <4>2, <6>1, <6>2, <6>3
        <5> QED
          BY <5>1 DEF Unlisted
      <4> QED
        BY <4>1, <4>2
    <3> QED
      BY <1>2, <2>2, <3>1, <3>2, <3>3 DEF Unlisted
  <2> QED
    BY <2>1, <2>5, <2>6, <2>7, <2>8 DEF Handles
<1> QED
  BY <1>3, <1>4, <1>5 DEF Next

\* No two handlers have the same order.
LEMMA OneHandler ==
    ASSUME \A n \in Orders : Outcome(n), NEW t \in Threads, NEW u \in Threads, u # t,
           frame[t].order \in Orders
    PROVE  frame[u].order # frame[t].order
<1>1. PICK n \in Orders : n = frame[t].order
  OBVIOUS
<1>2. t \in Users(n)
  BY <1>1 DEF Users
<1>3. Users(n) = {t}
  BY <1>2, OutcomeForms
<1> QED
  BY <1>1, <1>3 DEF Users

LEMMA FreshKept ==
    ASSUME Known, \A n \in Orders : Outcome(n),
           \A u \in Threads : Fresh(u) => Unlisted(frame[u].order), Next
    PROVE  \A u \in Threads : (Fresh(u) => Unlisted(frame[u].order))'
<1>1. TypeOK /\ \A u \in Threads : HandlerKnows(u)
  BY DEF Known
<1>2. Len(objs) \in Nat
  BY <1>1, TypeFacts
<1>3. ASSUME NEW u \in Threads, frame'[u] = frame[u], Fresh(u)',
             \A x \in Threads : Rests(x) => frame[x].order # frame[u].order
      PROVE  Unlisted(frame[u].order)'
  <2>1. PICK n \in Orders : n = frame[u].order
    BY <1>1, <1>3, FrameFacts DEF Fresh
  <2>2. Unlisted(n)
    BY <1>3, <2>1 DEF Fresh
  <2>3. \A x \in Threads : Rests(x) => frame[x].order # n
    BY <1>3, <2>1
  <2>4. Unlisted(n)'
    BY <2>2, <2>3, UnlistedKept
  <2> QED
    BY <1>3, <2>1, <2>4 DEF Unlisted
<1>4. ASSUME NEW t \in Threads, NEW m \in Messages, Receive(t, m) \/ Refuse(t, m)
      PROVE  \A u \in Threads : (Fresh(u) => Unlisted(frame[u].order))'
  <2>1. PICK x \in OrderObject : objs' = Append(objs, x)
    BY <1>1, <1>4, ReceiveFacts, RefuseFacts, ParsedFacts
  <2>2. objs' # objs
    BY <1>1, <1>2, <2>1, ArrivalFacts
  <2>3. \A y \in Threads : ~Rests(y)
    BY <2>2 DEF Rests, Untouched
  <2>4. CASE Refuse(t, m)
    BY <1>1, <1>3, <2>3, <2>4, RefuseFacts
  <2>5. CASE Receive(t, m)
    <3>1. /\ UNCHANGED book
          /\ Becomes(t, [pc |-> "look", order |-> Len(objs) + 1, best |-> 0, qty |-> 0,
                         trades |-> <<>>, sum |-> [qty |-> 0, price |-> 0],
                         saved |-> <<>>])
      BY <1>1, <2>5, ReceiveFacts
    <3>2. /\ frame'[t].saved = <<>> /\ frame'[t].best = 0
          /\ frame'[t].order = Len(objs) + 1
          /\ \A u \in Threads \ {t} : frame'[u] = frame[u]
      BY <1>1, <3>1, BecomesFacts
    <3>3. PICK n : n = Len(objs) + 1 /\ n \notin Orders /\ n # 0
      BY <1>2 DEF Orders
    <3>4. \A s \in Symbols, d \in Sides : \A i \in 1..Len(book'[s][d]) : book'[s][d][i] # n
      BY <1>1, <3>1, <3>3, ListElements
    <3>5. ASSUME NEW u \in Threads, NEW i \in 1..Len(frame'[u].saved)
          PROVE  frame'[u].saved[i] # n
      BY <1>1, <3>2, <3>3, <3>5, ListElements
    <3>6. \A u \in Threads : frame'[u].best # n
      BY <1>1, <3>2, <3>3, FrameFacts
    <3>7. Unlisted(n)'
      BY <3>4, <3>5, <3>6 DEF Unlisted
    <3>8. Unlisted(frame[t].order)'
      BY <3>2, <3>3, <3>7 DEF Unlisted
    <3>9. ASSUME NEW u \in Threads, u # t, Fresh(u)'
          PROVE  Unlisted(frame[u].order)'
      BY <1>3, <2>3, <3>2, <3>9
    <3> QED
      BY <3>8, <3>9
  <2> QED
    BY <1>4, <2>4, <2>5
<1>5. ASSUME NEW t \in Threads, Work(t), NEW u \in Threads, Fresh(u)'
      PROVE  Unlisted(frame[u].order)'
  <2>1. frame[t].pc # "recv" /\ Handles(t)
    BY <1>5, WorkShapes
  <2>2. \A v \in Threads \ {t} : frame'[v] = frame[v]
    BY <1>1, <2>1, OtherFrames
  <2>3. \A x \in Threads : Rests(x) => x = t
    <3> SUFFICES ASSUME NEW x \in Threads, Rests(x), x # t
                 PROVE  FALSE
      OBVIOUS
    <3>1. frame[x].pc = "record" /\ frame'[x].pc = "sort"
      BY <1>1, WalksFacts DEF Rests
    <3> QED
      BY <2>2, <3>1
  <2>4. frame[t].order \in Orders
    BY <1>1, <2>1, HandlerLists
  <2>5. CASE u # t
    <3>1. frame[u].order # frame[t].order
      BY <2>4, <2>5, OneHandler
    <3> QED
      BY <1>3, <1>5, <2>2, <2>3, <2>5, <3>1
  <2>6. CASE u = t
    <3>1. ~Ends(t)
      BY <1>1, <1>5, <2>6, EndsFrame DEF Fresh, Waiting
    <3>2. ~Rests(t)
      BY <1>1, <1>5, <2>6, WalksFacts DEF Fresh, Rests
    <3>3. ~Begins(t)
      <4>1. Begins(t) => frame'[t].pc = "sorting"
        BY <1>1, BecomesFacts DEF Begins
      <4> QED
        BY <1>5, <2>6, <4>1 DEF Fresh
    <3>4. frame'[t].order = frame[t].order
      BY <1>1, <2>1, <3>1, GoesOn
    <3>5. frame[t].pc \notin {"sort", "sorting"}
      BY <2>1, <3>1, <3>2, <3>3 DEF Handles, MovesOn, Takes, Sizes, Fills, Records
    <3>6. PICK n \in Orders : n = frame[t].order
      BY <2>4
    <3>7. n # 0 /\ Unlisted(n)
      BY <3>5, <3>6 DEF Fresh, Orders
    <3>8. \A x \in Threads : ~Rests(x)
      BY <2>3, <3>2
    <3>9. Unlisted(n)'
      BY <3>7, <3>8, UnlistedKept
    <3> QED
      BY <2>6, <3>4, <3>6, <3>9 DEF Unlisted
  <2> QED
    BY <2>5, <2>6
<1> QED
  BY <1>4, <1>5 DEF Next

-----------------------------------------------------------------------------
(* What trades add up to.                                                  *)

\* The sums of Matching are those of SumLemmas.
LEMMA SameSum == ASSUME NEW f PROVE Sequential!SumFunction(f) = SumFunction(f)
BY DEF Sequential!SumFunction, SumFunction, Sequential!SumFunctionOnSet,
       SumFunctionOnSet, Sequential!FoldFunctionOnSet, FoldFunctionOnSet,
       Sequential!MapThenFoldSet, MapThenFoldSet

Traded(trades, n) == Sequential!QtyTraded(trades, n)

\* What a trade has of order n.
Share(trade, n) == IF n \in {trade.buy, trade.sell} THEN trade.qty ELSE 0

Shares(trades, n) == [i \in 1..Len(trades) |-> Share(trades[i], n)]

LEMMA TradedSums ==
    ASSUME NEW s \in Seq(Sequential!TradeRecord), NEW n
    PROVE  /\ Len(s) \in Nat /\ Shares(s, n) \in [1..Len(s) -> Int]
           /\ Traded(s, n) = SumFunction(Shares(s, n))
<1>1. Len(s) \in Nat /\ DOMAIN s = 1..Len(s)
      /\ \A i \in 1..Len(s) : s[i] \in Sequential!TradeRecord
  BY LenProperties, ElementOfSeq
<1>2. \A i \in 1..Len(s) : s[i].qty \in Int
  BY <1>1 DEF Sequential!TradeRecord
<1>3. Shares(s, n) \in [1..Len(s) -> Int]
  BY <1>2 DEF Shares, Share
<1>4. Traded(s, n) = SumFunction(Shares(s, n))
  BY <1>1, SameSum, Zenon DEF Traded, Sequential!QtyTraded, Shares, Share
<1> QED
  BY <1>1, <1>3, <1>4

LEMMA TradedNone ==
    ASSUME NEW n
    PROVE  Traded(<<>>, n) = 0
<1>1. <<>> \in Seq(Sequential!TradeRecord) /\ Len(<<>>) = 0
  OBVIOUS
<1>2. PICK f : f = Shares(<<>>, n)
  OBVIOUS
<1>3. DOMAIN f = {}
  BY <1>1, <1>2 DEF Shares
<1> QED
  BY <1>1, <1>2, <1>3, TradedSums, SumOfNone

LEMMA TradedAppend ==
    ASSUME NEW s \in Seq(Sequential!TradeRecord), NEW x \in Sequential!TradeRecord, NEW n
    PROVE  /\ Traded(s, n) \in Int /\ Share(x, n) \in Int
           /\ Traded(Append(s, x), n) = Traded(s, n) + Share(x, n)
<1>1. PICK R : R = Sequential!TradeRecord
  OBVIOUS
<1>2. s \in Seq(R) /\ x \in R
  BY <1>1
<1>3. PICK u : u = Append(s, x) /\ u \in Seq(R)
  BY <1>2, AppendElements
<1>4. PICK k : k = Len(s)
  OBVIOUS
<1>5. /\ k \in Nat /\ Len(u) = k + 1
      /\ \A i \in 1..k : u[i] = s[i]
      /\ u[k + 1] = x
  BY <1>2, <1>3, <1>4, AppendElements
<1>6. PICK f, g : f = Shares(s, n) /\ g = Shares(u, n)
  OBVIOUS
<1>7. /\ f \in [1..k -> Int] /\ g \in [1..(k + 1) -> Int]
      /\ Traded(s, n) = SumFunction(f) /\ Traded(u, n) = SumFunction(g)
  BY <1>1, <1>3, <1>4, <1>5, <1>6, TradedSums
<1>8. (\A i \in 1..k : g[i] = f[i]) /\ g[k + 1] = Share(x, n)
  BY <1>4, <1>5, <1>6 DEF Shares
<1>9. SumFunction(f) \in Int /\ SumFunction(g) = SumFunction(f) + g[k + 1]
  BY <1>5, <1>7, <1>8, SumAppend
<1>10. g[k + 1] \in Int
  BY <1>5, <1>7
<1> QED
  BY <1>3, <1>7, <1>8, <1>9, <1>10

LEMMA TradedTail ==
    ASSUME NEW s \in Seq(Sequential!TradeRecord), s # <<>>, NEW n
    PROVE  /\ Traded(Tail(s), n) \in Int /\ Share(Head(s), n) \in Int
           /\ Traded(s, n) = Share(Head(s), n) + Traded(Tail(s), n)
<1>1. PICK R : R = Sequential!TradeRecord
  OBVIOUS
<1>2. s \in Seq(R) /\ s # <<>>
  BY <1>1
<1>3. PICK u : u = Tail(s) /\ u \in Seq(R)
  BY <1>2, TailElements
<1>4. PICK k : k = Len(u)
  OBVIOUS
<1>5. /\ k \in Nat /\ Len(s) = k + 1 /\ Head(s) = s[1]
      /\ \A i \in 1..k : u[i] = s[i + 1]
  <2>1. Len(u) = Len(s) - 1 /\ Len(s) \in Nat /\ Len(s) > 0 /\ Head(s) = s[1]
        /\ \A i \in 1..Len(u) : u[i] = s[i + 1]
    BY <1>2, <1>3, TailElements
  <2> QED
    BY <1>4, <2>1
<1>6. PICK f, g : f = Shares(s, n) /\ g = Shares(u, n)
  OBVIOUS
<1>7. /\ g \in [1..k -> Int] /\ f \in [1..(k + 1) -> Int]
      /\ Traded(s, n) = SumFunction(f) /\ Traded(u, n) = SumFunction(g)
  BY <1>1, <1>3, <1>4, <1>5, <1>6, TradedSums
<1>8. (\A i \in 1..k : g[i] = f[i + 1]) /\ f[1] = Share(Head(s), n)
  BY <1>4, <1>5, <1>6 DEF Shares
<1>9. SumFunction(f) = f[1] + SumFunction(g)
  BY <1>5, <1>7, <1>8, SumShift
<1>10. f[1] \in Int /\ SumFunction(g) \in Int
  <2>1. PICK h : h = [i \in 1..(k + 1) |-> IF i = k + 1 THEN 0 ELSE g[i]]
    OBVIOUS
  <2>2. h \in [1..(k + 1) -> Int] /\ \A i \in 1..k : h[i] = g[i]
    BY <1>5, <1>7, <2>1
  <2>3. SumFunction(g) \in Int
    BY <1>5, <1>7, <2>2, SumAppend
  <2> QED
    BY <1>5, <1>7, <2>3
<1> QED
  BY <1>3, <1>7, <1>8, <1>9, <1>10

-----------------------------------------------------------------------------
(* What a handler reports.                                                 *)

\* The part of the invariant that says where orders are.
Placed ==
    /\ Known
    /\ TradesName
    /\ RepliesName
    /\ \A n \in Orders : Outcome(n)
    /\ \A t \in Threads : Fresh(t) => Unlisted(frame[t].order)

LEMMA PlacedKept ==
    ASSUME Placed, Next
    PROVE  Placed'
<1>1. Known'
  BY TypeKept, HandlersKept, ListedKept DEF Placed, Known
<1>2. TradesName' /\ RepliesName' /\ \A n \in Orders' : Outcome(n)'
  BY TradesNameKept, OutcomesKept DEF Placed
<1>3. \A t \in Threads : (Fresh(t) => Unlisted(frame[t].order))'
  BY FreshKept DEF Placed
<1> QED
  BY <1>1, <1>2, <1>3 DEF Placed

\* What a handler does not know to be its own, it leaves to others.
LEMMA FillsOwn ==
    ASSUME Placed, NEW t \in Threads, Fills(t)
    PROVE  /\ frame[t].order \in Orders /\ frame[t].best \in Orders
           /\ frame[t].order # 0 /\ frame[t].best # 0 /\ frame[t].best # frame[t].order
           /\ \A u \in Threads : u # t /\ Fresh(u) =>
                 frame[u].order # frame[t].order /\ frame[u].order # frame[t].best
<1>1. frame[t].pc = "fill" /\ TypeOK /\ HandlerKnows(t)
  BY DEF Fills, Placed, Known
<1>2. /\ frame[t].order # 0 /\ frame[t].best # 0 /\ frame[t].best # frame[t].order
      /\ frame[t].order \in Orders /\ frame[t].best \in Orders
  BY <1>1, FillKnows
<1>3. ASSUME NEW u \in Threads, u # t, Fresh(u)
      PROVE  frame[u].order # frame[t].order /\ frame[u].order # frame[t].best
  BY <1>2, <1>3, OneHandler DEF Placed, Unlisted
<1> QED
  BY <1>2, <1>3

Sized(t) == frame[t].pc = "fill" => frame[t].qty <= Mine(t).qty - Mine(t).filled

OwnExact(t) ==
    Fresh(t) => /\ Mine(t).filled <= Mine(t).qty
                /\ Mine(t).filled = frame[t].sum.qty + Traded(frame[t].trades, frame[t].order)

LEMMA OwnForms ==
    /\ SizedRight <=> \A t \in Threads : Sized(t)
    /\ OwnFillsExact <=> \A t \in Threads : OwnExact(t)
BY DEF SizedRight, Sized, OwnFillsExact, OwnExact, Fresh, Traded

\* A handler whose frame and order stay as they are.
LEMMA OwnSame ==
    ASSUME TypeOK, NEW u \in Threads, HandlerKnows(u), Sized(u), OwnExact(u),
           frame'[u] = frame[u], SameOrders,
           Fresh(u) => objs'[frame[u].order].filled = objs[frame[u].order].filled
    PROVE  Sized(u)' /\ OwnExact(u)'
<1>1. CASE frame[u].pc = "recv"
  BY <1>1 DEF HandlerKnows, Sized, OwnExact, Fresh
<1>2. CASE frame[u].pc # "recv"
  <2>1. PICK o \in Orders : o = frame[u].order /\ o # 0
    BY <1>2, HandlerLists
  <2>2. objs'[o].qty = objs[o].qty
    BY <2>1 DEF SameOrders
  <2>3. frame[u].pc = "fill" => Fresh(u)
    BY <2>1 DEF Fresh
  <2>4. Sized(u)'
    BY <2>1, <2>2, <2>3 DEF Sized, Mine
  <2>5. OwnExact(u)'
    BY <2>1, <2>2 DEF OwnExact, Mine, Fresh
  <2> QED
    BY <2>4, <2>5
<1> QED
  BY <1>1, <1>2

LEMMA OwnKept ==
    ASSUME Placed, SizedRight, OwnFillsExact, Next
    PROVE  SizedRight' /\ OwnFillsExact'
<1>1. TypeOK /\ (\A u \in Threads : HandlerKnows(u)) /\ Known
  BY DEF Placed, Known
<1>2. \A u \in Threads : Sized(u) /\ OwnExact(u)
  BY OwnForms
<1>3. SUFFICES \A u \in Threads : Sized(u)' /\ OwnExact(u)'
  BY DEF SizedRight, Sized, OwnFillsExact, OwnExact, Fresh, Traded
<1>4. ASSUME NEW t \in Threads, NEW m \in Messages, Receive(t, m) \/ Refuse(t, m),
             NEW u \in Threads
      PROVE  Sized(u)' /\ OwnExact(u)'
  <2>1. PICK x \in OrderObject : objs' = Append(objs, x) /\ x.filled = 0
                                 /\ (Receive(t, m) => x.qty > 0)
    BY <1>1, <1>4, ReceiveFacts, RefuseFacts, ParsedFacts
  <2>2. /\ SameOrders /\ \A n \in Orders : objs'[n] = objs[n]
        /\ objs'[Len(objs) + 1] = x
    BY <1>1, <2>1, ArrivalSame, ArrivalFacts
  <2>3. Fresh(u) => objs'[frame[u].order].filled = objs[frame[u].order].filled
    BY <1>1, <2>2, FrameFacts DEF Fresh
  <2>4. CASE frame'[u] = frame[u]
    BY <1>1, <1>2, <2>2, <2>3, <2>4, OwnSame
  <2>5. CASE frame'[u] # frame[u]
    <3>1. Receive(t, m)
      BY <1>1, <1>4, <2>5, RefuseFacts
    <3>2. Becomes(t, [pc |-> "look", order |-> Len(objs) + 1, best |-> 0, qty |-> 0,
                      trades |-> <<>>, sum |-> [qty |-> 0, price |-> 0],
                      saved |-> <<>>])
      BY <1>1, <3>1, ReceiveFacts
    <3>3. u = t /\ frame'[t].pc = "look" /\ frame'[t].order = Len(objs) + 1
          /\ frame'[t].trades = <<>> /\ frame'[t].sum.qty = 0
      BY <1>1, <2>5, <3>2, BecomesFacts
    <3>4. x.qty \in Int /\ x.qty > 0
      BY <2>1, <3>1 DEF OrderObject
    <3>5. Sized(u)'
      BY <3>3 DEF Sized
    <3>6. Mine(t)' = x
      BY <2>2, <3>3 DEF Mine
    <3>7. PICK n : n = Len(objs) + 1
      OBVIOUS
    <3>8. Traded(frame'[t].trades, frame'[t].order) = 0
      BY <3>3, <3>7, TradedNone
    <3>9. OwnExact(u)'
      BY <2>1, <3>3, <3>4, <3>6, <3>8 DEF OwnExact
    <3> QED
      BY <3>5, <3>9
  <2> QED
    BY <2>4, <2>5
<1>5. ASSUME NEW t \in Threads, Work(t), NEW u \in Threads
      PROVE  Sized(u)' /\ OwnExact(u)'
  <2>1. frame[t].pc # "recv" /\ Handles(t)
    BY <1>1, <1>5, WorkShapes
  <2>2. SameOrders /\ \A v \in Threads \ {t} : frame'[v] = frame[v]
    BY <1>1, <2>1, HandlesSame, OtherFrames
  <2>3. ~Fills(t) => objs' = objs
    BY <2>1 DEF Handles, MovesOn, Takes, Sizes, Records, Rests, Begins, Ends, Untouched
  <2>4. CASE u # t
    <3>1. ASSUME Fresh(u)
          PROVE  objs'[frame[u].order].filled = objs[frame[u].order].filled
      <4>1. CASE Fills(t)
        <5>1. PICK n \in Orders : n = frame[u].order
          BY <1>1, <3>1, FrameFacts DEF Fresh
        <5>2. n \notin {frame[t].order, frame[t].best}
          BY <2>4, <3>1, <4>1, <5>1, FillsOwn
        <5> QED
          BY <4>1, <5>1, <5>2 DEF Fills
      <4> QED
        BY <2>3, <4>1
    <3> QED
      BY <1>1, <1>2, <2>2, <2>4, <3>1, OwnSame
  <2>5. CASE u = t
    <3>1. PICK o \in Orders : o = frame[t].order /\ o # 0
      BY <1>1, <2>1, HandlerLists
    <3>2. objs[o].filled \in Int /\ objs[o].qty \in Int /\ objs'[o].qty = objs[o].qty
      BY <1>1, <2>2, OrderFacts DEF SameOrders
    <3>3. PICK trades \in Seq(Sequential!TradeRecord), sum \in Int, q \in Int :
            trades = frame[t].trades /\ sum = frame[t].sum.qty /\ q = frame[t].qty
      BY <1>1, FrameFacts
    <3>4. /\ frame[t].pc \notin {"sort", "sorting"} =>
                /\ objs[o].filled <= objs[o].qty
                /\ objs[o].filled = sum + Traded(trades, o)
          /\ frame[t].pc = "fill" => q <= objs[o].qty - objs[o].filled
      BY <1>2, <3>1, <3>3 DEF OwnExact, Sized, Fresh, Mine
    <3>5. CASE MovesOn(t) \/ Takes(t)
      <4>1. \E pc, best : /\ Walks(t, pc, best, frame[t].qty) /\ pc # "fill"
                          /\ frame[t].pc \notin {"sort", "sorting"}
        BY <3>5 DEF MovesOn, Takes
      <4>2. /\ frame'[t].pc # "fill" /\ frame'[t].order = o
            /\ frame'[t].trades = trades /\ frame'[t].sum.qty = sum
        BY <1>1, <3>1, <3>3, <4>1, WalksFacts
      <4>3. objs' = objs
        BY <3>5 DEF MovesOn, Takes, Untouched
      <4> QED
        BY <2>5, <3>4, <4>1, <4>2, <4>3 DEF Sized, OwnExact, Mine
    <3>6. CASE Sizes(t)
      <4>1. PICK b \in Orders : b = frame[t].best
        BY <1>1, <3>6, FrameFacts DEF HandlerKnows, Sizes
      <4>2. PICK r : r = Sequential!Lesser(Sequential!Remaining(objs[o]),
                                           Sequential!Remaining(objs[b]))
        OBVIOUS
      <4>3. r <= objs[o].qty - objs[o].filled
        BY <1>1, <3>2, <4>1, <4>2, OrderFacts DEF Sequential!Lesser, Sequential!Remaining
      <4>4. Walks(t, "fill", frame[t].best, r) /\ objs' = objs /\ frame[t].pc = "size"
        BY <3>1, <3>6, <4>1, <4>2 DEF Sizes, Untouched, Mine
      <4>5. /\ frame'[t].pc = "fill" /\ frame'[t].order = o /\ frame'[t].qty = r
            /\ frame'[t].trades = trades /\ frame'[t].sum.qty = sum
        BY <1>1, <3>1, <3>3, <4>4, WalksFacts
      <4> QED
        BY <2>5, <3>4, <4>3, <4>4, <4>5 DEF Sized, OwnExact, Mine
    <3>7. CASE Fills(t)
      <4>1. PICK x : x = NewTrade(t)
        OBVIOUS
      <4>2. /\ frame'[t].pc = "drop" /\ frame'[t].order = o
            /\ frame'[t].trades = Append(trades, x) /\ frame'[t].sum.qty = sum
            /\ frame[t].pc = "fill" /\ objs'[o].filled = objs[o].filled + q
        BY <1>1, <3>1, <3>3, <3>7, <4>1, BecomesFacts DEF Fills
      <4>3. /\ x \in Sequential!TradeRecord /\ x.qty = q /\ o \in {x.buy, x.sell}
        BY <1>1, <3>1, <3>3, <3>7, <4>1, FillsOwn, NewTradeFacts
      <4>4. /\ Traded(trades, o) \in Int
            /\ Traded(Append(trades, x), o) = Traded(trades, o) + q
        BY <3>3, <4>3, TradedAppend DEF Share
      <4>5. Sized(t)'
        BY <4>2 DEF Sized
      <4>6. objs'[o].filled <= objs'[o].qty
        BY <3>2, <3>3, <3>4, <4>2
      <4>7. objs'[o].filled = sum + (Traded(trades, o) + q)
        BY <3>2, <3>3, <3>4, <4>2, <4>4
      <4>8. Traded(frame'[t].trades, frame'[t].order) = Traded(trades, o) + q
        BY <4>2, <4>4, Zenon
      <4>9. OwnExact(t)'
        BY <4>2, <4>6, <4>7, <4>8 DEF OwnExact, Mine
      <4> QED
        BY <2>5, <4>5, <4>9
    <3>8. CASE Records(t)
      <4>1. PICK x : x = Head(trades)
        OBVIOUS
      <4>2. /\ frame'[t].pc = "record" /\ frame[t].pc = "record" /\ frame'[t].order = o
            /\ frame'[t].trades = Tail(trades) /\ frame'[t].sum.qty = sum + x.qty
            /\ trades # <<>> /\ objs' = objs
        BY <1>1, <3>1, <3>3, <3>8, <4>1, RecordsFrame DEF Records
      <4>3. o \in {x.buy, x.sell} /\ x.qty \in Int
        <5>1. /\ 1 \in 1..Len(trades) /\ x = trades[1]
              /\ x \in Sequential!TradeRecord
          BY <3>3, <4>1, <4>2, TailElements
        <5> QED
          BY <3>1, <3>3, <5>1 DEF Placed, TradesName, Sequential!TradeRecord
      <4>4. /\ Traded(Tail(trades), o) \in Int
            /\ Traded(trades, o) = x.qty + Traded(Tail(trades), o)
        BY <3>3, <4>1, <4>2, <4>3, TradedTail DEF Share
      <4>5. objs'[o].filled = sum + x.qty + Traded(Tail(trades), o)
        BY <3>3, <3>4, <4>2, <4>3, <4>4
      <4>6. Traded(frame'[t].trades, frame'[t].order) = Traded(Tail(trades), o)
        BY <4>2
      <4>7. OwnExact(t)'
        BY <3>4, <4>2, <4>5, <4>6 DEF OwnExact, Mine
      <4>8. Sized(t)'
        BY <4>2 DEF Sized
      <4> QED
        BY <2>5, <4>7, <4>8
    <3>9. CASE Rests(t)
      <4>1. frame'[t].pc = "sort"
        BY <1>1, <3>9, WalksFacts DEF Rests
      <4> QED
        BY <2>5, <4>1 DEF Sized, OwnExact, Fresh
    <3>10. CASE Begins(t)
      <4>1. frame'[t].pc = "sorting"
        BY <1>1, <3>10, BecomesFacts DEF Begins
      <4> QED
        BY <2>5, <4>1 DEF Sized, OwnExact, Fresh
    <3>11. CASE Ends(t)
      <4>1. frame'[t].pc = "recv" /\ frame'[t].order = 0
        BY <1>1, <3>11, EndsFrame DEF Waiting
      <4> QED
        BY <2>5, <4>1 DEF Sized, OwnExact, Fresh
    <3> QED
      BY <2>1, <3>5, <3>6, <3>7, <3>8, <3>9, <3>10, <3>11 DEF Handles
  <2> QED
    BY <2>4, <2>5
<1> QED
  BY <1>4, <1>5 DEF Next

-----------------------------------------------------------------------------
(* Every fill has its trade.                                               *)

\* What the handlers have not put on the tape yet.
Carried(n) == [t \in Threads |-> Traded(frame[t].trades, n)]

Accounted(n) == objs[n].filled = Traded(tape, n) + SumOver(Carried(n), Threads)

LEMMA SumIndexed ==
    ASSUME NEW f, NEW S, DOMAIN f = S
    PROVE  SumFunction(f) = SumOver(f, S)
BY Zenon DEF SumFunction, SumOver

LEMMA AccountForms ==
    ASSUME FillsAccounted, failed = {}, NEW n \in Orders
    PROVE  Accounted(n)
<1>1. PICK f : f = [t \in Threads |-> Sequential!QtyTraded(frame[t].trades, n)]
  OBVIOUS
<1>2. f = Carried(n) /\ DOMAIN f = Threads
  BY <1>1 DEF Carried, Traded
<1>3. SumFunction(f) = SumOver(f, Threads)
  BY <1>2, SumIndexed
<1>4. objs[n].filled = Sequential!QtyTraded(tape, n) + SumFunction(f)
  BY <1>1 DEF FillsAccounted
<1> QED
  BY <1>2, <1>3, <1>4 DEF Accounted, Traded

LEMMA AccountFormsNext ==
    ASSUME failed' = {} => \A n \in Orders' : Accounted(n)'
    PROVE  FillsAccounted'
<1> SUFFICES ASSUME failed' = {}, NEW n \in Orders'
             PROVE  objs'[n].filled = Sequential!QtyTraded(tape', n)
                      + SumFunction([t \in Threads |->
                                       Sequential!QtyTraded(frame'[t].trades, n)])
  BY DEF FillsAccounted
<1>1. PICK f : f = [t \in Threads |-> Sequential!QtyTraded(frame'[t].trades, n)]
  OBVIOUS
<1>2. f = Carried(n)' /\ DOMAIN f = Threads
  BY <1>1 DEF Carried, Traded
<1>3. SumFunction(f) = SumOver(f, Threads)
  BY <1>2, SumIndexed
<1>4. objs'[n].filled = Sequential!QtyTraded(tape', n) + SumOver(f, Threads)
  BY <1>2 DEF Accounted, Traded
<1> QED
  BY <1>1, <1>3, <1>4

LEMMA TradedType ==
    ASSUME NEW s \in Seq(Sequential!TradeRecord), NEW n
    PROVE  Traded(s, n) \in Int
<1>1. CASE s = <<>>
  BY <1>1, TradedNone
<1>2. CASE s # <<>>
  BY <1>2, TradedTail
<1> QED
  BY <1>1, <1>2

LEMMA CarriedFacts ==
    ASSUME TypeOK, NEW n
    PROVE  /\ IsFiniteSet(Threads) /\ Traded(tape, n) \in Int
           /\ \A t \in Threads : Carried(n)[t] = Traded(frame[t].trades, n)
                                 /\ Carried(n)[t] \in Int
           /\ SumOver(Carried(n), Threads) \in Int
<1>1. \A t \in Threads : Carried(n)[t] = Traded(frame[t].trades, n)
                         /\ Carried(n)[t] \in Int
  BY TradedType, FrameFacts DEF Carried
<1>2. IsFiniteSet(Threads)
  BY ThreadsAssumption
<1>3. SumOver(Carried(n), Threads) \in Int
  BY <1>1, <1>2, SumType
<1> QED
  BY <1>1, <1>2, <1>3, TradedType, TypeFacts

\* An order no trade names.
LEMMA NotTraded ==
    ASSUME NEW s \in Seq(Sequential!TradeRecord), NEW n,
           \A i \in 1..Len(s) : n # s[i].buy /\ n # s[i].sell
    PROVE  Traded(s, n) = 0
<1>1. PICK f, k : f = Shares(s, n) /\ k = Len(s)
  OBVIOUS
<1>2. k \in Nat /\ f \in [1..k -> Int] /\ Traded(s, n) = SumFunction(f)
  BY <1>1, TradedSums
<1>3. \A i \in 1..k : f[i] = 0
  BY <1>1 DEF Shares, Share
<1>4. SumFunction(f) = SumOver(f, 1..k)
  BY <1>2, SumIndexed
<1>5. SumOver(f, 1..k) = 0
  BY <1>2, <1>3, FS_Interval, SumZero
<1> QED
  BY <1>2, <1>4, <1>5

\* One handler's trades change.
LEMMA CarriedChange ==
    ASSUME TypeOK, NEW n, NEW t \in Threads,
           frame'[t].trades \in Seq(Sequential!TradeRecord),
           \A u \in Threads \ {t} : frame'[u].trades = frame[u].trades
    PROVE  SumOver(Carried(n)', Threads) =
             SumOver(Carried(n), Threads) - Traded(frame[t].trades, n)
               + Traded(frame'[t].trades, n)
<1>1. PICK f, g : f = Carried(n) /\ g = Carried(n)'
  OBVIOUS
<1>2. \A u \in Threads : f[u] = Traded(frame[u].trades, n) /\ f[u] \in Int
  BY <1>1, CarriedFacts
<1>3. \A u \in Threads : g[u] = Traded(frame'[u].trades, n)
  BY <1>1 DEF Carried
<1>4. \A u \in Threads : g[u] \in Int /\ (u # t => g[u] = f[u])
  BY <1>2, <1>3, TradedType
<1>5. SumOver(g, Threads) = SumOver(f, Threads) - f[t] + g[t]
  BY <1>2, <1>4, ThreadsAssumption, SumChange
<1> QED
  BY <1>1, <1>2, <1>3, <1>5

LEMMA AccountsKept ==
    ASSUME Placed, FillsAccounted, Next
    PROVE  FillsAccounted'
<1>1. TypeOK /\ (\A u \in Threads : HandlerKnows(u)) /\ Known
  BY DEF Placed, Known
<1>2. ASSUME NEW n \in Orders, failed = {}
      PROVE  /\ objs[n].filled \in Int
             /\ objs[n].filled = Traded(tape, n) + SumOver(Carried(n), Threads)
             /\ Traded(tape, n) \in Int /\ SumOver(Carried(n), Threads) \in Int
  BY <1>1, <1>2, AccountForms, CarriedFacts, OrderFacts DEF Accounted
<1>3. ASSUME UNCHANGED tape, \A u \in Threads : frame'[u].trades = frame[u].trades, NEW n
      PROVE  Traded(tape, n)' = Traded(tape, n) /\ Carried(n)' = Carried(n)
  BY <1>3 DEF Carried
<1>4. ASSUME NEW t \in Threads, NEW m \in Messages, Receive(t, m) \/ Refuse(t, m)
      PROVE  FillsAccounted'
  <2>1. PICK x \in OrderObject : objs' = Append(objs, x) /\ x.filled = 0
    BY <1>1, <1>4, ReceiveFacts, RefuseFacts, ParsedFacts
  <2>2. /\ \A n \in Orders : objs'[n] = objs[n]
        /\ objs'[Len(objs) + 1] = x /\ Len(objs) \in Nat /\ Len(objs') = Len(objs) + 1
    BY <1>1, <2>1, ArrivalFacts
  <2>3. UNCHANGED <<tape, failed>>
    BY <1>1, <1>4, ReceiveFacts, RefuseFacts
  <2>4. \A u \in Threads : frame'[u].trades = frame[u].trades
    <3>1. CASE Refuse(t, m)
      BY <1>1, <3>1, RefuseFacts
    <3>2. CASE Receive(t, m)
      <4>1. /\ frame[t].pc = "recv"
            /\ Becomes(t, [pc |-> "look", order |-> Len(objs) + 1, best |-> 0, qty |-> 0,
                           trades |-> <<>>, sum |-> [qty |-> 0, price |-> 0],
                           saved |-> <<>>])
        BY <1>1, <3>2, ReceiveFacts
      <4>2. frame'[t].trades = <<>> /\ \A u \in Threads \ {t} : frame'[u] = frame[u]
        BY <1>1, <4>1, BecomesFacts
      <4>3. frame[t].trades = <<>>
        BY <1>1, <4>1 DEF HandlerKnows, Waiting
      <4> QED
        BY <4>2, <4>3
    <3> QED
      BY <1>4, <3>1, <3>2
  <2>5. ASSUME failed' = {}, NEW n \in Orders'
        PROVE  Accounted(n)'
    <3>1. Traded(tape, n)' = Traded(tape, n) /\ Carried(n)' = Carried(n)
      BY <1>3, <2>3, <2>4
    <3>2. CASE n \in Orders
      BY <1>2, <2>2, <2>3, <2>5, <3>1, <3>2 DEF Accounted
    <3>3. CASE n \notin Orders
      <4>1. n = Len(objs) + 1 /\ objs'[n].filled = 0
        BY <2>1, <2>2, <3>3 DEF Orders
      <4>2. Traded(tape, n) = 0
        BY <1>1, <3>3, TypeFacts, NotTraded DEF Placed, TradesName
      <4>3. ASSUME NEW u \in Threads
            PROVE  Traded(frame[u].trades, n) = 0
        <5>1. PICK s \in Seq(Sequential!TradeRecord) : s = frame[u].trades
          BY <1>1, FrameFacts
        <5>2. \A i \in 1..Len(s) : n # s[i].buy /\ n # s[i].sell
          BY <3>3, <5>1 DEF Placed, TradesName
        <5>3. Traded(s, n) = 0
          BY <5>2, NotTraded
        <5> QED
          BY <5>1, <5>3
      <4>4. PICK f : f = Carried(n)
        OBVIOUS
      <4>5. \A u \in Threads : f[u] = 0
        BY <1>1, <4>3, <4>4, CarriedFacts
      <4>6. SumOver(f, Threads) = 0
        BY <4>5, ThreadsAssumption, SumZero
      <4> QED
        BY <3>1, <4>1, <4>2, <4>4, <4>6 DEF Accounted
    <3> QED
      BY <3>2, <3>3
  <2> QED
    BY <2>5, AccountFormsNext
<1>5. ASSUME NEW t \in Threads, Work(t)
      PROVE  FillsAccounted'
  <2>1. frame[t].pc # "recv" /\ Handles(t)
    BY <1>1, <1>5, WorkShapes
  <2>2. /\ Orders' = Orders
        /\ \A v \in Threads \ {t} : frame'[v] = frame[v]
    BY <1>1, <2>1, HandlesSame, OtherFrames DEF Orders
  <2>3. PICK trades \in Seq(Sequential!TradeRecord) : trades = frame[t].trades
    BY <1>1, FrameFacts
  <2>4. CASE UNCHANGED <<objs, tape>> /\ frame'[t].trades = frame[t].trades
             /\ (failed' = {} => failed = {})
    <3>1. \A u \in Threads : frame'[u].trades = frame[u].trades
      BY <2>2, <2>4
    <3>2. ASSUME failed' = {}, NEW n \in Orders'
          PROVE  Accounted(n)'
      BY <1>2, <1>3, <2>2, <2>4, <3>1, <3>2 DEF Accounted
    <3> QED
      BY <3>2, AccountFormsNext
  <2>5. CASE MovesOn(t) \/ Takes(t) \/ Sizes(t) \/ Rests(t)
    <3>1. \E pc, best, qty : Walks(t, pc, best, qty)
      BY <2>5 DEF MovesOn, Takes, Sizes, Rests
    <3>2. frame'[t].trades = frame[t].trades
      BY <1>1, <3>1, WalksFacts
    <3>3. UNCHANGED <<objs, tape, failed>>
      BY <2>5 DEF MovesOn, Takes, Sizes, Rests, Untouched
    <3> QED
      BY <2>4, <3>2, <3>3
  <2>6. CASE Begins(t)
    <3>1. frame'[t].trades = frame[t].trades
      BY <1>1, <2>6, BecomesFacts DEF Begins
    <3> QED
      BY <2>4, <2>6, <3>1 DEF Begins
  <2>7. CASE Ends(t)
    <3>1. frame'[t].trades = <<>>
      BY <1>1, <2>7, EndsFrame DEF Waiting
    <3>2. CASE Answers1(t) /\ frame[t].trades = <<>>
      BY <2>4, <2>7, <3>1, <3>2 DEF Ends, Answers1
    <3>3. CASE Raises(t)
      <4>1. failed' # {}
        BY <3>3 DEF Raises
      <4> QED
        BY <4>1, AccountFormsNext
    <3> QED
      BY <2>7, <3>2, <3>3 DEF Ends
  <2>8. CASE Fills(t)
    <3>1. PICK x : x = NewTrade(t)
      OBVIOUS
    <3>2. /\ frame'[t].trades = Append(trades, x) /\ UNCHANGED <<tape, failed>>
      BY <1>1, <2>3, <2>8, <3>1, BecomesFacts DEF Fills
    <3>3. /\ x \in Sequential!TradeRecord /\ x.qty = frame[t].qty
          /\ {x.buy, x.sell} = {frame[t].order, frame[t].best}
      BY <1>1, <2>8, <3>1, FillsOwn, NewTradeFacts
    <3>4. Append(trades, x) \in Seq(Sequential!TradeRecord)
      BY <3>3, AppendElements
    <3>5. ASSUME failed' = {}, NEW n \in Orders'
          PROVE  Accounted(n)'
      <4>1. PICK q \in Int : q = IF n \in {frame[t].order, frame[t].best}
                                 THEN frame[t].qty ELSE 0
        BY <1>1, FrameFacts
      <4>2. /\ Traded(trades, n) \in Int
            /\ Traded(Append(trades, x), n) = Traded(trades, n) + q
        BY <3>3, <4>1, TradedAppend DEF Share
      <4>3. objs'[n].filled = objs[n].filled + q
        <5>1. objs[n].filled \in Int
          BY <1>2, <2>2, <3>2, <3>5
        <5> QED
          BY <2>2, <2>8, <3>5, <4>1, <5>1 DEF Fills
      <4>4. SumOver(Carried(n)', Threads) =
              SumOver(Carried(n), Threads) - Traded(trades, n) + Traded(Append(trades, x), n)
        BY <1>1, <2>2, <2>3, <3>2, <3>4, CarriedChange
      <4>5. PICK a \in Int, b \in Int, c \in Int :
              /\ a = Traded(tape, n) /\ b = SumOver(Carried(n), Threads)
              /\ c = Traded(trades, n)
        BY <1>2, <2>2, <3>2, <3>5, <4>2
      <4>6. objs[n].filled = a + b
        BY <1>2, <2>2, <3>2, <3>5, <4>5
      <4>7. SumOver(Carried(n)', Threads) = b - c + (c + q)
        BY <4>2, <4>4, <4>5, Zenon
      <4>8. objs'[n].filled = a + SumOver(Carried(n)', Threads)
        BY <4>1, <4>3, <4>5, <4>6, <4>7
      <4>9. Traded(tape, n)' = a
        BY <3>2, <4>5
      <4> QED
        BY <4>8, <4>9 DEF Accounted
    <3> QED
      BY <3>5, AccountFormsNext
  <2>9. CASE Records(t)
    <3>1. PICK x : x = Head(trades)
      OBVIOUS
    <3>2. /\ frame'[t].trades = Tail(trades) /\ UNCHANGED <<objs, failed>>
          /\ trades # <<>> /\ tape' = Append(tape, x)
      BY <1>1, <2>3, <2>9, <3>1, RecordsFrame DEF Records
    <3>3. x \in Sequential!TradeRecord /\ Tail(trades) \in Seq(Sequential!TradeRecord)
      BY <3>1, <3>2, TailElements
    <3>4. tape \in Seq(Sequential!TradeRecord)
      BY <1>1, TypeFacts
    <3>5. ASSUME failed' = {}, NEW n \in Orders'
          PROVE  Accounted(n)'
      <4>1. PICK q \in Int, d \in Int : q = Share(x, n) /\ d = Traded(Tail(trades), n)
        BY <3>1, <3>2, TradedTail
      <4>2. Traded(trades, n) = q + d
        BY <3>1, <3>2, <4>1, TradedTail
      <4>3. Traded(Append(tape, x), n) = Traded(tape, n) + q
        BY <3>3, <3>4, <4>1, TradedAppend
      <4>4. SumOver(Carried(n)', Threads) =
              SumOver(Carried(n), Threads) - Traded(trades, n) + Traded(Tail(trades), n)
        BY <1>1, <2>2, <2>3, <3>2, <3>3, CarriedChange
      <4>5. PICK a \in Int, b \in Int :
              a = Traded(tape, n) /\ b = SumOver(Carried(n), Threads)
        BY <1>2, <2>2, <3>2, <3>5
      <4>6. objs[n].filled = a + b
        BY <1>2, <2>2, <3>2, <3>5, <4>5
      <4>7. SumOver(Carried(n)', Threads) = b - (q + d) + d
        BY <4>1, <4>2, <4>4, <4>5, Zenon
      <4>8. Traded(tape, n)' = a + q
        BY <3>2, <4>3, <4>5, Zenon
      <4>9. objs'[n].filled = (a + q) + SumOver(Carried(n)', Threads)
        BY <3>2, <4>1, <4>5, <4>6, <4>7, SMTT(30)
      <4> QED
        BY <4>8, <4>9 DEF Accounted
    <3> QED
      BY <3>5, AccountFormsNext
  <2> QED
    BY <2>1, <2>5, <2>6, <2>7, <2>8, <2>9 DEF Handles
<1> QED
  BY <1>4, <1>5 DEF Next

-----------------------------------------------------------------------------
(* Stale quantities.                                                       *)

Calm == failed = {} /\ NoNegativeTrade

Threat(n) == [t \in Threads |-> Pending(t, n)]

StaleAt(n) ==
    ~objs[n].refused =>
      /\ objs[n].filled >= 0
      /\ \A t \in Threads : Pending(t, n) <= objs[n].qty
      /\ objs[n].filled + SumOver(Threat(n), Threads) <= Cardinality(Threads) * objs[n].qty

LEMMA StaleForms ==
    ASSUME StaleBounded, Calm, NEW n \in Orders
    PROVE  StaleAt(n)
<1>1. PICK f : f = [t \in Threads |-> Pending(t, n)]
  OBVIOUS
<1>2. f = Threat(n) /\ DOMAIN f = Threads
  BY <1>1 DEF Threat
<1>3. SumFunction(f) = SumOver(f, Threads)
  BY <1>2, SumIndexed
<1>4. ~objs[n].refused =>
         /\ objs[n].filled >= 0
         /\ \A t \in Threads : Pending(t, n) <= objs[n].qty
         /\ objs[n].filled + SumFunction(f) <= Cardinality(Threads) * objs[n].qty
  BY <1>1 DEF StaleBounded, Calm
<1> QED
  BY <1>2, <1>3, <1>4, Zenon DEF StaleAt

LEMMA StaleFormsNext ==
    ASSUME Calm' => \A n \in Orders' : StaleAt(n)'
    PROVE  StaleBounded'
<1> SUFFICES ASSUME Calm', NEW n \in Orders', ~objs'[n].refused
             PROVE  /\ objs'[n].filled >= 0
                    /\ \A t \in Threads : Pending(t, n)' <= objs'[n].qty
                    /\ objs'[n].filled + SumFunction([t \in Threads |-> Pending(t, n)'])
                         <= Cardinality(Threads) * objs'[n].qty
  BY DEF StaleBounded, Calm
<1>1. PICK f : f = [t \in Threads |-> Pending(t, n)']
  OBVIOUS
<1>2. f = Threat(n)' /\ DOMAIN f = Threads
  BY <1>1 DEF Threat
<1>3. SumFunction(f) = SumOver(f, Threads)
  BY <1>2, SumIndexed
<1>4. /\ objs'[n].filled >= 0
      /\ \A t \in Threads : Pending(t, n)' <= objs'[n].qty
      /\ objs'[n].filled + SumOver(f, Threads) <= Cardinality(Threads) * objs'[n].qty
  BY <1>2, Zenon DEF StaleAt
<1> QED
  BY <1>1, <1>3, <1>4, Zenon

LEMMA PendingType ==
    ASSUME TypeOK, NEW t \in Threads, NEW n
    PROVE  Pending(t, n) \in Nat
BY FrameFacts DEF Pending

\* A trade that is made does not go away, unless its handler raises.
LEMMA CalmBefore ==
    ASSUME Placed, Next, Calm'
    PROVE  Calm
<1>1. TypeOK /\ (\A u \in Threads : HandlerKnows(u)) /\ Known
  BY DEF Placed, Known
<1>2. ASSUME UNCHANGED <<tape, failed>>,
             \A u \in Threads : frame[u].trades = <<>> \/ frame'[u].trades = frame[u].trades
      PROVE  Calm
  <2>1. ASSUME NEW u \in Threads, NEW i \in 1..Len(frame[u].trades)
        PROVE  frame[u].trades[i].qty >= 0
    <3>1. frame'[u].trades = frame[u].trades
      BY <1>2, <2>1
    <3> QED
      BY <2>1, <3>1 DEF Calm, NoNegativeTrade
  <2> QED
    BY <1>2, <2>1 DEF Calm, NoNegativeTrade
<1>3. ASSUME NEW t \in Threads, NEW m \in Messages, Receive(t, m)
      PROVE  Calm
  <2>1. /\ frame[t].pc = "recv" /\ UNCHANGED <<tape, failed>>
        /\ Becomes(t, [pc |-> "look", order |-> Len(objs) + 1, best |-> 0, qty |-> 0,
                       trades |-> <<>>, sum |-> [qty |-> 0, price |-> 0],
                       saved |-> <<>>])
    BY <1>1, <1>3, ReceiveFacts
  <2>2. \A u \in Threads \ {t} : frame'[u] = frame[u]
    BY <1>1, <2>1, BecomesFacts
  <2>3. frame[t].trades = <<>>
    BY <1>1, <2>1 DEF HandlerKnows, Waiting
  <2> QED
    BY <1>2, <2>1, <2>2, <2>3
<1>4. ASSUME NEW t \in Threads, NEW m \in Messages, Refuse(t, m)
      PROVE  Calm
  BY <1>1, <1>2, <1>4, RefuseFacts
<1>5. ASSUME NEW t \in Threads, Work(t)
      PROVE  Calm
  <2>1. frame[t].pc # "recv" /\ Handles(t)
    BY <1>1, <1>5, WorkShapes
  <2>2. \A v \in Threads \ {t} : frame'[v] = frame[v]
    BY <1>1, <2>1, OtherFrames
  <2>3. PICK trades \in Seq(Sequential!TradeRecord) : trades = frame[t].trades
    BY <1>1, FrameFacts
  <2>4. CASE MovesOn(t) \/ Takes(t) \/ Sizes(t) \/ Rests(t)
    <3>1. \E pc, best, qty : Walks(t, pc, best, qty)
      BY <2>4 DEF MovesOn, Takes, Sizes, Rests
    <3>2. frame'[t].trades = frame[t].trades
      BY <1>1, <3>1, WalksFacts
    <3>3. UNCHANGED <<tape, failed>>
      BY <2>4 DEF MovesOn, Takes, Sizes, Rests, Untouched
    <3> QED
      BY <1>2, <2>2, <3>2, <3>3
  <2>5. CASE Begins(t)
    <3>1. frame'[t].trades = frame[t].trades
      BY <1>1, <2>5, BecomesFacts DEF Begins
    <3> QED
      BY <1>2, <2>2, <2>5, <3>1 DEF Begins
  <2>6. CASE Ends(t)
    <3>1. ~Raises(t)
      BY DEF Raises, Calm
    <3>2. frame[t].trades = <<>> /\ UNCHANGED <<tape, failed>>
      BY <2>6, <3>1 DEF Ends, Answers1
    <3> QED
      BY <1>2, <2>2, <3>2
  <2>7. CASE Fills(t)
    <3>1. PICK x : x = NewTrade(t)
      OBVIOUS
    <3>2. frame'[t].trades = Append(trades, x) /\ UNCHANGED <<tape, failed>>
      BY <1>1, <2>3, <2>7, <3>1, BecomesFacts DEF Fills
    <3>3. x \in Sequential!TradeRecord
      BY <1>1, <2>7, <3>1, FillsOwn, NewTradeFacts
    <3>4. /\ Len(trades) \in Nat /\ Len(Append(trades, x)) = Len(trades) + 1
          /\ \A i \in 1..Len(trades) : Append(trades, x)[i] = trades[i]
      BY <3>3, AppendElements
    <3>5. \A i \in 1..Len(trades) : trades[i].qty >= 0
      BY <3>2, <3>4 DEF Calm, NoNegativeTrade
    <3> QED
      BY <2>2, <2>3, <3>2, <3>5 DEF Calm, NoNegativeTrade
  <2>8. CASE Records(t)
    <3>1. PICK x : x = Head(trades)
      OBVIOUS
    <3>2. /\ frame'[t].trades = Tail(trades) /\ trades # <<>> /\ UNCHANGED failed
          /\ tape' = Append(tape, x)
      BY <1>1, <2>3, <2>8, <3>1, RecordsFrame DEF Records
    <3>3. /\ x \in Sequential!TradeRecord /\ x = trades[1]
          /\ Len(trades) \in Nat /\ Len(Tail(trades)) = Len(trades) - 1
          /\ \A i \in 1..Len(Tail(trades)) : Tail(trades)[i] = trades[i + 1]
      BY <3>1, <3>2, TailElements
    <3>4. tape \in Seq(Sequential!TradeRecord)
      BY <1>1, TypeFacts
    <3>5. /\ Len(tape) \in Nat /\ Len(tape') = Len(tape) + 1
          /\ \A i \in 1..Len(tape) : tape'[i] = tape[i]
          /\ tape'[Len(tape) + 1] = x
      BY <3>2, <3>3, <3>4, AppendElements
    <3>6. x.qty >= 0 /\ \A i \in 1..Len(tape) : tape[i].qty >= 0
      BY <3>5 DEF Calm, NoNegativeTrade
    <3>7. ASSUME NEW i \in 1..Len(trades)
          PROVE  trades[i].qty >= 0
      <4>1. CASE i = 1
        BY <3>3, <3>6, <4>1
      <4>2. CASE i # 1
        <5>1. PICK j \in 1..Len(Tail(trades)) : i = j + 1
          BY <3>3, <4>2
        <5>2. Tail(trades)[j].qty >= 0
          BY <3>2, <5>1 DEF Calm, NoNegativeTrade
        <5> QED
          BY <3>3, <5>1, <5>2
      <4> QED
        BY <4>1, <4>2
    <3> QED
      BY <2>2, <2>3, <3>2, <3>6, <3>7 DEF Calm, NoNegativeTrade
  <2> QED
    BY <2>1, <2>4, <2>5, <2>6, <2>7, <2>8 DEF Handles
<1> QED
  BY <1>3, <1>4, <1>5 DEF Next

\* Nothing is added to the order, nor planned to be.
LEMMA StaleLess ==
    ASSUME TypeOK, NEW n \in Orders, StaleAt(n), objs'[n].filled = objs[n].filled,
           objs'[n].qty = objs[n].qty, objs'[n].refused = objs[n].refused,
           \A u \in Threads : Pending(u, n)' \in Nat /\ Pending(u, n)' <= Pending(u, n)
    PROVE  StaleAt(n)'
<1> SUFFICES ASSUME ~objs[n].refused
             PROVE  StaleAt(n)'
  BY DEF StaleAt
<1>1. PICK f, g : f = Threat(n) /\ g = Threat(n)'
  OBVIOUS
<1>2. \A u \in Threads : /\ f[u] = Pending(u, n) /\ g[u] = Pending(u, n)'
                         /\ f[u] \in Int /\ g[u] \in Int /\ g[u] <= f[u]
  BY <1>1, PendingType DEF Threat
<1>3. /\ SumOver(g, Threads) <= SumOver(f, Threads)
      /\ SumOver(g, Threads) \in Int /\ SumOver(f, Threads) \in Int
  BY <1>2, ThreadsAssumption, SumMonotone, SumType
<1>4. objs[n].filled \in Int /\ objs[n].qty \in Int /\ Cardinality(Threads) \in Int
  BY OrderFacts, ThreadsAssumption, FS_CardinalityType
<1>5. PICK bound \in Int : bound = Cardinality(Threads) * objs[n].qty
  BY <1>4
<1>6. /\ objs[n].filled >= 0 /\ objs[n].filled + SumOver(f, Threads) <= bound
      /\ \A u \in Threads : Pending(u, n) <= objs[n].qty
  BY <1>1, <1>5 DEF StaleAt
<1>7. objs[n].filled + SumOver(g, Threads) <= bound
  BY <1>3, <1>4, <1>6
<1>8. \A u \in Threads : Pending(u, n)' <= objs[n].qty
  BY <1>2, <1>4, <1>6
<1> QED
  BY <1>1, <1>5, <1>6, <1>7, <1>8 DEF StaleAt

LEMMA TimesGrows ==
    ASSUME NEW k \in Nat, k # 0, NEW q \in Nat
    PROVE  q <= k * q
<1>1. PICK j \in Nat : k = j + 1
  OBVIOUS
<1>2. (j + 1) * q = j * q + q
  OBVIOUS
<1>3. j * q \in Nat
  OBVIOUS
<1> QED
  BY <1>1, <1>2, <1>3

LEMMA StaleKept ==
    ASSUME Placed, SizedRight, StaleBounded, Next
    PROVE  StaleBounded'
<1>1. TypeOK /\ (\A u \in Threads : HandlerKnows(u)) /\ Known /\ TypeOK'
  BY TypeKept DEF Placed, Known
<1> SUFFICES ASSUME Calm', NEW n \in Orders', ~objs'[n].refused
             PROVE  StaleAt(n)'
  BY StaleFormsNext DEF StaleAt
<1>2. n \in Orders => StaleAt(n)
  BY CalmBefore, StaleForms
<1>3. ASSUME NEW u \in Threads, frame'[u] = frame[u]
      PROVE  Pending(u, n)' = Pending(u, n) /\ Pending(u, n) \in Nat
  BY <1>1, <1>3, PendingType DEF Pending
<1>4. ASSUME NEW u \in Threads, frame'[u].pc # "fill"
      PROVE  Pending(u, n)' = 0
  BY <1>4 DEF Pending
<1>5. PICK k \in Int : k = Cardinality(Threads) /\ k >= 0 /\ (Threads # {} => k >= 1)
  BY ThreadsAssumption, FS_CardinalityType, FS_EmptySet
<1>6. ASSUME NEW t \in Threads, NEW m \in Messages, Receive(t, m) \/ Refuse(t, m)
      PROVE  StaleAt(n)'
  <2>1. PICK x \in OrderObject : /\ objs' = Append(objs, x) /\ x.filled = 0
                                 /\ (Receive(t, m) => x.qty > 0)
                                 /\ (Refuse(t, m) => x.refused = TRUE)
    BY <1>1, <1>6, ReceiveFacts, RefuseFacts, ParsedFacts
  <2>2. /\ \A i \in Orders : objs'[i] = objs[i]
        /\ objs'[Len(objs) + 1] = x /\ Len(objs) \in Nat /\ Len(objs') = Len(objs) + 1
    BY <1>1, <2>1, ArrivalFacts
  <2>3. \A u \in Threads : frame'[u].pc = "fill" => frame'[u] = frame[u]
    <3>1. CASE Refuse(t, m)
      BY <1>1, <3>1, RefuseFacts
    <3>2. CASE Receive(t, m)
      <4>1. Becomes(t, [pc |-> "look", order |-> Len(objs) + 1, best |-> 0, qty |-> 0,
                        trades |-> <<>>, sum |-> [qty |-> 0, price |-> 0],
                        saved |-> <<>>])
        BY <1>1, <3>2, ReceiveFacts
      <4> QED
        BY <1>1, <4>1, BecomesFacts
    <3> QED
      BY <1>6, <3>1, <3>2
  <2>4. \A u \in Threads : /\ Pending(u, n) \in Nat
                           /\ Pending(u, n)' = 0 \/ Pending(u, n)' = Pending(u, n)
    BY <1>1, <1>3, <1>4, <2>3, PendingType
  <2>5. CASE n \in Orders
    <3>1. \A u \in Threads : Pending(u, n)' \in Nat /\ Pending(u, n)' <= Pending(u, n)
      BY <2>4
    <3> QED
      BY <1>1, <1>2, <2>2, <2>5, <3>1, StaleLess
  <2>6. CASE n \notin Orders
    <3>1. n = Len(objs) + 1 /\ n # 0
      BY <2>2, <2>6 DEF Orders
    <3>2. Receive(t, m)
      BY <1>6, <2>1, <2>2, <3>1
    <3>3. \A u \in Threads : frame[u].best # n
      BY <1>1, <2>6, <3>1, FrameFacts
    <3>4. \A u \in Threads : Pending(u, n) = 0
      BY <3>3 DEF Pending
    <3>5. PICK g : g = Threat(n)'
      OBVIOUS
    <3>6. \A u \in Threads : g[u] = 0 /\ Pending(u, n)' = 0
      BY <2>4, <3>4, <3>5 DEF Threat
    <3>7. SumOver(g, Threads) = 0
      BY <3>6, ThreadsAssumption, SumZero
    <3>8. PICK q \in Int : q = x.qty /\ q > 0
      BY <2>1, <3>2 DEF OrderObject
    <3>9. 0 + 0 <= k * q
      BY <1>5, <3>8
    <3> QED
      BY <1>5, <2>1, <2>2, <3>1, <3>5, <3>6, <3>7, <3>8, <3>9 DEF StaleAt
  <2> QED
    BY <2>5, <2>6
<1>7. ASSUME NEW t \in Threads, Work(t)
      PROVE  StaleAt(n)'
  <2>1. frame[t].pc # "recv" /\ Handles(t)
    BY <1>1, <1>7, WorkShapes
  <2>2. /\ Orders' = Orders /\ SameOrders /\ n \in Orders
        /\ \A v \in Threads \ {t} : frame'[v] = frame[v]
    BY <1>1, <2>1, HandlesSame, OtherFrames DEF Orders
  <2>3. objs'[n].qty = objs[n].qty /\ objs'[n].refused = objs[n].refused
    BY <2>2 DEF SameOrders
  <2>4. PICK filled \in Int, Q \in Int : filled = objs[n].filled /\ Q = objs[n].qty
    BY <1>1, <2>2, OrderFacts
  <2>5. /\ filled >= 0 /\ \A u \in Threads : Pending(u, n) <= Q
        /\ filled + SumOver(Threat(n), Threads) <= k * Q
    BY <1>2, <1>5, <2>2, <2>3, <2>4 DEF StaleAt
  <2>6. PICK f, g : f = Threat(n) /\ g = Threat(n)'
    OBVIOUS
  <2>7. /\ \A u \in Threads : f[u] = Pending(u, n) /\ f[u] \in Nat /\ g[u] = Pending(u, n)'
        /\ \A u \in Threads : u # t => g[u] = f[u]
    BY <1>1, <1>3, <2>2, <2>6, PendingType DEF Threat
  <2>8. CASE objs'[n].filled = filled /\ Pending(t, n)' = 0
    <3>1. \A u \in Threads : Pending(u, n)' \in Nat /\ Pending(u, n)' <= Pending(u, n)
      BY <2>7, <2>8
    <3> QED
      BY <1>1, <1>2, <2>2, <2>3, <2>4, <2>8, <3>1, StaleLess
  <2>9. CASE ~Fills(t) /\ ~Sizes(t)
    <3>1. objs' = objs
      BY <2>1, <2>9 DEF Handles, MovesOn, Takes, Records, Rests, Begins, Ends, Untouched
    <3>2. frame'[t].pc # "fill"
      <4>1. CASE MovesOn(t) \/ Takes(t) \/ Rests(t)
        <5>1. \E pc, best, qty : Walks(t, pc, best, qty) /\ pc # "fill"
          BY <4>1 DEF MovesOn, Takes, Rests
        <5> QED
          BY <1>1, <5>1, WalksFacts
      <4>2. CASE Records(t)
        BY <1>1, <4>2, RecordsFrame DEF Records
      <4>3. CASE Begins(t)
        <5>1. frame'[t].pc = "sorting"
          BY <1>1, <4>3, BecomesFacts DEF Begins
        <5> QED
          BY <5>1
      <4>4. CASE Ends(t)
        BY <1>1, <4>4, EndsFrame DEF Waiting
      <4> QED
        BY <2>1, <2>9, <4>1, <4>2, <4>3, <4>4 DEF Handles
    <3> QED
      BY <1>4, <2>4, <2>8, <3>1, <3>2
  <2>10. CASE Sizes(t)
    <3>1. PICK o \in Orders, b \in Orders : o = frame[t].order /\ b = frame[t].best
      BY <1>1, <2>1, <2>10, HandlerLists, FrameFacts DEF HandlerKnows, Sizes
    <3>2. PICK q : q = Sequential!Lesser(Sequential!Remaining(objs[o]),
                                         Sequential!Remaining(objs[b]))
      OBVIOUS
    <3>3. q \in Int /\ q <= objs[b].qty - objs[b].filled
      BY <1>1, <3>1, <3>2, OrderFacts DEF Sequential!Lesser, Sequential!Remaining
    <3>4. Walks(t, "fill", frame[t].best, q) /\ objs' = objs /\ frame[t].pc = "size"
      BY <2>10, <3>1, <3>2 DEF Sizes, Untouched, Mine
    <3>5. frame'[t].best = b /\ frame'[t].qty = q
      BY <1>1, <3>1, <3>4, WalksFacts
    <3>6. CASE b # n \/ q <= 0
      <4>1. Pending(t, n)' = 0
        BY <3>3, <3>5, <3>6 DEF Pending
      <4> QED
        BY <2>4, <2>8, <3>4, <4>1
    <3>7. CASE b = n /\ q > 0
      <4>1. q <= Q - filled /\ f[t] = 0 /\ g[t] = q
        <5>1. f[t] = 0
          BY <2>7, <3>4 DEF Pending
        <5>2. frame'[t].pc = "fill"
          BY <1>1, <3>4, WalksFacts
        <5>3. g[t] = q
          BY <2>7, <3>5, <3>7, <5>2 DEF Pending
        <5> QED
          BY <2>4, <3>3, <3>7, <5>1, <5>3
      <4>2. Q \in Nat /\ q <= Q
        BY <2>4, <2>5, <3>3, <3>7, <4>1
      <4>3. PICK T, j : T = Threads \ {t} /\ j = Cardinality(T) /\ j \in Int
        <5>1. Cardinality(Threads \ {t}) \in Int
          BY ThreadsAssumption, FS_RemoveElement, FS_CardinalityType
        <5> QED
          BY <5>1
      <4>4. IsFiniteSet(T) /\ k = j + 1
        <5>1. /\ IsFiniteSet(Threads \ {t})
              /\ Cardinality(Threads \ {t}) = Cardinality(Threads) - 1
          BY <1>7, ThreadsAssumption, FS_RemoveElement
        <5> QED
          BY <1>5, <4>3, <5>1
      <4>5. SumOver(f, T) <= j * Q /\ SumOver(f, T) \in Int
        <5>1. \A u \in T : f[u] \in Nat /\ f[u] \in Int /\ f[u] <= Q
          BY <2>5, <2>7, <4>3
        <5> QED
          BY <4>2, <4>3, <4>4, <5>1, SumUpTo, SumType
      <4>6. SumOver(g, T) = SumOver(f, T)
        BY <2>7, <4>3, <4>4, SumSame
      <4>7. SumOver(g, Threads) = g[t] + SumOver(g, T)
        BY <2>7, <3>3, <4>1, <4>3, ThreadsAssumption, SumTakeOut
      <4>8. filled + SumOver(g, Threads) <= k * Q
        <5>1. PICK v \in Int, w \in Int : v = SumOver(f, T) /\ w = j * Q
          BY <4>2, <4>3, <4>5
        <5>2. k * Q = w + Q
          BY <4>2, <4>3, <4>4, <5>1
        <5>3. SumOver(g, Threads) = q + v
          BY <4>1, <4>6, <4>7, <5>1
        <5>4. v <= w
          BY <4>5, <5>1
        <5> QED
          BY <2>4, <3>3, <4>1, <4>2, <5>1, <5>2, <5>3, <5>4
      <4>9. \A u \in Threads : Pending(u, n)' <= Q
        BY <2>5, <2>7, <4>1, <4>2
      <4> QED
        BY <1>5, <2>3, <2>4, <2>5, <2>6, <3>4, <4>8, <4>9 DEF StaleAt
    <3> QED
      BY <3>3, <3>6, <3>7
  <2>11. CASE Fills(t)
    <3>1. PICK o \in Orders, b \in Orders, q \in Int :
            /\ o = frame[t].order /\ b = frame[t].best /\ q = frame[t].qty
            /\ o # 0 /\ b # o
      BY <1>1, <2>11, FillsOwn, FrameFacts
    <3>2. /\ frame[t].pc = "fill" /\ frame'[t].pc = "drop"
          /\ objs'[n].filled = IF n \in {o, b} THEN filled + q ELSE filled
      BY <1>1, <2>2, <2>4, <2>11, <3>1, BecomesFacts DEF Fills
    <3>3. Pending(t, n)' = 0 /\ g[t] = 0
      BY <1>4, <2>7, <3>2
    <3>4. q >= 0
      <4>1. PICK x, trades : /\ x = NewTrade(t) /\ trades = frame[t].trades
                             /\ trades \in Seq(Sequential!TradeRecord)
        BY <1>1, FrameFacts
      <4>2. frame'[t].trades = Append(trades, x)
        BY <1>1, <2>11, <4>1, BecomesFacts DEF Fills
      <4>3. x \in Sequential!TradeRecord /\ x.qty = q
        BY <1>1, <2>11, <3>1, <4>1, FillsOwn, NewTradeFacts
      <4>4. /\ Len(trades) \in Nat /\ Len(Append(trades, x)) = Len(trades) + 1
            /\ Append(trades, x)[Len(trades) + 1] = x
        BY <4>3, AppendElements
      <4>5. frame'[t].trades[Len(trades) + 1].qty >= 0
        BY <4>2, <4>4 DEF Calm, NoNegativeTrade
      <4> QED
        BY <4>2, <4>3, <4>4, <4>5
    <3>5. CASE n \notin {o, b}
      BY <2>8, <3>2, <3>3, <3>5
    <3>6. CASE n = b
      <4>1. f[t] = q
        BY <2>7, <3>1, <3>2, <3>4, <3>6 DEF Pending
      <4>2. SumOver(g, Threads) = SumOver(f, Threads) - q + 0
        <5>1. \A u \in Threads : f[u] \in Int /\ g[u] \in Int
          BY <2>7, <3>3
        <5> QED
          BY <2>7, <3>3, <4>1, <5>1, ThreadsAssumption, SumChange
      <4>3. SumOver(f, Threads) \in Int
        BY <2>7, ThreadsAssumption, SumType
      <4>4. PICK bound \in Int : bound = k * Q
        BY <1>5, <2>4
      <4>5. filled + SumOver(f, Threads) <= bound
        BY <2>5, <2>6, <4>4
      <4>6. objs'[n].filled = filled + q
        BY <3>2, <3>6
      <4>7. filled + q + SumOver(g, Threads) <= bound /\ filled + q >= 0
        BY <2>4, <2>5, <3>1, <3>4, <4>2, <4>3, <4>4, <4>5
      <4>8. \A u \in Threads : Pending(u, n)' <= Q
        <5>1. 0 <= Q
          BY <2>4, <2>5, <2>7
        <5> QED
          BY <2>5, <2>7, <3>3, <5>1
      <4> QED
        BY <1>5, <2>3, <2>4, <2>6, <4>4, <4>6, <4>7, <4>8 DEF StaleAt
    <3>7. CASE n = o
      <4>1. /\ q <= Q - filled /\ Q > 0
            /\ Unlisted(n)
        BY <1>1, <2>4, <3>1, <3>2, <3>7
        DEF SizedRight, HandlerKnows, Mine, Placed, Fresh
      <4>2. \A u \in Threads : Pending(u, n) = 0
        BY <4>1 DEF Unlisted, Pending
      <4>3. \A u \in Threads : g[u] = 0 /\ Pending(u, n)' = 0
        BY <2>7, <3>3, <4>2
      <4>4. SumOver(g, Threads) = 0
        BY <4>3, ThreadsAssumption, SumZero
      <4>5. Q <= k * Q
        <5>1. k \in Nat /\ k # 0 /\ Q \in Nat
          BY <1>5, <2>4, <4>1
        <5> QED
          BY <5>1, TimesGrows
      <4>6. objs'[n].filled = filled + q
        BY <3>2, <3>7
      <4>7. filled + q >= 0 /\ filled + q + 0 <= k * Q
        <5>1. PICK bound \in Int : bound = k * Q
          BY <1>5, <2>4
        <5> QED
          BY <2>4, <2>5, <3>1, <3>4, <4>1, <4>5, <5>1
      <4>8. \A u \in Threads : Pending(u, n)' <= Q
        BY <2>4, <4>1, <4>3
      <4> QED
        BY <1>5, <2>3, <2>4, <2>6, <4>4, <4>6, <4>7, <4>8 DEF StaleAt
    <3> QED
      BY <3>5, <3>6, <3>7
  <2> QED
    BY <2>9, <2>10, <2>11
<1> QED
  BY <1>6, <1>7 DEF Next

-----------------------------------------------------------------------------
(* What the invariant says about a state.                                  *)

\* The orders a list or a sort holds, by the place that holds them.
Shown == [l \in Lists |-> ToSet(Visible(l))]
Taken == [t \in Threads |-> ToSet(frame[t].saved)]

LEMMA HeldFinite ==
    ASSUME TypeOK
    PROVE  IsFiniteSet(Lists) /\ IsFiniteSet(Threads)
<1>1. IsFiniteSet({"BUY"}) /\ IsFiniteSet({"SELL"})
  BY FS_Singleton
<1>2. IsFiniteSet({"BUY"} \cup {"SELL"})
  BY <1>1, FS_Union
<1>3. {"BUY"} \cup {"SELL"} = Sides
  BY DEF Sides
<1>4. IsFiniteSet(Sides)
  BY <1>2, <1>3
<1> QED
  BY <1>4, ThreadsAssumption, FS_Product DEF Lists

LEMMA ShownSizes ==
    ASSUME TypeOK, Listed
    PROVE  /\ IsFiniteSet(UNION {Shown[l] : l \in Lists})
           /\ Cardinality(UNION {Shown[l] : l \in Lists})
                = SumFunction([l \in Lists |-> Len(Visible(l))])
<1>1. PICK F, g, V : V = UNION {Shown[l] : l \in Lists} /\ F = Shown /\ g = [l \in Lists |-> Len(Visible(l))]
  OBVIOUS
<1>2. ASSUME NEW l \in Lists
      PROVE  IsFiniteSet(F[l]) /\ g[l] = Cardinality(F[l])
  <2>1. PICK s \in Symbols, d \in Sides : s = l[1] /\ d = l[2]
    BY <1>2 DEF Lists
  <2>2. PICK b \in Seq(Orders), k \in Nat : b = book[s][d] /\ k = Len(book[s][d])
    BY <2>1, TypeFacts
  <2>3. \A i, j \in 1..k : b[i] = b[j] => i = j
    BY <2>2 DEF Listed
  <2>4. DOMAIN b = 1..k
    BY <2>2, LenProperties
  <2>5. ToSet(b) = {b[i] : i \in 1..k}
    BY <2>4 DEF ToSet
  <2>6. IsFiniteSet(ToSet(b)) /\ Cardinality(ToSet(b)) = k
    <3>1. Distinct(b, k, ToSet(b))
      BY <2>2, <2>3, <2>5 DEF Distinct
    <3> QED
      BY <3>1, SizeOfDistinct
  <2>7. Visible(l) = b
    BY <2>1, <2>2 DEF Visible
  <2>8. F[l] = ToSet(b) /\ g[l] = k
    BY <1>1, <1>2, <2>2, <2>7 DEF Shown
  <2> QED
    BY <2>6, <2>8
<1>3. ASSUME NEW l \in Lists, NEW m \in Lists, l # m
      PROVE  F[l] \cap F[m] = {}
  <2>1. PICK s \in Symbols, d \in Sides : s = l[1] /\ d = l[2] /\ l = <<s, d>>
    BY <1>3 DEF Lists
  <2>2. PICK q \in Symbols, e \in Sides : q = m[1] /\ e = m[2] /\ m = <<q, e>>
    BY <1>3 DEF Lists
  <2>3. s # q \/ d # e
    BY <1>3, <2>1, <2>2
  <2>4. ASSUME NEW n \in F[l] \cap F[m]
        PROVE  FALSE
    <3>1. n \in ToSet(book[s][d]) /\ n \in ToSet(book[q][e])
      BY <1>1, <1>3, <2>1, <2>2, <2>4 DEF Shown, Visible
    <3>2. PICK i \in DOMAIN book[s][d] : n = book[s][d][i]
      BY <3>1 DEF ToSet
    <3>3. PICK j \in DOMAIN book[q][e] : n = book[q][e][j]
      BY <3>1 DEF ToSet
    <3>4. i \in 1..Len(book[s][d]) /\ j \in 1..Len(book[q][e])
      BY <3>2, <3>3, TypeFacts, LenProperties
    <3>5. MayList(book[s][d][i], s, d) /\ MayList(book[q][e][j], q, e)
      BY <3>4, Zenon DEF Listed
    <3> QED
      BY <2>3, <3>2, <3>3, <3>5 DEF MayList
  <2> QED
    BY <2>4
<1>4. IsFiniteSet(Lists)
  BY HeldFinite
<1>5. IsFiniteSet(V) /\ Cardinality(V) = SumOver(g, Lists)
  <2>1. Parted(F, g, Lists, V)
    BY <1>1, <1>2, <1>3, <1>4 DEF Parted
  <2> QED
    BY <2>1, SumOfSizes
<1>6. SumFunction(g) = SumOver(g, Lists)
  <2>1. DOMAIN g = Lists
    BY <1>1
  <2> QED
    BY <2>1, SumIndexed
<1> QED
  BY <1>1, <1>5, <1>6

LEMMA TakenSizes ==
    ASSUME TypeOK, Listed
    PROVE  /\ IsFiniteSet(UNION {Taken[t] : t \in Threads})
           /\ Cardinality(UNION {Taken[t] : t \in Threads})
                = SumFunction([t \in Threads |-> Len(frame[t].saved)])
<1>1. PICK F, g, V : V = UNION {Taken[t] : t \in Threads} /\ F = Taken /\ g = [t \in Threads |-> Len(frame[t].saved)]
  OBVIOUS
<1>2. ASSUME NEW t \in Threads
      PROVE  IsFiniteSet(F[t]) /\ g[t] = Cardinality(F[t])
  <2>1. PICK b \in Seq(Orders), k \in Nat : b = frame[t].saved /\ k = Len(frame[t].saved)
    BY FrameFacts
  <2>2. \A i, j \in 1..k : b[i] = b[j] => i = j
    BY <2>1 DEF Listed
  <2>3. DOMAIN b = 1..k
    BY <2>1, LenProperties
  <2>4. ToSet(b) = {b[i] : i \in 1..k}
    BY <2>3 DEF ToSet
  <2>5. IsFiniteSet(ToSet(b)) /\ Cardinality(ToSet(b)) = k
    <3>1. Distinct(b, k, ToSet(b))
      BY <2>1, <2>2, <2>4 DEF Distinct
    <3> QED
      BY <3>1, SizeOfDistinct
  <2>6. F[t] = ToSet(b) /\ g[t] = k
    BY <1>1, <1>2, <2>1 DEF Taken
  <2> QED
    BY <2>5, <2>6
<1>3. ASSUME NEW t \in Threads, NEW u \in Threads, t # u
      PROVE  F[t] \cap F[u] = {}
  <2>1. ASSUME NEW n \in F[t] \cap F[u]
        PROVE  FALSE
    <3>1. n \in ToSet(frame[t].saved) /\ n \in ToSet(frame[u].saved)
      BY <1>1, <1>3, <2>1 DEF Taken
    <3>2. PICK i \in DOMAIN frame[t].saved : n = frame[t].saved[i]
      BY <3>1 DEF ToSet
    <3>3. PICK j \in DOMAIN frame[u].saved : n = frame[u].saved[j]
      BY <3>1 DEF ToSet
    <3>4. i \in 1..Len(frame[t].saved) /\ j \in 1..Len(frame[u].saved)
      BY <1>3, <3>2, <3>3, FrameFacts, LenProperties
    <3> QED
      BY <1>3, <3>2, <3>3, <3>4 DEF Listed
  <2> QED
    BY <2>1
<1>4. IsFiniteSet(Threads)
  BY ThreadsAssumption
<1>5. IsFiniteSet(V) /\ Cardinality(V) = SumOver(g, Threads)
  <2>1. Parted(F, g, Threads, V)
    BY <1>1, <1>2, <1>3, <1>4 DEF Parted
  <2> QED
    BY <2>1, SumOfSizes
<1>6. SumFunction(g) = SumOver(g, Threads)
  <2>1. DOMAIN g = Threads
    BY <1>1
  <2> QED
    BY <2>1, SumIndexed
<1> QED
  BY <1>1, <1>5, <1>6

\* No order is twice in the lists, in the sorts, or in both.
LEMMA ListedHolds ==
    ASSUME TypeOK, Listed
    PROVE  HeldOnce
<1>1. PICK A, B : A = UNION {Shown[l] : l \in Lists} /\ B = UNION {Taken[t] : t \in Threads}
  OBVIOUS
<1>2. PICK a, b : /\ a = SumFunction([l \in Lists |-> Len(Visible(l))])
                  /\ b = SumFunction([t \in Threads |-> Len(frame[t].saved)])
  OBVIOUS
<1>3. IsFiniteSet(A) /\ Cardinality(A) = a /\ IsFiniteSet(B) /\ Cardinality(B) = b
  BY <1>1, <1>2, ShownSizes, TakenSizes
<1>4. A \cap B = {}
  <2>1. ASSUME NEW n \in A \cap B
        PROVE  FALSE
    <3>1. PICK l \in Lists : n \in Shown[l]
      BY <1>1, <2>1
    <3>2. PICK t \in Threads : n \in Taken[t]
      BY <1>1, <2>1
    <3>3. PICK s \in Symbols, d \in Sides : s = l[1] /\ d = l[2]
      BY <3>1 DEF Lists
    <3>4. n \in ToSet(book[s][d]) /\ n \in ToSet(frame[t].saved)
      BY <3>1, <3>2, <3>3 DEF Shown, Taken, Visible
    <3>5. PICK j \in DOMAIN book[s][d] : n = book[s][d][j]
      BY <3>4 DEF ToSet
    <3>6. PICK i \in DOMAIN frame[t].saved : n = frame[t].saved[i]
      BY <3>4 DEF ToSet
    <3>7. j \in 1..Len(book[s][d]) /\ i \in 1..Len(frame[t].saved)
      BY <3>5, <3>6, TypeFacts, FrameFacts, LenProperties
    <3>8. frame[t].saved[i] # book[s][d][j]
      BY <3>7 DEF Listed
    <3> QED
      BY <3>5, <3>6, <3>8
  <2> QED
    BY <2>1
<1>5. Cardinality(A \cup B) = a + b
  <2>1. /\ Cardinality(A \cup B) = Cardinality(A) + Cardinality(B) - Cardinality(A \cap B)
        /\ Cardinality({}) = 0
    BY <1>3, FS_Union, FS_EmptySet
  <2>2. Cardinality(A) \in Nat /\ Cardinality(B) \in Nat
    BY <1>3, FS_CardinalityType
  <2>3. Cardinality(A \cap B) = 0
    BY <1>4, <2>1
  <2>4. a \in Nat /\ b \in Nat /\ Cardinality(A \cup B) = a + b - 0
    BY <1>3, <2>1, <2>2, <2>3
  <2> QED
    BY <2>4
<1>6. /\ A = UNION {ToSet(Visible(l)) : l \in Lists}
      /\ B = UNION {ToSet(frame[t].saved) : t \in Threads}
  <2>1. \A l \in Lists : Shown[l] = ToSet(Visible(l))
    BY DEF Shown
  <2>2. \A t \in Threads : Taken[t] = ToSet(frame[t].saved)
    BY DEF Taken
  <2> QED
    BY <1>1, <2>1, <2>2
<1>7. ASSUME NEW l \in Lists, NEW n \in ToSet(Visible(l))
      PROVE  objs[n].symbol = l[1] /\ objs[n].side = l[2] /\ objs[n].type = "LIMIT"
  <2>1. PICK s \in Symbols, d \in Sides : s = l[1] /\ d = l[2]
    BY <1>7 DEF Lists
  <2>2. PICK i \in DOMAIN book[s][d] : n = book[s][d][i]
    BY <1>7, <2>1 DEF ToSet, Visible
  <2>3. i \in 1..Len(book[s][d])
    BY <2>2, TypeFacts, LenProperties
  <2>4. MayList(n, s, d)
    BY <2>2, <2>3 DEF Listed
  <2> QED
    BY <2>1, <2>4 DEF MayList
<1>8. \A l \in Lists : \A n \in ToSet(Visible(l)) :
         objs[n].symbol = l[1] /\ objs[n].side = l[2] /\ objs[n].type = "LIMIT"
  BY <1>7, Zenon
<1>9. Cardinality((UNION {ToSet(Visible(l)) : l \in Lists})
                     \cup (UNION {ToSet(frame[t].saved) : t \in Threads}))
        = SumFunction([l \in Lists |-> Len(Visible(l))])
            + SumFunction([t \in Threads |-> Len(frame[t].saved)])
  BY <1>2, <1>5, <1>6, Zenon
<1> QED
  BY <1>8, <1>9, Zenon DEF HeldOnce

\* With nothing about to be added, what StaleBounded says of the fills.
LEMMA StaleBounds ==
    ASSUME TypeOK, StaleBounded
    PROVE  OverfillBounded
<1> SUFFICES ASSUME Calm, NEW n \in Orders, ~objs[n].refused
             PROVE  objs[n].filled <= Cardinality(Threads) * objs[n].qty
  BY DEF OverfillBounded, Calm
<1>1. objs[n].filled + SumOver(Threat(n), Threads) <= Cardinality(Threads) * objs[n].qty
  BY StaleForms DEF StaleAt
<1>2. \A t \in Threads : Threat(n)[t] \in Nat
  BY PendingType DEF Threat
<1>3. SumOver(Threat(n), Threads) \in Nat
  <2>1. PICK f : f = Threat(n)
    OBVIOUS
  <2> QED
    BY <1>2, <2>1, ThreadsAssumption, SumType
<1>4. objs[n].filled \in Int /\ objs[n].qty \in Int /\ Cardinality(Threads) \in Nat
  BY OrderFacts, ThreadsAssumption, FS_CardinalityType
<1>5. PICK p \in Int : p = Cardinality(Threads) * objs[n].qty
  BY <1>4
<1> QED
  BY <1>1, <1>3, <1>4, <1>5

LEMMA OutcomesCount ==
    ASSUME TypeOK, \A n \in Orders : Outcome(n)
    PROVE  OneOutcome
<1> SUFFICES ASSUME NEW n \in Orders
             PROVE  Cardinality(Answers(n)) + Cardinality(Users(n))
                      + (IF n \in failed THEN 1 ELSE 0) = 1
  BY DEF OneOutcome, Users
<1>1. Cardinality({}) = 0 /\ \A x : Cardinality({x}) = 1
  BY FS_EmptySet, FS_Singleton
<1>2. \/ \E t \in Threads : Users(n) = {t} /\ Answers(n) = {} /\ n \notin failed
      \/ \E i \in 1..Len(replies) : Users(n) = {} /\ Answers(n) = {i} /\ n \notin failed
      \/ Users(n) = {} /\ Answers(n) = {} /\ n \in failed
  BY DEF Outcome, Users
<1>3. PICK a, b : a = Cardinality(Answers(n)) /\ b = Cardinality(Users(n))
  OBVIOUS
<1>4. \/ a = 0 /\ b = 1 /\ n \notin failed
      \/ a = 1 /\ b = 0 /\ n \notin failed
      \/ a = 0 /\ b = 0 /\ n \in failed
  BY <1>1, <1>2, <1>3, Zenon
<1> QED
  BY <1>3, <1>4

-----------------------------------------------------------------------------
(* The invariant.                                                          *)

LEMMA InvParts ==
    /\ IInv => Placed
    /\ (Placed /\ SizedRight /\ OwnFillsExact /\ FillsAccounted /\ StaleBounded) => IInv
BY Zenon DEF IInv, Placed, Known

LEMMA InitPlaced == Init => Placed /\ SizedRight /\ OwnFillsExact
<1> SUFFICES ASSUME Init
             PROVE  Placed /\ SizedRight /\ OwnFillsExact
  OBVIOUS
<1>1. /\ objs = <<>> /\ tape = <<>> /\ replies = <<>> /\ failed = {} /\ contended = {}
      /\ book = [s \in Symbols |-> [d \in Sides |-> <<>>]]
      /\ bare = [s \in Symbols |-> [d \in Sides |-> TRUE]]
      /\ frame = [t \in Threads |-> Waiting]
  BY DEF Init, Sides
<1>2. Len(objs) = 0 /\ Orders = {} /\ Len(tape) = 0 /\ Len(replies) = 0
  BY <1>1, EmptySeq DEF Orders
<1>3. \A t \in Threads :
         /\ frame[t] = Waiting /\ frame[t].pc = "recv" /\ frame[t].order = 0
         /\ frame[t].trades = <<>> /\ frame[t].saved = <<>>
  BY <1>1 DEF Waiting
<1>4. TypeOK
  <2>1. Waiting \in FrameUpTo(0)
    BY WaitingTyped
  <2>2. frame \in [Threads -> Frame]
    <3>1. Frame = FrameUpTo(0)
      BY <1>2, Zenon DEF Frame, FrameUpTo, Fields, Pcs, Orders
    <3> QED
      BY <1>1, <2>1, <3>1
  <2>3. <<>> \in Seq(Orders) /\ TRUE \in BOOLEAN
    BY EmptySeq
  <2>4. /\ book \in [Symbols -> [Sides -> Seq(Orders)]]
        /\ bare \in [Symbols -> [Sides -> BOOLEAN]]
    BY <1>1, <2>3
  <2>5. /\ objs \in Seq(OrderObject) /\ tape \in Seq(Sequential!TradeRecord)
        /\ replies \in Seq(Sequential!ReplyRecord)
    BY <1>1, EmptySeq
  <2> QED
    BY <1>1, <2>2, <2>4, <2>5 DEF TypeOK
<1>5. \A t \in Threads : HandlerKnows(t)
  BY <1>3 DEF HandlerKnows, Waiting
<1>6. Listed
  <2>1. \A s \in Symbols, d \in Sides : Len(book[s][d]) = 0
    BY <1>1
  <2>2. \A t \in Threads : Len(frame[t].saved) = 0
    BY <1>3
  <2> QED
    BY <2>1, <2>2 DEF Listed
<1>7. TradesName /\ RepliesName
  <2>1. \A t \in Threads : Len(frame[t].trades) = 0
    BY <1>3
  <2> QED
    BY <1>2, <2>1 DEF TradesName, RepliesName
<1>8. \A n \in Orders : Outcome(n)
  BY <1>2
<1>9. \A t \in Threads : ~Fresh(t)
  BY <1>3 DEF Fresh
<1>10. SizedRight
  BY <1>3 DEF SizedRight
<1>11. OwnFillsExact
  BY <1>3 DEF OwnFillsExact
<1> QED
  BY <1>4, <1>5, <1>6, <1>7, <1>8, <1>9, <1>10, <1>11 DEF Placed, Known

LEMMA InitInv == Init => IInv
<1> SUFFICES ASSUME Init
             PROVE  IInv
  OBVIOUS
<1>1. Orders = {}
  BY EmptySeq DEF Init, Orders
<1>2. FillsAccounted /\ StaleBounded
  BY <1>1 DEF FillsAccounted, StaleBounded
<1> QED
  BY <1>2, InitPlaced, InvParts

LEMMA InvSame ==
    ASSUME IInv, UNCHANGED vars
    PROVE  IInv'
<1>1. /\ objs' = objs /\ book' = book /\ bare' = bare /\ tape' = tape
      /\ frame' = frame /\ replies' = replies /\ failed' = failed
      /\ contended' = contended
  BY DEF vars
<1>2. TypeOK'
  BY <1>1 DEF IInv, TypeOK, Frame, Orders
<1>3. (\A t \in Threads : HandlerKnows(t))'
  BY <1>1, Zenon DEF IInv, HandlerKnows, Mine
<1>4. TradesName' /\ RepliesName'
  BY <1>1, Zenon DEF IInv, TradesName, RepliesName, Orders
<1>5. (\A n \in Orders : Outcome(n))'
  BY <1>1 DEF IInv, Outcome, Orders, Answers
<1>6. (\A t \in Threads : Fresh(t) => Unlisted(frame[t].order))'
  BY <1>1, Zenon DEF IInv, Fresh, Unlisted
<1>7. Listed'
  BY <1>1 DEF IInv, Listed, MayList, Mine
<1>8. SizedRight' /\ OwnFillsExact'
  BY <1>1, Zenon DEF IInv, SizedRight, OwnFillsExact, Mine
<1>9. FillsAccounted'
  BY <1>1, Zenon DEF IInv, FillsAccounted, Orders
<1>10. StaleBounded'
  BY <1>1, Zenon DEF IInv, StaleBounded, NoNegativeTrade, Pending, Orders
<1> QED
  BY <1>2, <1>3, <1>4, <1>5, <1>6, <1>7, <1>8, <1>9, <1>10, Zenon DEF IInv

LEMMA InvStep == IInv /\ [Next]_vars => IInv'
<1> SUFFICES ASSUME IInv, [Next]_vars
             PROVE  IInv'
  OBVIOUS
<1>1. CASE Next
  <2>1. Placed /\ SizedRight /\ OwnFillsExact /\ FillsAccounted /\ StaleBounded
    BY InvParts DEF IInv
  <2>2. Placed'
    BY <1>1, <2>1, PlacedKept
  <2>3. SizedRight' /\ OwnFillsExact'
    BY <1>1, <2>1, OwnKept
  <2>4. FillsAccounted'
    BY <1>1, <2>1, AccountsKept
  <2>5. StaleBounded'
    BY <1>1, <2>1, StaleKept
  <2> QED
    BY <2>2, <2>3, <2>4, <2>5, Zenon DEF IInv, Placed, Known
<1>2. CASE UNCHANGED vars
  BY <1>2, InvSame
<1> QED
  BY <1>1, <1>2

\* What the handler threads leave intact in handle_order, for any number of
\* them and every interleaving: the invariant behind the theorems below.
THEOREM ThreadedInvariant == Spec => []IInv
<1> QED
  BY InitInv, InvStep, PTL DEF Spec

\* Every variable has its type: the lists of the book and the local variables of
\* match_limit_order and match_market_order name orders that were parsed.
THEOREM TypeCorrect == Spec => []TypeOK
<1>1. IInv => TypeOK
  BY DEF IInv
<1> QED
  BY <1>1, ThreadedInvariant, PTL

\* What _execute_order adds up is what the order has filled, and never more
\* than its quantity, however many threads match against the same list.
THEOREM OwnFills == Spec => []OwnFillsExact
<1>1. IInv => OwnFillsExact
  BY DEF IInv
<1> QED
  BY <1>1, ThreadedInvariant, PTL

\* As long as no handler raises, what an Order object has filled is what the
\* trades in ExchangeState.trades and in the handlers' local lists add up to:
\* the races overfill orders, but no trade is lost and none is made up.
THEOREM NothingUnaccounted == Spec => []FillsAccounted
<1>1. IInv => FillsAccounted
  BY DEF IInv
<1> QED
  BY <1>1, ThreadedInvariant, PTL

\* A stale remaining_qty overfills a resting order by one quantity for each
\* thread at most, until a handler raises or min(remaining_qty, ..) is negative.
THEOREM OverfillsBounded == Spec => []OverfillBounded
<1>1. IInv => OverfillBounded
  BY StaleBounds DEF IInv
<1> QED
  BY <1>1, ThreadedInvariant, PTL

\* Under add_bid and add_ask that sort at the same time a list may lose an
\* order, but no order is ever in two lists, or twice in one.
THEOREM NeverDoubled == Spec => []HeldOnce
<1>1. IInv => HeldOnce
  BY ListedHolds DEF IInv
<1> QED
  BY <1>1, ThreadedInvariant, PTL

\* Every request is with one handler, answered once or lost to an exception.
THEOREM OneEnd == Spec => []OneOutcome
<1>1. IInv => OneOutcome
  BY OutcomesCount DEF IInv
<1> QED
  BY <1>1, ThreadedInvariant, PTL

-----------------------------------------------------------------------------
(* Why symbols do not disturb each other: the invariant behind Isolation.  *)

Works(t, s) == ~At(t, "recv") /\ Mine(t).symbol = s

\* Sequential!Before, of two Order objects.
Precedes(o, p) ==
    \/ Sequential!Better(o.side, o.price, p.price)
    \/ o.price = p.price /\ o.ts < p.ts

\* The first n orders of a list are sorted.
SortedTo(list, n) ==
    \A i, j \in 1..n : i < j => ~Precedes(objs[list[j]], objs[list[i]])

\* A sorted list with the order of t at its end.
Extended(t, list) ==
    /\ list # <<>>
    /\ list[Len(list)] = frame[t].order
    /\ SortedTo(list, Len(list) - 1)

\* What a handler may rely on that has the books of its symbol to itself: what
\* it tested is still so when it uses it.
Undisturbed(t) ==
    LET f == frame[t]
        open == ~Sequential!FullyFilled(Mine(t))
        limit == Mine(t).type = "LIMIT"
        crosses == Sequential!Crosses(Mine(t), objs[Head(Makers(t))])
    IN  /\ f.pc \in {"peek", "take", "size", "fill", "drop"} => Makers(t) # <<>>
        /\ f.pc \in {"peek", "take", "size", "fill", "sort", "sorting"} => open
        /\ f.pc \in {"take", "size", "fill", "drop"} /\ limit => crosses
        /\ f.pc \in {"size", "fill", "drop"} => f.best = Head(Makers(t))
        /\ f.pc = "fill" =>
              f.qty = Sequential!Lesser(Sequential!Remaining(Mine(t)),
                                        Sequential!Remaining(objs[f.best]))
        /\ f.pc = "record" /\ open /\ Makers(t) # <<>> => limit /\ ~crosses
        /\ f.pc = "sort" => Extended(t, Own(t))
        /\ f.pc = "sorting" =>
              /\ Own(t) = <<>> /\ bare[Mine(t).symbol][Mine(t).side]
              /\ Extended(t, f.saved)

SoleWorker(s) ==
    \A t, u \in Threads : Works(t, s) /\ Works(u, s) => t = u

\* No handler of s has raised, and no order of s is overfilled.
WithinQty(s) ==
    \A n \in Orders : objs[n].symbol = s =>
        /\ n \notin failed /\ objs[n].filled >= 0
        /\ objs[n].refused => objs[n].filled = 0
        /\ ~objs[n].refused => objs[n].filled <= objs[n].qty

\* Lists are sorted, but for one that is about to be.
SortedLists(s) ==
    \A d \in Sides :
        \/ SortedTo(book[s][d], Len(book[s][d]))
        \/ \E t \in Threads : Works(t, s) /\ At(t, "sort") /\ Mine(t).side = d

\* Order n rests in the books of s, or is being sorted into them.
Entry(n, s, d) ==
    \/ \E i \in 1..Len(book[s][d]) : book[s][d][i] = n
    \/ \E t \in Threads : /\ Works(t, s) /\ Mine(t).side = d
                          /\ \E i \in 1..Len(frame[t].saved) : frame[t].saved[i] = n

\* Nothing filled rests, but for what is about to be popped ...
EntriesOpen(s) ==
    \A d \in Sides, n \in Orders :
        Entry(n, s, d) /\ Sequential!FullyFilled(objs[n]) =>
          \E t \in Threads : Works(t, s) /\ At(t, "drop") /\ frame[t].best = n

\* ... and what is not filled rests, but for what a handler has not put there yet.
NoneMissing(s) ==
    \A d \in Sides, n \in Orders :
        MayList(n, s, d) /\ ~Sequential!FullyFilled(objs[n]) /\ ~Entry(n, s, d) =>
          \E t \in Threads : Fresh(t) /\ frame[t].order = n

Uncrossed(s) ==
    \A b, a \in Orders :
        Entry(b, s, "BUY") /\ Entry(a, s, "SELL") => objs[b].price < objs[a].price

\* What the sequential handler keeps up, while one handler at most works on s.
Peaceful(s) ==
    /\ SoleWorker(s)
    /\ \A t \in Threads : Works(t, s) => Undisturbed(t)
    /\ WithinQty(s)
    /\ SortedLists(s)
    /\ EntriesOpen(s)
    /\ NoneMissing(s)
    /\ Uncrossed(s)

SInv == IInv /\ \A s \in Symbols \ contended : Peaceful(s)

-----------------------------------------------------------------------------
(* That invariant, step by step.                                           *)

InBook(n, s, d) == \E i \in 1..Len(book[s][d]) : book[s][d][i] = n
InSort(n, t) == \E i \in 1..Len(frame[t].saved) : frame[t].saved[i] = n

\* A handler that works on s.
LEMMA WorkerFacts ==
    ASSUME Placed, NEW s \in Symbols, NEW t \in Threads, Works(t, s)
    PROVE  /\ frame[t].order \in Orders /\ frame[t].order # 0
           /\ frame[t].pc # "recv" /\ frame[t].pc \in Pcs
           /\ Mine(t).symbol = s /\ Mine(t).side \in Sides /\ ~Mine(t).refused
           /\ Mine(t).type \in {"MARKET", "LIMIT"}
           /\ Sequential!Opposite(Mine(t).side) \in Sides
           /\ Sequential!Opposite(Mine(t).side) # Mine(t).side
           /\ Makers(t) = book[s][Sequential!Opposite(Mine(t).side)]
           /\ Own(t) = book[s][Mine(t).side]
           /\ frame[t].pc # "sorting" => frame[t].saved = <<>>
           /\ frame[t].pc \in {"sort", "sorting"} => Mine(t).type = "LIMIT"
<1>1. TypeOK /\ HandlerKnows(t)
  BY DEF Placed, Known
<1>2. frame[t].pc # "recv" /\ Mine(t).symbol = s
  BY DEF Works, At
<1>3. frame[t].order \in Orders /\ frame[t].order # 0 /\ frame[t].pc \in Pcs
  BY <1>1, <1>2, HandlerLists, FrameFacts
<1>4. Mine(t).type \in {"MARKET", "LIMIT"}
  BY <1>1, <1>3, OrderFacts DEF Mine
<1> QED
  BY <1>1, <1>2, <1>3, <1>4, HandlerLists DEF HandlerKnows, Makers, Own

\* With one handler at work, what is in the books and in its sort.
LEMMA SoleEntries ==
    ASSUME NEW s \in Symbols, NEW t \in Threads, Works(t, s), SoleWorker(s)
    PROVE  /\ \A u \in Threads : Works(u, s) <=> u = t
           /\ \A n, d : Entry(n, s, d) <=>
                          InBook(n, s, d) \/ (Mine(t).side = d /\ InSort(n, t))
<1>1. \A u \in Threads : Works(u, s) <=> u = t
  BY DEF SoleWorker
<1> QED
  BY <1>1 DEF Entry, InBook, InSort

\* A step of the one handler of s.
LEMMA WorkersStay ==
    ASSUME Placed, NEW s \in Symbols, NEW t \in Threads, Works(t, s), SoleWorker(s),
           SameOrders, \A u \in Threads \ {t} : frame'[u] = frame[u]
    PROVE  /\ \A u \in Threads \ {t} : ~Works(u, s) /\ ~Works(u, s)'
           /\ SoleWorker(s)'
           /\ \A n, d : Entry(n, s, d) <=>
                          InBook(n, s, d) \/ (Mine(t).side = d /\ InSort(n, t))
           /\ \A n, d : Entry(n, s, d)' <=>
                 InBook(n, s, d)' \/ (Works(t, s)' /\ Mine(t)'.side = d /\ InSort(n, t)')
<1>1. ASSUME NEW u \in Threads \ {t}
      PROVE  ~Works(u, s) /\ ~Works(u, s)'
  <2>1. ~Works(u, s)
    BY DEF SoleWorker
  <2>2. CASE frame[u].pc = "recv"
    BY <2>1, <2>2 DEF Works, At
  <2>3. CASE frame[u].pc # "recv"
    <3>1. TypeOK /\ HandlerKnows(u)
      BY DEF Placed, Known
    <3>2. frame[u].order \in Orders
      BY <2>3, <3>1, HandlerLists
    <3>3. Mine(u)'.symbol = Mine(u).symbol
      BY <3>2 DEF Mine, SameOrders
    <3> QED
      BY <2>1, <2>3, <3>3 DEF Works, At
  <2> QED
    BY <2>2, <2>3
<1>2. SoleWorker(s)'
  BY <1>1, Zenon DEF SoleWorker
<1>3. ASSUME NEW n, NEW d
      PROVE  Entry(n, s, d)' <=>
                 InBook(n, s, d)' \/ (Works(t, s)' /\ Mine(t)'.side = d /\ InSort(n, t)')
  BY <1>1 DEF Entry, InBook, InSort
<1> QED
  BY <1>1, <1>2, <1>3, SoleEntries

\* A step of the one handler of s that leaves orders and lists alone.
LEMMA PeaceTested ==
    ASSUME Placed, NEW s \in Symbols, NEW t \in Threads, Works(t, s), Peaceful(s),
           UNCHANGED <<objs, failed>>, \A d \in Sides : book'[s][d] = book[s][d],
           \A u \in Threads \ {t} : frame'[u] = frame[u],
           frame'[t].order = frame[t].order, frame'[t].saved = frame[t].saved,
           frame[t].pc \notin {"sort", "sorting"},
           frame'[t].pc \notin {"recv", "sort", "sorting"},
           frame[t].pc = "drop" => ~Sequential!FullyFilled(objs[frame[t].best]),
           Undisturbed(t)'
    PROVE  Peaceful(s)'
<1>1. SameOrders
  BY TypeFacts DEF SameOrders, Placed, Known
<1>2. /\ \A u \in Threads \ {t} : ~Works(u, s) /\ ~Works(u, s)'
      /\ SoleWorker(s)'
      /\ \A n, d : Entry(n, s, d) <=>
                     InBook(n, s, d) \/ (Mine(t).side = d /\ InSort(n, t))
      /\ \A n, d : Entry(n, s, d)' <=>
            InBook(n, s, d)' \/ (Works(t, s)' /\ Mine(t)'.side = d /\ InSort(n, t)')
  BY <1>1, WorkersStay DEF Peaceful
<1>3. Works(t, s)' /\ Mine(t)' = Mine(t) /\ Orders' = Orders
  BY DEF Works, At, Mine, Orders
<1>4. \A n : \A d \in Sides : Entry(n, s, d)' <=> Entry(n, s, d)
  BY <1>2, <1>3 DEF InBook, InSort
<1>5. (\A u \in Threads : Works(u, s) => Undisturbed(u))'
  BY <1>2
<1>6. WithinQty(s)'
  BY <1>3 DEF Peaceful, WithinQty
<1>7. SortedLists(s)'
  <2>1. \A d \in Sides : SortedTo(book[s][d], Len(book[s][d]))
    BY <1>2 DEF Peaceful, SortedLists, At
  <2>2. ASSUME NEW d \in Sides
        PROVE  SortedTo(book[s][d], Len(book[s][d]))'
    BY <2>1 DEF SortedTo
  <2> QED
    BY <2>2 DEF SortedLists
<1>8. EntriesOpen(s)'
  <2>1. ASSUME NEW d \in Sides, NEW n \in Orders, Entry(n, s, d)
        PROVE  ~Sequential!FullyFilled(objs[n])
    BY <1>2, <2>1 DEF Peaceful, EntriesOpen, At
  <2> QED
    BY <1>3, <1>4, <2>1 DEF EntriesOpen, Sequential!FullyFilled
<1>9. NoneMissing(s)'
  <2> SUFFICES ASSUME NEW d \in Sides, NEW n \in Orders, MayList(n, s, d)',
                      ~Sequential!FullyFilled(objs[n]), ~Entry(n, s, d)
               PROVE  \E u \in Threads : Fresh(u)' /\ frame'[u].order = n
    BY <1>3, <1>4 DEF NoneMissing, Sequential!FullyFilled
  <2>1. MayList(n, s, d)
    BY DEF MayList
  <2>2. PICK u \in Threads : Fresh(u) /\ frame[u].order = n
    BY <2>1 DEF Peaceful, NoneMissing
  <2> QED
    BY <2>2 DEF Fresh
<1>10. Uncrossed(s)'
  <2>1. "BUY" \in Sides /\ "SELL" \in Sides
    BY DEF Sides
  <2>2. Uncrossed(s)
    BY DEF Peaceful
  <2> QED
    BY <1>3, <1>4, <2>1, <2>2 DEF Uncrossed
<1> QED
  BY <1>2, <1>5, <1>6, <1>7, <1>8, <1>9, <1>10 DEF Peaceful

\* The frame of a handler of which one step changes some fields.
LEMMA PcSet ==
    ASSUME TypeOK, NEW t \in Threads, NEW pc, Goto(t, pc)
    PROVE  Walks(t, pc, frame[t].best, frame[t].qty) /\ frame'[t].pc = pc
<1>1. frame[t] \in FrameUpTo(Len(objs)) /\ frame \in [Threads -> FrameUpTo(Len(objs))]
  BY TypeFacts
<1>2. [frame[t] EXCEPT !.pc = pc] =
        [pc |-> pc, order |-> frame[t].order, best |-> frame[t].best, qty |-> frame[t].qty,
         trades |-> frame[t].trades, sum |-> frame[t].sum, saved |-> frame[t].saved]
  BY <1>1, FieldsChange
<1>3. frame' = [frame EXCEPT ![t] = [frame[t] EXCEPT !.pc = pc]]
  BY <1>1 DEF Goto
<1>4. Walks(t, pc, frame[t].best, frame[t].qty)
  BY <1>2, <1>3 DEF Walks, Becomes
<1> QED
  BY <1>4, WalksFacts

Steady(t) ==
    /\ UNCHANGED <<objs, book, bare, failed>>
    /\ frame'[t].order = frame[t].order /\ frame'[t].saved = frame[t].saved
    /\ \A u \in Threads \ {t} : frame'[u] = frame[u]

LEMMA SteadyFacts ==
    ASSUME NEW t \in Threads, Steady(t)
    PROVE  Mine(t)' = Mine(t) /\ Makers(t)' = Makers(t) /\ Own(t)' = Own(t)
BY DEF Steady, Mine, Makers, Own

LEMMA PeaceLooks ==
    ASSUME Placed, NEW s \in Symbols, NEW t \in Threads, Works(t, s), Peaceful(s), Look(t)
    PROVE  Peaceful(s)'
<1> DEFINE pc == IF Makers(t) = <<>> \/ Sequential!Remaining(Mine(t)) <= 0 THEN "record"
                 ELSE IF Mine(t).type = "LIMIT" THEN "peek" ELSE "take"
<1>1. /\ frame[t].pc = "look" /\ UNCHANGED <<objs, book, bare, failed>>
      /\ Walks(t, pc, frame[t].best, frame[t].qty)
  BY PcSet DEF Look, At, Placed, Known
<1> HIDE DEF pc
<1>2. Steady(t) /\ frame'[t].pc = pc
  BY <1>1, WalksFacts DEF Steady, Placed, Known
<1>3. /\ Mine(t)' = Mine(t) /\ Makers(t)' = Makers(t) /\ Own(t)' = Own(t)
      /\ Mine(t).qty \in Int /\ Mine(t).filled \in Int
      /\ Mine(t).type \in {"MARKET", "LIMIT"}
  BY <1>2, SteadyFacts, WorkerFacts, OrderFacts DEF Placed, Known, Mine
<1>4. Undisturbed(t)'
  <2>1. \/ pc = "record" /\ (Makers(t) = <<>> \/ Sequential!FullyFilled(Mine(t)))
        \/ pc = "peek" /\ Makers(t) # <<>> /\ ~Sequential!FullyFilled(Mine(t))
        \/ /\ pc = "take" /\ Makers(t) # <<>> /\ ~Sequential!FullyFilled(Mine(t))
           /\ Mine(t).type # "LIMIT"
    BY <1>3 DEF pc, Sequential!FullyFilled, Sequential!Remaining
  <2> QED
    BY <1>2, <1>3, <2>1 DEF Undisturbed, Sequential!FullyFilled
<1>5. pc \in {"record", "peek", "take"}
  BY DEF pc
<1> QED
  BY <1>1, <1>2, <1>4, <1>5, PeaceTested DEF Steady

LEMMA PeacePeeks ==
    ASSUME Placed, NEW s \in Symbols, NEW t \in Threads, Works(t, s), Peaceful(s), Peek(t)
    PROVE  Peaceful(s)'
<1> DEFINE crosses == Sequential!Crosses(Mine(t), objs[Head(Makers(t))])
           pc == IF crosses THEN "take" ELSE "record"
<1>1. frame[t].pc = "peek" /\ Undisturbed(t) /\ TypeOK
  BY DEF Peek, At, Peaceful, Placed, Known
<1>2. Makers(t) # <<>> /\ ~Sequential!FullyFilled(Mine(t)) /\ Mine(t).type = "LIMIT"
  BY <1>1 DEF Undisturbed, Placed, Known, HandlerKnows
<1>3. UNCHANGED <<objs, book, bare, failed>> /\ Goto(t, pc)
  BY <1>2 DEF Peek
<1>4. Walks(t, pc, frame[t].best, frame[t].qty) /\ frame'[t].pc = pc
  BY <1>1, <1>3, PcSet
<1> HIDE DEF pc
<1>5. Steady(t)
  BY <1>1, <1>3, <1>4, WalksFacts DEF Steady
<1>6. Mine(t)' = Mine(t) /\ Makers(t)' = Makers(t) /\ Own(t)' = Own(t)
  BY <1>5, SteadyFacts
<1>7. Undisturbed(t)'
  <2>1. \/ pc = "take" /\ crosses
        \/ pc = "record" /\ ~crosses
    BY DEF pc
  <2> QED
    BY <1>2, <1>3, <1>4, <1>6, <2>1
    DEF Undisturbed, Sequential!FullyFilled, Sequential!Crosses, Sequential!Better
<1>8. pc \in {"record", "take"}
  BY DEF pc
<1> QED
  BY <1>1, <1>3, <1>4, <1>5, <1>7, <1>8, PeaceTested DEF Steady

LEMMA PeaceTakes ==
    ASSUME Placed, NEW s \in Symbols, NEW t \in Threads, Works(t, s), Peaceful(s), Take(t)
    PROVE  Peaceful(s)'
<1>1. /\ frame[t].pc = "take" /\ Undisturbed(t) /\ TypeOK
      /\ UNCHANGED <<objs, book, bare, failed>>
  BY DEF Take, At, Peaceful, Placed, Known
<1>2. /\ Makers(t) # <<>> /\ ~Sequential!FullyFilled(Mine(t))
      /\ Mine(t).type = "LIMIT" => Sequential!Crosses(Mine(t), objs[Head(Makers(t))])
  BY <1>1 DEF Undisturbed
<1>3. Walks(t, "size", Head(Makers(t)), frame[t].qty)
  <2>1. frame'[t].pc = "size"
    BY <1>1, <1>2, TypeFacts DEF Take
  <2>2. ~Walks(t, "record", frame[t].best, frame[t].qty)
    BY <1>1, <2>1, WalksFacts
  <2> QED
    BY <1>1, <2>2, TakeFacts
<1>4. Steady(t) /\ frame'[t].pc = "size" /\ frame'[t].best = Head(Makers(t))
  BY <1>1, <1>3, WalksFacts DEF Steady
<1>5. Mine(t)' = Mine(t) /\ Makers(t)' = Makers(t) /\ Own(t)' = Own(t)
  BY <1>4, SteadyFacts
<1>6. Undisturbed(t)'
  BY <1>1, <1>2, <1>4, <1>5
  DEF Undisturbed, Sequential!FullyFilled, Sequential!Crosses, Sequential!Better
<1> QED
  BY <1>1, <1>4, <1>6, PeaceTested DEF Steady

LEMMA PeaceSizes ==
    ASSUME Placed, NEW s \in Symbols, NEW t \in Threads, Works(t, s), Peaceful(s), Size(t)
    PROVE  Peaceful(s)'
<1> DEFINE q == Sequential!Lesser(Sequential!Remaining(Mine(t)),
                                  Sequential!Remaining(objs[frame[t].best]))
<1>1. /\ frame[t].pc = "size" /\ Undisturbed(t) /\ TypeOK
      /\ UNCHANGED <<objs, book, bare, failed>> /\ Walks(t, "fill", frame[t].best, q)
  BY SizeFacts DEF Size, At, Peaceful, Placed, Known
<1>2. /\ Makers(t) # <<>> /\ ~Sequential!FullyFilled(Mine(t))
      /\ Mine(t).type = "LIMIT" => Sequential!Crosses(Mine(t), objs[Head(Makers(t))])
      /\ frame[t].best = Head(Makers(t))
  BY <1>1 DEF Undisturbed
<1>3. /\ Steady(t) /\ frame'[t].pc = "fill" /\ frame'[t].best = Head(Makers(t))
      /\ frame'[t].qty = q
  BY <1>1, <1>2, WalksFacts DEF Steady
<1>4. Mine(t)' = Mine(t) /\ Makers(t)' = Makers(t) /\ Own(t)' = Own(t)
  BY <1>3, SteadyFacts
<1>5. Undisturbed(t)'
  BY <1>1, <1>2, <1>3, <1>4
  DEF Undisturbed, Sequential!FullyFilled, Sequential!Crosses, Sequential!Better,
      Sequential!Lesser, Sequential!Remaining
<1> QED
  BY <1>1, <1>3, <1>5, PeaceTested DEF Steady

LEMMA PeaceRecords ==
    ASSUME Placed, NEW s \in Symbols, NEW t \in Threads, Works(t, s), Peaceful(s), Record(t)
    PROVE  Peaceful(s)'
<1>1. /\ frame[t].pc = "record" /\ Undisturbed(t) /\ TypeOK
      /\ UNCHANGED <<objs, book, bare, failed>> /\ Records(t)
  BY RecordFacts DEF Record, At, Peaceful, Placed, Known, Records
<1>2. Steady(t) /\ frame'[t].pc = "record"
  <2>1. \A u \in Threads \ {t} : frame'[u] = frame[u]
    BY <1>1, OtherFrames DEF Handles
  <2> QED
    BY <1>1, <2>1, RecordsFrame DEF Steady
<1>3. Mine(t)' = Mine(t) /\ Makers(t)' = Makers(t) /\ Own(t)' = Own(t)
  BY <1>2, SteadyFacts
<1>4. Undisturbed(t)'
  BY <1>1, <1>2, <1>3
  DEF Undisturbed, Sequential!FullyFilled, Sequential!Crosses, Sequential!Better
<1> QED
  BY <1>1, <1>2, <1>4, PeaceTested DEF Steady

\* What has something left stays at the head of its list.
LEMMA PeaceLeaves ==
    ASSUME Placed, NEW s \in Symbols, NEW t \in Threads, Works(t, s), Peaceful(s), Drop(t),
           ~Sequential!FullyFilled(objs[frame[t].best])
    PROVE  Peaceful(s)'
<1>1. /\ frame[t].pc = "drop" /\ TypeOK /\ UNCHANGED <<objs, book, bare, failed>>
      /\ Goto(t, "look")
  BY DEF Drop, At, Placed, Known
<1>2. Walks(t, "look", frame[t].best, frame[t].qty) /\ frame'[t].pc = "look"
  BY <1>1, PcSet
<1>3. Steady(t)
  BY <1>1, <1>2, WalksFacts DEF Steady
<1>4. Undisturbed(t)'
  BY <1>2 DEF Undisturbed
<1> QED
  BY <1>1, <1>2, <1>3, <1>4, PeaceTested DEF Steady

\* What orders are compared by does not change.
LEMMA SortedSame ==
    ASSUME SameOrders, NEW l, NEW n, \A i \in 1..n : l[i] \in Orders, SortedTo(l, n)
    PROVE  \A i, j \in 1..n : i < j => ~Precedes(objs'[l[j]], objs'[l[i]])
BY DEF SortedTo, SameOrders, Precedes

\* The head of the list a handler of s works at.
LEMMA WorkerHead ==
    ASSUME Placed, NEW s \in Symbols, NEW t \in Threads, Works(t, s), Makers(t) # <<>>
    PROVE  LET h == Head(Makers(t))
               e == Sequential!Opposite(Mine(t).side)
           IN  /\ h \in Orders /\ e \in Sides /\ MayList(h, s, e) /\ InBook(h, s, e)
               /\ Makers(t) = book[s][e] /\ Makers(t) \in Seq(Orders)
               /\ Len(Makers(t)) \in Nat /\ Len(Makers(t)) > 0 /\ Makers(t)[1] = h
               /\ h # frame[t].order
<1>1. /\ frame[t].pc # "recv" /\ Mine(t).symbol = s
      /\ Makers(t) = book[s][Sequential!Opposite(Mine(t).side)]
      /\ Sequential!Opposite(Mine(t).side) \in Sides
      /\ Sequential!Opposite(Mine(t).side) # Mine(t).side
  BY WorkerFacts
<1>2. Makers(t) \in Seq(Orders) /\ TypeOK
  BY <1>1, HandlerLists DEF Placed, Known
<1>3. /\ Head(Makers(t)) \in Orders
      /\ MayList(Head(Makers(t)), s, Sequential!Opposite(Mine(t).side))
  BY <1>1, HeadOfMakers DEF Placed
<1>4. /\ Len(Makers(t)) \in Nat /\ Len(Makers(t)) > 0
      /\ Makers(t)[1] = Head(Makers(t))
  BY <1>2, TailElements
<1>5. Head(Makers(t)) # frame[t].order
  BY <1>1, <1>3 DEF MayList, Mine
<1> QED
  BY <1>1, <1>2, <1>3, <1>4, <1>5 DEF InBook

LEMMA PeaceFills ==
    ASSUME Placed, NEW s \in Symbols, NEW t \in Threads, Works(t, s), Peaceful(s), FillBoth(t)
    PROVE  Peaceful(s)'
<1> DEFINE own == frame[t].order
           best == frame[t].best
           q == frame[t].qty
<1>1. /\ frame[t].pc = "fill" /\ Undisturbed(t) /\ TypeOK
  BY DEF FillBoth, At, Peaceful, Placed, Known
<1>2. /\ Makers(t) # <<>> /\ ~Sequential!FullyFilled(Mine(t))
      /\ Mine(t).type = "LIMIT" => Sequential!Crosses(Mine(t), objs[Head(Makers(t))])
      /\ best = Head(Makers(t))
      /\ q = Sequential!Lesser(Sequential!Remaining(Mine(t)),
                               Sequential!Remaining(objs[best]))
  BY <1>1 DEF Undisturbed
<1>3. /\ own \in Orders /\ own # 0 /\ Mine(t).symbol = s /\ ~Mine(t).refused
      /\ Makers(t) = book[s][Sequential!Opposite(Mine(t).side)]
      /\ frame[t].saved = <<>>
  BY <1>1, WorkerFacts
<1>4. /\ best \in Orders /\ best # own
      /\ Sequential!Opposite(Mine(t).side) \in Sides
      /\ MayList(best, s, Sequential!Opposite(Mine(t).side))
      /\ InBook(best, s, Sequential!Opposite(Mine(t).side))
  BY <1>2, WorkerHead
<1>5. /\ UNCHANGED <<book, bare, failed>> /\ Len(objs') = Len(objs)
      /\ Becomes(t, [pc |-> "drop", order |-> own, best |-> best, qty |-> q,
                     trades |-> Append(frame[t].trades, NewTrade(t)),
                     sum |-> frame[t].sum, saved |-> frame[t].saved])
      /\ \A n \in Orders : objs'[n].filled = IF n \in {own, best}
                                             THEN objs[n].filled + q ELSE objs[n].filled
  <2>1. best # 0
    BY <1>4 DEF Orders
  <2> QED
    BY <1>1, <1>3, <1>4, <2>1, FillFacts
<1>6. SameOrders
  <2>1. Fills(t)
    BY <1>1, <1>3, <1>4, FillFacts DEF Fills, Orders
  <2> QED
    BY <1>1, <2>1, HandlesSame DEF Handles
<1>7. /\ frame'[t].pc = "drop" /\ frame'[t].order = own /\ frame'[t].best = best
      /\ frame'[t].saved = <<>> /\ \A u \in Threads \ {t} : frame'[u] = frame[u]
  BY <1>1, <1>3, <1>5, BecomesFacts
<1>8. /\ \A u \in Threads \ {t} : ~Works(u, s) /\ ~Works(u, s)'
      /\ SoleWorker(s)'
      /\ \A n, d : Entry(n, s, d) <=>
                     InBook(n, s, d) \/ (Mine(t).side = d /\ InSort(n, t))
      /\ \A n, d : Entry(n, s, d)' <=>
            InBook(n, s, d)' \/ (Works(t, s)' /\ Mine(t)'.side = d /\ InSort(n, t)')
  BY <1>6, <1>7, WorkersStay DEF Peaceful
<1>9. Works(t, s)' /\ Orders' = Orders /\ Mine(t)' = objs'[own] /\ Mine(t) = objs[own]
  BY <1>3, <1>5, <1>6, <1>7 DEF Works, At, Mine, Orders, SameOrders
<1>10. \A n : \A d \in Sides : /\ Entry(n, s, d)' <=> InBook(n, s, d)
                               /\ Entry(n, s, d) <=> InBook(n, s, d)
  <2>1. \A n : ~InSort(n, t) /\ ~InSort(n, t)'
    BY <1>3, <1>7, EmptySeq DEF InSort
  <2>2. \A n, d : InBook(n, s, d)' <=> InBook(n, s, d)
    BY <1>5 DEF InBook
  <2> QED
    BY <1>8, <2>1, <2>2
<1>11. \A d \in Sides, n \in Orders : InBook(n, s, d) => objs[n].filled < objs[n].qty
  <2> SUFFICES ASSUME NEW d \in Sides, NEW n \in Orders, InBook(n, s, d)
               PROVE  ~Sequential!FullyFilled(objs[n])
    BY <1>1, OrderFacts DEF Sequential!FullyFilled
  <2> QED
    BY <1>1, <1>8, <1>10 DEF Peaceful, EntriesOpen, At
<1>12. /\ q \in Int /\ q > 0
       /\ q <= objs[own].qty - objs[own].filled /\ q <= objs[best].qty - objs[best].filled
  <2>1. objs[best].filled < objs[best].qty
    BY <1>4, <1>11
  <2>2. /\ objs[own].qty \in Int /\ objs[own].filled \in Int
        /\ objs[best].qty \in Int /\ objs[best].filled \in Int
    BY <1>1, <1>3, <1>4, OrderFacts
  <2>3. PICK a \in Int, b \in Int : /\ a = objs[own].qty - objs[own].filled
                                   /\ b = objs[best].qty - objs[best].filled
    BY <2>2
  <2>4. a > 0 /\ b > 0
    <3>1. ~(objs[own].filled >= objs[own].qty)
      BY <1>2, <1>9 DEF Sequential!FullyFilled
    <3> QED
      BY <2>1, <2>2, <2>3, <3>1
  <2>5. q = Sequential!Lesser(a, b)
    BY <1>2, <1>9, <2>3 DEF Sequential!Remaining
  <2>6. q = IF a <= b THEN a ELSE b
    BY <2>5 DEF Sequential!Lesser
  <2> QED
    BY <2>3, <2>4, <2>6
<1> HIDE DEF own, best, q
<1>13. (\A u \in Threads : Works(u, s) => Undisturbed(u))'
  <2>1. Makers(t)' = Makers(t) /\ Mine(t)'.type = Mine(t).type
        /\ Mine(t)'.price = Mine(t).price
    BY <1>3, <1>5, <1>6, <1>9 DEF SameOrders, Makers
  <2>2. objs'[best].side = objs[best].side /\ objs'[best].price = objs[best].price
    BY <1>4, <1>6 DEF SameOrders
  <2>3. Undisturbed(t)'
    BY <1>2, <1>7, <2>1, <2>2 DEF Undisturbed, Sequential!Crosses, Sequential!Better
  <2> QED
    BY <1>8, <2>3
<1>14. WithinQty(s)'
  <2> SUFFICES ASSUME NEW n \in Orders, objs'[n].symbol = s
               PROVE  /\ n \notin failed /\ objs'[n].filled >= 0
                      /\ objs'[n].refused => objs'[n].filled = 0
                      /\ ~objs'[n].refused => objs'[n].filled <= objs'[n].qty
    BY <1>5, <1>9 DEF WithinQty
  <2>1. /\ objs[n].symbol = s /\ objs'[n].refused = objs[n].refused
        /\ objs'[n].qty = objs[n].qty /\ objs[n].filled \in Int /\ objs[n].qty \in Int
    BY <1>1, <1>6, OrderFacts DEF SameOrders
  <2>2. /\ n \notin failed /\ objs[n].filled >= 0
        /\ objs[n].refused => objs[n].filled = 0
        /\ ~objs[n].refused => objs[n].filled <= objs[n].qty
    BY <2>1 DEF Peaceful, WithinQty
  <2>3. n \in {own, best} => ~objs[n].refused /\ objs[n].filled + q <= objs[n].qty
    BY <1>3, <1>4, <1>9, <1>12, <2>1 DEF MayList
  <2> QED
    BY <1>5, <1>12, <2>1, <2>2, <2>3
<1>15. SortedLists(s)'
  <2>1. ASSUME NEW d \in Sides
        PROVE  SortedTo(book[s][d], Len(book[s][d]))'
    <3>1. SortedTo(book[s][d], Len(book[s][d]))
      BY <1>1, <1>8 DEF Peaceful, SortedLists, At
    <3>2. \A i \in 1..Len(book[s][d]) : book[s][d][i] \in Orders
      BY <1>1, ListElements
    <3> QED
      BY <1>5, <1>6, <3>1, <3>2, SortedSame DEF SortedTo
  <2> QED
    BY <2>1 DEF SortedLists
<1>16. EntriesOpen(s)'
  <2> SUFFICES ASSUME NEW d \in Sides, NEW n \in Orders, InBook(n, s, d),
                      objs'[n].filled >= objs'[n].qty
               PROVE  n = best
    BY <1>7, <1>9, <1>10 DEF EntriesOpen, Sequential!FullyFilled, At
  <2>1. objs[n].filled < objs[n].qty /\ objs'[n].qty = objs[n].qty
    BY <1>6, <1>11 DEF SameOrders
  <2>2. n # own
    <3>1. Unlisted(own)
      BY <1>1, <1>3 DEF Placed, Fresh, own
    <3> QED
      BY <3>1 DEF Unlisted, InBook
  <2>3. objs[n].filled \in Int /\ objs[n].qty \in Int
    BY <1>1, OrderFacts
  <2> QED
    BY <1>5, <2>1, <2>2, <2>3
<1>17. NoneMissing(s)'
  <2> SUFFICES ASSUME NEW d \in Sides, NEW n \in Orders, MayList(n, s, d)',
                      ~(objs'[n].filled >= objs'[n].qty), ~InBook(n, s, d)
               PROVE  \E u \in Threads : Fresh(u)' /\ frame'[u].order = n
    BY <1>9, <1>10 DEF NoneMissing, Sequential!FullyFilled
  <2>1. MayList(n, s, d)
    BY <1>6 DEF MayList, SameOrders
  <2>2. ~(objs[n].filled >= objs[n].qty)
    <3>1. objs[n].filled \in Int /\ objs[n].qty \in Int /\ objs'[n].qty = objs[n].qty
      BY <1>1, <1>6, OrderFacts DEF SameOrders
    <3> QED
      BY <1>5, <1>12, <3>1
  <2>3. PICK u \in Threads : Fresh(u) /\ frame[u].order = n
    BY <1>10, <2>1, <2>2 DEF Peaceful, NoneMissing, Sequential!FullyFilled
  <2> QED
    BY <1>7, <2>3 DEF Fresh, own
<1>18. Uncrossed(s)'
  <2>1. "BUY" \in Sides /\ "SELL" \in Sides /\ Uncrossed(s)
    BY DEF Sides, Peaceful
  <2> QED
    BY <1>6, <1>9, <1>10, <2>1 DEF Uncrossed, SameOrders
<1> QED
  BY <1>8, <1>13, <1>14, <1>15, <1>16, <1>17, <1>18 DEF Peaceful

\* The order of t may come to rest among the books of s.
Joins(n, t, s, d) ==
    /\ n = frame[t].order /\ d = Mine(t).side /\ ~Sequential!FullyFilled(Mine(t))
    /\ \A m \in Orders :
          /\ d = "BUY" /\ Entry(m, s, "SELL") => Mine(t).price < objs[m].price
          /\ d = "SELL" /\ Entry(m, s, "BUY") => objs[m].price < Mine(t).price

\* A step of the one handler of s that leaves the orders as they are.
LEMMA PeaceMoved ==
    ASSUME Placed, NEW s \in Symbols, NEW t \in Threads, Works(t, s), Peaceful(s),
           UNCHANGED <<objs, failed>>, \A u \in Threads \ {t} : frame'[u] = frame[u],
           Works(t, s)' => Undisturbed(t)', SortedLists(s)',
           \A n \in Orders : \A d \in Sides :
              /\ Entry(n, s, d)' => Entry(n, s, d) \/ Joins(n, t, s, d)
              /\ Entry(n, s, d) /\ ~Sequential!FullyFilled(objs[n]) => Entry(n, s, d)',
           \A n \in Orders : \A d \in Sides :
              frame[t].pc = "drop" /\ n = frame[t].best => ~Entry(n, s, d)',
           Fresh(t) => \/ Fresh(t)' /\ frame'[t].order = frame[t].order
                       \/ Sequential!FullyFilled(Mine(t)) \/ Mine(t).type # "LIMIT"
                       \/ \A n \in Orders : \A d \in Sides :
                            n = frame[t].order /\ d = Mine(t).side => Entry(n, s, d)'
    PROVE  Peaceful(s)'
<1>1. SameOrders
  BY TypeFacts DEF SameOrders, Placed, Known
<1>2. /\ \A u \in Threads \ {t} : ~Works(u, s) /\ ~Works(u, s)'
      /\ SoleWorker(s)'
  BY <1>1, WorkersStay DEF Peaceful
<1>3. Orders' = Orders /\ frame[t].order \in Orders /\ Mine(t) = objs[frame[t].order]
  BY WorkerFacts DEF Mine, Orders
<1>4. (\A u \in Threads : Works(u, s) => Undisturbed(u))'
  BY <1>2
<1>5. WithinQty(s)'
  BY <1>3 DEF Peaceful, WithinQty
<1>6. EntriesOpen(s)'
  <2> SUFFICES ASSUME NEW d \in Sides, NEW n \in Orders, Entry(n, s, d)',
                      Sequential!FullyFilled(objs[n])
               PROVE  FALSE
    BY <1>3 DEF EntriesOpen, Sequential!FullyFilled
  <2>1. CASE Entry(n, s, d)
    <3>1. PICK u \in Threads : Works(u, s) /\ At(u, "drop") /\ frame[u].best = n
      BY <2>1 DEF Peaceful, EntriesOpen
    <3>2. u = t
      BY <1>2, <3>1
    <3> QED
      BY <3>1, <3>2 DEF At
  <2>2. CASE Joins(n, t, s, d)
    BY <1>3, <2>2 DEF Joins
  <2> QED
    BY <2>1, <2>2
<1>7. NoneMissing(s)'
  <2> SUFFICES ASSUME NEW d \in Sides, NEW n \in Orders, MayList(n, s, d)',
                      ~Sequential!FullyFilled(objs[n]), ~Entry(n, s, d)'
               PROVE  \E u \in Threads : Fresh(u)' /\ frame'[u].order = n
    BY <1>3 DEF NoneMissing, Sequential!FullyFilled
  <2>1. MayList(n, s, d) /\ ~Entry(n, s, d)
    BY DEF MayList
  <2>2. PICK u \in Threads : Fresh(u) /\ frame[u].order = n
    BY <2>1 DEF Peaceful, NoneMissing
  <2>3. CASE u # t
    BY <2>2, <2>3 DEF Fresh
  <2>4. CASE u = t
    <3>1. Mine(t) = objs[n] /\ objs[n].type = "LIMIT" /\ objs[n].side = d
      BY <1>3, <2>1, <2>2, <2>4 DEF MayList
    <3> QED
      BY <2>2, <2>4, <3>1
  <2> QED
    BY <2>3, <2>4
<1>8. Uncrossed(s)'
  <2> SUFFICES ASSUME NEW b \in Orders, NEW a \in Orders,
                      Entry(b, s, "BUY")', Entry(a, s, "SELL")'
               PROVE  objs[b].price < objs[a].price
    BY <1>3 DEF Uncrossed
  <2>1. "BUY" \in Sides /\ "SELL" \in Sides /\ Uncrossed(s)
    BY DEF Sides, Peaceful
  <2>2. CASE Entry(b, s, "BUY") /\ Entry(a, s, "SELL")
    BY <2>1, <2>2 DEF Uncrossed
  <2>3. CASE Joins(b, t, s, "BUY") /\ Entry(a, s, "SELL")
    BY <1>3, <2>3 DEF Joins
  <2>4. CASE Entry(b, s, "BUY") /\ Joins(a, t, s, "SELL")
    BY <1>3, <2>4 DEF Joins
  <2>5. ~(Joins(b, t, s, "BUY") /\ Joins(a, t, s, "SELL"))
    BY DEF Joins
  <2> QED
    BY <2>1, <2>2, <2>3, <2>4, <2>5
<1> QED
  BY <1>2, <1>4, <1>5, <1>6, <1>7, <1>8 DEF Peaceful

LEMMA SortedTail ==
    ASSUME NEW l \in Seq(Orders), l # <<>>, SortedTo(l, Len(l))
    PROVE  SortedTo(Tail(l), Len(Tail(l)))
<1>1. /\ Len(Tail(l)) = Len(l) - 1 /\ Len(l) \in Nat
      /\ \A i \in 1..Len(Tail(l)) : i + 1 \in 1..Len(l) /\ Tail(l)[i] = l[i + 1]
  BY TailElements
<1> SUFFICES ASSUME NEW i \in 1..Len(Tail(l)), NEW j \in 1..Len(Tail(l)), i < j
             PROVE  ~Precedes(objs[Tail(l)[j]], objs[Tail(l)[i]])
  BY DEF SortedTo
<1>2. i + 1 < j + 1
  OBVIOUS
<1> QED
  BY <1>1, <1>2 DEF SortedTo

\* What is filled goes, and nothing else.
LEMMA PeacePops ==
    ASSUME Placed, NEW s \in Symbols, NEW t \in Threads, Works(t, s), Peaceful(s), Drop(t),
           Sequential!FullyFilled(objs[frame[t].best])
    PROVE  Peaceful(s)'
<1>0. PICK h, e : h = Head(Makers(t)) /\ e = Sequential!Opposite(Mine(t).side)
  OBVIOUS
<1>1. frame[t].pc = "drop" /\ TypeOK /\ Undisturbed(t) /\ Listed
  BY DEF Drop, At, Placed, Known, Peaceful
<1>2. Makers(t) # <<>> /\ frame[t].best = h
  BY <1>0, <1>1 DEF Undisturbed
<1>3. /\ UNCHANGED <<objs, bare, failed>> /\ Goto(t, "look")
      /\ book' = [book EXCEPT ![Mine(t).symbol][e] = Tail(@)]
  BY <1>0, <1>2 DEF Drop
<1>4. /\ h \in Orders /\ e \in Sides /\ MayList(h, s, e) /\ InBook(h, s, e)
      /\ Makers(t) = book[s][e] /\ Makers(t) \in Seq(Orders)
      /\ Len(Makers(t)) \in Nat /\ Len(Makers(t)) > 0 /\ Makers(t)[1] = h
  BY <1>0, <1>2, WorkerHead
<1>5. Mine(t).symbol = s /\ frame[t].saved = <<>>
  BY <1>1, WorkerFacts
<1>6. /\ frame'[t].pc = "look" /\ frame'[t].order = frame[t].order
      /\ frame'[t].saved = <<>> /\ \A u \in Threads \ {t} : frame'[u] = frame[u]
  BY <1>1, <1>3, <1>5, PcSet, WalksFacts
<1>7. SameOrders
  BY <1>1, <1>3, TypeFacts DEF SameOrders
<1>8. PICK l \in Seq(Orders) : l = book[s][e] /\ l # <<>> /\ l[1] = h /\ Len(l) \in Nat
                               /\ Len(l) > 0
  BY <1>2, <1>4
<1>9. PICK r \in Seq(Orders) : r = Tail(l) /\ Len(r) = Len(l) - 1
        /\ \A i \in 1..Len(r) : i + 1 \in 1..Len(l) /\ r[i] = l[i + 1]
  <2>1. /\ Tail(l) \in Seq(Orders) /\ Len(Tail(l)) = Len(l) - 1
        /\ \A i \in 1..Len(Tail(l)) : i + 1 \in 1..Len(l) /\ Tail(l)[i] = l[i + 1]
    BY <1>8, TailElements
  <2> QED
    BY <2>1
<1>10. \A d \in Sides : book'[s][d] = IF d = e THEN r ELSE book[s][d]
  <2>1. Puts(s, e, r)
    BY <1>3, <1>5, <1>8, <1>9 DEF Puts
  <2> QED
    BY <1>1, <1>4, <2>1, PutsFacts
<1>11. \A i, j \in 1..Len(l) : l[i] = l[j] => i = j
  BY <1>1, <1>4, <1>8 DEF Listed
<1>12. \A n : InBook(n, s, e)' <=> InBook(n, s, e) /\ n # h
  <2>0. book'[s][e] = r /\ book[s][e] = l
    BY <1>4, <1>8, <1>10
  <2> SUFFICES ASSUME NEW n
               PROVE  (\E i \in 1..Len(r) : r[i] = n) <=>
                        (\E i \in 1..Len(l) : l[i] = n) /\ n # h
    BY <2>0, Zenon DEF InBook
  <2>1. ASSUME NEW i \in 1..Len(r)
        PROVE  r[i] # h /\ \E j \in 1..Len(l) : l[j] = r[i]
    <3>1. i + 1 # 1 /\ i + 1 \in 1..Len(l) /\ 1 \in 1..Len(l)
      BY <1>8, <1>9
    <3> QED
      BY <1>8, <1>9, <1>11, <3>1
  <2>2. ASSUME NEW i \in 1..Len(l), l[i] # h
        PROVE  \E j \in 1..Len(r) : r[j] = l[i]
    <3>1. i # 1
      BY <1>8, <2>2
    <3>2. i - 1 \in 1..Len(r) /\ (i - 1) + 1 = i
      BY <1>8, <1>9, <3>1
    <3> QED
      BY <1>9, <3>2
  <2> QED
    BY <2>1, <2>2
<1>13. /\ \A n, d : Entry(n, s, d) <=>
                      InBook(n, s, d) \/ (Mine(t).side = d /\ InSort(n, t))
       /\ \A n, d : Entry(n, s, d)' <=>
             InBook(n, s, d)' \/ (Works(t, s)' /\ Mine(t)'.side = d /\ InSort(n, t)')
       /\ \A u \in Threads \ {t} : ~Works(u, s)
  BY <1>6, <1>7, WorkersStay DEF Peaceful
<1>14. \A n : \A d \in Sides : /\ Entry(n, s, d) <=> InBook(n, s, d)
                               /\ Entry(n, s, d)' <=> InBook(n, s, d) /\ ~(n = h /\ d = e)
  <2>1. \A n : ~InSort(n, t) /\ ~InSort(n, t)'
    BY <1>5, <1>6, EmptySeq DEF InSort
  <2>2. \A n : \A d \in Sides : d # e => (InBook(n, s, d)' <=> InBook(n, s, d))
    BY <1>10 DEF InBook
  <2> QED
    BY <1>12, <1>13, <2>1, <2>2
<1>15. SortedLists(s)'
  <2>1. \A d \in Sides : SortedTo(book[s][d], Len(book[s][d]))
    BY <1>1, <1>13 DEF Peaceful, SortedLists, At
  <2>2. ASSUME NEW d \in Sides
        PROVE  SortedTo(book[s][d], Len(book[s][d]))'
    <3>1. SortedTo(book'[s][d], Len(book'[s][d]))
      BY <1>4, <1>8, <1>9, <1>10, <2>1, SortedTail
    <3> QED
      BY <1>3, <3>1 DEF SortedTo
  <2> QED
    BY <2>2 DEF SortedLists
<1>16. Undisturbed(t)'
  BY <1>6 DEF Undisturbed
<1>17. \A d \in Sides : ~Entry(h, s, d)'
  <2> SUFFICES ASSUME NEW d \in Sides, InBook(h, s, d)
               PROVE  d = e
    BY <1>14
  <2>1. PICK i \in 1..Len(book[s][d]) : book[s][d][i] = h
    BY DEF InBook
  <2>2. MayList(h, s, d)
    BY <1>1, <2>1 DEF Listed
  <2> QED
    BY <1>4, <2>2 DEF MayList
<1>18. Fresh(t)' /\ frame'[t].order = frame[t].order
  <2>1. frame[t].order # 0
    BY WorkerFacts
  <2> QED
    BY <1>6, <2>1 DEF Fresh
<1>19. Sequential!FullyFilled(objs[h])
  BY <1>2
<1> QED
  BY <1>2, <1>3, <1>6, <1>14, <1>15, <1>16, <1>17, <1>18, <1>19, PeaceMoved

\* An order with nothing left, or a MARKET order, leaves the books as they are.
LEMMA PeaceFinishes ==
    ASSUME Placed, NEW s \in Symbols, NEW t \in Threads, Works(t, s), Peaceful(s), Finish(t)
    PROVE  Peaceful(s)'
<1>1. /\ frame[t].pc = "record" /\ TypeOK /\ UNCHANGED <<objs, book, bare, failed>>
      /\ Becomes(t, Waiting)
      /\ Mine(t).type # "LIMIT" \/ Sequential!FullyFilled(Mine(t))
  <2>1. TypeOK
    BY DEF Placed, Known
  <2>2. /\ frame[t].pc = "record" /\ UNCHANGED <<objs, book, bare, failed>>
        /\ Becomes(t, Waiting)
    BY <2>1, FinishFacts DEF Answers1
  <2> QED
    BY <2>1, <2>2 DEF Finish
<1>2. frame'[t] = Waiting /\ \A u \in Threads \ {t} : frame'[u] = frame[u]
  BY <1>1, BecomesFacts
<1>3. frame'[t].pc = "recv" /\ frame'[t].saved = <<>> /\ frame[t].saved = <<>>
  BY <1>1, <1>2, WorkerFacts DEF Waiting
<1>4. SameOrders
  BY <1>1, TypeFacts DEF SameOrders
<1>5. /\ \A n, d : Entry(n, s, d) <=>
                      InBook(n, s, d) \/ (Mine(t).side = d /\ InSort(n, t))
      /\ \A n, d : Entry(n, s, d)' <=>
             InBook(n, s, d)' \/ (Works(t, s)' /\ Mine(t)'.side = d /\ InSort(n, t)')
      /\ \A u \in Threads \ {t} : ~Works(u, s)
  BY <1>2, <1>4, WorkersStay DEF Peaceful
<1>6. \A n, d : Entry(n, s, d)' <=> Entry(n, s, d)
  <2>1. \A n : ~InSort(n, t)
    BY <1>3, EmptySeq DEF InSort
  <2>2. ~Works(t, s)'
    BY <1>3 DEF Works, At
  <2>3. \A n, d : InBook(n, s, d)' <=> InBook(n, s, d)
    BY <1>1 DEF InBook
  <2> QED
    BY <1>5, <2>1, <2>2, <2>3
<1>7. SortedLists(s)'
  <2>1. \A d \in Sides : SortedTo(book[s][d], Len(book[s][d]))
    BY <1>1, <1>5 DEF Peaceful, SortedLists, At
  <2>2. ASSUME NEW d \in Sides
        PROVE  SortedTo(book[s][d], Len(book[s][d]))'
    BY <1>1, <2>1 DEF SortedTo
  <2> QED
    BY <2>2 DEF SortedLists
<1>8. ~Works(t, s)'
  BY <1>3 DEF Works, At
<1> QED
  BY <1>1, <1>2, <1>6, <1>7, <1>8, PeaceMoved

\* What a sort leaves is sorted, and is what it took.
LEMMA SortLeaves ==
    ASSUME Known, NEW t \in Threads, frame[t].pc = "sorting",
           NEW l, l = Sequential!StableSort(frame[t].saved)
    PROVE  /\ l \in Seq(Orders) /\ SortedTo(l, Len(l))
           /\ \A n : (\E i \in 1..Len(l) : l[i] = n) <=> InSort(n, t)
<1>1. PICK old \in Seq(Orders), m \in Nat : old = frame[t].saved /\ m = Len(old)
  BY FrameFacts DEF Known
<1> DEFINE rank(k) == Sequential!StableRank(old, k)
<1>2. /\ l \in Seq(Orders) /\ Len(l) = m
      /\ \A k \in 1..m : rank(k) \in 1..m /\ l[k] = old[rank(k)]
      /\ \A j, k \in 1..m : rank(j) = rank(k) => j = k
      /\ \A j, k \in 1..m : j < k => ~Sequential!Before(l[k], l[j])
  BY <1>1, SavedSorts
<1> HIDE DEF rank
<1>3. SortedTo(l, Len(l))
  <2> SUFFICES ASSUME NEW j \in 1..m, NEW k \in 1..m, j < k
               PROVE  ~Precedes(objs[l[k]], objs[l[j]])
    BY <1>2 DEF SortedTo
  <2>1. l[k] \in Orders /\ l[j] \in Orders
    BY <1>2, ElementOfSeq
  <2>2. ~Sequential!Before(l[k], l[j]) /\ TypeOK
    BY <1>2 DEF Known
  <2> QED
    BY <2>1, <2>2, ViewFacts DEF Precedes, Sequential!Better
<1>4. \A i \in 1..m : \E k \in 1..m : rank(k) = i
  <2> DEFINE S == 1..m
             f == [k \in S |-> rank(k)]
  <2>1. f \in [S -> S] /\ \A j, k \in S : f[j] = f[k] => j = k
    BY <1>2
  <2>2. IsFiniteSet(S)
    BY FS_Interval
  <2>3. f \in Injection(S, S)
    BY <2>1 DEF Injection, IsInjective
  <2> HIDE DEF S
  <2>4. f \in Surjection(S, S)
    BY <2>2, <2>3, FS_Injection
  <2>5. \A i \in S : \E k \in S : f[k] = i
    BY <2>4 DEF Surjection
  <2> QED
    BY <2>5 DEF S
<1>5. ASSUME NEW n
      PROVE  (\E i \in 1..m : l[i] = n) <=> (\E i \in 1..m : old[i] = n)
  <2>1. \A i \in 1..m : \E k \in 1..m : l[i] = old[k]
    BY <1>2
  <2>2. \A i \in 1..m : \E k \in 1..m : l[k] = old[i]
    <3> TAKE i \in 1..m
    <3>1. PICK k \in 1..m : rank(k) = i
      BY <1>4
    <3>2. l[k] = old[i]
      BY <1>2, <3>1
    <3> QED
      BY <3>2
  <2> QED
    BY <2>1, <2>2, ZenonT(60)
<1> QED
  BY <1>1, <1>2, <1>3, <1>5, Zenon DEF InSort

\* The order with something left is put behind the others.
LEMMA PeaceRests ==
    ASSUME Placed, NEW s \in Symbols, NEW t \in Threads, Works(t, s), Peaceful(s), Rest(t)
    PROVE  Peaceful(s)'
<1>1. PICK own, d0, e : /\ own = frame[t].order /\ d0 = Mine(t).side
                        /\ e = Sequential!Opposite(Mine(t).side)
  OBVIOUS
<1>2. /\ TypeOK /\ HandlerKnows(t) /\ Undisturbed(t) /\ Listed
      /\ ~Sequential!FullyFilled(Mine(t))
  BY DEF Placed, Known, Peaceful, Rest
<1>3. /\ own \in Orders /\ own # 0 /\ d0 \in Sides /\ e \in Sides
      /\ Mine(t).symbol = s /\ Mine(t) = objs[own]
      /\ Makers(t) = book[s][e] /\ Own(t) = book[s][d0]
      /\ e = Sequential!Opposite(d0)
  BY <1>1, WorkerFacts DEF Mine
<1>4. /\ frame[t].pc = "record" /\ Mine(t).type = "LIMIT"
      /\ UNCHANGED <<objs, failed>> /\ Puts(s, d0, Append(book[s][d0], own))
      /\ Walks(t, "sort", frame[t].best, frame[t].qty)
  BY <1>1, <1>2, <1>3, RestFacts DEF Untouched
<1>5. /\ frame'[t].pc = "sort" /\ frame'[t].order = own /\ frame[t].saved = <<>>
      /\ frame'[t].saved = <<>> /\ \A u \in Threads \ {t} : frame'[u] = frame[u]
  BY <1>1, <1>2, <1>4, WorkerFacts, WalksFacts
<1>6. SameOrders
  BY <1>2, <1>4, TypeFacts DEF SameOrders
<1>7. PICK l \in Seq(Orders) : l = book[s][d0] /\ Len(l) \in Nat
  BY <1>2, <1>3, TypeFacts
<1>8. PICK r : /\ r = Append(l, own) /\ r \in Seq(Orders) /\ Len(r) = Len(l) + 1
               /\ \A i \in 1..Len(l) : r[i] = l[i]
               /\ r[Len(l) + 1] = own
               /\ \A i \in 1..Len(r) : (i \in 1..Len(l) /\ r[i] = l[i]) \/ r[i] = own
  <2>1. /\ Append(l, own) \in Seq(Orders) /\ Len(Append(l, own)) = Len(l) + 1
        /\ \A i \in 1..Len(l) : Append(l, own)[i] = l[i]
        /\ Append(l, own)[Len(l) + 1] = own
        /\ \A i \in 1..Len(Append(l, own)) :
              \/ i \in 1..Len(l) /\ Append(l, own)[i] = l[i]
              \/ Append(l, own)[i] = own
    BY <1>3, <1>7, AppendElements
  <2> QED
    BY <2>1
<1>9. \A d \in Sides : book'[s][d] = IF d = d0 THEN r ELSE book[s][d]
  <2>1. TypeOK /\ d0 \in Sides /\ r \in Seq(Orders)
    BY <1>2, <1>3, <1>8
  <2>2. Puts(s, d0, r)
    BY <1>4, <1>7, <1>8
  <2>3. \A c \in Symbols, d \in Sides :
           book'[c][d] = IF c = s /\ d = d0 THEN r ELSE book[c][d]
    BY <2>1, <2>2, PutsFacts
  <2> QED
    BY <2>3
<1>10. \A n : InBook(n, s, d0)' <=> InBook(n, s, d0) \/ n = own
  <2>0. book'[s][d0] = r /\ book[s][d0] = l
    BY <1>3, <1>7, <1>9
  <2> SUFFICES ASSUME NEW n
               PROVE  (\E i \in 1..Len(r) : r[i] = n) <=>
                        (\E i \in 1..Len(l) : l[i] = n) \/ n = own
    BY <2>0, Zenon DEF InBook
  <2>1. Len(l) + 1 \in 1..Len(r) /\ \A i \in 1..Len(l) : i \in 1..Len(r)
    BY <1>7, <1>8
  <2> QED
    BY <1>8, <2>1
<1>11. /\ \A n, d : Entry(n, s, d) <=>
                      InBook(n, s, d) \/ (Mine(t).side = d /\ InSort(n, t))
       /\ \A n, d : Entry(n, s, d)' <=>
             InBook(n, s, d)' \/ (Works(t, s)' /\ Mine(t)'.side = d /\ InSort(n, t)')
       /\ \A u \in Threads \ {t} : ~Works(u, s)
  BY <1>5, <1>6, WorkersStay DEF Peaceful
<1>12. \A n : \A d \in Sides :
          /\ Entry(n, s, d) <=> InBook(n, s, d)
          /\ Entry(n, s, d)' <=> InBook(n, s, d) \/ (n = own /\ d = d0)
  <2>1. \A n : ~InSort(n, t) /\ ~InSort(n, t)'
    BY <1>5, EmptySeq DEF InSort
  <2>2. \A n : \A d \in Sides : d # d0 => (InBook(n, s, d)' <=> InBook(n, s, d))
    BY <1>9 DEF InBook
  <2> QED
    BY <1>10, <1>11, <2>1, <2>2
<1>13. \A d \in Sides : SortedTo(book[s][d], Len(book[s][d]))
  BY <1>4, <1>11 DEF Peaceful, SortedLists, At
<1>14. \A m \in Orders :
          /\ d0 = "BUY" /\ Entry(m, s, "SELL") => objs[own].price < objs[m].price
          /\ d0 = "SELL" /\ Entry(m, s, "BUY") => objs[m].price < objs[own].price
  <2> SUFFICES ASSUME NEW m \in Orders, InBook(m, s, e)
               PROVE  /\ d0 = "BUY" => objs[own].price < objs[m].price
                      /\ d0 = "SELL" => objs[m].price < objs[own].price
    BY <1>3, <1>12 DEF Sequential!Opposite, Sides
  <2>1. PICK k \in Seq(Orders) : k = Makers(t) /\ Len(k) \in Nat
    BY <1>2, <1>3, TypeFacts
  <2>2. PICK i \in 1..Len(k) : k[i] = m
    BY <1>3, <2>1 DEF InBook
  <2>3. k # <<>>
    BY <2>2, EmptySeq
  <2>4. PICK h : /\ h = Head(Makers(t)) /\ h \in Orders /\ MayList(h, s, e)
                 /\ k[1] = h /\ 1 \in 1..Len(k)
    BY <1>1, <2>1, <2>3, WorkerHead
  <2>5. ~Sequential!Crosses(objs[own], objs[h])
    BY <1>2, <1>3, <1>4, <2>1, <2>3, <2>4 DEF Undisturbed
  <2>6. Sequential!Better(e, objs[own].price, objs[h].price)
    BY <2>4, <2>5 DEF Sequential!Crosses, MayList
  <2>7. objs[m].side = e
    BY <1>2, <1>3, <2>1, <2>2 DEF Listed, MayList
  <2>8. i = 1 \/ ~Sequential!Better(e, objs[m].price, objs[h].price)
    <3>1. SortedTo(k, Len(k))
      BY <1>3, <1>13, <2>1
    <3>2. i = 1 \/ 1 < i
      BY <2>1, <2>2
    <3>3. 1 < i => ~Precedes(objs[k[i]], objs[k[1]])
      BY <2>2, <2>4, <3>1 DEF SortedTo
    <3> QED
      BY <2>2, <2>4, <2>7, <3>2, <3>3 DEF Precedes
  <2>9. PICK a \in Int, b \in Int, c \in Int :
          a = objs[own].price /\ b = objs[h].price /\ c = objs[m].price
    BY <1>2, <1>3, <2>4, OrderFacts
  <2>10. i = 1 => b = c
    BY <2>2, <2>4, <2>9
  <2>11. /\ IF e = "BUY" THEN a > b ELSE a < b
         /\ i = 1 \/ ~(IF e = "BUY" THEN c > b ELSE c < b)
    BY <2>6, <2>8, <2>9 DEF Sequential!Better
  <2>12. /\ d0 = "BUY" => e = "SELL"
         /\ d0 = "SELL" => e = "BUY"
    BY <1>3 DEF Sequential!Opposite
  <2> QED
    BY <2>9, <2>10, <2>11, <2>12
<1>15. Joins(own, t, s, d0)
  BY <1>1, <1>2, <1>3, <1>14 DEF Joins
<1>16. Undisturbed(t)'
  <2>1. Own(t)' = r /\ Mine(t)' = Mine(t)
    BY <1>1, <1>3, <1>4, <1>5, <1>9, SMTT(30) DEF Own, Mine
  <2>2. r # <<>> /\ r[Len(r)] = own
    BY <1>7, <1>8, EmptySeq
  <2>3. SortedTo(r, Len(r) - 1)
    <3>1. SortedTo(l, Len(l)) /\ Len(r) - 1 = Len(l)
      BY <1>3, <1>7, <1>8, <1>13
    <3> QED
      BY <1>8, <3>1 DEF SortedTo
  <2>4. SortedTo(r, Len(r) - 1)'
    <3>1. \A i, j \in 1..(Len(r) - 1) : i < j => ~Precedes(objs'[r[j]], objs'[r[i]])
      BY <1>4, <2>3 DEF SortedTo
    <3> QED
      BY <3>1 DEF SortedTo
  <2>5. Extended(t, r)'
    BY <1>5, <2>2, <2>4 DEF Extended
  <2>6. Extended(t, Own(t))'
    BY <2>1, <2>5, Zenon DEF Extended
  <2>7. ~Sequential!FullyFilled(Mine(t))'
    BY <1>2, <2>1 DEF Sequential!FullyFilled
  <2> QED
    BY <1>5, <2>6, <2>7 DEF Undisturbed
<1>17. SortedLists(s)'
  <2>1. Works(t, s)' /\ At(t, "sort")' /\ Mine(t)'.side = d0
    BY <1>1, <1>3, <1>4, <1>5 DEF Works, At, Mine
  <2>2. ASSUME NEW d \in Sides, d # d0
        PROVE  SortedTo(book[s][d], Len(book[s][d]))'
    BY <1>4, <1>9, <1>13, <2>2 DEF SortedTo
  <2> QED
    BY <2>1, <2>2 DEF SortedLists
<1> QED
  BY <1>1, <1>3, <1>4, <1>5, <1>12, <1>15, <1>16, <1>17, PeaceMoved

\* The sort takes the list.
LEMMA PeaceBegins ==
    ASSUME Placed, NEW s \in Symbols, NEW t \in Threads, Works(t, s), Peaceful(s), SortBegin(t)
    PROVE  Peaceful(s)'
<1>1. PICK own, d0 : own = frame[t].order /\ d0 = Mine(t).side
  OBVIOUS
<1>2. /\ TypeOK /\ HandlerKnows(t) /\ Undisturbed(t) /\ frame[t].pc = "sort"
  BY DEF Placed, Known, Peaceful, SortBegin, At
<1>3. /\ own \in Orders /\ own # 0 /\ d0 \in Sides
      /\ Mine(t).symbol = s /\ Mine(t) = objs[own]
      /\ Own(t) = book[s][d0]
  BY <1>1, WorkerFacts DEF Mine
<1>4. ~Sequential!FullyFilled(Mine(t)) /\ Extended(t, Own(t)) /\ Own(t) # <<>>
  BY <1>2 DEF Undisturbed, Extended
<1>5. PICK l \in Seq(Orders) : l = book[s][d0] /\ l = Own(t)
  BY <1>2, <1>3, TypeFacts
<1>6. /\ UNCHANGED <<objs, failed>> /\ Puts(s, d0, <<>>)
      /\ bare' = [bare EXCEPT ![s][d0] = TRUE]
  BY <1>1, <1>3, <1>4 DEF SortBegin, Puts
<1>7. Becomes(t, [pc |-> "sorting", order |-> frame[t].order, best |-> frame[t].best,
                  qty |-> frame[t].qty, trades |-> frame[t].trades, sum |-> frame[t].sum,
                  saved |-> l])
  <2>1. frame' = [frame EXCEPT ![t] = [frame[t] EXCEPT !.pc = "sorting", !.saved = l]]
    BY <1>4, <1>5 DEF SortBegin
  <2>2. frame[t] \in FrameUpTo(Len(objs))
    BY <1>2, TypeFacts
  <2>3. [frame[t] EXCEPT !.pc = "sorting", !.saved = l] =
          [pc |-> "sorting", order |-> frame[t].order, best |-> frame[t].best,
           qty |-> frame[t].qty, trades |-> frame[t].trades, sum |-> frame[t].sum,
           saved |-> l]
    BY <2>2, FieldsChange, Zenon
  <2> QED
    BY <2>1, <2>3, Zenon DEF Becomes
<1>8. /\ frame'[t].pc = "sorting" /\ frame'[t].order = own /\ frame[t].saved = <<>>
      /\ frame'[t].saved = l /\ \A u \in Threads \ {t} : frame'[u] = frame[u]
  BY <1>1, <1>2, <1>7, WorkerFacts, BecomesFacts
<1>9. SameOrders
  BY <1>2, <1>6, TypeFacts DEF SameOrders
<1>10. \A d \in Sides : book'[s][d] = IF d = d0 THEN <<>> ELSE book[s][d]
  <2>1. PICK z \in Seq(Orders) : z = <<>>
    BY EmptySeq
  <2>2. Puts(s, d0, z)
    BY <1>6, <2>1
  <2>3. \A c \in Symbols, d \in Sides :
           book'[c][d] = IF c = s /\ d = d0 THEN z ELSE book[c][d]
    BY <1>2, <1>3, <2>2, PutsFacts
  <2> QED
    BY <2>1, <2>3
<1>11. bare'[s][d0]
  BY <1>2, <1>3, <1>6, TypeParts
<1>12. /\ \A n, d : Entry(n, s, d) <=>
                      InBook(n, s, d) \/ (Mine(t).side = d /\ InSort(n, t))
       /\ \A n, d : Entry(n, s, d)' <=>
             InBook(n, s, d)' \/ (Works(t, s)' /\ Mine(t)'.side = d /\ InSort(n, t)')
       /\ \A u \in Threads \ {t} : ~Works(u, s)
  BY <1>8, <1>9, WorkersStay DEF Peaceful
<1>13. Works(t, s)' /\ Mine(t)' = Mine(t) /\ At(t, "sorting")'
  BY <1>1, <1>3, <1>6, <1>8 DEF Works, At, Mine
<1>14. \A n : \A d \in Sides : Entry(n, s, d)' <=> Entry(n, s, d)
  <2>1. \A n : /\ ~InSort(n, t) /\ (InSort(n, t)' <=> InBook(n, s, d0))
               /\ ~InBook(n, s, d0)'
    <3>1. book'[s][d0] = <<>> /\ book[s][d0] = l
      BY <1>3, <1>5, <1>10
    <3> QED
      BY <1>8, <3>1, EmptySeq DEF InSort, InBook
  <2>2. \A n : \A d \in Sides : d # d0 => (InBook(n, s, d)' <=> InBook(n, s, d))
    BY <1>10 DEF InBook
  <2> QED
    BY <1>1, <1>12, <1>13, <2>1, <2>2
<1>15. Undisturbed(t)'
  <2>1. Extended(t, l)'
    <3>1. /\ l # <<>> /\ l[Len(l)] = own /\ SortedTo(l, Len(l) - 1)
      BY <1>1, <1>4, <1>5 DEF Extended
    <3>2. \A i, j \in 1..(Len(l) - 1) : i < j => ~Precedes(objs'[l[j]], objs'[l[i]])
      BY <1>6, <3>1 DEF SortedTo
    <3>3. SortedTo(l, Len(l) - 1)'
      BY <3>2 DEF SortedTo
    <3> QED
      BY <1>8, <3>1, <3>3 DEF Extended
  <2>2. Extended(t, frame[t].saved)'
    BY <1>8, <2>1, Zenon DEF Extended
  <2>3. Own(t)' = <<>> /\ bare'[Mine(t)'.symbol][Mine(t)'.side]
    BY <1>1, <1>3, <1>10, <1>11, <1>13 DEF Own
  <2>4. ~Sequential!FullyFilled(Mine(t))'
    BY <1>4, <1>13 DEF Sequential!FullyFilled
  <2> QED
    BY <1>8, <2>2, <2>3, <2>4 DEF Undisturbed
<1>16. SortedLists(s)'
  <2>1. ASSUME NEW d \in Sides, d # d0
        PROVE  SortedTo(book[s][d], Len(book[s][d]))
    BY <1>1, <1>12, <2>1 DEF Peaceful, SortedLists
  <2>2. ASSUME NEW d \in Sides
        PROVE  SortedTo(book[s][d], Len(book[s][d]))'
    <3>1. CASE d = d0
      <4>1. book'[s][d] = <<>> /\ Len(<<>>) = 0
        BY <1>10, <3>1
      <4> QED
        BY <4>1 DEF SortedTo
    <3>2. CASE d # d0
      <4>1. book'[s][d] = book[s][d]
        BY <1>10, <3>2
      <4> QED
        BY <1>6, <2>1, <3>2, <4>1 DEF SortedTo
    <3> QED
      BY <3>1, <3>2
  <2> QED
    BY <2>2 DEF SortedLists
<1>17. ~Fresh(t) /\ frame[t].pc # "drop"
  BY <1>2 DEF Fresh
<1> QED
  BY <1>6, <1>8, <1>14, <1>15, <1>16, <1>17, PeaceMoved

\* The sort gives the list back, sorted.
LEMMA PeaceEnds ==
    ASSUME Placed, NEW s \in Symbols, NEW t \in Threads, Works(t, s), Peaceful(s), SortEnd(t)
    PROVE  Peaceful(s)'
<1>1. PICK own, d0 : own = frame[t].order /\ d0 = Mine(t).side
  OBVIOUS
<1>2. /\ TypeOK /\ HandlerKnows(t) /\ Undisturbed(t) /\ frame[t].pc = "sorting"
      /\ Known
  BY DEF Placed, Known, Peaceful, SortEnd, At
<1>3. /\ own \in Orders /\ own # 0 /\ d0 \in Sides
      /\ Mine(t).symbol = s /\ Mine(t) = objs[own]
      /\ Own(t) = book[s][d0]
  BY <1>1, WorkerFacts DEF Mine
<1>4. Own(t) = <<>> /\ bare[s][d0]
  BY <1>1, <1>2, <1>3 DEF Undisturbed
<1>5. /\ UNCHANGED <<objs, failed>> /\ Becomes(t, Waiting)
      /\ Puts(s, d0, Sequential!StableSort(frame[t].saved))
  BY <1>1, <1>3, <1>4 DEF SortEnd, Puts, Answer, Becomes
<1>6. PICK l \in Seq(Orders) :
        /\ l = Sequential!StableSort(frame[t].saved) /\ SortedTo(l, Len(l))
        /\ \A n : (\E i \in 1..Len(l) : l[i] = n) <=> InSort(n, t)
  BY <1>2, SortLeaves
<1>7. \A d \in Sides : book'[s][d] = IF d = d0 THEN l ELSE book[s][d]
  <2>1. Puts(s, d0, l)
    BY <1>5, <1>6
  <2>2. \A c \in Symbols, d \in Sides :
           book'[c][d] = IF c = s /\ d = d0 THEN l ELSE book[c][d]
    BY <1>2, <1>3, <2>1, PutsFacts
  <2> QED
    BY <2>2
<1>8. frame'[t].pc = "recv" /\ \A u \in Threads \ {t} : frame'[u] = frame[u]
  BY <1>2, <1>5, BecomesFacts DEF Waiting
<1>9. SameOrders
  BY <1>2, <1>5, TypeFacts DEF SameOrders
<1>10. /\ \A n, d : Entry(n, s, d) <=>
                      InBook(n, s, d) \/ (Mine(t).side = d /\ InSort(n, t))
       /\ \A n, d : Entry(n, s, d)' <=>
             InBook(n, s, d)' \/ (Works(t, s)' /\ Mine(t)'.side = d /\ InSort(n, t)')
       /\ \A u \in Threads \ {t} : ~Works(u, s)
  BY <1>8, <1>9, WorkersStay DEF Peaceful
<1>11. ~Works(t, s)'
  BY <1>8 DEF Works, At
<1>12. \A n : \A d \in Sides : Entry(n, s, d)' <=> Entry(n, s, d)
  <2>1. \A n : (InBook(n, s, d0)' <=> InSort(n, t)) /\ ~InBook(n, s, d0)
    <3>1. book'[s][d0] = l /\ book[s][d0] = <<>>
      BY <1>3, <1>4, <1>7
    <3>2. \A n : InBook(n, s, d0)' <=> \E i \in 1..Len(l) : l[i] = n
      BY <3>1 DEF InBook
    <3>3. \A n : ~InBook(n, s, d0)
      BY <3>1, EmptySeq DEF InBook
    <3> QED
      BY <1>6, <3>2, <3>3
  <2>2. \A n : \A d \in Sides : d # d0 => (InBook(n, s, d)' <=> InBook(n, s, d))
    BY <1>7 DEF InBook
  <2> QED
    BY <1>1, <1>10, <1>11, <2>1, <2>2
<1>13. SortedLists(s)'
  <2>1. \A d \in Sides : d # d0 => SortedTo(book[s][d], Len(book[s][d]))
    BY <1>1, <1>2, <1>10 DEF Peaceful, SortedLists, At
  <2>2. ASSUME NEW d \in Sides
        PROVE  SortedTo(book[s][d], Len(book[s][d]))'
    <3>1. SortedTo(book'[s][d], Len(book'[s][d]))
      BY <1>6, <1>7, <2>1
    <3> QED
      BY <1>5, <3>1 DEF SortedTo
  <2> QED
    BY <2>2 DEF SortedLists
<1>14. ~Fresh(t) /\ frame[t].pc # "drop"
  BY <1>2 DEF Fresh
<1> QED
  BY <1>5, <1>8, <1>11, <1>12, <1>13, <1>14, PeaceMoved

LEMMA PeaceWorks ==
    ASSUME Placed, NEW s \in Symbols, NEW t \in Threads, Works(t, s), Peaceful(s), Work(t)
    PROVE  Peaceful(s)'
BY PeaceLooks, PeacePeeks, PeaceTakes, PeaceSizes, PeaceFills, PeaceLeaves, PeacePops,
   PeaceRecords, PeaceFinishes, PeaceRests, PeaceBegins, PeaceEnds DEF Work

\* A step that leaves alone what s owns: of s there may be a refused order more,
\* or the first handler may have begun.
LEMMA PeaceElsewhere ==
    ASSUME Placed, NEW s \in Symbols, Peaceful(s), SameOrders,
           \A n \in Orders : objs[n].symbol = s => objs'[n] = objs[n],
           \A d \in Sides : book'[s][d] = book[s][d] /\ bare'[s][d] = bare[s][d],
           \A u \in Threads : Works(u, s) => frame'[u] = frame[u],
           \A u \in Threads : ~Works(u, s) /\ Works(u, s)' =>
              frame'[u].pc = "look" /\ frame'[u].saved = <<>>,
           SoleWorker(s)',
           \A n \in Orders' : objs'[n].symbol = s /\ n \in failed' => n \in failed,
           \A n \in Orders' \ Orders : objs'[n].symbol = s =>
              /\ n \notin failed' /\ objs'[n].filled = 0
              /\ \/ objs'[n].refused
                 \/ objs'[n].qty >= 0 /\ \E u \in Threads : Fresh(u)' /\ frame'[u].order = n
    PROVE  Peaceful(s)'
<1>1. TypeOK /\ (\A u \in Threads : HandlerKnows(u)) /\ Listed
  BY DEF Placed, Known
<1>2. Orders \subseteq Orders'
  BY <1>1, TypeFacts DEF SameOrders, Orders
<1>3. ASSUME NEW u \in Threads, Works(u, s)
      PROVE  /\ frame'[u] = frame[u] /\ Mine(u)' = Mine(u) /\ Works(u, s)'
             /\ Makers(u)' = Makers(u) /\ Own(u)' = Own(u)
             /\ frame[u].order \in Orders
  <2>1. frame'[u] = frame[u] /\ frame[u].order \in Orders
    BY <1>3, WorkerFacts
  <2>2. objs[frame[u].order].symbol = s
    BY <1>3 DEF Works, Mine
  <2>3. Mine(u)' = Mine(u)
    BY <2>1, <2>2 DEF Mine
  <2>4. Works(u, s)'
    BY <1>3, <2>1, <2>3 DEF Works, At
  <2>5. Mine(u).side \in Sides /\ Sequential!Opposite(Mine(u).side) \in Sides
        /\ Mine(u).symbol = s
    BY <1>3, WorkerFacts
  <2> QED
    BY <2>1, <2>3, <2>4, <2>5 DEF Makers, Own
<1>4. \A n : \A d \in Sides : Entry(n, s, d)' <=> Entry(n, s, d)
  <2> TAKE n
  <2> TAKE d \in Sides
  <2>1. InBook(n, s, d)' <=> InBook(n, s, d)
    BY DEF InBook
  <2>2. Entry(n, s, d) <=> \/ InBook(n, s, d)
                           \/ \E u \in Threads : Works(u, s) /\ Mine(u).side = d /\ InSort(n, u)
    BY DEF Entry, InBook, InSort
  <2>3. Entry(n, s, d)' <=>
          \/ InBook(n, s, d)'
          \/ \E u \in Threads : Works(u, s)' /\ Mine(u)'.side = d /\ InSort(n, u)'
    BY DEF Entry, InBook, InSort
  <2>4. ASSUME NEW u \in Threads
        PROVE  (Works(u, s)' /\ Mine(u)'.side = d /\ InSort(n, u)') <=>
                 (Works(u, s) /\ Mine(u).side = d /\ InSort(n, u))
    <3>1. CASE Works(u, s)
      BY <1>3, <3>1 DEF InSort
    <3>2. CASE ~Works(u, s)
      <4>1. Works(u, s)' => frame'[u].saved = <<>>
        BY <3>2
      <4>2. Works(u, s)' => ~InSort(n, u)'
        BY <4>1, EmptySeq DEF InSort
      <4> QED
        BY <3>2, <4>2
    <3> QED
      BY <3>1, <3>2
  <2> QED
    BY <2>1, <2>2, <2>3, <2>4
<1>5. \A n : \A d \in Sides : Entry(n, s, d) => n \in Orders /\ objs[n].symbol = s
  <2> SUFFICES ASSUME NEW n, NEW d \in Sides, Entry(n, s, d)
               PROVE  n \in Orders /\ objs[n].symbol = s
    OBVIOUS
  <2>1. CASE \E i \in 1..Len(book[s][d]) : book[s][d][i] = n
    <3>1. PICK i \in 1..Len(book[s][d]) : book[s][d][i] = n
      BY <2>1
    <3>2. n \in Orders
      BY <1>1, <3>1, ListElements
    <3>3. MayList(n, s, d)
      BY <1>1, <3>1 DEF Listed
    <3> QED
      BY <3>2, <3>3 DEF MayList
  <2>2. CASE \E u \in Threads : /\ Works(u, s) /\ Mine(u).side = d
                                /\ \E i \in 1..Len(frame[u].saved) : frame[u].saved[i] = n
    <3>0. PICK u \in Threads : Works(u, s) /\ InSort(n, u)
      BY <2>2 DEF InSort
    <3>1. PICK i \in 1..Len(frame[u].saved) : Works(u, s) /\ frame[u].saved[i] = n
      BY <3>0 DEF InSort
    <3>2. n \in Orders
      BY <1>1, <3>1, ListElements
    <3>3. MayList(n, Mine(u).symbol, Mine(u).side)
      BY <1>1, <3>1 DEF Listed
    <3> QED
      BY <3>1, <3>2, <3>3 DEF MayList, Works
  <2> QED
    BY <2>1, <2>2 DEF Entry
<1>6. ASSUME NEW u \in Threads, Works(u, s)'
      PROVE  Undisturbed(u)'
  <2>1. CASE ~Works(u, s)
    <3>1. frame'[u].pc = "look"
      BY <1>6, <2>1
    <3> QED
      BY <3>1 DEF Undisturbed
  <2>2. CASE Works(u, s)
    <3>1. /\ frame'[u] = frame[u] /\ Mine(u)' = Mine(u) /\ Undisturbed(u)
          /\ Makers(u)' = Makers(u) /\ Own(u)' = Own(u) /\ frame[u].order \in Orders
          /\ Mine(u).symbol = s /\ Mine(u).side \in Sides
      BY <1>3, <2>2, WorkerFacts DEF Peaceful
    <3>2. Makers(u) # <<>> => objs'[Head(Makers(u))] = objs[Head(Makers(u))]
      BY <2>2, WorkerHead DEF MayList
    <3>3. frame[u].pc \in {"size", "fill", "drop"} => objs'[frame[u].best] = objs[frame[u].best]
      BY <1>1, <3>1, FillKnows DEF HandlerKnows
    <3>4. ASSUME NEW l, \A i \in 1..Len(l) : l[i] \in Orders, Len(l) \in Nat, Extended(u, l)
          PROVE  Extended(u, l)'
      <4>1. \A i, j \in 1..(Len(l) - 1) : i < j => ~Precedes(objs'[l[j]], objs'[l[i]])
        BY <3>4, SortedSame DEF Extended
      <4>2. SortedTo(l, Len(l) - 1)'
        BY <4>1 DEF SortedTo
      <4> QED
        BY <3>1, <3>4, <4>2 DEF Extended
    <3>5. /\ \A i \in 1..Len(Own(u)) : Own(u)[i] \in Orders
          /\ \A i \in 1..Len(frame[u].saved) : frame[u].saved[i] \in Orders
          /\ Len(Own(u)) \in Nat /\ Len(frame[u].saved) \in Nat
      BY <1>1, <3>1, ListElements, TypeFacts, FrameFacts DEF Own
    <3>6. /\ Extended(u, Own(u)) => Extended(u, Own(u))'
          /\ Extended(u, frame[u].saved) => Extended(u, frame[u].saved)'
      <4>1. PICK a, b : a = Own(u) /\ b = frame[u].saved
        OBVIOUS
      <4>2. /\ Extended(u, a) => Extended(u, a)'
            /\ Extended(u, b) => Extended(u, b)'
        BY <3>4, <3>5, <4>1
      <4>3. Own(u)' = a /\ frame'[u].saved = b
        BY <3>1, <4>1
      <4> QED
        BY <4>1, <4>2, <4>3, Zenon DEF Extended
    <3>7. bare'[Mine(u).symbol][Mine(u).side] = bare[Mine(u).symbol][Mine(u).side]
      BY <3>1
    <3>8. /\ frame[u].pc \in {"peek", "take", "size", "fill", "drop"} => Makers(u)' # <<>>
          /\ frame[u].pc \in {"peek", "take", "size", "fill", "sort", "sorting"} =>
                ~(Mine(u)'.filled >= Mine(u)'.qty)
      BY <3>1 DEF Undisturbed, Sequential!FullyFilled
    <3>9. Makers(u) # <<>> =>
            (Sequential!Crosses(Mine(u), objs[Head(Makers(u))])' <=>
               Sequential!Crosses(Mine(u), objs[Head(Makers(u))]))
      BY <3>1, <3>2 DEF Sequential!Crosses, Sequential!Better
    <3>10. frame[u].pc = "fill" =>
             frame'[u].qty = Sequential!Lesser(Sequential!Remaining(Mine(u)),
                               Sequential!Remaining(objs[frame[u].best]))'
      BY <3>1, <3>3 DEF Undisturbed, Sequential!Lesser, Sequential!Remaining
    <3> QED
      BY <3>1, <3>6, <3>7, <3>8, <3>9, <3>10 DEF Undisturbed, Sequential!FullyFilled
  <2> QED
    BY <2>1, <2>2
<1>7. WithinQty(s)'
  <2> SUFFICES ASSUME NEW n \in Orders', objs'[n].symbol = s
               PROVE  /\ n \notin failed' /\ objs'[n].filled >= 0
                      /\ objs'[n].refused => objs'[n].filled = 0
                      /\ ~objs'[n].refused => objs'[n].filled <= objs'[n].qty
    BY DEF WithinQty
  <2>1. CASE n \in Orders
    <3>1. objs[n].symbol = s /\ objs'[n] = objs[n]
      BY <2>1 DEF SameOrders
    <3> QED
      BY <2>1, <3>1 DEF Peaceful, WithinQty
  <2>2. CASE n \notin Orders
    <3>1. objs'[n].filled = 0 /\ n \notin failed'
      BY <2>2
    <3>2. ~objs'[n].refused => objs'[n].qty >= 0
      BY <2>2
    <3> QED
      BY <3>1, <3>2
  <2> QED
    BY <2>1, <2>2
<1>8. SortedLists(s)'
  <2> SUFFICES ASSUME NEW d \in Sides, ~SortedTo(book[s][d], Len(book[s][d]))'
               PROVE  \E u \in Threads : Works(u, s)' /\ At(u, "sort")' /\ Mine(u)'.side = d
    BY DEF SortedLists
  <2>1. ~SortedTo(book[s][d], Len(book[s][d]))
    <3> SUFFICES ASSUME SortedTo(book[s][d], Len(book[s][d]))
                 PROVE  SortedTo(book[s][d], Len(book[s][d]))'
      OBVIOUS
    <3>1. \A i \in 1..Len(book[s][d]) : book[s][d][i] \in Orders
      BY <1>1, ListElements
    <3> QED
      BY <3>1, SortedSame DEF SortedTo
  <2>2. PICK u \in Threads : Works(u, s) /\ At(u, "sort") /\ Mine(u).side = d
    BY <2>1 DEF Peaceful, SortedLists
  <2> QED
    BY <1>3, <2>2 DEF At
<1>9. EntriesOpen(s)'
  <2> SUFFICES ASSUME NEW d \in Sides, NEW n \in Orders', Entry(n, s, d),
                      objs'[n].filled >= objs'[n].qty
               PROVE  \E u \in Threads : Works(u, s)' /\ At(u, "drop")' /\ frame'[u].best = n
    BY <1>4 DEF EntriesOpen, Sequential!FullyFilled
  <2>1. n \in Orders /\ objs'[n] = objs[n]
    BY <1>5
  <2>2. PICK u \in Threads : Works(u, s) /\ At(u, "drop") /\ frame[u].best = n
    BY <2>1 DEF Peaceful, EntriesOpen, Sequential!FullyFilled
  <2> QED
    BY <1>3, <2>2 DEF At
<1>10. NoneMissing(s)'
  <2> SUFFICES ASSUME NEW d \in Sides, NEW n \in Orders', MayList(n, s, d)',
                      ~(objs'[n].filled >= objs'[n].qty), ~Entry(n, s, d)
               PROVE  \E u \in Threads : Fresh(u)' /\ frame'[u].order = n
    BY <1>4 DEF NoneMissing, Sequential!FullyFilled
  <2>1. objs'[n].symbol = s /\ ~objs'[n].refused
    BY DEF MayList
  <2>2. CASE n \in Orders
    <3>1. objs[n].symbol = s /\ objs'[n] = objs[n]
      BY <2>1, <2>2 DEF SameOrders
    <3>2. MayList(n, s, d)
      BY <3>1 DEF MayList
    <3>3. PICK u \in Threads : Fresh(u) /\ frame[u].order = n
      BY <2>2, <3>1, <3>2 DEF Peaceful, NoneMissing, Sequential!FullyFilled
    <3>4. Works(u, s)
      BY <1>1, <3>1, <3>3 DEF Works, At, Mine, Fresh, HandlerKnows
    <3> QED
      BY <1>3, <3>3, <3>4 DEF Fresh
  <2>3. CASE n \notin Orders
    BY <2>1, <2>3
  <2> QED
    BY <2>2, <2>3
<1>11. Uncrossed(s)'
  <2> SUFFICES ASSUME NEW b \in Orders', NEW a \in Orders',
                      Entry(b, s, "BUY"), Entry(a, s, "SELL")
               PROVE  objs'[b].price < objs'[a].price
    BY <1>4 DEF Uncrossed, Sides
  <2>1. b \in Orders /\ a \in Orders /\ objs'[b] = objs[b] /\ objs'[a] = objs[a]
    BY <1>5 DEF Sides
  <2> QED
    BY <2>1 DEF Peaceful, Uncrossed
<1> QED
  BY <1>6, <1>7, <1>8, <1>9, <1>10, <1>11 DEF Peaceful

\* What a handler touches: its symbol, and no other.
LEMMA WorkTouches ==
    ASSUME Placed, NEW t \in Threads, Work(t)
    PROVE  /\ frame[t].pc # "recv"
           /\ \A c \in Symbols, d \in Sides : c # Mine(t).symbol =>
                 book'[c][d] = book[c][d] /\ bare'[c][d] = bare[c][d]
           /\ \A n \in Orders : objs[n].symbol # Mine(t).symbol => objs'[n] = objs[n]
           /\ failed' \subseteq failed \cup {frame[t].order}
           /\ contended' = contended
           /\ frame'[t] = Waiting \/ frame'[t].order = frame[t].order
           /\ \A u \in Threads \ {t} : frame'[u] = frame[u]
<1>1. TypeOK /\ HandlerKnows(t) /\ Known
  BY DEF Placed, Known
<1>2. frame[t].pc # "recv" /\ Handles(t)
  BY <1>1, WorkShapes
<1>3. /\ frame[t].order \in Orders /\ Mine(t).symbol \in Symbols /\ Mine(t).side \in Sides
      /\ Sequential!Opposite(Mine(t).side) \in Sides
  BY <1>1, <1>2, HandlerLists
<1>4. ASSUME NEW d0 \in Sides, NEW l, NEW c \in Symbols, NEW d \in Sides, c # Mine(t).symbol,
             book' = [book EXCEPT ![Mine(t).symbol][d0] = l]
      PROVE  book'[c][d] = book[c][d]
  <2>1. book \in [Symbols -> [Sides -> Seq(Orders)]]
    BY <1>1, TypeParts
  <2> QED
    BY <1>3, <1>4, <2>1
<1>5. ASSUME NEW d0 \in Sides, NEW l, NEW c \in Symbols, NEW d \in Sides, c # Mine(t).symbol,
             bare' = [bare EXCEPT ![Mine(t).symbol][d0] = l]
      PROVE  bare'[c][d] = bare[c][d]
  <2>1. bare \in [Symbols -> [Sides -> BOOLEAN]]
    BY <1>1, TypeParts
  <2> QED
    BY <1>3, <1>5, <2>1
<1>6. \A c \in Symbols, d \in Sides : c # Mine(t).symbol => book'[c][d] = book[c][d]
  <2>1. \/ UNCHANGED book
        \/ \E d0 \in Sides : \E l : book' = [book EXCEPT ![Mine(t).symbol][d0] = l]
    BY <1>2, <1>3
    DEF Handles, MovesOn, Takes, Sizes, Fills, Records, Rests, Begins, Ends, Puts
  <2> QED
    <3>1. CASE UNCHANGED book
      BY <3>1
    <3>2. CASE \E d0 \in Sides : \E l : book' = [book EXCEPT ![Mine(t).symbol][d0] = l]
      <4>1. PICK d0 \in Sides : \E l : book' = [book EXCEPT ![Mine(t).symbol][d0] = l]
        BY <3>2
      <4>2. PICK l : book' = [book EXCEPT ![Mine(t).symbol][d0] = l]
        BY <4>1
      <4> QED
        BY <1>4, <4>2
    <3> QED
      BY <2>1, <3>1, <3>2
<1>7. \A c \in Symbols, d \in Sides : c # Mine(t).symbol => bare'[c][d] = bare[c][d]
  <2>1. \/ UNCHANGED bare
        \/ \E d0 \in Sides : \E l : bare' = [bare EXCEPT ![Mine(t).symbol][d0] = l]
    BY <1>3 DEF Work, Look, Peek, Take, Size, FillBoth, Drop, Record, Finish, Rest,
                SortBegin, SortEnd
  <2> QED
    <3>1. CASE UNCHANGED bare
      BY <3>1
    <3>2. CASE \E d0 \in Sides : \E l : bare' = [bare EXCEPT ![Mine(t).symbol][d0] = l]
      <4>1. PICK d0 \in Sides : \E l : bare' = [bare EXCEPT ![Mine(t).symbol][d0] = l]
        BY <3>2
      <4>2. PICK l : bare' = [bare EXCEPT ![Mine(t).symbol][d0] = l]
        BY <4>1
      <4> QED
        BY <1>5, <4>2
    <3> QED
      BY <2>1, <3>1, <3>2
<1>8. \A n \in Orders : objs[n].symbol # Mine(t).symbol => objs'[n] = objs[n]
  <2>1. CASE UNCHANGED objs
    BY <2>1
  <2>2. CASE FillBoth(t)
    <3>1. /\ frame[t].pc = "fill"
          /\ objs' = [objs EXCEPT ![frame[t].best].filled = @ + frame[t].qty,
                                  ![frame[t].order].filled = @ + frame[t].qty]
      BY <2>2 DEF FillBoth, At
    <3>2. objs[frame[t].order].symbol = Mine(t).symbol
          /\ objs[frame[t].best].symbol = Mine(t).symbol
      BY <1>1, <3>1 DEF HandlerKnows, Mine
    <3>3. DOMAIN objs = Orders
      BY <1>1, TypeFacts DEF Orders
    <3> SUFFICES ASSUME NEW n \in Orders, n # frame[t].best, n # frame[t].order
                 PROVE  objs'[n] = objs[n]
      BY <3>2
    <3>4. PICK f : f = [objs EXCEPT ![frame[t].best].filled = @ + frame[t].qty]
      OBVIOUS
    <3>5. objs' = [f EXCEPT ![frame[t].order].filled = objs[frame[t].order].filled + frame[t].qty]
      BY <3>1, <3>4, Zenon
    <3>6. f[n] = objs[n] /\ n \in DOMAIN f
      BY <3>3, <3>4
    <3> QED
      BY <3>5, <3>6
  <2>3. UNCHANGED objs \/ FillBoth(t)
    BY DEF Work, Look, Peek, Take, Size, Drop, Record, Finish, Rest, SortBegin, SortEnd
  <2> QED
    BY <2>1, <2>2, <2>3
<1>9. failed' \subseteq failed \cup {frame[t].order} /\ contended' = contended
  BY <1>2 DEF Handles, MovesOn, Takes, Sizes, Fills, Records, Rests, Begins, Ends,
              Untouched, Answers1, Raises
<1>10. frame'[t] = Waiting \/ frame'[t].order = frame[t].order
  BY <1>1, <1>2, GoesOn, EndsFrame
<1> QED
  BY <1>1, <1>2, <1>6, <1>7, <1>8, <1>9, <1>10, OtherFrames

\* A handler of another symbol.
LEMMA PeaceAside ==
    ASSUME Placed, NEW s \in Symbols, NEW t \in Threads, ~Works(t, s), Peaceful(s), Work(t)
    PROVE  Peaceful(s)'
<1>1. TypeOK /\ HandlerKnows(t) /\ Known
  BY DEF Placed, Known
<1>2. /\ frame[t].pc # "recv"
      /\ \A c \in Symbols, d \in Sides : c # Mine(t).symbol =>
            book'[c][d] = book[c][d] /\ bare'[c][d] = bare[c][d]
      /\ \A n \in Orders : objs[n].symbol # Mine(t).symbol => objs'[n] = objs[n]
      /\ failed' \subseteq failed \cup {frame[t].order}
      /\ frame'[t] = Waiting \/ frame'[t].order = frame[t].order
      /\ \A u \in Threads \ {t} : frame'[u] = frame[u]
  BY WorkTouches
<1>3. Mine(t).symbol # s /\ frame[t].order \in Orders
  BY <1>1, <1>2, HandlerLists DEF Works, At
<1>4. SameOrders /\ Orders' = Orders
  BY <1>1, WorkShapes, HandlesSame DEF Orders
<1>5. ~Works(t, s)'
  <2>1. CASE frame'[t] = Waiting
    BY <2>1 DEF Works, At, Waiting
  <2>2. CASE frame'[t].order = frame[t].order
    BY <1>3, <1>4, <2>2 DEF Works, Mine, SameOrders
  <2> QED
    BY <1>2, <2>1, <2>2
<1>6. \A u \in Threads : Works(u, s)' => Works(u, s)
  <2> SUFFICES ASSUME NEW u \in Threads, Works(u, s)'
               PROVE  Works(u, s)
    OBVIOUS
  <2>1. frame'[u] = frame[u] /\ frame[u].pc # "recv"
    BY <1>2, <1>5 DEF Works, At
  <2>2. frame[u].order \in Orders
    BY <1>1, <2>1, HandlerLists DEF Known
  <2> QED
    BY <1>4, <2>1, <2>2 DEF Works, At, Mine, SameOrders
<1>7. SoleWorker(s)'
  BY <1>6 DEF SoleWorker, Peaceful
<1>8. \A u \in Threads : Works(u, s) => frame'[u] = frame[u]
  BY <1>2
<1>9. \A n \in Orders : objs'[n].symbol = s /\ n \in failed' => n \in failed
  BY <1>2, <1>3, <1>4 DEF Mine, SameOrders
<1> QED
  BY <1>2, <1>3, <1>4, <1>6, <1>7, <1>8, <1>9, PeaceElsewhere

\* A request for s, if nobody works on s, or for another symbol.
LEMMA PeaceReceives ==
    ASSUME Placed, NEW s \in Symbols \ contended', Peaceful(s),
           NEW t \in Threads, NEW m \in Messages, Receive(t, m)
    PROVE  Peaceful(s)'
<1>1. TypeOK /\ \A u \in Threads : HandlerKnows(u)
  BY DEF Placed, Known
<1>2. /\ frame[t].pc = "recv" /\ Sequential!Valid(m)
      /\ objs' = Append(objs, Parsed(m, FALSE))
      /\ UNCHANGED <<book, bare, tape, replies, failed>>
      /\ Becomes(t, [pc |-> "look", order |-> Len(objs) + 1, best |-> 0, qty |-> 0,
                     trades |-> <<>>, sum |-> [qty |-> 0, price |-> 0], saved |-> <<>>])
  BY <1>1, ReceiveFacts
<1>3. PICK new : new = Parsed(m, FALSE) /\ new \in OrderObject /\ new.filled = 0
                 /\ new.symbol = m.symbol /\ new.qty \in Int /\ new.qty > 0
  <2>1. /\ Parsed(m, FALSE) \in OrderObject /\ Parsed(m, FALSE).filled = 0
        /\ Parsed(m, FALSE).symbol = m.symbol /\ Parsed(m, FALSE).qty > 0
    BY <1>2, ParsedFacts
  <2>2. Parsed(m, FALSE).qty \in Int
    BY <2>1 DEF OrderObject
  <2> QED
    BY <2>1, <2>2
<1>4. PICK k : k = Len(objs) + 1 /\ k \in Nat /\ k \notin Orders /\ k # 0
               /\ Orders' = Orders \cup {k} /\ objs'[k] = new
               /\ \A n \in Orders : objs'[n] = objs[n]
  <2>1. /\ Len(objs') = Len(objs) + 1 /\ Len(objs) \in Nat
        /\ \A n \in Orders : objs'[n] = objs[n]
        /\ objs'[Len(objs) + 1] = new
    BY <1>1, <1>2, <1>3, ArrivalFacts
  <2> QED
    BY <2>1 DEF Orders
<1>5. SameOrders
  BY <1>1, <1>2, <1>3, ArrivalSame
<1>6. /\ frame'[t].pc = "look" /\ frame'[t].order = k /\ frame'[t].saved = <<>>
      /\ \A u \in Threads \ {t} : frame'[u] = frame[u]
  BY <1>1, <1>2, <1>4, BecomesFacts
<1>7. \A u \in Threads \ {t} : Works(u, s)' <=> Works(u, s)
  <2> TAKE u \in Threads \ {t}
  <2>1. frame[u].pc # "recv" => frame[u].order \in Orders
    BY <1>1, HandlerLists
  <2> QED
    BY <1>4, <1>6, <2>1 DEF Works, At, Mine
<1>8. ~Works(t, s)
  BY <1>2 DEF Works, At
<1>9. SoleWorker(s)'
  <2>1. CASE m.symbol = s
    <3>1. \A u \in Threads \ {t} : ~Works(u, s)
      BY <2>1 DEF Receive, Works
    <3> QED
      BY <1>7, <3>1 DEF SoleWorker
  <2>2. CASE m.symbol # s
    <3>1. ~Works(t, s)'
      BY <1>3, <1>4, <1>6, <2>2 DEF Works, Mine
    <3>2. \A u \in Threads : Works(u, s)' => Works(u, s)
      BY <1>7, <3>1
    <3> QED
      BY <3>2 DEF SoleWorker, Peaceful
  <2> QED
    BY <2>1, <2>2
<1>10. \A u \in Threads : ~Works(u, s) /\ Works(u, s)' =>
          frame'[u].pc = "look" /\ frame'[u].saved = <<>>
  BY <1>6, <1>7
<1>11. \A n \in Orders' : n \in failed' => n \in failed
  BY <1>2
<1>12. k \notin failed'
  BY <1>1, <1>2, <1>4, TypeParts
<1>13. Fresh(t)' /\ frame'[t].order = k
  BY <1>4, <1>6 DEF Fresh
<1>14. \A n \in Orders' \ Orders :
          /\ n \notin failed' /\ objs'[n].filled = 0
          /\ objs'[n].qty >= 0 /\ \E u \in Threads : Fresh(u)' /\ frame'[u].order = n
  <2>1. new.qty >= 0
    <3>1. PICK x \in Int : x = new.qty /\ x > 0
      BY <1>3
    <3> QED
      BY <3>1
  <2> QED
    BY <1>3, <1>4, <1>12, <1>13, <2>1
<1>15. \A u \in Threads : Works(u, s) => frame'[u] = frame[u]
  BY <1>6, <1>8
<1>16. \A d \in Sides : book'[s][d] = book[s][d] /\ bare'[s][d] = bare[s][d]
  BY <1>2
<1> QED
  BY <1>4, <1>5, <1>9, <1>10, <1>11, <1>14, <1>15, <1>16, PeaceElsewhere

LEMMA PeaceRefuses ==
    ASSUME Placed, NEW s \in Symbols, Peaceful(s),
           NEW t \in Threads, NEW m \in Messages, Refuse(t, m)
    PROVE  Peaceful(s)'
<1>1. TypeOK /\ \A u \in Threads : HandlerKnows(u)
  BY DEF Placed, Known
<1>2. /\ objs' = Append(objs, Parsed(m, TRUE))
      /\ UNCHANGED <<book, bare, tape, frame, failed, contended>>
  BY <1>1, RefuseFacts
<1>3. PICK new : new = Parsed(m, TRUE) /\ new \in OrderObject /\ new.filled = 0 /\ new.refused
  BY ParsedFacts
<1>4. PICK k : k = Len(objs) + 1 /\ k \in Nat /\ k \notin Orders
               /\ Orders' = Orders \cup {k} /\ objs'[k] = new
               /\ \A n \in Orders : objs'[n] = objs[n]
  <2>1. /\ Len(objs') = Len(objs) + 1 /\ Len(objs) \in Nat
        /\ \A n \in Orders : objs'[n] = objs[n]
        /\ objs'[Len(objs) + 1] = new
    BY <1>1, <1>2, <1>3, ArrivalFacts
  <2> QED
    BY <2>1 DEF Orders
<1>5. SameOrders
  BY <1>1, <1>2, <1>3, ArrivalSame
<1>6. \A u \in Threads : Works(u, s)' <=> Works(u, s)
  <2> TAKE u \in Threads
  <2>1. frame[u].pc # "recv" => frame[u].order \in Orders
    BY <1>1, HandlerLists
  <2> QED
    BY <1>2, <1>4, <2>1 DEF Works, At, Mine
<1>7. SoleWorker(s)'
  BY <1>6 DEF SoleWorker, Peaceful
<1>8. k \notin failed'
  BY <1>1, <1>2, <1>4, TypeParts
<1>9. \A n \in Orders' \ Orders :
         n \notin failed' /\ objs'[n].filled = 0 /\ objs'[n].refused
  BY <1>3, <1>4, <1>8
<1>10. /\ \A n \in Orders' : n \in failed' => n \in failed
       /\ \A u \in Threads : Works(u, s) => frame'[u] = frame[u]
       /\ \A d \in Sides : book'[s][d] = book[s][d] /\ bare'[s][d] = bare[s][d]
  BY <1>2
<1> QED
  BY <1>4, <1>5, <1>6, <1>7, <1>9, <1>10, PeaceElsewhere

LEMMA PeaceStutters ==
    ASSUME Placed, NEW s \in Symbols, Peaceful(s), UNCHANGED vars
    PROVE  Peaceful(s)'
<1>1. /\ UNCHANGED <<objs, book, bare, frame, failed>> /\ TypeOK
  BY DEF vars, Placed, Known
<1>2. SameOrders /\ Orders' = Orders
  BY <1>1, TypeFacts DEF SameOrders, Orders
<1>3. \A u \in Threads : Works(u, s)' <=> Works(u, s)
  BY <1>1 DEF Works, At, Mine
<1>4. SoleWorker(s)'
  BY <1>3 DEF SoleWorker, Peaceful
<1>5. /\ \A n \in Orders : objs'[n] = objs[n]
      /\ \A d \in Sides : book'[s][d] = book[s][d] /\ bare'[s][d] = bare[s][d]
      /\ \A u \in Threads : frame'[u] = frame[u]
      /\ \A n \in Orders' : n \in failed' => n \in failed
  BY <1>1
<1> QED
  BY <1>2, <1>3, <1>4, <1>5, PeaceElsewhere

LEMMA PeaceKept ==
    ASSUME Placed, NEW s \in Symbols \ contended', Peaceful(s), Next
    PROVE  Peaceful(s)'
<1>1. ASSUME NEW t \in Threads, Work(t)
      PROVE  Peaceful(s)'
  BY <1>1, PeaceWorks, PeaceAside
<1> QED
  BY <1>1, PeaceReceives, PeaceRefuses DEF Next

LEMMA ContendedGrows ==
    ASSUME Placed, Next
    PROVE  contended \subseteq contended'
<1>1. ASSUME NEW t \in Threads, Work(t)
      PROVE  contended' = contended
  BY <1>1, WorkTouches
<1>2. ASSUME NEW t \in Threads, NEW m \in Messages, Receive(t, m)
      PROVE  contended \subseteq contended'
  BY <1>2 DEF Receive
<1>3. ASSUME NEW t \in Threads, NEW m \in Messages, Refuse(t, m)
      PROVE  contended' = contended
  BY <1>3 DEF Refuse
<1> QED
  BY <1>1, <1>2, <1>3 DEF Next

LEMMA InitPeace == Init => \A s \in Symbols : Peaceful(s)
<1> SUFFICES ASSUME Init, NEW s \in Symbols
             PROVE  Peaceful(s)
  OBVIOUS
<1>1. /\ Orders = {} /\ \A t \in Threads : frame[t] = Waiting
      /\ \A d \in Sides : book[s][d] = <<>>
  BY DEF Init, Orders, Sides
<1>2. \A t \in Threads : ~Works(t, s)
  BY <1>1 DEF Works, At, Waiting
<1>3. \A d \in Sides : SortedTo(book[s][d], Len(book[s][d]))
  <2>1. Len(<<>>) = 0
    OBVIOUS
  <2> QED
    BY <1>1, <2>1 DEF SortedTo
<1> QED
  BY <1>1, <1>2, <1>3
  DEF Peaceful, SoleWorker, WithinQty, SortedLists, EntriesOpen, NoneMissing, Uncrossed

LEMMA PeaceStep == SInv /\ [Next]_vars => SInv'
<1> SUFFICES ASSUME SInv, [Next]_vars
             PROVE  SInv'
  OBVIOUS
<1>1. IInv /\ IInv' /\ Placed
  BY InvStep, InvParts DEF SInv
<1>2. CASE Next
  <2>1. ASSUME NEW s \in Symbols \ contended'
        PROVE  Peaceful(s)'
    BY <1>1, <1>2, ContendedGrows, PeaceKept DEF SInv
  <2> QED
    BY <1>1, <2>1 DEF SInv
<1>3. CASE UNCHANGED vars
  <2>1. ASSUME NEW s \in Symbols \ contended'
        PROVE  Peaceful(s)'
    BY <1>1, <1>3, PeaceStutters DEF SInv, vars
  <2> QED
    BY <1>1, <2>1 DEF SInv
<1> QED
  BY <1>2, <1>3

LEMMA PeaceIsSound ==
    ASSUME Placed, NEW s \in Symbols, Peaceful(s)
    PROVE  Sound(s)
<1>1. TypeOK /\ Listed /\ \A u \in Threads : HandlerKnows(u)
  BY DEF Placed, Known
<1>2. \A d \in Sides : \A n : n \in ToSet(book[s][d]) <=> InBook(n, s, d)
  <2> SUFFICES ASSUME NEW d \in Sides
               PROVE  \A n : n \in ToSet(book[s][d]) <=> InBook(n, s, d)
    OBVIOUS
  <2>1. DOMAIN book[s][d] = 1..Len(book[s][d])
    BY <1>1, TypeFacts
  <2> QED
    BY <2>1 DEF ToSet, InBook
<1>3. \A d \in Sides : \A n : InBook(n, s, d) => n \in Orders /\ MayList(n, s, d) /\ Entry(n, s, d)
  BY <1>1, ListElements DEF InBook, Listed, Entry
<1>4. \A b \in ToSet(book[s]["BUY"]), a \in ToSet(book[s]["SELL"]) :
         objs[b].price < objs[a].price
  <2>1. "BUY" \in Sides /\ "SELL" \in Sides
    BY DEF Sides
  <2> QED
    BY <1>2, <1>3, <2>1 DEF Peaceful, Uncrossed
<1>5. \A n \in Orders : objs[n].symbol = s =>
         n \notin failed /\ (objs[n].filled > 0 => objs[n].filled <= objs[n].qty)
  <2> SUFFICES ASSUME NEW n \in Orders, objs[n].symbol = s
               PROVE  n \notin failed /\ (objs[n].filled > 0 => objs[n].filled <= objs[n].qty)
    OBVIOUS
  <2>1. /\ n \notin failed
        /\ objs[n].refused => objs[n].filled = 0
        /\ ~objs[n].refused => objs[n].filled <= objs[n].qty
    BY DEF Peaceful, WithinQty
  <2> QED
    BY <2>1
<1>6. ASSUME ~Working(s), NEW d \in Sides
      PROVE  ToSet(book[s][d]) = {n \in Orders : /\ objs[n].symbol = s
                                                 /\ objs[n].side = d
                                                 /\ objs[n].type = "LIMIT"
                                                 /\ ~objs[n].refused
                                                 /\ objs[n].filled < objs[n].qty}
  <2>1. \A u \in Threads : ~Works(u, s)
    BY <1>6 DEF Working, Works
  <2>2. \A n \in Orders : objs[n].filled \in Int /\ objs[n].qty \in Int
    BY <1>1, OrderFacts
  <2>3. \A n : Entry(n, s, d) <=> InBook(n, s, d)
    BY <2>1 DEF Entry, InBook
  <2>4. ASSUME NEW n, InBook(n, s, d)
        PROVE  n \in Orders /\ MayList(n, s, d) /\ objs[n].filled < objs[n].qty
    <3>1. n \in Orders /\ MayList(n, s, d) /\ Entry(n, s, d)
      BY <1>3, <2>4
    <3>2. ~(objs[n].filled >= objs[n].qty)
      BY <2>1, <3>1 DEF Peaceful, EntriesOpen, Sequential!FullyFilled
    <3> QED
      BY <2>2, <3>1, <3>2
  <2>5. ASSUME NEW n \in Orders, objs[n].symbol = s, objs[n].side = d,
               objs[n].type = "LIMIT", ~objs[n].refused, objs[n].filled < objs[n].qty
        PROVE  InBook(n, s, d)
    <3>1. objs[n].filled >= 0
      BY <2>5 DEF Peaceful, WithinQty
    <3>2. objs[n].qty > 0 /\ ~(objs[n].filled >= objs[n].qty)
      BY <2>2, <2>5, <3>1
    <3>3. MayList(n, s, d)
      BY <2>5, <3>2 DEF MayList
    <3>4. \A u \in Threads : ~(Fresh(u) /\ frame[u].order = n)
      BY <1>1, <2>1, <2>5 DEF Fresh, Works, At, Mine, HandlerKnows
    <3> QED
      BY <2>3, <3>2, <3>3, <3>4 DEF Peaceful, NoneMissing, Sequential!FullyFilled
  <2> QED
    BY <1>2, <2>4, <2>5 DEF MayList
<1> QED
  BY <1>4, <1>5, <1>6 DEF Sound, Sides

\* While one handler at most works on a symbol, what match_limit_order tested is
\* still so when it uses it, and the lists of the symbol are sorted, uncrossed
\* and hold exactly the open orders, but for what that handler is about to do.
THEOREM PeaceInvariant == Spec => []SInv
<1>1. Init => SInv
  BY InitInv, InitPeace DEF SInv
<1> QED
  BY <1>1, PeaceStep, PTL DEF Spec

\* As long as no two handlers worked on a symbol at the same time, none of its
\* handlers raises, none of its orders is overfilled, its books do not cross and
\* hold exactly the open LIMIT orders, whatever the threads do to other symbols.
THEOREM SymbolsIsolated == Spec => []Isolation
<1>1. SInv => Isolation
  BY InvParts, PeaceIsSound DEF SInv, Isolation
<1> QED
  BY <1>1, PeaceInvariant, PTL

-----------------------------------------------------------------------------
(* One thread is module Matching: the state its mapping shows.             *)

SeenStatus(o) ==
    IF o.refused THEN "REJECTED"
    ELSE IF o.filled = 0 THEN "PENDING"
    ELSE IF o.filled >= o.qty THEN "FILLED"
    ELSE "PARTIALLY_FILLED"

Seen(o) == [id |-> o.id, ts |-> o.ts, symbol |-> o.symbol, side |-> o.side,
            price |-> o.price, qty |-> o.qty, type |-> o.type, filled |-> o.filled,
            status |-> SeenStatus(o)]

SeenObjs == [i \in 1..Len(objs) |-> Seen(objs[i])]
SeenBook == [s \in Symbols |-> [d \in Sides |-> Settled(s, d)]]

Newest(S) == IF S = {} THEN 0 ELSE CHOOSE n \in S : \A k \in S : k <= n

SeenRegistry == [i \in OrderIds |-> Newest(Rested(i))]

LEMMA SeenState ==
    /\ Sequential!vars = <<SeenObjs, SeenBook, SeenRegistry, tape, Solo.order, Solo.trades,
                           Solo.sum, replies>>
    /\ Sequential!vars' = <<SeenObjs', SeenBook', SeenRegistry', tape', Solo'.order,
                            Solo'.trades, Solo'.sum, replies'>>
BY Zenon DEF Sequential!vars, SeenObjs, Seen, SeenStatus, SeenBook, Sides, SeenRegistry,
             Newest

LEMMA SeenAccepts ==
    ASSUME NEW m, Solo.order = 0, Len(replies) < MaxRequests, Sequential!Valid(m),
           SeenObjs' = Append(SeenObjs, Sequential!NewOrder(m, "PENDING")),
           Solo'.order = Len(SeenObjs) + 1, Solo'.trades = Solo.trades, Solo'.sum = Solo.sum,
           UNCHANGED <<SeenBook, SeenRegistry, tape, replies>>
    PROVE  Sequential!Accept(m)
BY Zenon DEF Sequential!Accept, SeenObjs, Seen, SeenStatus, SeenBook, Sides, SeenRegistry, Newest

LEMMA SeenRejects ==
    ASSUME NEW m, Solo.order = 0, Len(replies) < MaxRequests, ~Sequential!Valid(m),
           SeenObjs' = Append(SeenObjs, Sequential!NewOrder(m, "REJECTED")),
           replies' = Append(replies, Sequential!Reply(Len(SeenObjs) + 1, "REJECTED", 0, 0)),
           Solo'.order = 0, Solo'.trades = Solo.trades, Solo'.sum = Solo.sum,
           UNCHANGED <<SeenBook, SeenRegistry, tape>>
    PROVE  Sequential!RejectInvalid(m)
BY Zenon DEF Sequential!RejectInvalid, SeenObjs, Seen, SeenStatus, SeenBook, Sides,
             SeenRegistry, Newest

SeenMakers == SeenBook[SeenObjs[Solo.order].symbol]
                      [Sequential!Opposite(SeenObjs[Solo.order].side)]

LEMMA SeenCanMatch ==
    Sequential!CanMatch <=>
      /\ Solo.order # 0
      /\ SeenMakers # <<>>
      /\ Sequential!Remaining(SeenObjs[Solo.order]) > 0
      /\ SeenObjs[Solo.order].type = "LIMIT" =>
            Sequential!Crosses(SeenObjs[Solo.order], SeenObjs[Head(SeenMakers)])
BY Zenon DEF Sequential!CanMatch, Sequential!Makers, SeenMakers, SeenObjs, Seen, SeenStatus,
             SeenBook, Sides

SeenBest == Head(SeenMakers)

SeenQty == Sequential!Lesser(Sequential!Remaining(SeenObjs[Solo.order]),
                             Sequential!Remaining(SeenObjs[SeenBest]))

LEMMA SeenMatches ==
    ASSUME Sequential!CanMatch,
           Solo'.trades = Append(Solo.trades,
                                 Sequential!Trade(Solo.order, SeenBest, SeenQty)),
           SeenObjs' = [SeenObjs EXCEPT
                          ![SeenBest] = Sequential!Fill(SeenObjs[SeenBest], SeenQty),
                          ![Solo.order] = Sequential!Fill(@, SeenQty)],
           SeenBook' = IF Sequential!FullyFilled(
                             Sequential!Fill(SeenObjs[SeenBest], SeenQty))
                       THEN [SeenBook EXCEPT
                               ![SeenObjs[Solo.order].symbol]
                                [Sequential!Opposite(SeenObjs[Solo.order].side)] = Tail(@)]
                       ELSE SeenBook,
           Solo'.order = Solo.order, Solo'.sum = Solo.sum,
           UNCHANGED <<SeenRegistry, tape, replies>>
    PROVE  Sequential!MatchStep
BY Zenon DEF Sequential!MatchStep, Sequential!Makers, SeenMakers, SeenBest, SeenQty,
             SeenObjs, Seen, SeenStatus, SeenBook, Sides, SeenRegistry, Newest

LEMMA SeenRecords ==
    ASSUME Solo.order # 0, ~Sequential!CanMatch, Solo.trades # <<>>,
           tape' = Append(tape, Head(Solo.trades)),
           Solo'.sum = [qty |-> Solo.sum.qty + Head(Solo.trades).qty,
                        price |-> Head(Solo.trades).price],
           Solo'.trades = Tail(Solo.trades), Solo'.order = Solo.order,
           UNCHANGED <<SeenObjs, SeenBook, SeenRegistry, replies>>
    PROVE  Sequential!RecordTrade
BY Zenon DEF Sequential!RecordTrade, SeenObjs, Seen, SeenStatus, SeenBook, Sides,
             SeenRegistry, Newest

LEMMA SeenResponds ==
    ASSUME NEW status, Solo.order # 0, ~Sequential!CanMatch, Solo.trades = <<>>,
           replies' = Append(replies, Sequential!Reply(Solo.order, status, Solo.sum.price,
                                                       Solo.sum.qty)),
           Solo'.order = 0, Solo'.trades = <<>>, Solo'.sum = [qty |-> 0, price |-> 0],
           UNCHANGED <<SeenObjs, tape>>
    PROVE  Sequential!Respond(status)
BY Zenon DEF Sequential!Respond, Sequential!NoExecution, SeenObjs, Seen, SeenStatus

LEMMA SeenMarket ==
    ASSUME Solo.order # 0, SeenObjs[Solo.order].type = "MARKET",
           Sequential!Respond(IF Solo.sum.qty = 0 THEN "REJECTED"
                   ELSE IF Solo.sum.qty < SeenObjs[Solo.order].qty THEN "PARTIALLY_FILLED"
                   ELSE "FILLED"),
           UNCHANGED <<SeenBook, SeenRegistry>>
    PROVE  Sequential!FinishMarket
BY Zenon DEF Sequential!FinishMarket, SeenObjs, Seen, SeenStatus, SeenBook, Sides,
             SeenRegistry, Newest

LEMMA SeenFilled ==
    ASSUME Solo.order # 0, SeenObjs[Solo.order].type = "LIMIT",
           Sequential!FullyFilled(SeenObjs[Solo.order]), Sequential!Respond("FILLED"),
           UNCHANGED <<SeenBook, SeenRegistry>>
    PROVE  Sequential!FinishFilledLimit
BY Zenon DEF Sequential!FinishFilledLimit, SeenObjs, Seen, SeenStatus, SeenBook, Sides,
             SeenRegistry, Newest

LEMMA SeenRests ==
    ASSUME Solo.order # 0, SeenObjs[Solo.order].type = "LIMIT",
           ~Sequential!FullyFilled(SeenObjs[Solo.order]),
           Sequential!Respond(IF Solo.sum.qty > 0 THEN "PARTIALLY_FILLED" ELSE "PENDING"),
           SeenRegistry' = [SeenRegistry EXCEPT ![SeenObjs[Solo.order].id] = Solo.order],
           SeenBook' = [SeenBook EXCEPT
                          ![SeenObjs[Solo.order].symbol][SeenObjs[Solo.order].side] =
                             Sequential!Insert(@, Solo.order)]
    PROVE  Sequential!RestLimit
BY Zenon DEF Sequential!RestLimit, SeenObjs, Seen, SeenStatus, SeenBook, Sides,
             SeenRegistry, Newest

-----------------------------------------------------------------------------
(* With one thread: what the mapping shows at each place of the handler.   *)

OneInv(t) ==
    /\ SInv
    /\ contended = {}
    /\ frame[t].order # 0 => frame[t].order = Len(objs)
    /\ Len(replies) + (IF frame[t].order # 0 THEN 1 ELSE 0) = Len(objs)

LEMMA SoloIs ==
    ASSUME NEW t, Threads = {t}
    PROVE  Solo = frame[t] /\ Solo' = frame'[t]
<1>1. (CHOOSE u \in Threads : TRUE) = t
  OBVIOUS
<1> QED
  BY <1>1, Zenon DEF Solo

\* The handler of the one thread has the books to itself.
LEMMA AloneFacts ==
    ASSUME NEW t, Threads = {t}, OneInv(t)
    PROVE  /\ t \in Threads /\ Placed /\ Known /\ TypeOK /\ HandlerKnows(t) /\ RepliesName
           /\ frame[t].pc = "recv" => frame[t] = Waiting /\ frame[t].order = 0
           /\ frame[t].pc # "recv" =>
                 LET s == Mine(t).symbol
                 IN  /\ s \in Symbols /\ Works(t, s) /\ Peaceful(s) /\ Undisturbed(t)
                     /\ frame[t].order = Len(objs) /\ frame[t].order \in Orders
                     /\ Len(replies) < Len(objs)
<1>1. /\ t \in Threads /\ Placed /\ Known /\ TypeOK /\ HandlerKnows(t) /\ RepliesName
  BY InvParts DEF OneInv, SInv, Placed, Known, IInv
<1>2. frame[t].pc = "recv" => frame[t] = Waiting /\ frame[t].order = 0
  BY <1>1 DEF HandlerKnows
<1>3. ASSUME frame[t].pc # "recv"
      PROVE  LET s == Mine(t).symbol
             IN  /\ s \in Symbols /\ Works(t, s) /\ Peaceful(s) /\ Undisturbed(t)
                 /\ frame[t].order = Len(objs) /\ frame[t].order \in Orders
                 /\ Len(replies) < Len(objs)
  <2>1. Mine(t).symbol \in Symbols /\ frame[t].order \in Orders /\ frame[t].order # 0
    BY <1>1, <1>3, HandlerLists
  <2>2. Works(t, Mine(t).symbol)
    BY <1>3 DEF Works, At
  <2>3. Peaceful(Mine(t).symbol)
    BY <2>1 DEF OneInv, SInv
  <2>4. Undisturbed(t)
    BY <1>1, <2>2, <2>3 DEF Peaceful
  <2>5. Len(replies) < Len(objs) /\ frame[t].order = Len(objs)
    BY <1>1, <2>1, TypeFacts DEF OneInv
  <2> QED
    BY <2>1, <2>2, <2>3, <2>4, <2>5
<1> QED
  BY <1>1, <1>2, <1>3

LEMMA SeenOrders ==
    ASSUME TypeOK
    PROVE  /\ Len(SeenObjs) = Len(objs) /\ DOMAIN SeenObjs = Orders
           /\ \A n \in Orders :
                 /\ SeenObjs[n] = Seen(objs[n])
                 /\ SeenObjs[n].id = objs[n].id /\ SeenObjs[n].ts = objs[n].ts
                 /\ SeenObjs[n].symbol = objs[n].symbol /\ SeenObjs[n].side = objs[n].side
                 /\ SeenObjs[n].price = objs[n].price /\ SeenObjs[n].qty = objs[n].qty
                 /\ SeenObjs[n].type = objs[n].type /\ SeenObjs[n].filled = objs[n].filled
                 /\ SeenObjs[n].status = SeenStatus(objs[n])
<1>1. Len(objs) \in Nat
  BY TypeFacts
<1>2. DOMAIN SeenObjs = 1..Len(objs) /\ \A n \in 1..Len(objs) : SeenObjs[n] = Seen(objs[n])
  BY DEF SeenObjs
<1>3. Len(SeenObjs) = Len(objs)
  BY <1>1, <1>2
<1> QED
  BY <1>2, <1>3 DEF Orders, Seen

\* Outside of the sort and of a pop the lists are shown as they are.
LEMMA SettledPlain ==
    ASSUME NEW t, Threads = {t},
           \/ frame[t].pc \notin {"sort", "sorting", "drop"}
           \/ /\ frame[t].pc = "drop"
              /\ ~Sequential!FullyFilled(objs[frame[t].best])
    PROVE  \A s, d : Settled(s, d) = book[s][d]
<1>1. Solo = frame[t]
  BY SoloIs
<1> QED
  BY <1>1 DEF Settled, Sequential!FullyFilled

\* About to pop: without the head.
LEMMA SettledDrop ==
    ASSUME NEW t, Threads = {t}, frame[t].pc = "drop", frame[t].order # 0,
           Sequential!FullyFilled(objs[frame[t].best])
    PROVE  \A s, d : Settled(s, d) = IF s = Mine(t).symbol /\ d # Mine(t).side
                                     THEN Tail(book[s][d]) ELSE book[s][d]
<1>1. Solo = frame[t]
  BY SoloIs
<1> QED
  BY <1>1 DEF Settled, Mine, Sequential!FullyFilled

\* Appended, and not sorted yet: without the last.
LEMMA SettledSort ==
    ASSUME NEW t, Threads = {t}, frame[t].order # 0, frame[t].pc \in {"sort", "sorting"}
    PROVE  \A s, d : Settled(s, d) =
              IF s = Mine(t).symbol /\ d = Mine(t).side
              THEN Front(IF frame[t].pc = "sort" THEN book[s][d] ELSE frame[t].saved)
              ELSE book[s][d]
<1>1. Solo = frame[t]
  BY SoloIs
<1> QED
  BY <1>1 DEF Settled, Mine

\* Steps that the mapping does not show.
LEMMA SeenSame ==
    ASSUME NEW t, Threads = {t}, UNCHANGED <<objs, tape, replies>>,
           frame'[t].order = frame[t].order, frame'[t].trades = frame[t].trades,
           frame'[t].sum = frame[t].sum,
           \A s \in Symbols, d \in Sides : Settled(s, d)' = Settled(s, d)
    PROVE  UNCHANGED Sequential!vars
<1>1. Solo = frame[t] /\ Solo' = frame'[t]
  BY SoloIs
<1>2. SeenObjs' = SeenObjs
  BY DEF SeenObjs, Seen, SeenStatus
<1>3. SeenBook' = SeenBook
  BY DEF SeenBook
<1>4. \A i : Rested(i)' = Rested(i)
  BY DEF Rested
<1>5. SeenRegistry' = SeenRegistry
  BY <1>4 DEF SeenRegistry
<1> QED
  BY <1>1, <1>2, <1>3, <1>5, SeenState

\* The loop condition, the best price and the quantity to trade.
LEMMA QuietSteps ==
    ASSUME NEW t, Threads = {t}, OneInv(t), Look(t) \/ Peek(t) \/ Take(t) \/ Size(t)
    PROVE  UNCHANGED Sequential!vars
<1>1. /\ t \in Threads /\ TypeOK
      /\ frame[t].pc # "recv" => Undisturbed(t)
  BY AloneFacts
<1>2. ASSUME UNCHANGED <<objs, book, tape, replies>>, NEW pc, NEW best, NEW qty,
             frame[t].pc \in {"look", "peek", "take", "size"},
             pc \in {"record", "peek", "take", "size", "fill"}, Walks(t, pc, best, qty)
      PROVE  UNCHANGED Sequential!vars
  <2>1. /\ frame'[t].pc = pc /\ frame'[t].order = frame[t].order
        /\ frame'[t].trades = frame[t].trades /\ frame'[t].sum = frame[t].sum
    BY <1>1, <1>2, WalksFacts
  <2>2. Solo = frame[t] /\ Solo' = frame'[t]
    BY SoloIs
  <2>3. \A s \in Symbols, d \in Sides : Settled(s, d) = book[s][d]
    BY <1>2, SettledPlain
  <2>4. \A s \in Symbols, d \in Sides : Settled(s, d)' = book'[s][d]
    BY <1>2, <2>1, <2>2 DEF Settled
  <2> QED
    BY <1>2, <2>1, <2>3, <2>4, SeenSame
<1>3. CASE Look(t)
  BY <1>1, <1>2, <1>3, LookFacts DEF Untouched
<1>4. CASE Peek(t)
  <2>1. frame[t].pc = "peek"
    BY <1>4 DEF Peek, At
  <2>2. Makers(t) # <<>>
    BY <1>1, <2>1 DEF Undisturbed
  <2>3. PICK pc \in {"take", "record"} : Goto(t, pc)
    BY <1>4, <2>2 DEF Peek
  <2>4. Walks(t, pc, frame[t].best, frame[t].qty)
    BY <1>1, <2>3, PcSet
  <2>5. UNCHANGED <<objs, book, tape, replies>>
    BY <1>4 DEF Peek
  <2> QED
    BY <1>2, <2>1, <2>4, <2>5
<1>5. CASE Take(t)
  BY <1>1, <1>2, <1>5, TakeFacts DEF Untouched
<1>6. CASE Size(t)
  BY <1>1, <1>2, <1>6, SizeFacts DEF Untouched
<1> QED
  BY <1>3, <1>4, <1>5, <1>6

\* The pop: the mapping shows it at the fill before.
LEMMA DropIsQuiet ==
    ASSUME NEW t, Threads = {t}, OneInv(t), Drop(t)
    PROVE  UNCHANGED Sequential!vars
<1>0. frame[t].pc = "drop"
  BY DEF Drop, At
<1>1. /\ t \in Threads /\ TypeOK /\ Undisturbed(t) /\ HandlerKnows(t)
      /\ frame[t].order # 0
  BY <1>0, AloneFacts, HandlerLists
<1>2. Makers(t) # <<>>
  BY <1>0, <1>1 DEF Undisturbed
<1>3. UNCHANGED <<objs, tape, replies>> /\ Goto(t, "look")
  BY <1>2 DEF Drop
<1>4. /\ frame'[t].pc = "look" /\ frame'[t].order = frame[t].order
      /\ frame'[t].trades = frame[t].trades /\ frame'[t].sum = frame[t].sum
  BY <1>1, <1>3, PcSet, WalksFacts
<1>5. Solo = frame[t] /\ Solo' = frame'[t]
  BY SoloIs
<1>6. \A s \in Symbols, d \in Sides : Settled(s, d)' = book'[s][d]
  BY <1>4, <1>5 DEF Settled
<1>7. CASE ~Sequential!FullyFilled(objs[frame[t].best])
  <2>1. book' = book
    BY <1>7 DEF Drop
  <2>2. \A s \in Symbols, d \in Sides : Settled(s, d) = book[s][d]
    BY <1>0, <1>7, SettledPlain
  <2> QED
    BY <1>3, <1>4, <1>6, <2>1, <2>2, SeenSame
<1>8. CASE Sequential!FullyFilled(objs[frame[t].best])
  <2>1. PICK e : e = Sequential!Opposite(Mine(t).side)
    OBVIOUS
  <2>2. /\ Mine(t).symbol \in Symbols /\ Mine(t).side \in Sides /\ e \in Sides
        /\ e # Mine(t).side /\ Makers(t) = book[Mine(t).symbol][e]
        /\ Makers(t) \in Seq(Orders)
    BY <1>0, <1>1, <2>1, HandlerLists DEF Makers
  <2>3. PICK r \in Seq(Orders) : r = Tail(Makers(t))
    BY <1>2, <2>2, TailElements
  <2>4. Puts(Mine(t).symbol, e, r)
    BY <1>2, <1>8, <2>1, <2>2, <2>3 DEF Drop, Puts
  <2>5. \A s \in Symbols, d \in Sides :
           book'[s][d] = IF s = Mine(t).symbol /\ d = e THEN r ELSE book[s][d]
    BY <1>1, <2>2, <2>4, PutsFacts
  <2>6. \A s \in Symbols, d \in Sides :
           Settled(s, d) = IF s = Mine(t).symbol /\ d # Mine(t).side
                           THEN Tail(book[s][d]) ELSE book[s][d]
    BY <1>0, <1>1, <1>8, SettledDrop
  <2>7. \A d \in Sides : d = e <=> d # Mine(t).side
    BY <2>2 DEF Sides
  <2>8. \A s \in Symbols, d \in Sides : Settled(s, d)' = Settled(s, d)
    <3> SUFFICES ASSUME NEW s \in Symbols, NEW d \in Sides
                 PROVE  Settled(s, d)' = Settled(s, d)
      OBVIOUS
    <3>1. Settled(s, d)' = IF s = Mine(t).symbol /\ d = e THEN r ELSE book[s][d]
      BY <1>6, <2>5
    <3>2. Settled(s, d) = IF s = Mine(t).symbol /\ d = e THEN Tail(book[s][d])
                          ELSE book[s][d]
      BY <2>6, <2>7
    <3>3. CASE s = Mine(t).symbol /\ d = e
      <4>1. book[s][d] = Makers(t)
        BY <2>2, <3>3, Zenon
      <4> QED
        BY <2>3, <3>1, <3>2, <3>3, <4>1, Zenon
    <3> QED
      BY <3>1, <3>2, <3>3
  <2> QED
    BY <1>3, <1>4, <2>8, SeenSame
<1> QED
  BY <1>7, <1>8

LEMMA FrontOfAppend ==
    ASSUME NEW S, NEW l \in Seq(S), NEW e \in S
    PROVE  Front(Append(l, e)) = l
<1>1. PICK m \in Nat, a \in Seq(S) :
        /\ m = Len(l) /\ a = Append(l, e) /\ Len(a) = m + 1
        /\ \A i \in 1..m : a[i] = l[i]
  <2>1. /\ Append(l, e) \in Seq(S) /\ Len(Append(l, e)) = Len(l) + 1
        /\ \A i \in 1..Len(l) : Append(l, e)[i] = l[i]
    BY AppendProperties
  <2>2. Len(l) \in Nat
    BY LenProperties
  <2> QED
    BY <2>1, <2>2
<1>2. Front(a) = SubSeq(a, 1, m)
  BY <1>1 DEF Front
<1>3. \A i \in 1..m : a[i] \in S
  BY <1>1, ElementOfSeq
<1>4. /\ SubSeq(a, 1, m) \in Seq(S)
      /\ Len(SubSeq(a, 1, m)) = m
      /\ \A i \in 1..m : SubSeq(a, 1, m)[i] = l[i]
  <2>1. /\ SubSeq(a, 1, m) \in Seq(S)
        /\ Len(SubSeq(a, 1, m)) = IF 1 <= m THEN m - 1 + 1 ELSE 0
        /\ \A i \in 1..(m - 1 + 1) : SubSeq(a, 1, m)[i] = a[1 + i - 1]
    BY <1>3, SubSeqProperties
  <2> QED
    BY <1>1, <2>1
<1> QED
  BY <1>1, <1>2, <1>4, SeqEqual

\* The append: the mapping shows it at the end of the sort.
LEMMA RestIsQuiet ==
    ASSUME NEW t, Threads = {t}, OneInv(t), Rest(t)
    PROVE  UNCHANGED Sequential!vars
<1>0. frame[t].pc = "record"
  BY DEF Rest, At
<1>1. PICK s0, d0, own : s0 = Mine(t).symbol /\ d0 = Mine(t).side /\ own = frame[t].order
  OBVIOUS
<1>2. /\ t \in Threads /\ TypeOK /\ HandlerKnows(t)
      /\ s0 \in Symbols /\ d0 \in Sides /\ own \in Orders /\ own # 0
  BY <1>0, <1>1, AloneFacts, HandlerLists
<1>3. /\ UNCHANGED <<objs, tape, replies>> /\ Puts(s0, d0, Append(Own(t), own))
      /\ frame'[t].pc = "sort" /\ frame'[t].order = own
      /\ frame'[t].trades = frame[t].trades /\ frame'[t].sum = frame[t].sum
  BY <1>1, <1>2, RestFacts, WalksFacts DEF Untouched
<1>4. PICK l \in Seq(Orders) : l = Own(t) /\ l = book[s0][d0]
  BY <1>0, <1>1, <1>2, HandlerLists DEF Own
<1>5. PICK a \in Seq(Orders) : a = Append(l, own) /\ Front(a) = l
  <2>1. Append(l, own) \in Seq(Orders)
    BY <1>2, AppendProperties
  <2> QED
    BY <1>2, <2>1, FrontOfAppend
<1>6. \A s \in Symbols, d \in Sides :
         book'[s][d] = IF s = s0 /\ d = d0 THEN a ELSE book[s][d]
  <2>1. Puts(s0, d0, a)
    BY <1>3, <1>4, <1>5
  <2>2. \A s \in Symbols, d \in Sides :
           book'[s][d] = IF s = s0 /\ d = d0 THEN a ELSE book[s][d]
    BY <1>2, <2>1, PutsFacts
  <2> QED
    BY <2>2
<1>7. \A s \in Symbols, d \in Sides : Settled(s, d) = book[s][d]
  BY <1>0, SettledPlain
<1>8. Mine(t)' = Mine(t) /\ Solo' = frame'[t]
  BY <1>1, <1>3, SoloIs DEF Mine
<1>9. \A s \in Symbols, d \in Sides : Settled(s, d)' =
        IF s = s0 /\ d = d0 THEN Front(book'[s][d]) ELSE book'[s][d]
  BY <1>1, <1>2, <1>3, <1>8 DEF Settled, Mine
<1>10. \A s \in Symbols, d \in Sides : Settled(s, d)' = Settled(s, d)
  BY <1>4, <1>5, <1>6, <1>7, <1>9
<1> QED
  BY <1>1, <1>3, <1>10, SeenSame

\* The list that the sort empties is shown all the same.
LEMMA SortBeginIsQuiet ==
    ASSUME NEW t, Threads = {t}, OneInv(t), SortBegin(t)
    PROVE  UNCHANGED Sequential!vars
<1>0. frame[t].pc = "sort"
  BY DEF SortBegin, At
<1>1. PICK s0, d0, own : s0 = Mine(t).symbol /\ d0 = Mine(t).side /\ own = frame[t].order
  OBVIOUS
<1>2. /\ t \in Threads /\ TypeOK /\ Undisturbed(t)
      /\ s0 \in Symbols /\ d0 \in Sides /\ own \in Orders /\ own # 0
  BY <1>0, <1>1, AloneFacts, HandlerLists
<1>3. Own(t) # <<>>
  BY <1>0, <1>2 DEF Undisturbed, Extended
<1>4. PICK l \in Seq(Orders) : l = Own(t) /\ l = book[s0][d0]
  BY <1>1, <1>2, TypeFacts DEF Own
<1>5. /\ UNCHANGED <<objs, tape, replies>> /\ Puts(s0, d0, <<>>)
      /\ frame' = [frame EXCEPT ![t] = [frame[t] EXCEPT !.pc = "sorting", !.saved = l]]
  BY <1>1, <1>3, <1>4 DEF SortBegin, Puts
<1>6. Becomes(t, [pc |-> "sorting", order |-> frame[t].order, best |-> frame[t].best,
                  qty |-> frame[t].qty, trades |-> frame[t].trades, sum |-> frame[t].sum,
                  saved |-> l])
  <2>1. frame[t] \in FrameUpTo(Len(objs))
    BY <1>2, TypeFacts
  <2>2. [frame[t] EXCEPT !.pc = "sorting", !.saved = l] =
          [pc |-> "sorting", order |-> frame[t].order, best |-> frame[t].best,
           qty |-> frame[t].qty, trades |-> frame[t].trades, sum |-> frame[t].sum,
           saved |-> l]
    BY <2>1, FieldsChange, Zenon
  <2> QED
    BY <1>5, <2>2, Zenon DEF Becomes
<1>7. /\ frame'[t].pc = "sorting" /\ frame'[t].order = own /\ frame'[t].saved = l
      /\ frame'[t].trades = frame[t].trades /\ frame'[t].sum = frame[t].sum
  BY <1>1, <1>2, <1>6, BecomesFacts
<1>8. \A s \in Symbols, d \in Sides :
         book'[s][d] = IF s = s0 /\ d = d0 THEN <<>> ELSE book[s][d]
  <2>1. PICK z \in Seq(Orders) : z = <<>>
    BY EmptySeq
  <2> QED
    <3>1. Puts(s0, d0, z)
      BY <1>5, <2>1
    <3>2. \A s \in Symbols, d \in Sides :
             book'[s][d] = IF s = s0 /\ d = d0 THEN z ELSE book[s][d]
      BY <1>2, <3>1, PutsFacts
    <3> QED
      BY <2>1, <3>2
<1>9. \A s \in Symbols, d \in Sides : Settled(s, d) =
        IF s = s0 /\ d = d0 THEN Front(book[s][d]) ELSE book[s][d]
  BY <1>0, <1>1, <1>2, SettledSort
<1>10. Mine(t)' = Mine(t) /\ Solo' = frame'[t]
  BY <1>1, <1>5, <1>7, SoloIs DEF Mine
<1>11. \A s \in Symbols, d \in Sides : Settled(s, d)' =
        IF s = s0 /\ d = d0 THEN Front(l) ELSE book'[s][d]
  BY <1>1, <1>2, <1>7, <1>10 DEF Settled, Mine
<1>12. \A s \in Symbols, d \in Sides : Settled(s, d)' = Settled(s, d)
  BY <1>4, <1>8, <1>9, <1>11
<1> QED
  BY <1>1, <1>5, <1>7, <1>12, SeenSame

\* The LIMIT orders that an answer leaves resting.
Leaves(r, n) ==
    r.order = n /\ r.status \in {"PENDING", "PARTIALLY_FILLED"}

LEMMA RestedForms ==
    /\ \A i, n : n \in Rested(i) <=>
          /\ n \in Orders /\ objs[n].id = i /\ objs[n].type = "LIMIT"
          /\ \E k \in 1..Len(replies) : Leaves(replies[k], n)
    /\ \A i, n : n \in Rested(i)' <=>
          /\ n \in Orders' /\ objs'[n].id = i /\ objs'[n].type = "LIMIT"
          /\ \E k \in 1..Len(replies') : Leaves(replies'[k], n)
BY DEF Rested, Orders, Leaves

\* A response more.
LEMMA LeavesMore ==
    ASSUME TypeOK, NEW r \in Sequential!ReplyRecord, replies' = Append(replies, r), NEW n
    PROVE  (\E k \in 1..Len(replies') : Leaves(replies'[k], n)) <=>
              (\E k \in 1..Len(replies) : Leaves(replies[k], n)) \/ Leaves(r, n)
<1>1. PICK m \in Nat, old \in Seq(Sequential!ReplyRecord) : m = Len(replies) /\ old = replies
  BY TypeFacts
<1>2. /\ Len(replies') = m + 1 /\ replies'[m + 1] = r
      /\ \A k \in 1..m : replies'[k] = old[k]
  BY <1>1, AppendElements
<1>3. \A k \in 1..(m + 1) : k \in 1..m \/ k = m + 1
  OBVIOUS
<1>4. m + 1 \in 1..(m + 1) /\ \A k \in 1..m : k \in 1..(m + 1)
  OBVIOUS
<1> QED
  BY <1>1, <1>2, <1>3, <1>4, Zenon

LEMMA RestedKept ==
    ASSUME TypeOK, RepliesName, SameOrders,
           \/ replies' = replies
           \/ \E r \in Sequential!ReplyRecord :
                 /\ replies' = Append(replies, r)
                 /\ r.status \in {"PENDING", "PARTIALLY_FILLED"} =>
                       r.order \in Orders /\ objs[r.order].type # "LIMIT"
    PROVE  SeenRegistry' = SeenRegistry
<1>1. \A k \in 1..Len(replies) : replies[k].order \in Orders
  BY DEF RepliesName
<1>2. /\ \A n \in Orders : n \in Orders'
      /\ \A n \in Orders : objs'[n].id = objs[n].id /\ objs'[n].type = objs[n].type
  BY TypeFacts DEF SameOrders, Orders
<1>3. ASSUME NEW i, NEW n
      PROVE  n \in Rested(i)' <=> n \in Rested(i)
  <2>1. CASE replies' = replies
    BY <1>1, <1>2, <2>1, RestedForms DEF Leaves
  <2>2. CASE \E r \in Sequential!ReplyRecord :
               /\ replies' = Append(replies, r)
               /\ r.status \in {"PENDING", "PARTIALLY_FILLED"} =>
                     r.order \in Orders /\ objs[r.order].type # "LIMIT"
    <3>1. PICK r \in Sequential!ReplyRecord :
            /\ replies' = Append(replies, r)
            /\ r.status \in {"PENDING", "PARTIALLY_FILLED"} =>
                  r.order \in Orders /\ objs[r.order].type # "LIMIT"
      BY <2>2
    <3>2. (\E k \in 1..Len(replies') : Leaves(replies'[k], n)) <=>
             (\E k \in 1..Len(replies) : Leaves(replies[k], n)) \/ Leaves(r, n)
      BY <3>1, LeavesMore
    <3>3. Leaves(r, n) => n \in Orders /\ objs[n].type # "LIMIT"
      BY <3>1 DEF Leaves
    <3> QED
      BY <1>1, <1>2, <3>2, <3>3, RestedForms DEF Leaves
  <2> QED
    BY <2>1, <2>2
<1>4. ASSUME NEW i
      PROVE  Rested(i)' = Rested(i)
  <2>1. \A n : n \in Rested(i)' <=> n \in Rested(i)
    BY <1>3
  <2> QED
    BY <2>1
<1> QED
  BY <1>4 DEF SeenRegistry

\* The order that has come last joins those that rest.
LEMMA RestedJoined ==
    ASSUME TypeOK, NEW r \in Sequential!ReplyRecord, UNCHANGED objs,
           replies' = Append(replies, r), r.order \in Orders, r.order = Len(objs),
           objs[r.order].type = "LIMIT", r.status \in {"PENDING", "PARTIALLY_FILLED"}
    PROVE  SeenRegistry' = [SeenRegistry EXCEPT ![objs[r.order].id] = r.order]
<1>1. PICK own, id : own \in Orders /\ own = r.order /\ id = objs[own].id
  OBVIOUS
<1>2. \A n : Leaves(r, n) <=> n = own
  BY <1>1 DEF Leaves
<1>3. ASSUME NEW i, i # id
      PROVE  Rested(i)' = Rested(i)
  <2>1. \A n : (\E k \in 1..Len(replies') : Leaves(replies'[k], n)) <=>
                  (\E k \in 1..Len(replies) : Leaves(replies[k], n)) \/ Leaves(r, n)
    BY LeavesMore
  <2>2. \A n : n \in Rested(i)' <=> n \in Rested(i)
    BY <1>1, <1>2, <1>3, <2>1, RestedForms DEF Orders
  <2> QED
    BY <2>2
<1>4. PICK S : S = Rested(id)'
  OBVIOUS
<1>5. own \in S /\ \A n \in S : n \in Nat /\ n <= own
  <2>1. own \in S
    <3>1. \E k \in 1..Len(replies') : Leaves(replies'[k], own)
      BY <1>2, LeavesMore
    <3> QED
      BY <1>1, <1>4, <3>1, RestedForms DEF Orders
  <2>2. \A n \in S : n \in Orders
    BY <1>4, RestedForms DEF Orders
  <2> QED
    BY <1>1, <2>1, <2>2, TypeFacts DEF Orders
<1>6. Newest(S) = own
  <2>1. own \in Nat
    BY <1>5
  <2>2. \A n \in S : (\A k \in S : k <= n) <=> n = own
    BY <1>5, <2>1
  <2>3. (CHOOSE n \in S : \A k \in S : k <= n) = own
    BY <1>5, <2>2
  <2> QED
    BY <1>5, <2>3 DEF Newest
<1>7. \A i \in OrderIds : SeenRegistry'[i] = IF i = id THEN own ELSE SeenRegistry[i]
  <2> TAKE i \in OrderIds
  <2>1. SeenRegistry'[i] = Newest(Rested(i)') /\ SeenRegistry[i] = Newest(Rested(i))
    BY DEF SeenRegistry
  <2>2. CASE i = id
    BY <1>4, <1>6, <2>1, <2>2
  <2>3. CASE i # id
    BY <1>3, <2>1, <2>3
  <2> QED
    BY <2>2, <2>3
<1>8. /\ SeenRegistry = [i \in OrderIds |-> SeenRegistry[i]]
      /\ SeenRegistry' = [i \in OrderIds |-> SeenRegistry'[i]]
  BY DEF SeenRegistry
<1>9. SeenRegistry' = [SeenRegistry EXCEPT ![id] = own]
  <2>1. PICK f, g : f = SeenRegistry /\ g = SeenRegistry'
    OBVIOUS
  <2>2. /\ f = [i \in OrderIds |-> f[i]] /\ g = [i \in OrderIds |-> g[i]]
        /\ \A i \in OrderIds : g[i] = IF i = id THEN own ELSE f[i]
    BY <1>7, <1>8, <2>1, Zenon
  <2>3. g = [f EXCEPT ![id] = own]
    BY <2>2
  <2> QED
    BY <2>1, <2>3
<1> QED
  BY <1>1, <1>9

LEMMA SeenMakersAre ==
    ASSUME NEW t, Threads = {t}, OneInv(t),
           frame[t].pc \in {"fill", "record", "sort", "sorting"}
    PROVE  /\ SeenMakers = Makers(t)
           /\ SeenObjs[Solo.order] = Seen(Mine(t)) /\ Solo.order = frame[t].order
<1>1. PICK s0, d0, e, own : /\ s0 = Mine(t).symbol /\ d0 = Mine(t).side
                            /\ e = Sequential!Opposite(d0) /\ own = frame[t].order
  OBVIOUS
<1>2. /\ t \in Threads /\ TypeOK /\ s0 \in Symbols /\ d0 \in Sides /\ e \in Sides
      /\ e # d0 /\ own \in Orders /\ own # 0
  BY <1>1, AloneFacts, HandlerLists
<1>3. /\ Solo.order = own /\ SeenObjs[own] = Seen(objs[own])
      /\ SeenObjs[own].symbol = s0 /\ SeenObjs[own].side = d0
  BY <1>1, <1>2, SoloIs, SeenOrders DEF Mine
<1>4. Settled(s0, e) = book[s0][e]
  <2>1. CASE frame[t].pc \in {"fill", "record"}
    BY <2>1, SettledPlain
  <2>2. CASE frame[t].pc \in {"sort", "sorting"}
    <3>1. \A s, d : Settled(s, d) =
              IF s = Mine(t).symbol /\ d = Mine(t).side
              THEN Front(IF frame[t].pc = "sort" THEN book[s][d] ELSE frame[t].saved)
              ELSE book[s][d]
      BY <1>1, <1>2, <2>2, SettledSort
    <3> QED
      BY <1>1, <1>2, <3>1
  <2> QED
    BY <2>1, <2>2
<1>5. SeenBook[s0][e] = Settled(s0, e)
  BY <1>2 DEF SeenBook
<1>6. SeenMakers = SeenBook[s0][e]
  BY <1>1, <1>3 DEF SeenMakers
<1> QED
  BY <1>1, <1>3, <1>4, <1>5, <1>6 DEF Makers, Mine

\* A handler that is done with the loop finds nothing more to trade with.
LEMMA LoopDone ==
    ASSUME NEW t, Threads = {t}, OneInv(t), frame[t].pc \in {"record", "sorting"}
    PROVE  ~Sequential!CanMatch
<1>1. PICK s, e, h : /\ s = Mine(t).symbol /\ e = Sequential!Opposite(Mine(t).side)
                     /\ h = Head(Makers(t))
  OBVIOUS
<1>2. /\ t \in Threads /\ TypeOK /\ Placed /\ Works(t, s) /\ Undisturbed(t) /\ Peaceful(s)
      /\ frame[t].order \in Orders /\ s \in Symbols
  BY <1>1, AloneFacts
<1>3. SUFFICES ASSUME Makers(t) # <<>>, Sequential!Remaining(Seen(Mine(t))) > 0,
                      Mine(t).type = "LIMIT" =>
                         Sequential!Crosses(Seen(Mine(t)), SeenObjs[h])
               PROVE  FALSE
  <2>1. Seen(Mine(t)).type = Mine(t).type
    BY DEF Seen
  <2> QED
    BY <1>1, <2>1, SeenMakersAre, SeenCanMatch
<1>4. h \in Orders /\ e \in Sides /\ MayList(h, s, e) /\ InBook(h, s, e)
  BY <1>1, <1>2, <1>3, WorkerHead
<1>5. /\ Mine(t).qty \in Int /\ Mine(t).filled \in Int /\ Mine(t).price \in Int
      /\ objs[h].price \in Int
  BY <1>2, <1>4, OrderFacts DEF Mine
<1>6. ~Sequential!FullyFilled(Mine(t))
  BY <1>3, <1>5 DEF Sequential!FullyFilled, Sequential!Remaining, Seen
<1>7. Sequential!Crosses(Seen(Mine(t)), SeenObjs[h]) <=> Sequential!Crosses(Mine(t), objs[h])
  <2>1. SeenObjs[h].side = objs[h].side /\ SeenObjs[h].price = objs[h].price
    BY <1>2, <1>4, SeenOrders
  <2>2. Seen(Mine(t)).price = Mine(t).price
    BY DEF Seen
  <2> QED
    BY <2>1, <2>2 DEF Sequential!Crosses
<1>8. CASE frame[t].pc = "record"
  BY <1>1, <1>2, <1>3, <1>6, <1>7, <1>8 DEF Undisturbed
<1>9. CASE frame[t].pc = "sorting"
  <2>1. PICK own, d : own = frame[t].order /\ d = Mine(t).side
    OBVIOUS
  <2>2. /\ Mine(t).type = "LIMIT" /\ d \in Sides /\ e \in Sides \ {d}
        /\ Mine(t).symbol = s
    BY <1>1, <1>2, <1>9, <2>1, WorkerFacts
  <2>3. InSort(own, t)
    <3>1. /\ frame[t].saved # <<>> /\ frame[t].saved[Len(frame[t].saved)] = own
      BY <1>2, <1>9, <2>1 DEF Undisturbed, Extended
    <3>2. Len(frame[t].saved) \in 1..Len(frame[t].saved)
      <4>1. frame[t].saved \in Seq(Orders) /\ Len(frame[t].saved) \in Nat
        BY <1>2, FrameFacts
      <4>2. Len(frame[t].saved) # 0
        BY <3>1, <4>1, EmptySeq
      <4> QED
        BY <4>1, <4>2
    <3> QED
      BY <3>1, <3>2 DEF InSort
  <2>4. Entry(own, s, d) /\ Entry(h, s, e)
    BY <1>2, <1>4, <2>1, <2>3 DEF Entry, InSort, InBook
  <2>5. /\ d = "BUY" => objs[own].price < objs[h].price
        /\ d = "SELL" => objs[h].price < objs[own].price
    BY <1>2, <1>4, <2>1, <2>2, <2>4 DEF Peaceful, Uncrossed, Sides
  <2>6. Sequential!Crosses(Mine(t), objs[h]) /\ objs[h].side = e /\ Mine(t) = objs[own]
    BY <1>3, <1>4, <1>7, <2>1, <2>2 DEF MayList, Mine
  <2> QED
    BY <2>2, <2>5, <2>6 DEF Sequential!Crosses, Sequential!Better, Sides
<1> QED
  BY <1>8, <1>9

LEMMA SeenBookKept ==
    ASSUME \A s \in Symbols, d \in Sides : Settled(s, d)' = Settled(s, d)
    PROVE  SeenBook' = SeenBook
BY DEF SeenBook

LEMMA SeenObjsKept == ASSUME UNCHANGED objs PROVE UNCHANGED SeenObjs
BY DEF SeenObjs, Seen, SeenStatus

\* One round of the loop over the trades.
LEMMA RecordShows ==
    ASSUME NEW t, Threads = {t}, OneInv(t), Record(t)
    PROVE  Sequential!RecordTrade
<1>1. /\ frame[t].pc = "record" /\ t \in Threads /\ TypeOK /\ RepliesName
      /\ frame[t].order # 0
  BY AloneFacts, HandlerLists DEF Record, At
<1>2. PICK sum, ts :
        /\ sum = [qty |-> frame[t].sum.qty + Head(frame[t].trades).qty,
                  price |-> Head(frame[t].trades).price]
        /\ ts = Tail(frame[t].trades)
  OBVIOUS
<1>3. /\ frame[t].trades # <<>> /\ UNCHANGED <<objs, book, replies>>
      /\ tape' = Append(tape, Head(frame[t].trades))
      /\ Becomes(t, [pc |-> frame[t].pc, order |-> frame[t].order, best |-> frame[t].best,
                     qty |-> frame[t].qty, trades |-> ts, sum |-> sum,
                     saved |-> frame[t].saved])
  BY <1>1, <1>2, RecordFacts, Zenon
<1>4. /\ frame'[t].pc = "record" /\ frame'[t].order = frame[t].order
      /\ frame'[t].trades = ts /\ frame'[t].sum = sum
  BY <1>1, <1>3, BecomesFacts
<1>5. Solo = frame[t] /\ Solo' = frame'[t]
  BY SoloIs
<1>6. SeenBook' = SeenBook
  <2>1. \A s \in Symbols, d \in Sides : Settled(s, d) = book[s][d]
    BY <1>1, SettledPlain
  <2>2. \A s \in Symbols, d \in Sides : Settled(s, d)' = book'[s][d]
    BY <1>4, <1>5 DEF Settled
  <2> QED
    BY <1>3, <2>1, <2>2, SeenBookKept
<1>7. SeenRegistry' = SeenRegistry
  <2>1. SameOrders
    BY <1>1, <1>3, TypeFacts DEF SameOrders
  <2> QED
    BY <1>1, <1>3, <2>1, RestedKept
<1>8. SeenObjs' = SeenObjs
  BY <1>3, SeenObjsKept
<1>9. ~Sequential!CanMatch
  BY <1>1, LoopDone
<1> QED
  BY <1>1, <1>2, <1>3, <1>4, <1>5, <1>6, <1>7, <1>8, <1>9, SeenRecords

\* A response, after which the thread waits for the next request.
LEMMA AnswerShows ==
    ASSUME NEW t, Threads = {t}, OneInv(t), frame[t].pc \in {"record", "sorting"},
           frame[t].trades = <<>>, NEW status, Answer(t, status), UNCHANGED <<objs, tape>>
    PROVE  Sequential!Respond(status)
<1>1. /\ t \in Threads /\ TypeOK /\ frame[t].order # 0 /\ ~Sequential!CanMatch
  BY AloneFacts, HandlerLists, LoopDone
<1>2. /\ replies' = Append(replies, Sequential!Reply(frame[t].order, status,
                             frame[t].sum.price, frame[t].sum.qty))
      /\ frame'[t] = Waiting
  BY <1>1, BecomesFacts DEF Answer, Becomes
<1>3. Solo = frame[t] /\ Solo' = frame'[t] /\ SeenObjs' = SeenObjs
  BY SoloIs, SeenObjsKept
<1> QED
  BY <1>1, <1>2, <1>3, SeenResponds DEF Waiting

LEMMA FinishShows ==
    ASSUME NEW t, Threads = {t}, OneInv(t), Finish(t)
    PROVE  Sequential!FinishMarket \/ Sequential!FinishFilledLimit
<1>1. /\ frame[t].pc = "record" /\ t \in Threads /\ TypeOK /\ RepliesName
      /\ frame[t].order # 0 /\ frame[t].order \in Orders
  BY AloneFacts, HandlerLists DEF Finish, At
<1>2. frame[t].trades = <<>> /\ UNCHANGED <<objs, book, tape>>
  BY DEF Finish
<1>3. /\ Solo = frame[t] /\ SeenObjs[Solo.order] = Seen(Mine(t))
      /\ Seen(Mine(t)).type = Mine(t).type /\ Seen(Mine(t)).qty = Mine(t).qty
      /\ Seen(Mine(t)).filled = Mine(t).filled
  BY <1>1, SoloIs, SeenMakersAre DEF Seen
<1>4. ASSUME NEW status \in Sequential!Statuses, Answer(t, status),
             status \in {"PENDING", "PARTIALLY_FILLED"} => Mine(t).type # "LIMIT"
      PROVE  SeenBook' = SeenBook /\ SeenRegistry' = SeenRegistry
  <2>1. frame'[t] = Waiting /\ Solo' = frame'[t]
    BY <1>1, <1>4, BecomesFacts, SoloIs DEF Answer, Becomes
  <2>2. \A s \in Symbols, d \in Sides : Settled(s, d) = book[s][d]
    BY <1>1, SettledPlain
  <2>3. \A s \in Symbols, d \in Sides : Settled(s, d)' = book'[s][d]
    BY <2>1 DEF Settled, Waiting
  <2>4. PICK r : r = Sequential!Reply(frame[t].order, status, frame[t].sum.price,
                                      frame[t].sum.qty)
    OBVIOUS
  <2>5. /\ replies' = Append(replies, r) /\ r \in Sequential!ReplyRecord
        /\ r.order = frame[t].order /\ r.status = status
    <3>1. frame[t].sum.price \in Int /\ frame[t].sum.qty \in Int /\ frame[t].order \in Nat
      BY <1>1, FrameFacts DEF Orders
    <3> QED
      BY <1>4, <2>4, <3>1 DEF Answer, Sequential!Reply, Sequential!ReplyRecord
  <2>6. SameOrders
    BY <1>1, <1>2, TypeFacts DEF SameOrders
  <2>7. SeenRegistry' = SeenRegistry
    BY <1>1, <1>4, <2>5, <2>6, RestedKept DEF Mine
  <2> QED
    BY <1>2, <2>2, <2>3, <2>7, SeenBookKept
<1>5. CASE /\ Mine(t).type = "MARKET"
           /\ Answer(t, IF frame[t].sum.qty = 0 THEN "REJECTED"
                        ELSE IF frame[t].sum.qty < Mine(t).qty THEN "PARTIALLY_FILLED"
                        ELSE "FILLED")
  <2>1. PICK status \in Sequential!Statuses :
          status = IF frame[t].sum.qty = 0 THEN "REJECTED"
                   ELSE IF frame[t].sum.qty < Mine(t).qty THEN "PARTIALLY_FILLED"
                   ELSE "FILLED"
    BY DEF Sequential!Statuses
  <2>2. Answer(t, status)
    BY <1>5, <2>1, Zenon
  <2>3. Sequential!Respond(status) /\ SeenBook' = SeenBook /\ SeenRegistry' = SeenRegistry
    BY <1>1, <1>2, <1>4, <1>5, <2>2, AnswerShows
  <2>4. Sequential!Respond(IF Solo.sum.qty = 0 THEN "REJECTED"
                   ELSE IF Solo.sum.qty < SeenObjs[Solo.order].qty THEN "PARTIALLY_FILLED"
                   ELSE "FILLED")
    BY <1>3, <2>1, <2>3, Zenon
  <2> QED
    BY <1>1, <1>3, <1>5, <2>3, <2>4, SeenMarket
<1>6. CASE /\ Mine(t).type = "LIMIT" /\ Sequential!FullyFilled(Mine(t))
           /\ Answer(t, "FILLED")
  <2>1. "FILLED" \in Sequential!Statuses \ {"PENDING", "PARTIALLY_FILLED"}
    BY DEF Sequential!Statuses
  <2>2. Sequential!Respond("FILLED") /\ SeenBook' = SeenBook /\ SeenRegistry' = SeenRegistry
    BY <1>1, <1>2, <1>4, <1>6, <2>1, AnswerShows
  <2>3. Sequential!FullyFilled(SeenObjs[Solo.order])
    BY <1>3, <1>6 DEF Sequential!FullyFilled
  <2> QED
    BY <1>1, <1>3, <1>6, <2>2, <2>3, SeenFilled
<1> QED
  BY <1>5, <1>6 DEF Finish

\* A request parsed.
LEMMA SeenGrows ==
    ASSUME TypeOK, NEW m \in Messages, NEW refused \in BOOLEAN,
           objs' = Append(objs, Parsed(m, refused))
    PROVE  /\ SeenObjs' = Append(SeenObjs, Sequential!NewOrder(m,
                                   IF refused THEN "REJECTED" ELSE "PENDING"))
           /\ SameOrders
<1>1. PICK k \in Nat : k = Len(objs)
  BY TypeFacts
<1>2. Parsed(m, refused) \in OrderObject
  BY ParsedFacts
<1>3. /\ Len(objs') = k + 1 /\ objs'[k + 1] = Parsed(m, refused)
      /\ \A n \in 1..k : objs'[n] = objs[n]
  BY <1>1, <1>2, ArrivalFacts DEF Orders
<1>4. /\ SeenObjs = [n \in 1..k |-> Seen(objs[n])]
      /\ SeenObjs' = [n \in 1..(k + 1) |-> Seen(objs'[n])]
  BY <1>1, <1>3 DEF SeenObjs
<1>5. PICK S : S = {Seen(objs'[n]) : n \in 1..(k + 1)}
  OBVIOUS
<1>6. /\ \A n \in 1..(k + 1) : Seen(objs'[n]) \in S
      /\ \A n \in 1..k : Seen(objs[n]) = Seen(objs'[n]) /\ n \in 1..(k + 1)
  BY <1>3, <1>5
<1>7. SeenObjs \in [1..k -> S] /\ SeenObjs' \in [1..(k + 1) -> S]
  BY <1>4, <1>6
<1>8. \A n \in 1..k : SeenObjs'[n] = SeenObjs[n]
  BY <1>4, <1>6
<1>9. SeenObjs' = Append(SeenObjs, SeenObjs'[k + 1])
  BY <1>7, <1>8, LongerByOne
<1>10. SeenObjs'[k + 1] = Seen(Parsed(m, refused))
  <2>1. k + 1 \in 1..(k + 1)
    OBVIOUS
  <2> QED
    BY <1>3, <1>4, <2>1
<1>11. Seen(Parsed(m, refused)) =
         Sequential!NewOrder(m, IF refused THEN "REJECTED" ELSE "PENDING")
  BY DEF Seen, SeenStatus, Parsed, Sequential!NewOrder
<1> QED
  BY <1>2, <1>9, <1>10, <1>11, ArrivalSame

LEMMA ReceiveShows ==
    ASSUME NEW t, Threads = {t}, OneInv(t), NEW m \in Messages, Receive(t, m)
    PROVE  Sequential!Accept(m)
<1>1. /\ frame[t].pc = "recv" /\ Len(objs) < MaxRequests
  BY DEF Receive, At
<1>2. /\ t \in Threads /\ TypeOK /\ RepliesName /\ frame[t] = Waiting /\ frame[t].order = 0
  BY <1>1, AloneFacts
<1>3. Len(replies) = Len(objs)
  BY <1>2, TypeFacts DEF OneInv
<1>4. /\ Sequential!Valid(m) /\ objs' = Append(objs, Parsed(m, FALSE))
      /\ UNCHANGED <<book, tape, replies>>
      /\ Becomes(t, [pc |-> "look", order |-> Len(objs) + 1, best |-> 0, qty |-> 0,
                     trades |-> <<>>, sum |-> [qty |-> 0, price |-> 0],
                     saved |-> <<>>])
  BY <1>2, ReceiveFacts
<1>5. /\ frame'[t].pc = "look" /\ frame'[t].order = Len(objs) + 1
      /\ frame'[t].trades = frame[t].trades /\ frame'[t].sum = frame[t].sum
  BY <1>2, <1>4, BecomesFacts DEF Waiting
<1>6. Solo = frame[t] /\ Solo' = frame'[t]
  BY SoloIs
<1>7. SeenObjs' = Append(SeenObjs, Sequential!NewOrder(m, "PENDING")) /\ SameOrders
  BY <1>2, <1>4, SeenGrows
<1>8. SeenRegistry' = SeenRegistry
  BY <1>2, <1>4, <1>7, RestedKept
<1>9. SeenBook' = SeenBook
  <2>1. \A s \in Symbols, d \in Sides : Settled(s, d) = book[s][d]
    BY <1>1, SettledPlain
  <2>2. \A s \in Symbols, d \in Sides : Settled(s, d)' = book'[s][d]
    BY <1>5, <1>6 DEF Settled
  <2> QED
    BY <1>4, <2>1, <2>2, SeenBookKept
<1>10. Len(replies) < MaxRequests
  BY <1>1, <1>3
<1>11. Len(SeenObjs) = Len(objs)
  BY <1>2, SeenOrders
<1> QED
  BY <1>2, <1>4, <1>5, <1>6, <1>7, <1>8, <1>9, <1>10, <1>11, SeenAccepts

LEMMA RefuseShows ==
    ASSUME NEW t, Threads = {t}, OneInv(t), NEW m \in Messages, Refuse(t, m)
    PROVE  Sequential!RejectInvalid(m)
<1>1. /\ frame[t].pc = "recv" /\ Len(objs) < MaxRequests /\ ~Sequential!Valid(m)
      /\ UNCHANGED <<book, tape, frame>> /\ objs' = Append(objs, Parsed(m, TRUE))
      /\ replies' = Append(replies, Sequential!Reply(Len(objs) + 1, "REJECTED", 0, 0))
  BY DEF Refuse, At
<1>2. /\ t \in Threads /\ TypeOK /\ RepliesName /\ frame[t] = Waiting /\ frame[t].order = 0
  BY <1>1, AloneFacts
<1>3. Len(replies) < MaxRequests
  BY <1>1, <1>2, TypeFacts DEF OneInv
<1>4. Solo = frame[t] /\ Solo' = frame[t]
  BY <1>1, SoloIs
<1>5. SeenObjs' = Append(SeenObjs, Sequential!NewOrder(m, "REJECTED")) /\ SameOrders
  BY <1>1, <1>2, SeenGrows
<1>6. SeenRegistry' = SeenRegistry
  <2>1. PICK n \in Nat : n = Len(objs) + 1
    BY <1>2, TypeFacts
  <2>2. /\ Sequential!Reply(n, "REJECTED", 0, 0) \in Sequential!ReplyRecord
        /\ Sequential!Reply(n, "REJECTED", 0, 0).status = "REJECTED"
    BY DEF Sequential!Reply, Sequential!ReplyRecord, Sequential!Statuses
  <2>3. replies' = Append(replies, Sequential!Reply(n, "REJECTED", 0, 0))
    BY <1>1, <2>1
  <2> QED
    BY <1>2, <1>5, <2>2, <2>3, RestedKept
<1>7. SeenBook' = SeenBook
  <2>1. \A s \in Symbols, d \in Sides : Settled(s, d) = book[s][d]
    BY <1>1, SettledPlain
  <2>2. \A s \in Symbols, d \in Sides : Settled(s, d)' = book'[s][d]
    BY <1>2, <1>4 DEF Settled
  <2> QED
    BY <1>1, <2>1, <2>2, SeenBookKept
<1>8. Len(SeenObjs) = Len(objs)
  BY <1>2, SeenOrders
<1> QED
  BY <1>1, <1>2, <1>3, <1>4, <1>5, <1>6, <1>7, <1>8, SeenRejects

\* With one thread nothing is contended, the order in the handler is the last,
\* and all others are answered.
LEMMA OneInvStep ==
    ASSUME NEW t, Threads = {t}, OneInv(t), [Next]_vars
    PROVE  OneInv(t)'
<1>1. /\ t \in Threads /\ Placed /\ Known /\ TypeOK /\ HandlerKnows(t) /\ contended = {}
      /\ frame[t].pc = "recv" => frame[t] = Waiting /\ frame[t].order = 0
      /\ Len(objs) \in Nat /\ Len(replies) \in Nat /\ SInv
      /\ replies \in Seq(Sequential!ReplyRecord)
      /\ frame[t].order # 0 => frame[t].order = Len(objs)
      /\ Len(replies) + (IF frame[t].order # 0 THEN 1 ELSE 0) = Len(objs)
  BY AloneFacts, TypeFacts DEF OneInv
<1>2. SInv'
  BY <1>1, PeaceStep
<1>3. CASE UNCHANGED vars
  BY <1>1, <1>2, <1>3 DEF OneInv, vars
<1>4. ASSUME NEW m \in Messages, Receive(t, m)
      PROVE  OneInv(t)'
  <2>1. contended' = contended
    BY <1>4 DEF Receive
  <2>2. /\ frame[t].pc = "recv" /\ objs' = Append(objs, Parsed(m, FALSE))
        /\ replies' = replies
        /\ Becomes(t, [pc |-> "look", order |-> Len(objs) + 1, best |-> 0, qty |-> 0,
                       trades |-> <<>>, sum |-> [qty |-> 0, price |-> 0],
                       saved |-> <<>>])
    BY <1>1, <1>4, ReceiveFacts
  <2>3. frame'[t].order = Len(objs) + 1
    BY <1>1, <2>2, BecomesFacts
  <2>4. Len(objs') = Len(objs) + 1
    BY <1>1, <2>2, ParsedFacts, ArrivalFacts
  <2>5. frame[t].order = 0
    BY <1>1, <2>2
  <2> QED
    BY <1>1, <1>2, <2>1, <2>2, <2>3, <2>4, <2>5 DEF OneInv
<1>5. ASSUME NEW m \in Messages, Refuse(t, m)
      PROVE  OneInv(t)'
  <2>1. /\ objs' = Append(objs, Parsed(m, TRUE)) /\ UNCHANGED <<frame, contended>>
        /\ \E r \in Sequential!ReplyRecord : replies' = Append(replies, r)
    BY <1>1, <1>5, RefuseFacts
  <2>2. Len(objs') = Len(objs) + 1
    BY <1>1, <2>1, ParsedFacts, ArrivalFacts
  <2>3. Len(replies') = Len(replies) + 1
    BY <1>1, <2>1, AppendElements
  <2>4. frame[t].order = 0
    BY <1>1, <1>5 DEF Refuse, At
  <2> QED
    BY <1>1, <1>2, <2>1, <2>2, <2>3, <2>4 DEF OneInv
<1>6. ASSUME Work(t)
      PROVE  OneInv(t)'
  <2>1. frame[t].pc # "recv" /\ Handles(t)
    BY <1>1, <1>6, WorkShapes
  <2>2. contended' = {} /\ Len(objs') = Len(objs)
    BY <1>1, <1>6, <2>1, WorkTouches, HandlesSame
  <2>3. frame[t].order # 0
    BY <1>1, <2>1, HandlerLists
  <2>4. CASE Ends(t)
    <3>1. UNCHANGED objs /\ frame'[t] = Waiting
      BY <1>1, <2>4, EndsFrame DEF Ends
    <3>2. ~Raises(t)
      <4>1. PICK own \in Orders, s \in Symbols : own = frame[t].order /\ objs[own].symbol = s
        BY <1>1, <2>1, HandlerLists DEF Mine
      <4>2. Peaceful(s)'
        BY <1>2, <2>2 DEF SInv
      <4>3. own \in Orders' /\ objs'[own].symbol = s
        BY <3>1, <4>1 DEF Orders
      <4>4. own \notin failed'
        BY <4>2, <4>3 DEF Peaceful, WithinQty
      <4> QED
        BY <4>1, <4>4 DEF Raises
    <3>3. PICK r \in Sequential!ReplyRecord : replies' = Append(replies, r)
      BY <2>4, <3>2 DEF Ends, Answers1
    <3>4. Len(replies') = Len(replies) + 1
      BY <1>1, <3>3, AppendElements
    <3>5. frame'[t].order = 0
      BY <3>1 DEF Waiting
    <3> QED
      BY <1>1, <1>2, <2>2, <2>3, <3>1, <3>4, <3>5 DEF OneInv
  <2>5. CASE ~Ends(t)
    <3>1. frame'[t].order = frame[t].order /\ replies' = replies
      BY <1>1, <2>1, <2>5, GoesOn
    <3> QED
      BY <1>1, <1>2, <2>2, <2>3, <3>1 DEF OneInv
  <2> QED
    BY <2>4, <2>5
<1> QED
  BY <1>3, <1>4, <1>5, <1>6 DEF Next

\* What a fill makes of an order, as the mapping shows it.
LEMMA SeenFill ==
    ASSUME TypeOK, Len(objs') = Len(objs), NEW best \in Orders, NEW own \in Orders,
           best # own, NEW q \in Int, q > 0, SameOrders, objs' \in Seq(OrderObject),
           \A n \in {best, own} : objs[n].filled >= 0 /\ ~objs[n].refused,
           \A n \in Orders : objs'[n].filled = IF n \in {own, best}
                                               THEN objs[n].filled + q ELSE objs[n].filled
    PROVE  /\ SeenObjs' = [SeenObjs EXCEPT
                             ![best] = Sequential!Fill(SeenObjs[best], q),
                             ![own] = Sequential!Fill(@, q)]
           /\ Sequential!FullyFilled(Sequential!Fill(SeenObjs[best], q)) <=>
                 Sequential!FullyFilled(objs'[best])
<1>1. PICK k \in Nat : k = Len(objs) /\ Orders = 1..k
  BY TypeFacts DEF Orders
<1>2. \A n \in 1..k : /\ objs'[n].id = objs[n].id /\ objs'[n].ts = objs[n].ts
                      /\ objs'[n].symbol = objs[n].symbol /\ objs'[n].side = objs[n].side
                      /\ objs'[n].price = objs[n].price /\ objs'[n].qty = objs[n].qty
                      /\ objs'[n].type = objs[n].type /\ objs'[n].refused = objs[n].refused
  BY <1>1 DEF SameOrders
<1>3. /\ SeenObjs = [n \in 1..k |-> Seen(objs[n])]
      /\ SeenObjs' = [n \in 1..k |-> Seen(objs'[n])]
  BY <1>1 DEF SeenObjs
<1>4. ASSUME NEW n \in {best, own}
      PROVE  Seen(objs'[n]) = Sequential!Fill(Seen(objs[n]), q)
  <2>1. /\ n \in 1..k /\ objs[n].filled \in Int /\ objs[n].qty \in Int
        /\ objs'[n].filled = objs[n].filled + q /\ objs[n].filled + q # 0
        /\ ~objs[n].refused /\ ~objs'[n].refused
    BY <1>1, <1>2, OrderFacts
  <2>2. PICK a : a = IF objs[n].filled + q >= objs[n].qty THEN "FILLED" ELSE "PARTIALLY_FILLED"
    OBVIOUS
  <2>3. SeenStatus(objs'[n]) = a
    BY <1>2, <2>1, <2>2 DEF SeenStatus
  <2>4. Seen(objs'[n]) =
          [id |-> objs[n].id, ts |-> objs[n].ts, symbol |-> objs[n].symbol,
           side |-> objs[n].side, price |-> objs[n].price, qty |-> objs[n].qty,
           type |-> objs[n].type, filled |-> objs[n].filled + q, status |-> a]
    BY <1>2, <2>1, <2>3 DEF Seen
  <2>5. [Seen(objs[n]) EXCEPT !.filled = objs[n].filled + q, !.status = a] =
          [id |-> objs[n].id, ts |-> objs[n].ts, symbol |-> objs[n].symbol,
           side |-> objs[n].side, price |-> objs[n].price, qty |-> objs[n].qty,
           type |-> objs[n].type, filled |-> objs[n].filled + q, status |-> a]
    <3>1. PICK f, v : f = [Seen(objs[n]) EXCEPT !.filled = v] /\ v = objs[n].filled + q
      OBVIOUS
    <3>2. f = [id |-> objs[n].id, ts |-> objs[n].ts, symbol |-> objs[n].symbol,
               side |-> objs[n].side, price |-> objs[n].price, qty |-> objs[n].qty,
               type |-> objs[n].type, filled |-> v, status |-> SeenStatus(objs[n])]
      BY <3>1 DEF Seen
    <3>3. [f EXCEPT !.status = a] =
            [id |-> objs[n].id, ts |-> objs[n].ts, symbol |-> objs[n].symbol,
             side |-> objs[n].side, price |-> objs[n].price, qty |-> objs[n].qty,
             type |-> objs[n].type, filled |-> v, status |-> a]
      BY <3>2
    <3> QED
      BY <3>1, <3>3, Zenon
  <2>6. Seen(objs[n]).filled = objs[n].filled /\ Seen(objs[n]).qty = objs[n].qty
    BY DEF Seen
  <2>7. Sequential!Fill(Seen(objs[n]), q) =
          [Seen(objs[n]) EXCEPT !.filled = objs[n].filled + q, !.status = a]
    BY <2>2, <2>6, Zenon DEF Sequential!Fill
  <2> QED
    BY <2>4, <2>5, <2>7, Zenon
<1>5. \A n \in 1..k : n \notin {best, own} => Seen(objs'[n]) = Seen(objs[n])
  BY <1>1, <1>2 DEF Seen, SeenStatus
<1>6. PICK f, g : f = SeenObjs /\ g = SeenObjs'
  OBVIOUS
<1>7. PICK mb, mo : /\ mb = Sequential!Fill(SeenObjs[best], q)
                    /\ mo = Sequential!Fill(SeenObjs[own], q)
  OBVIOUS
<1>8. /\ f = [n \in 1..k |-> f[n]] /\ g = [n \in 1..k |-> g[n]]
      /\ \A n \in 1..k : g[n] = IF n = own THEN mo ELSE IF n = best THEN mb ELSE f[n]
  <2>1. \A n \in 1..k : f[n] = Seen(objs[n]) /\ g[n] = Seen(objs'[n])
    BY <1>3, <1>6
  <2>2. f = [n \in 1..k |-> f[n]] /\ g = [n \in 1..k |-> g[n]]
    BY <1>3, <1>6
  <2>3. mb = Sequential!Fill(Seen(objs[best]), q) /\ mo = Sequential!Fill(Seen(objs[own]), q)
    BY <1>1, <1>6, <1>7, <2>1
  <2> QED
    BY <1>4, <1>5, <2>1, <2>2, <2>3
<1>9. PICK h : h = [f EXCEPT ![best] = mb]
  OBVIOUS
<1>10. h[own] = SeenObjs[own]
  BY <1>1, <1>6, <1>8, <1>9
<1>11. g = [h EXCEPT ![own] = mo]
  BY <1>1, <1>8, <1>9
<1>12. SeenObjs' = [SeenObjs EXCEPT
                      ![best] = Sequential!Fill(SeenObjs[best], q),
                      ![own] = Sequential!Fill(@, q)]
  <2>1. [SeenObjs EXCEPT ![best] = mb, ![own] = Sequential!Fill(@, q)] =
          [h EXCEPT ![own] = Sequential!Fill(h[own], q)]
    BY <1>6, <1>9, Zenon
  <2>2. Sequential!Fill(h[own], q) = mo
    BY <1>7, <1>10, Zenon
  <2> QED
    BY <1>6, <1>7, <1>11, <2>1, <2>2, Zenon
<1>13. Sequential!FullyFilled(Sequential!Fill(SeenObjs[best], q)) <=>
          Sequential!FullyFilled(objs'[best])
  <2>1. Sequential!Fill(SeenObjs[best], q) = Seen(objs'[best])
    <3>1. SeenObjs[best] = Seen(objs[best])
      BY <1>1, <1>3
    <3> QED
      BY <1>4, <3>1
  <2>2. /\ Seen(objs'[best]).filled = objs'[best].filled
        /\ Seen(objs'[best]).qty = objs'[best].qty
    BY DEF Seen
  <2> QED
    BY <2>1, <2>2 DEF Sequential!FullyFilled
<1> QED
  BY <1>12, <1>13

\* A table with one cell changed.
LEMMA OneCell ==
    ASSUME NEW S, NEW D, NEW B, NEW C, NEW s \in S, NEW e \in D,
           B = [r \in S |-> [c \in D |-> B[r][c]]],
           C = [r \in S |-> [c \in D |-> C[r][c]]], NEW v,
           \A r \in S : \A c \in D : C[r][c] = IF r = s /\ c = e THEN v ELSE B[r][c]
    PROVE  C = [B EXCEPT ![s][e] = v]
<1>1. PICK row : row = [B[s] EXCEPT ![e] = v]
  OBVIOUS
<1>2. \A r \in S : B[r] = [c \in D |-> B[r][c]] /\ C[r] = [c \in D |-> C[r][c]]
  OBVIOUS
<1>3. row = [c \in D |-> IF c = e THEN v ELSE B[s][c]]
  BY <1>1, <1>2
<1>4. C[s] = row
  BY <1>2, <1>3
<1>5. \A r \in S \ {s} : C[r] = B[r]
  <2> TAKE r \in S \ {s}
  <2>1. \A c \in D : C[r][c] = B[r][c]
    OBVIOUS
  <2> QED
    BY <1>2, <2>1
<1>6. C = [B EXCEPT ![s] = row]
  <2>1. PICK f, g : f = B /\ g = C
    OBVIOUS
  <2>2. f = [r \in S |-> f[r]] /\ g = [r \in S |-> g[r]]
    BY <2>1
  <2>3. \A r \in S : g[r] = IF r = s THEN row ELSE f[r]
    BY <1>4, <1>5, <2>1
  <2>4. g = [f EXCEPT ![s] = row]
    BY <2>2, <2>3
  <2> QED
    BY <2>1, <2>4
<1> QED
  BY <1>1, <1>6, Zenon

\* Trade, fills and pop: one round of the sequential loop.
LEMMA FillShows ==
    ASSUME NEW t, Threads = {t}, OneInv(t), FillBoth(t)
    PROVE  Sequential!MatchStep
<1>1. PICK own, best, q, s, d, e, l :
        /\ own = frame[t].order /\ best = frame[t].best /\ q = frame[t].qty
        /\ s = Mine(t).symbol /\ d = Mine(t).side /\ e = Sequential!Opposite(d)
        /\ l = Makers(t)
  OBVIOUS
<1>2. /\ t \in Threads /\ Placed /\ TypeOK /\ RepliesName /\ HandlerKnows(t)
      /\ frame[t].pc = "fill" /\ s \in Symbols /\ Works(t, s) /\ Peaceful(s)
      /\ Undisturbed(t)
  BY <1>1, AloneFacts DEF FillBoth, At
<1>3. /\ l # <<>> /\ ~Sequential!FullyFilled(Mine(t)) /\ best = Head(l)
      /\ Mine(t).type = "LIMIT" => Sequential!Crosses(Mine(t), objs[best])
      /\ q = Sequential!Lesser(Sequential!Remaining(Mine(t)),
                               Sequential!Remaining(objs[best]))
  BY <1>1, <1>2 DEF Undisturbed
<1>4. /\ own \in Orders /\ own # 0 /\ Mine(t).symbol = s /\ ~Mine(t).refused
      /\ d \in Sides /\ e \in Sides /\ e # d /\ l = book[s][e] /\ Mine(t) = objs[own]
  BY <1>1, <1>2, WorkerFacts DEF Mine
<1>5. /\ best \in Orders /\ best # own /\ best # 0 /\ l \in Seq(Orders)
      /\ MayList(best, s, e) /\ InBook(best, s, e)
  BY <1>1, <1>2, <1>3, WorkerHead, FillKnows
<1>6. /\ UNCHANGED <<book, tape, replies>> /\ Len(objs') = Len(objs)
      /\ Becomes(t, [pc |-> "drop", order |-> own, best |-> best, qty |-> q,
                     trades |-> Append(frame[t].trades, NewTrade(t)),
                     sum |-> frame[t].sum, saved |-> frame[t].saved])
      /\ objs' \in Seq(OrderObject) /\ SameOrders
      /\ \A n \in Orders : objs'[n].filled = IF n \in {own, best}
                                             THEN objs[n].filled + q ELSE objs[n].filled
  BY <1>1, <1>2, <1>4, <1>5, FillFacts DEF SameOrders
<1>7. /\ frame'[t].pc = "drop" /\ frame'[t].order = own /\ frame'[t].best = best
      /\ frame'[t].trades = Append(frame[t].trades, NewTrade(t))
      /\ frame'[t].sum = frame[t].sum
  BY <1>2, <1>6, BecomesFacts, SMTT(60)
<1>8. /\ Solo = frame[t] /\ Solo' = frame'[t] /\ SeenMakers = l /\ SeenBest = best
      /\ SeenObjs[own] = Seen(objs[own]) /\ SeenObjs[best] = Seen(objs[best])
  BY <1>1, <1>2, <1>3, <1>5, <1>4, SoloIs, SeenMakersAre, SeenOrders, ZenonT(60) DEF SeenBest
<1>9. \A n : /\ Seen(objs[n]).filled = objs[n].filled /\ Seen(objs[n]).qty = objs[n].qty
             /\ Seen(objs[n]).type = objs[n].type /\ Seen(objs[n]).price = objs[n].price
             /\ Seen(objs[n]).side = objs[n].side /\ Seen(objs[n]).symbol = objs[n].symbol
  BY DEF Seen
<1>10. SeenQty = q
  BY <1>1, <1>3, <1>4, <1>8, <1>9, ZenonT(60) DEF SeenQty, Sequential!Remaining
\* The quantity is positive.
<1>11. /\ objs[own].qty \in Int /\ objs[own].filled \in Int
       /\ objs[best].qty \in Int /\ objs[best].filled \in Int
  BY <1>2, <1>4, <1>5, OrderFacts
<1>12. ~Sequential!FullyFilled(objs[best])
  <2>1. Entry(best, s, e)
    BY <1>5 DEF Entry, InBook
  <2>2. \A u \in Threads : ~At(u, "drop")
    BY <1>2 DEF At
  <2> QED
    BY <1>2, <1>4, <1>5, <2>1, <2>2 DEF Peaceful, EntriesOpen
<1>13. q \in Int /\ q > 0 /\ Sequential!Remaining(objs[own]) > 0
  <2>1. PICK a \in Int, b \in Int : /\ a = objs[own].qty - objs[own].filled
                                   /\ b = objs[best].qty - objs[best].filled
    BY <1>11
  <2>2. ~(objs[own].filled >= objs[own].qty) /\ ~(objs[best].filled >= objs[best].qty)
    BY <1>3, <1>4, <1>12 DEF Sequential!FullyFilled
  <2>3. a > 0 /\ b > 0
    BY <1>11, <2>1, <2>2
  <2>4. q = IF a <= b THEN a ELSE b
    BY <1>3, <1>4, <2>1 DEF Sequential!Remaining, Sequential!Lesser
  <2> QED
    BY <2>1, <2>3, <2>4 DEF Sequential!Remaining
<1>14. Sequential!CanMatch
  <2>1. Sequential!Remaining(Seen(objs[own])) = Sequential!Remaining(objs[own])
    BY <1>9 DEF Sequential!Remaining
  <2>2. Sequential!Crosses(Seen(objs[own]), Seen(objs[best])) <=>
           Sequential!Crosses(objs[own], objs[best])
    BY <1>9 DEF Sequential!Crosses
  <2>3. Solo.order = own /\ Head(SeenMakers) = best
    BY <1>1, <1>3, <1>8
  <2> QED
    BY <1>3, <1>4, <1>8, <1>9, <1>13, <2>1, <2>2, <2>3, SeenCanMatch
<1>15. Solo'.trades = Append(Solo.trades, Sequential!Trade(Solo.order, SeenBest, SeenQty))
  BY <1>1, <1>7, <1>8, <1>10 DEF NewTrade
<1>16. /\ SeenObjs' = [SeenObjs EXCEPT
                         ![best] = Sequential!Fill(SeenObjs[best], q),
                         ![own] = Sequential!Fill(@, q)]
       /\ Sequential!FullyFilled(Sequential!Fill(SeenObjs[best], q)) <=>
             Sequential!FullyFilled(objs'[best])
  <2>1. \A n \in {best, own} : objs[n].filled >= 0 /\ ~objs[n].refused
    BY <1>2, <1>4, <1>5 DEF Peaceful, WithinQty, MayList
  <2> QED
    BY <1>2, <1>4, <1>5, <1>6, <1>13, <2>1, SeenFill
<1>17. \A r \in Symbols, c \in Sides : Settled(r, c) = book[r][c]
  BY <1>2, SettledPlain
<1>18. \A r \in Symbols, c \in Sides : Settled(r, c)' =
         IF Sequential!FullyFilled(objs'[best]) /\ r = s /\ c = e
         THEN Tail(book[r][c]) ELSE book[r][c]
  <2>1. \A r, c : Settled(r, c)' =
           IF /\ objs'[own].symbol = r /\ objs'[own].side # c
              /\ Sequential!FullyFilled(objs'[best])
           THEN Tail(book[r][c]) ELSE book[r][c]
    BY <1>4, <1>6, <1>7, <1>8 DEF Settled, Sequential!FullyFilled
  <2>2. objs'[own].symbol = s /\ objs'[own].side = d
    BY <1>1, <1>4, <1>6 DEF SameOrders
  <2>3. \A c \in Sides : d # c <=> c = e
    BY <1>4 DEF Sides
  <2> QED
    BY <2>1, <2>2, <2>3
<1>19. SeenBook' = IF Sequential!FullyFilled(objs'[best])
                   THEN [SeenBook EXCEPT ![s][e] = Tail(@)] ELSE SeenBook
  <2>1. CASE ~Sequential!FullyFilled(objs'[best])
    <3>1. \A r \in Symbols, c \in Sides : Settled(r, c)' = Settled(r, c)
      BY <1>17, <1>18, <2>1
    <3> QED
      BY <2>1, <3>1, SeenBookKept
  <2>2. CASE Sequential!FullyFilled(objs'[best])
    <3>1. PICK B, C : B = SeenBook /\ C = SeenBook'
      OBVIOUS
    <3>2. /\ B = [r \in Symbols |-> [c \in Sides |-> B[r][c]]]
          /\ C = [r \in Symbols |-> [c \in Sides |-> C[r][c]]]
          /\ \A r \in Symbols : \A c \in Sides :
                C[r][c] = IF r = s /\ c = e THEN Tail(B[r][c]) ELSE B[r][c]
      <4>1. \A r \in Symbols : \A c \in Sides :
               /\ B[r][c] = Settled(r, c) /\ C[r][c] = Settled(r, c)'
        BY <3>1 DEF SeenBook
      <4>2. /\ B = [r \in Symbols |-> [c \in Sides |-> Settled(r, c)]]
            /\ C = [r \in Symbols |-> [c \in Sides |-> Settled(r, c)']]
        BY <3>1, Zenon DEF SeenBook
      <4> QED
        BY <1>17, <1>18, <2>2, <4>1, <4>2
    <3>3. C = [B EXCEPT ![s][e] = Tail(@)]
      <4>1. PICK v : v = Tail(B[s][e])
        OBVIOUS
      <4>2. \A r \in Symbols : \A c \in Sides :
               C[r][c] = IF r = s /\ c = e THEN v ELSE B[r][c]
        BY <3>2, <4>1
      <4>3. C = [B EXCEPT ![s][e] = v]
        BY <1>2, <1>4, <3>2, <4>2, OneCell
      <4> QED
        BY <4>1, <4>3, Zenon
    <3> QED
      BY <2>2, <3>1, <3>3
  <2> QED
    BY <2>1, <2>2
<1>20. SeenRegistry' = SeenRegistry
  BY <1>2, <1>6, RestedKept
<1>21. /\ SeenObjs[Solo.order].symbol = s
       /\ Sequential!Opposite(SeenObjs[Solo.order].side) = e
  BY <1>1, <1>4, <1>8, <1>9
<1> QED
  <2>1. SeenObjs' = [SeenObjs EXCEPT
                          ![SeenBest] = Sequential!Fill(SeenObjs[SeenBest], SeenQty),
                          ![Solo.order] = Sequential!Fill(@, SeenQty)]
    BY <1>1, <1>8, <1>10, <1>16, Zenon
  <2>2. SeenBook' = IF Sequential!FullyFilled(
                             Sequential!Fill(SeenObjs[SeenBest], SeenQty))
                       THEN [SeenBook EXCEPT
                               ![SeenObjs[Solo.order].symbol]
                                [Sequential!Opposite(SeenObjs[Solo.order].side)] = Tail(@)]
                       ELSE SeenBook
    BY <1>8, <1>10, <1>16, <1>19, <1>21, Zenon
  <2>3. Solo'.order = Solo.order /\ Solo'.sum = Solo.sum
    BY <1>1, <1>7, <1>8
  <2> QED
    BY <1>6, <1>14, <1>15, <1>20, <2>1, <2>2, <2>3, SeenMatches

\* The sort key ranks the orders of one side.
LEMMA BeforeRanks ==
    ASSUME TypeOK, NEW a \in Orders, NEW b \in Orders, NEW c \in Orders,
           objs[a].side = objs[b].side, objs[b].side = objs[c].side
    PROVE  /\ ~(Sequential!Before(a, b) /\ Sequential!Before(b, a))
           /\ Sequential!Before(a, b) /\ ~Sequential!Before(c, b) => Sequential!Before(a, c)
<1>1. PICK pa \in Int, pb \in Int, pc \in Int, ta \in Int, tb \in Int, tc \in Int :
        /\ pa = objs[a].price /\ pb = objs[b].price /\ pc = objs[c].price
        /\ ta = objs[a].ts /\ tb = objs[b].ts /\ tc = objs[c].ts
  BY OrderFacts
<1>2. CASE objs[a].side = "BUY"
  <2>1. /\ Sequential!Before(a, b) <=> pa > pb \/ (pa = pb /\ ta < tb)
        /\ Sequential!Before(b, a) <=> pb > pa \/ (pb = pa /\ tb < ta)
        /\ Sequential!Before(a, c) <=> pa > pc \/ (pa = pc /\ ta < tc)
        /\ Sequential!Before(c, b) <=> pc > pb \/ (pc = pb /\ tc < tb)
    BY <1>1, <1>2, ViewFacts
  <2> QED
    BY <2>1
<1>3. CASE objs[a].side # "BUY"
  <2>1. /\ Sequential!Before(a, b) <=> pa < pb \/ (pa = pb /\ ta < tb)
        /\ Sequential!Before(b, a) <=> pb < pa \/ (pb = pa /\ tb < ta)
        /\ Sequential!Before(a, c) <=> pa < pc \/ (pa = pc /\ ta < tc)
        /\ Sequential!Before(c, b) <=> pc < pb \/ (pc = pb /\ tc < tb)
    BY <1>1, <1>3, ViewFacts
  <2> QED
    BY <2>1
<1> QED
  BY <1>2, <1>3

\* In a sorted list there is a place behind all that n does not sort before.
LEMMA PlaceExists ==
    ASSUME TypeOK, NEW l \in Seq(Orders), NEW n \in Orders,
           \A i \in 1..Len(l) : objs[l[i]].side = objs[n].side,
           \A i, j \in 1..Len(l) : i < j => ~Sequential!Before(l[j], l[i]),
           NEW p, p = Sequential!InsertPosition(l, n)
    PROVE  /\ p \in 1..(Len(l) + 1)
           /\ \A i \in 1..(p - 1) : ~Sequential!Before(n, l[i])
           /\ \A i \in p..Len(l) : Sequential!Before(n, l[i])
<1> DEFINE T == {i \in 1..(Len(l) + 1) : i = Len(l) + 1 \/ Sequential!Before(n, l[i])}
<1>1. Len(l) \in Nat /\ \A i \in 1..Len(l) : l[i] \in Orders
  BY LenProperties, ElementOfSeq
<1>2. PICK q \in T : \A i \in T : q <= i
  <2>1. T \subseteq Nat /\ Len(l) + 1 \in T
    BY <1>1
  <2> HIDE DEF T
  <2> QED
    BY <2>1, LeastElement
<1>3. q \in 1..(Len(l) + 1) /\ q \in Nat
  BY <1>1, <1>2
<1>4. ASSUME NEW i \in 1..(q - 1)
      PROVE  ~Sequential!Before(n, l[i])
  <2>1. i \in 1..(Len(l) + 1) /\ ~(q <= i)
    BY <1>1, <1>3
  <2> QED
    BY <1>2, <2>1
<1>5. ASSUME NEW i \in q..Len(l)
      PROVE  Sequential!Before(n, l[i])
  <2>1. q \in 1..Len(l) /\ i \in 1..Len(l) /\ q # Len(l) + 1
    BY <1>1, <1>3
  <2>2. Sequential!Before(n, l[q])
    BY <1>2, <2>1
  <2>3. CASE i = q
    BY <2>2, <2>3
  <2>4. CASE q < i
    <3>1. ~Sequential!Before(l[i], l[q])
      BY <2>1, <2>4
    <3>2. /\ l[q] \in Orders /\ l[i] \in Orders
          /\ objs[n].side = objs[l[q]].side /\ objs[l[q]].side = objs[l[i]].side
      BY <1>1, <2>1
    <3> QED
      BY <2>2, <3>1, <3>2, BeforeRanks
  <2> QED
    BY <2>1, <2>3, <2>4
<1> HIDE DEF T
<1>6. Sequential!InsertPosition(l, n) =
        CHOOSE k \in 1..(Len(l) + 1) :
          /\ \A i \in 1..(k - 1) : ~Sequential!Before(n, l[i])
          /\ \A i \in k..Len(l) : Sequential!Before(n, l[i])
  BY Zenon DEF Sequential!InsertPosition
<1> QED
  BY <1>3, <1>4, <1>5, <1>6

\* append and list.sort are the insertion of Matching.
LEMMA SortInserts ==
    ASSUME TypeOK, NEW l \in Seq(Orders), NEW n \in Orders,
           \A i \in 1..Len(l) : objs[l[i]].side = objs[n].side,
           \A i, j \in 1..Len(l) : i < j => ~Sequential!Before(l[j], l[i])
    PROVE  Sequential!StableSort(Append(l, n)) = Sequential!Insert(l, n)
<1>1. PICK L \in Nat : L = Len(l)
  BY LenProperties
<1>2. PICK p : p = Sequential!InsertPosition(l, n)
  OBVIOUS
<1>3. /\ p \in 1..(L + 1) /\ p \in Nat
      /\ \A i \in 1..(p - 1) : ~Sequential!Before(n, l[i])
      /\ \A i \in p..L : Sequential!Before(n, l[i])
  BY <1>1, <1>2, PlaceExists
<1>4. PICK new : new = Inserted(l, p, n)
  OBVIOUS
<1>5. Sequential!Insert(l, n) = new
  BY <1>2, <1>4, Zenon DEF Sequential!Insert, Sequential!InsertAt, Inserted
<1>6. /\ new \in Seq(Orders) /\ Len(new) = L + 1
      /\ \A i \in 1..(L + 1) :
           new[i] = IF i < p THEN l[i] ELSE IF i = p THEN n ELSE l[i - 1]
  <2>1. p \in 1..(Len(l) + 1) /\ Len(l) \in Nat
    BY <1>1, <1>3
  <2>2. /\ new \in Seq(Orders) /\ Len(new) = Len(l) + 1
        /\ \A i \in 1..(Len(l) + 1) :
             new[i] = IF i < p THEN l[i] ELSE IF i = p THEN n ELSE l[i - 1]
    <3>1. PICK S : S = Orders /\ l \in Seq(S) /\ n \in S
      OBVIOUS
    <3>2. /\ Inserted(l, p, n) \in Seq(S) /\ Len(Inserted(l, p, n)) = Len(l) + 1
          /\ \A i \in 1..(Len(l) + 1) :
               Inserted(l, p, n)[i] = IF i < p THEN l[i] ELSE IF i = p THEN n ELSE l[i - 1]
      BY <2>1, <3>1, InsertedElements
    <3> QED
      BY <1>4, <3>1, <3>2
  <2> QED
    BY <1>1, <2>2
<1>7. PICK a \in Seq(Orders) :
        /\ a = Append(l, n) /\ Len(a) = L + 1 /\ a[L + 1] = n
        /\ \A i \in 1..L : a[i] = l[i] /\ a[i] \in Orders
  <2>1. /\ Append(l, n) \in Seq(Orders) /\ Len(Append(l, n)) = L + 1
        /\ Append(l, n)[L + 1] = n
        /\ \A i \in 1..L : Append(l, n)[i] = l[i]
    BY <1>1, AppendProperties
  <2>2. \A i \in 1..L : l[i] \in Orders
    BY <1>1, ElementOfSeq
  <2> QED
    BY <2>1, <2>2
<1> DEFINE before(i, j) == Sequential!Before(a[i], a[j])
           precedes(i, j) == before(i, j) \/ (~before(j, i) /\ i < j)
           R == {q \in (1..(L + 1)) \X (1..(L + 1)) : precedes(q[1], q[2])}
\* How the elements compare: as they stand, and the last one by its place.
<1>8. /\ ~before(L + 1, L + 1) /\ \A i \in 1..L : ~before(i, i)
      /\ \A i, j \in 1..L : i < j => ~before(j, i)
      /\ \A i \in 1..L : i < p => ~before(L + 1, i)
      /\ \A i \in 1..L : p <= i => before(L + 1, i) /\ ~before(i, L + 1)
  <2>1. \A x \in Orders : ~Sequential!Before(x, x)
    BY BeforeRanks
  <2>2. ASSUME NEW i \in 1..L
        PROVE  /\ i < p => ~before(L + 1, i)
               /\ p <= i => before(L + 1, i) /\ ~before(i, L + 1)
    <3>1. a[i] = l[i] /\ a[L + 1] = n /\ a[i] \in Orders /\ objs[a[i]].side = objs[n].side
      BY <1>1, <1>7
    <3>2. /\ i < p => i \in 1..(p - 1)
          /\ p <= i => i \in p..L
      BY <1>3
    <3>3. /\ i < p => ~Sequential!Before(n, a[i])
          /\ p <= i => Sequential!Before(n, a[i])
      BY <1>3, <3>1, <3>2
    <3>4. ~(Sequential!Before(n, a[i]) /\ Sequential!Before(a[i], n))
      BY <3>1, BeforeRanks
    <3> QED
      BY <3>1, <3>3, <3>4
  <2> QED
    BY <1>1, <1>7, <2>1, <2>2
<1>9. LastGoesTo(R, L, p)
  <2>1. L + 1 \in 1..(L + 1) /\ \A i \in 1..L : i \in 1..(L + 1)
    BY <1>1
  <2>2. \A i, j \in 1..(L + 1) : <<i, j>> \in R <=> before(i, j) \/ (~before(j, i) /\ i < j)
    OBVIOUS
  <2> HIDE DEF R, before
  <2>3. \A i, j \in 1..L : <<j, i>> \in R <=> j < i
    <3> TAKE i, j \in 1..L
    <3>1. j < i \/ i < j \/ i = j
      OBVIOUS
    <3> QED
      BY <1>8, <2>1, <2>2, <3>1
  <2>4. \A i \in 1..L : i < L + 1 /\ ~(L + 1 < i) /\ (p <= i \/ i < p) /\ ~(p <= i /\ i < p)
    BY <1>1, <1>3
  <2>5. ASSUME NEW i \in 1..L
        PROVE  (<<L + 1, i>> \in R <=> p <= i) /\ (<<i, L + 1>> \in R <=> i < p)
    <3>1. CASE p <= i
      BY <1>8, <2>1, <2>2, <2>4, <3>1
    <3>2. CASE i < p
      BY <1>8, <2>1, <2>2, <2>4, <3>2
    <3> QED
      BY <2>4, <3>1, <3>2
  <2>6. <<L + 1, L + 1>> \notin R
    <3>1. ~(L + 1 < L + 1)
      BY <1>1
    <3> QED
      BY <1>8, <2>1, <2>2, <3>1
  <2> QED
    BY <2>3, <2>5, <2>6 DEF LastGoesTo
<1>10. ASSUME NEW k \in 1..(L + 1)
       PROVE  a[Sequential!StableRank(a, k)] = new[k]
  <2>1. PICK r \in 1..(L + 1) : r = IF k < p THEN k ELSE IF k = p THEN L + 1 ELSE k - 1
    BY <1>3
  <2>2. \A i \in 1..(L + 1) : Cardinality(Ahead(R, L + 1, i)) = k - 1 <=> i = r
    <3> HIDE DEF R
    <3> QED
      BY <1>1, <1>3, <1>9, <2>1, RankOfLast
  <2>3. \A i \in 1..(L + 1) : Ahead(R, L + 1, i) = {j \in 1..(L + 1) : precedes(j, i)}
    BY DEF Ahead
  <2>4. Sequential!StableRank(a, k) =
          CHOOSE i \in 1..(L + 1) :
            Cardinality({j \in 1..(L + 1) : precedes(j, i)}) = k - 1
    <3>1. Sequential!StableRank(a, k) =
            CHOOSE i \in 1..Len(a) :
              Sequential!Cardinality({j \in 1..Len(a) : precedes(j, i)}) = k - 1
      BY Zenon DEF Sequential!StableRank
    <3>2. \A S : Sequential!Cardinality(S) = Cardinality(S)
      BY Zenon DEF Sequential!Cardinality, Cardinality
    <3> HIDE DEF precedes
    <3> QED
      BY <1>7, <3>1, <3>2
  <2> HIDE DEF R, precedes
  <2>5. Sequential!StableRank(a, k) = r
    BY <2>1, <2>2, <2>3, <2>4
  <2>6. a[r] = IF k < p THEN l[k] ELSE IF k = p THEN n ELSE l[k - 1]
    BY <1>3, <1>7, <2>1
  <2> QED
    BY <1>6, <2>5, <2>6
<1>11. new = [k \in 1..(L + 1) |-> new[k]]
  BY <1>6, LenProperties
<1>12. Sequential!StableSort(a) = [k \in 1..(L + 1) |-> new[k]]
  <2>1. Sequential!StableSort(a) = [k \in 1..(L + 1) |-> a[Sequential!StableRank(a, k)]]
    BY <1>7 DEF Sequential!StableSort
  <2> QED
    BY <1>10, <2>1
<1> QED
  BY <1>5, <1>7, <1>11, <1>12

\* A list that ends in n is the list without it and n appended.
LEMMA AppendOfFront ==
    ASSUME NEW S, NEW l \in Seq(S), l # <<>>, NEW n \in S, l[Len(l)] = n
    PROVE  \E k \in Nat, f \in Seq(S) :
              /\ Len(l) = k + 1 /\ Len(f) = k /\ f = Front(l) /\ l = Append(f, n)
              /\ \A i \in 1..k : f[i] = l[i]
<1>1. PICK m \in Nat : m = Len(l) /\ m # 0
  BY LenProperties, EmptySeq
<1>2. PICK k \in Nat : m = k + 1
  BY <1>1
<1>3. \A i \in 1..(k + 1) : l[i] \in S
  BY <1>1, <1>2, ElementOfSeq
<1>4. PICK f : f = [i \in 1..k |-> l[i]]
  OBVIOUS
<1>5. f \in [1..k -> S] /\ \A i \in 1..k : f[i] = l[i]
  BY <1>3, <1>4
<1>6. f \in Seq(S) /\ Len(f) = k
  BY <1>5, LenProperties, SeqDef
<1>7. l \in [1..(k + 1) -> S] /\ l[k + 1] = n
  BY <1>1, <1>2, LenProperties
<1>8. l = Append(f, n)
  BY <1>5, <1>7, LongerByOne
<1>9. Front(Append(f, n)) = f
  BY <1>6, FrontOfAppend
<1> QED
  BY <1>1, <1>2, <1>5, <1>6, <1>8, <1>9

\* The end of the sort: the order rests and its client is answered.
LEMMA SortEndShows ==
    ASSUME NEW t, Threads = {t}, OneInv(t), SortEnd(t)
    PROVE  Sequential!RestLimit
<1>1. PICK own, s, d, all :
        /\ own = frame[t].order /\ s = Mine(t).symbol /\ d = Mine(t).side
        /\ all = frame[t].saved
  OBVIOUS
<1>2. /\ t \in Threads /\ Placed /\ TypeOK /\ RepliesName /\ HandlerKnows(t)
      /\ frame[t].pc = "sorting" /\ s \in Symbols /\ Works(t, s) /\ Peaceful(s)
      /\ Undisturbed(t) /\ own = Len(objs)
  BY <1>1, AloneFacts DEF SortEnd, At
<1>3. /\ own \in Orders /\ own # 0 /\ d \in Sides /\ Mine(t) = objs[own]
      /\ Mine(t).type = "LIMIT" /\ frame[t].trades = <<>>
      /\ ~Sequential!FullyFilled(Mine(t)) /\ bare[s][d]
      /\ all # <<>> /\ all[Len(all)] = own /\ SortedTo(all, Len(all) - 1)
      /\ all \in Seq(Orders)
  BY <1>1, <1>2, WorkerFacts, FrameFacts DEF Undisturbed, Extended, Mine, HandlerKnows
<1>4. PICK k \in Nat, l \in Seq(Orders) :
        /\ Len(all) = k + 1 /\ Len(l) = k /\ l = Front(all) /\ all = Append(l, own)
        /\ \A i \in 1..k : l[i] = all[i]
  BY <1>3, AppendOfFront
<1>5. Sequential!StableSort(all) = Sequential!Insert(l, own)
  <2>1. \A i \in 1..(k + 1) : MayList(all[i], s, d)
    BY <1>1, <1>2, <1>4 DEF Placed, Known, Listed
  <2>2. \A i \in 1..k : i \in 1..(k + 1) /\ l[i] \in Orders
    BY <1>4, ElementOfSeq
  <2>3. \A i \in 1..k : objs[l[i]].side = objs[own].side
    BY <1>1, <1>3, <1>4, <2>1, <2>2 DEF MayList
  <2>4. \A i, j \in 1..k : i < j => ~Sequential!Before(l[j], l[i])
    <3> TAKE i, j \in 1..k
    <3>1. SUFFICES ASSUME i < j
                   PROVE  ~Sequential!Before(l[j], l[i])
      OBVIOUS
    <3>2. Len(all) - 1 = k
      BY <1>4
    <3>3. ~Precedes(objs[all[j]], objs[all[i]])
      BY <1>3, <3>1, <3>2 DEF SortedTo
    <3>4. l[i] = all[i] /\ l[j] = all[j]
      BY <1>4
    <3> QED
      BY <1>2, <2>2, <3>3, <3>4, ViewFacts DEF Precedes, Sequential!Better
  <2> QED
    BY <1>2, <1>3, <1>4, <2>3, <2>4, SortInserts
<1>6. /\ Answer(t, RestStatus(t)) /\ UNCHANGED <<objs, tape>>
      /\ Puts(s, d, Sequential!StableSort(all))
  BY <1>1, <1>3 DEF SortEnd, Puts
<1>7. Solo = frame[t] /\ SeenObjs[own] = Seen(objs[own]) /\ SeenObjs' = SeenObjs
  BY <1>1, <1>2, <1>3, <1>6, SoloIs, SeenOrders, SeenObjsKept
<1>8. Sequential!Respond(RestStatus(t))
  BY <1>2, <1>3, <1>6, AnswerShows
\* The status is one of an order that rests, and it joins the registry.
<1>9. SeenRegistry' = [SeenRegistry EXCEPT ![objs[own].id] = own]
  <2>1. PICK st \in {"PENDING", "PARTIALLY_FILLED"} : st = RestStatus(t)
    BY DEF RestStatus
  <2>2. PICK r : r = Sequential!Reply(own, st, frame[t].sum.price, frame[t].sum.qty)
    OBVIOUS
  <2>3. /\ replies' = Append(replies, r) /\ r \in Sequential!ReplyRecord
        /\ r.order = own /\ r.status = st
    <3>1. frame[t].sum.price \in Int /\ frame[t].sum.qty \in Int /\ own \in Nat
      BY <1>2, <1>3, FrameFacts DEF Orders
    <3>2. st \in Sequential!Statuses
      BY DEF Sequential!Statuses
    <3>3. replies' = Append(replies, r)
      BY <1>1, <1>6, <2>1, <2>2 DEF Answer
    <3> QED
      BY <2>2, <3>1, <3>2, <3>3 DEF Sequential!Reply, Sequential!ReplyRecord
  <2> QED
    BY <1>2, <1>3, <1>6, <2>3, RestedJoined
\* The list with the order inserted.
<1>10. SeenBook' = [SeenBook EXCEPT ![s][d] = Sequential!Insert(@, own)]
  <2>1. PICK new \in Seq(Orders) : new = Sequential!Insert(l, own) /\ Puts(s, d, new)
    <3>1. Sequential!StableSort(all) \in Seq(Orders)
      BY <1>1, <1>2, SavedSorts DEF Placed
    <3> QED
      BY <1>5, <1>6, <3>1
  <2>2. \A r \in Symbols, c \in Sides : book'[r][c] = IF r = s /\ c = d THEN new ELSE book[r][c]
    BY <1>2, <1>3, <2>1, PutsFacts
  <2>3. \A r, c : Settled(r, c) = IF r = s /\ c = d THEN Front(all) ELSE book[r][c]
    <3>1. \A r, c : Settled(r, c) =
             IF r = Mine(t).symbol /\ c = Mine(t).side
             THEN Front(IF frame[t].pc = "sort" THEN book[r][c] ELSE frame[t].saved)
             ELSE book[r][c]
      BY <1>1, <1>2, <1>3, SettledSort
    <3>2. frame[t].pc # "sort"
      BY <1>2
    <3> QED
      BY <1>1, <3>1, <3>2
  <2>4. \A r, c : Settled(r, c)' = book'[r][c]
    <3>1. Solo' = Waiting
      <4>1. Becomes(t, Waiting)
        BY <1>6 DEF Answer, Becomes
      <4>2. frame'[t] = Waiting
        BY <1>2, <4>1, BecomesFacts
      <4> QED
        BY <4>2, SoloIs
    <3> QED
      BY <3>1 DEF Settled, Waiting
  <2>5. PICK B, C : B = SeenBook /\ C = SeenBook'
    OBVIOUS
  <2>6. /\ B = [r \in Symbols |-> [c \in Sides |-> B[r][c]]]
        /\ C = [r \in Symbols |-> [c \in Sides |-> C[r][c]]]
        /\ \A r \in Symbols : \A c \in Sides :
              C[r][c] = IF r = s /\ c = d THEN new ELSE B[r][c]
    <3>1. \A r \in Symbols : \A c \in Sides :
             /\ B[r][c] = Settled(r, c) /\ C[r][c] = Settled(r, c)'
      BY <2>5 DEF SeenBook
    <3>2. /\ B = [r \in Symbols |-> [c \in Sides |-> Settled(r, c)]]
          /\ C = [r \in Symbols |-> [c \in Sides |-> Settled(r, c)']]
      BY <2>5, Zenon DEF SeenBook
    <3> QED
      BY <2>2, <2>3, <2>4, <3>1, <3>2
  <2>7. C = [B EXCEPT ![s][d] = new]
    <3>1. PICK v : v = new
      OBVIOUS
    <3>2. \A r \in Symbols : \A c \in Sides :
             C[r][c] = IF r = s /\ c = d THEN v ELSE B[r][c]
      BY <2>6, <3>1
    <3>3. s \in Symbols /\ d \in Sides
      BY <1>2, <1>3
    <3>4. C = [B EXCEPT ![s][d] = v]
      BY <2>6, <3>2, <3>3, OneCell
    <3> QED
      BY <3>1, <3>4
  <2>8. B[s][d] = l
    BY <1>2, <1>3, <1>4, <2>3, <2>5 DEF SeenBook
  <2>9. Sequential!Insert(B[s][d], own) = new
    BY <2>1, <2>8, Zenon
  <2>10. C = [B EXCEPT ![s][d] = Sequential!Insert(@, own)]
    BY <2>7, <2>9, Zenon
  <2> QED
    BY <2>5, <2>10, Zenon
<1> QED
  <2>1. /\ SeenObjs[own].type = "LIMIT" /\ SeenObjs[own].symbol = s
        /\ SeenObjs[own].side = d /\ SeenObjs[own].id = objs[own].id
        /\ ~Sequential!FullyFilled(SeenObjs[own])
    BY <1>1, <1>3, <1>7 DEF Seen, Sequential!FullyFilled
  <2>2. Solo.order = own
    BY <1>1, <1>7
  <2>3. Sequential!Respond(IF Solo.sum.qty > 0 THEN "PARTIALLY_FILLED" ELSE "PENDING")
    BY <1>7, <1>8, Zenon DEF RestStatus
  <2> QED
    BY <1>3, <1>9, <1>10, <2>1, <2>2, <2>3, SeenRests, Zenon

LEMMA InitShows ==
    ASSUME NEW t, Threads = {t}, Init
    PROVE  OneInv(t) /\ Sequential!Init
<1>1. t \in Threads /\ SInv
  BY InitInv, InitPeace DEF SInv
<1>2. /\ frame[t] = Waiting /\ objs = <<>> /\ replies = <<>> /\ tape = <<>>
      /\ contended = {} /\ \A s \in Symbols : \A d \in Sides : book[s][d] = <<>>
  BY <1>1 DEF Init, Sides
<1>3. Len(objs) = 0 /\ Len(replies) = 0
  BY <1>2
<1>4. Solo = Waiting
  BY <1>2, SoloIs
<1>5. OneInv(t)
  BY <1>1, <1>2, <1>3 DEF OneInv, Waiting
<1>6. SeenObjs = <<>>
  <2>1. 1..Len(objs) = {}
    BY <1>3
  <2>2. SeenObjs \in [1..0 -> {}]
    BY <1>3, <2>1 DEF SeenObjs
  <2>3. SeenObjs \in Seq({}) /\ Len(SeenObjs) = 0
    BY <2>2, SeqDef, LenProperties
  <2> QED
    BY <2>3, EmptySeq
<1>7. SeenBook = [s \in Symbols |-> [d \in Sides |-> <<>>]]
  <2>1. \A s \in Symbols : \A d \in Sides : Settled(s, d) = <<>>
    BY <1>2, <1>4 DEF Settled, Waiting
  <2> QED
    BY <2>1 DEF SeenBook
<1>8. SeenRegistry = [i \in OrderIds |-> 0]
  <2>1. \A i : Rested(i) = {}
    BY <1>3 DEF Rested
  <2> QED
    BY <2>1 DEF SeenRegistry, Newest
<1>9. Solo.order = 0 /\ Solo.trades = <<>> /\ Solo.sum = [qty |-> 0, price |-> 0]
  BY <1>4 DEF Waiting
<1>10. Sequential!Init
  BY <1>2, <1>6, <1>7, <1>8, <1>9, Zenon
  DEF Sequential!Init, Sequential!NoExecution, Sequential!Sides, SeenObjs, Seen, SeenStatus,
      SeenBook, Sides, SeenRegistry, Newest
<1> QED
  BY <1>5, <1>10

LEMMA StepShows ==
    ASSUME NEW t, Threads = {t}, OneInv(t), [Next]_vars
    PROVE  [Sequential!Next]_(Sequential!vars)
<1>1. CASE UNCHANGED vars
  <2>1. \A s, d : Settled(s, d)' = Settled(s, d)
    <3>1. UNCHANGED <<objs, book, frame>>
      BY <1>1 DEF vars
    <3> QED
      BY <3>1 DEF Settled, Solo
  <2>2. UNCHANGED Sequential!vars
    BY <1>1, <2>1, SeenSame DEF vars
  <2> QED
    BY <2>2
<1>2. CASE \E m \in Messages : Receive(t, m)
  BY <1>2, ReceiveShows DEF Sequential!Next
<1>3. CASE \E m \in Messages : Refuse(t, m)
  BY <1>3, RefuseShows DEF Sequential!Next
<1>4. CASE Work(t)
  <2>1. CASE Look(t) \/ Peek(t) \/ Take(t) \/ Size(t)
    BY <2>1, QuietSteps
  <2>2. CASE FillBoth(t)
    BY <2>2, FillShows DEF Sequential!Next
  <2>3. CASE Drop(t)
    BY <2>3, DropIsQuiet
  <2>4. CASE Record(t)
    BY <2>4, RecordShows DEF Sequential!Next
  <2>5. CASE Finish(t)
    BY <2>5, FinishShows DEF Sequential!Next
  <2>6. CASE Rest(t)
    BY <2>6, RestIsQuiet
  <2>7. CASE SortBegin(t)
    BY <2>7, SortBeginIsQuiet
  <2>8. CASE SortEnd(t)
    BY <2>8, SortEndShows DEF Sequential!Next
  <2> QED
    BY <1>4, <2>1, <2>2, <2>3, <2>4, <2>5, <2>6, <2>7, <2>8 DEF Work
<1> QED
  BY <1>1, <1>2, <1>3, <1>4 DEF Next

\* With one connection at work the threads add up to the sequential handler:
\* the stretches between two switches of the interpreter lock, the list that the
\* sort empties and the exceptions never show (main_server.py, _process_data).
THEOREM OneThreadIsMatching ==
    ASSUME NEW t, Threads = {t}
    PROVE  Spec => ImplementsMatching
<1>1. Init => OneInv(t) /\ Sequential!Init
  BY InitShows
<1>2. OneInv(t) /\ [Next]_vars => OneInv(t)' /\ [Sequential!Next]_(Sequential!vars)
  BY OneInvStep, StepShows
<1> QED
  BY <1>1, <1>2, PTL DEF Spec, ImplementsMatching
=============================================================================
