---------------------------- MODULE ServersProofs ----------------------------
(***************************************************************************)
(* Proofs about ServerConnections and AsyncConnections, for every finite   *)
(* set of peers, every max_connections and any number of connections.      *)
(***************************************************************************)
EXTENDS ServerConnections, AsyncConnections, SequenceTheorems, FiniteSetTheorems, TLAPS

-----------------------------------------------------------------------------
(* HFTPServer: the accept loop and client_count.                           *)

\* The sets that are counted are finite.
LEMMA ClientsCounted ==
    ASSUME NEW S \in SUBSET Clients
    PROVE  IsFiniteSet(S) /\ Cardinality(S) \in Nat
<1>1. IsFiniteSet(S)
  BY ClientsAssumption, FS_Subset
<1> QED
  BY <1>1, FS_CardinalityType

LEMMA InitEstablishesIInv == Init => IInv
<1> SUFFICES ASSUME Init PROVE IInv
  OBVIOUS
<1>1. Live = {} /\ incoming = {} /\ backlog = <<>>
  BY DEF Init, Live
<1>2. TypeOK
  <2>1. backlog \in Seq(Clients)
    BY <1>1, EmptySeq
  <2> QED
    BY <2>1 DEF Init, TypeOK
<1>3. InBetween
  BY <1>1 DEF Init, InBetween
<1>4. BacklogApart
  BY <1>1, EmptySeq DEF BacklogApart
<1>5. CountExplained
  BY <1>1, FS_EmptySet DEF Init, CountExplained
<1>6. AtMostMax
  BY <1>1, FS_EmptySet, LimitsAssumption DEF AtMostMax
<1> QED
  BY <1>2, <1>3, <1>4, <1>5, <1>6 DEF IInv

\* A thread that moves on without ending changes no count.
LEMMA MovingKeepsIInv ==
    ASSUME IInv, NEW c \in Clients, NEW from \in Stages, NEW to \in Stages,
           Moves(c, from, to), count' = count
    PROVE  IInv'
<1>1. Live' = Live
  BY DEF IInv, TypeOK, Moves, Live, Stages
<1>2. /\ running' = running /\ acceptor' = acceptor /\ backlog' = backlog
      /\ incoming' = incoming /\ turnedAway' = turnedAway /\ arrivals' = arrivals
      /\ count' = count
  BY DEF Moves
<1>3. TypeOK'
  BY <1>2 DEF IInv, TypeOK, Moves
<1>4. InBetween'
  BY <1>1, <1>2 DEF IInv, InBetween
<1>5. BacklogApart'
  BY <1>1, <1>2 DEF IInv, BacklogApart
<1>6. CountExplained' /\ AtMostMax'
  BY <1>1, <1>2 DEF IInv, CountExplained, AtMostMax
<1> QED
  BY <1>3, <1>4, <1>5, <1>6 DEF IInv

LEMMA ConnectKeepsIInv ==
    ASSUME IInv, NEW c \in Clients, Connect(c)
    PROVE  IInv'
<1>1. backlog \in Seq(Clients) /\ Len(backlog) \in Nat
  BY LenProperties DEF IInv, TypeOK
<1>2. /\ backlog' \in Seq(Clients) /\ Len(backlog') = Len(backlog) + 1
      /\ \A i \in 1..Len(backlog) : backlog'[i] = backlog[i]
      /\ backlog'[Len(backlog) + 1] = c
  BY <1>1, AppendProperties DEF Connect
<1>3. /\ running' = running /\ acceptor' = acceptor /\ handler' = handler
      /\ incoming' = incoming /\ turnedAway' = turnedAway /\ count' = count
      /\ arrivals' = arrivals + 1
  BY DEF Connect
<1>4. Live' = Live
  BY <1>3 DEF Live
<1>5. TypeOK'
  BY <1>2, <1>3 DEF IInv, TypeOK
<1>6. InBetween'
  BY <1>3, <1>4 DEF IInv, InBetween
<1>7. BacklogApart'
  <2>1. c \notin Live \cup incoming /\ \A i \in 1..Len(backlog) : backlog[i] # c
    BY DEF Connect
  <2>2. ASSUME NEW i \in 1..Len(backlog'), NEW j \in 1..Len(backlog')
        PROVE  /\ backlog'[i] \notin Live \cup incoming
               /\ backlog'[i] = backlog'[j] => i = j
    <3>1. i \in 1..Len(backlog) \/ i = Len(backlog) + 1
      BY <1>1, <1>2
    <3>2. j \in 1..Len(backlog) \/ j = Len(backlog) + 1
      BY <1>1, <1>2
    <3> QED
      BY <1>2, <2>1, <3>1, <3>2 DEF IInv, BacklogApart
  <2> QED
    BY <1>1, <1>2, <1>3, <1>4, <2>2 DEF BacklogApart
<1>8. CountExplained' /\ AtMostMax'
  BY <1>3, <1>4 DEF IInv, CountExplained, AtMostMax
<1> QED
  BY <1>5, <1>6, <1>7, <1>8 DEF IInv

LEMMA AcceptKeepsIInv ==
    ASSUME IInv, Accept
    PROVE  IInv'
<1>1. backlog \in Seq(Clients) /\ backlog # <<>> /\ Len(backlog) \in Nat \ {0}
  BY LenProperties, EmptySeq DEF IInv, TypeOK, Accept
<1>2. /\ Head(backlog) \in Clients /\ Head(backlog) = backlog[1]
      /\ backlog' \in Seq(Clients) /\ Len(backlog') = Len(backlog) - 1
      /\ \A i \in 1..Len(backlog') : backlog'[i] = backlog[i + 1]
  BY <1>1, HeadTailProperties DEF Accept
<1>3. /\ running' = running /\ acceptor' = "counted" /\ handler' = handler
      /\ incoming' = {Head(backlog)} /\ turnedAway' = turnedAway
      /\ count' = count + 1 /\ arrivals' = arrivals
  BY DEF Accept
<1>4. Live' = Live
  BY <1>3 DEF Live
<1>5. incoming = {}
  BY DEF IInv, InBetween, Accept
<1>6. TypeOK'
  BY <1>2, <1>3 DEF IInv, TypeOK
<1>7. InBetween'
  <2>1. Head(backlog) \notin Live
    BY <1>1, <1>2 DEF IInv, BacklogApart
  <2> QED
    BY <1>2, <1>3, <1>4, <2>1 DEF InBetween
<1>8. BacklogApart'
  <2>1. ASSUME NEW i \in 1..Len(backlog'), NEW j \in 1..Len(backlog')
        PROVE  /\ backlog'[i] \notin Live \cup {backlog[1]}
               /\ backlog'[i] = backlog'[j] => i = j
    <3>1. /\ i + 1 \in 1..Len(backlog) /\ j + 1 \in 1..Len(backlog)
          /\ 1 \in 1..Len(backlog) /\ i + 1 # 1
      BY <1>1, <1>2
    <3> QED
      BY <1>2, <3>1 DEF IInv, BacklogApart
  <2> QED
    BY <1>2, <1>3, <1>4, <2>1 DEF BacklogApart
<1>9. CountExplained'
  <2>1. Cardinality(incoming) = 0 /\ Cardinality(incoming') = 1
    BY <1>3, <1>5, FS_EmptySet, FS_Singleton
  <2>2. Cardinality(Live) \in Nat
    BY ClientsCounted DEF Live
  <2> QED
    BY <1>3, <1>4, <2>1, <2>2 DEF IInv, TypeOK, CountExplained
<1>10. AtMostMax'
  BY <1>4 DEF IInv, AtMostMax
<1> QED
  BY <1>6, <1>7, <1>8, <1>9, <1>10 DEF IInv

\* A connection that is turned away, or abandoned by stop, stays counted.
LEMMA TurningAwayKeepsIInv ==
    ASSUME IInv, Reject \/ Stop
    PROVE  IInv'
<1>1. /\ handler' = handler /\ incoming' = {} /\ count' = count
      /\ arrivals' = arrivals /\ running' \in BOOLEAN
      /\ acceptor' \in {"accepting", "ended"}
      /\ backlog' = backlog \/ backlog' = <<>>
  BY DEF IInv, TypeOK, Reject, Stop
<1>2. Live' = Live
  BY <1>1 DEF Live
<1>3. /\ Cardinality(incoming) \in Nat /\ Cardinality(Live) \in Nat
      /\ Cardinality(incoming') = 0
  BY <1>1, ClientsCounted, FS_EmptySet DEF IInv, TypeOK, Live
<1>4. turnedAway' = turnedAway + Cardinality(incoming)
  <2>1. CASE Stop
    BY <2>1 DEF Stop
  <2>2. CASE Reject
    <3>1. PICK c \in Clients : incoming = {c}
      BY <2>2 DEF IInv, InBetween, Reject
    <3>2. Cardinality(incoming) = 1
      BY <3>1, FS_Singleton
    <3> QED
      BY <2>2, <3>2 DEF Reject
  <2> QED
    BY <2>1, <2>2
<1>5. TypeOK'
  <2>1. backlog' \in Seq(Clients)
    BY <1>1, EmptySeq DEF IInv, TypeOK
  <2>2. turnedAway' \in Nat
    BY <1>3, <1>4 DEF IInv, TypeOK
  <2> QED
    BY <1>1, <2>1, <2>2 DEF IInv, TypeOK
<1>6. InBetween'
  BY <1>1 DEF InBetween
<1>7. BacklogApart'
  <2>1. CASE backlog' = backlog
    BY <1>1, <1>2, <2>1 DEF IInv, BacklogApart
  <2>2. CASE backlog' = <<>>
    BY <2>2, EmptySeq DEF BacklogApart
  <2> QED
    BY <1>1, <2>1, <2>2
<1>8. CountExplained'
  BY <1>1, <1>2, <1>3, <1>4 DEF IInv, TypeOK, CountExplained
<1>9. AtMostMax'
  BY <1>2 DEF IInv, AtMostMax
<1> QED
  BY <1>5, <1>6, <1>7, <1>8, <1>9 DEF IInv

\* An admission finds room: the count it tested covers every live thread and
\* the newcomer.
LEMMA AdmitKeepsIInv ==
    ASSUME IInv, Admit
    PROVE  IInv'
<1>1. PICK c \in Clients : incoming = {c}
  BY DEF IInv, InBetween, Admit
<1>2. /\ running' = running /\ acceptor' = "accepting" /\ backlog' = backlog
      /\ incoming' = {} /\ turnedAway' = turnedAway /\ count' = count
      /\ arrivals' = arrivals
      /\ handler' = [k \in Clients |-> IF k = c THEN "starting" ELSE handler[k]]
  BY <1>1 DEF Admit
<1>3. c \notin Live /\ Live' = Live \cup {c}
  BY <1>1, <1>2 DEF IInv, InBetween, Live
<1>4. /\ Cardinality(Live) \in Nat /\ Cardinality(Live') = Cardinality(Live) + 1
      /\ Cardinality(incoming) = 1 /\ Cardinality(incoming') = 0
  <2>1. IsFiniteSet(Live) /\ Cardinality(Live) \in Nat
    BY ClientsCounted DEF Live
  <2> QED
    BY <1>1, <1>2, <1>3, <2>1, FS_AddElement, FS_Singleton, FS_EmptySet
<1>5. TypeOK'
  <2>1. handler' \in [Clients -> {"none"} \cup Stages]
    BY <1>2 DEF IInv, TypeOK, Stages
  <2> QED
    BY <1>2, <2>1 DEF IInv, TypeOK
<1>6. InBetween'
  BY <1>2 DEF InBetween
<1>7. BacklogApart'
  BY <1>1, <1>2, <1>3 DEF IInv, BacklogApart
<1>8. CountExplained'
  BY <1>2, <1>4 DEF IInv, TypeOK, CountExplained
<1>9. AtMostMax'
  <2>1. count <= MaxConnections
    BY LimitsAssumption DEF IInv, TypeOK, Admit, Full
  <2>2. count = Cardinality(Live') + turnedAway
    BY <1>4 DEF IInv, TypeOK, CountExplained
  <2> QED
    BY <1>4, <2>1, <2>2, LimitsAssumption DEF IInv, TypeOK, AtMostMax
<1> QED
  BY <1>5, <1>6, <1>7, <1>8, <1>9 DEF IInv

LEMMA UncountKeepsIInv ==
    ASSUME IInv, NEW c \in Clients, Uncount(c)
    PROVE  IInv'
<1>1. /\ running' = running /\ acceptor' = acceptor /\ backlog' = backlog
      /\ incoming' = incoming /\ turnedAway' = turnedAway /\ count' = count - 1
      /\ arrivals' = arrivals
      /\ handler[c] = "closed" /\ handler' = [handler EXCEPT ![c] = "none"]
  BY DEF Uncount, Moves
<1>2. c \in Live /\ Live' = Live \ {c}
  BY <1>1 DEF IInv, TypeOK, Live
<1>3. /\ Cardinality(Live) \in Nat /\ Cardinality(Live') \in Nat
      /\ Cardinality(Live') = Cardinality(Live) - 1
      /\ Cardinality(incoming) \in Nat
  <2>1. IsFiniteSet(Live) /\ Cardinality(Live) \in Nat /\ Cardinality(Live') \in Nat
    BY <1>2, ClientsCounted DEF Live
  <2> QED
    BY <1>2, <2>1, FS_RemoveElement, ClientsCounted DEF IInv, TypeOK
<1>4. CountExplained'
  BY <1>1, <1>3 DEF IInv, TypeOK, CountExplained
<1>5. TypeOK'
  <2>1. count' \in Nat
    BY <1>1, <1>3, <1>4 DEF IInv, TypeOK, CountExplained
  <2> QED
    BY <1>1, <2>1 DEF IInv, TypeOK
<1>6. InBetween'
  BY <1>1, <1>2 DEF IInv, InBetween
<1>7. BacklogApart'
  BY <1>1, <1>2 DEF IInv, BacklogApart
<1>8. AtMostMax'
  BY <1>3, LimitsAssumption DEF IInv, AtMostMax
<1> QED
  BY <1>4, <1>5, <1>6, <1>7, <1>8 DEF IInv

LEMMA NextKeepsIInv == IInv /\ [Next]_vars => IInv'
<1> SUFFICES ASSUME IInv, [Next]_vars PROVE IInv'
  OBVIOUS
<1>1. ASSUME NEW c \in Clients, Connect(c) PROVE IInv'
  BY <1>1, ConnectKeepsIInv
<1>2. CASE Accept
  BY <1>2, AcceptKeepsIInv
<1>3. CASE Reject \/ Stop
  BY <1>3, TurningAwayKeepsIInv
<1>4. CASE Admit
  BY <1>4, AdmitKeepsIInv
<1>5. ASSUME NEW c \in Clients,
             Enter(c) \/ Data(c) \/ Leave(c) \/ Respond(c) \/ Fail(c) \/ Close(c)
      PROVE  IInv'
  <2>1. PICK from \in Stages, to \in Stages : Moves(c, from, to) /\ count' = count
    BY <1>5 DEF Enter, Data, Leave, Respond, Fail, Close, LoopHead, Stages
  <2> QED
    BY <2>1, MovingKeepsIInv
<1>6. ASSUME NEW c \in Clients, Uncount(c) PROVE IInv'
  BY <1>6, UncountKeepsIInv
<1>7. CASE UNCHANGED vars
  BY <1>7 DEF vars, IInv, TypeOK, InBetween, BacklogApart, CountExplained, AtMostMax, Live
<1> QED
  BY <1>1, <1>2, <1>3, <1>4, <1>5, <1>6, <1>7 DEF Next

-----------------------------------------------------------------------------
(* The theorems.                                                           *)

\* The connection counting of start and handle_tcp_client keeps IInv.
THEOREM Invariance == Spec => []IInv
  BY InitEstablishesIInv, NextKeepsIInv, PTL DEF Spec

\* client_count is the live connections, the one in between, and all that were
\* ever turned away: the leak is exactly one per rejection.
THEOREM CountIsExplained == Spec => []CountExplained
<1>1. IInv => CountExplained
  BY DEF IInv
<1> QED
  BY <1>1, Invariance, PTL

\* No more than max_connections handler threads run, although the count is
\* tested outside the lock.
THEOREM LimitHolds == Spec => []AtMostMax
<1>1. IInv => AtMostMax
  BY DEF IInv
<1> QED
  BY <1>1, Invariance, PTL

-----------------------------------------------------------------------------
(* AsyncHFTPServer: the coroutines and client_count.                       *)

\* The inductive invariant: what client_count is the sum of.
AIInv == AsyncTypeOK /\ TotalExplained

Serving == {"reading", "draining"}
Closing == {"flushing", "closing"}

\* The sets of coroutines are finite.
LEMMA AtFinite ==
    ASSUME NEW places
    PROVE  IsFiniteSet(At(places)) /\ Cardinality(At(places)) \in Nat
  <1>1. IsFiniteSet(At(places))
    BY PeersAssumption, FS_Subset DEF At
  <1> QED
    BY <1>1, FS_CardinalityType

\* A coroutine that goes on without ending counts as before.
LEMMA GoingKeepsAIInv ==
    ASSUME AIInv, NEW c \in Peers,
           NEW from \in SUBSET (Serving \cup Closing), NEW to \in Serving \cup Closing,
           Goes(c, from, to), UNCHANGED <<phase, up, broken, total, leaked, connects>>
    PROVE  AIInv'
  <1>1. coroutine' = [coroutine EXCEPT ![c] = to] /\ coroutine[c] \in Serving \cup Closing
    BY DEF Goes
  <1>2. Counted' = Counted
    BY <1>1 DEF AIInv, AsyncTypeOK, Counted, At, Serving, Closing
  <1>3. AsyncTypeOK'
    BY <1>1 DEF AIInv, AsyncTypeOK, Places, Serving, Closing
  <1> QED
    BY <1>2, <1>3 DEF AIInv, TotalExplained

LEMMA BeginKeepsAIInv ==
    ASSUME AIInv, NEW c \in Peers, Begin(c)
    PROVE  AIInv'
  <1>1. PICK to \in {"reading", "closing"} : coroutine' = [coroutine EXCEPT ![c] = to]
    BY DEF Begin, Goes, NextRound
  <1>2. /\ coroutine[c] = "created" /\ total' = total + 1
        /\ UNCHANGED <<phase, up, broken, leaked, connects>>
    BY DEF Begin, Goes
  <1>3. c \notin Counted /\ Counted' = Counted \cup {c}
    BY <1>1, <1>2 DEF AIInv, AsyncTypeOK, Counted, At
  <1>4. /\ Cardinality(Counted) \in Nat
        /\ Cardinality(Counted') = Cardinality(Counted) + 1
    BY <1>3, AtFinite, FS_AddElement DEF Counted
  <1>5. AsyncTypeOK'
    BY <1>1, <1>2 DEF AIInv, AsyncTypeOK, Places
  <1> QED
    BY <1>2, <1>4, <1>5 DEF AIInv, AsyncTypeOK, TotalExplained

\* A coroutine that ends is taken off the count, or is leaked.
LEMMA EndingKeepsAIInv ==
    ASSUME AIInv, NEW c \in Peers, CountDown(c) \/ CloseRaises(c)
    PROVE  AIInv'
  <1>1. /\ coroutine[c] = "closing" /\ coroutine' = [coroutine EXCEPT ![c] = "none"]
        /\ UNCHANGED <<phase, up, broken, connects>>
        /\ \/ total' = total - 1 /\ leaked' = leaked
           \/ total' = total /\ leaked' = leaked + 1
    BY DEF CountDown, CloseRaises, Goes
  <1>2. c \in Counted /\ Counted' = Counted \ {c}
    BY <1>1 DEF AIInv, AsyncTypeOK, Counted, At
  <1>3. /\ Cardinality(Counted) \in Nat
        /\ Cardinality(Counted') = Cardinality(Counted) - 1
    BY <1>2, AtFinite, FS_RemoveElement DEF Counted
  <1>4. AsyncTypeOK'
    BY <1>1 DEF AIInv, AsyncTypeOK, Places
  <1> QED
    BY <1>1, <1>3, <1>4 DEF AIInv, AsyncTypeOK, TotalExplained

\* The cancellation: who served goes on to close, who was closing is leaked.
LEMMA EndKeepsAIInv ==
    ASSUME AIInv, End
    PROVE  AIInv'
  <1>1. /\ phase' = "ended" /\ up' = FALSE
        /\ leaked' = leaked + Cardinality(At(Closing))
        /\ UNCHANGED <<broken, total, connects>>
    BY DEF End, Closing
  <1>2. PICK unsent \in SUBSET At({"reading"}) :
           coroutine' = [c \in Peers |->
              IF c \in unsent \cup At({"draining"}) THEN "flushing"
              ELSE IF c \in At({"reading"}) THEN "closing" ELSE "none"]
    BY DEF End
  <1>3. Counted' = At(Serving)
    BY <1>2 DEF Counted, At, Serving
  <1>4. Counted = At(Serving) \cup At(Closing) /\ At(Serving) \cap At(Closing) = {}
    BY DEF Counted, At, Serving, Closing
  <1>5. Cardinality(Counted) = Cardinality(At(Serving)) + Cardinality(At(Closing))
    <2>1. /\ IsFiniteSet(At(Serving)) /\ IsFiniteSet(At(Closing))
          /\ Cardinality(At(Serving)) \in Nat /\ Cardinality(At(Closing)) \in Nat
      BY AtFinite
    <2>2. Cardinality(At(Serving) \cup At(Closing))
            = Cardinality(At(Serving)) + Cardinality(At(Closing)) - Cardinality({})
      BY <1>4, <2>1, FS_Union
    <2> QED
      BY <1>4, <2>1, <2>2, FS_EmptySet
  <1>6. Cardinality(At(Closing)) \in Nat /\ Cardinality(At(Serving)) \in Nat
    BY AtFinite
  <1>7. AsyncTypeOK'
    <2>1. coroutine' \in [Peers -> {"none", "flushing", "closing"}]
      BY <1>2
    <2>2. coroutine' \in [Peers -> Places]
      BY <2>1 DEF Places
    <2>3. leaked' \in Nat /\ total' \in Int /\ connects' \in Nat /\ broken' \subseteq Peers
      BY <1>1, <1>6 DEF AIInv, AsyncTypeOK
    <2> QED
      BY <1>1, <2>2, <2>3, Zenon DEF AsyncTypeOK
  <1> QED
    BY <1>1, <1>3, <1>5, <1>6, <1>7 DEF AIInv, AsyncTypeOK, TotalExplained

\* The listening socket, a new task and a lost connection change no count.
LEMMA OutsideKeepsAIInv ==
    ASSUME AIInv, OpenUdp \/ \E c \in Peers : Arrive(c) \/ Break(c)
    PROVE  AIInv'
  <1>1. total' = total /\ leaked' = leaked
    BY DEF OpenUdp, Arrive, Break
  <1>2. Counted' = Counted
    BY DEF OpenUdp, Arrive, Break, Goes, AIInv, AsyncTypeOK, Counted, At
  <1>3. AsyncTypeOK'
    <2>1. /\ phase' \in {"listening", "serving", "ended"} /\ up' \in BOOLEAN
          /\ total' \in Int /\ leaked' \in Nat
      BY DEF OpenUdp, Arrive, Break, AIInv, AsyncTypeOK
    <2>2. coroutine' \in [Peers -> Places] /\ broken' \subseteq Peers /\ connects' \in Nat
      BY DEF OpenUdp, Arrive, Break, Goes, AIInv, AsyncTypeOK, Places
    <2> QED
      BY <2>1, <2>2, Zenon DEF AsyncTypeOK
  <1> QED
    BY <1>1, <1>2, <1>3 DEF AIInv, TotalExplained

LEMMA InitEstablishesAIInv == AsyncInit => AIInv
  <1> SUFFICES ASSUME AsyncInit PROVE AIInv
    OBVIOUS
  <1>1. Counted = {}
    BY DEF AsyncInit, Counted, At
  <1>2. AsyncTypeOK
    <2>1. coroutine \in [Peers -> Places]
      BY DEF AsyncInit, Places
    <2>2. total \in Int /\ leaked \in Nat /\ connects \in Nat
      BY DEF AsyncInit
    <2> QED
      BY <2>1, <2>2, Zenon DEF AsyncInit, AsyncTypeOK
  <1> QED
    BY <1>1, <1>2, FS_EmptySet DEF AIInv, AsyncInit, TotalExplained

LEMMA NextKeepsAIInv == AIInv /\ [AsyncNext]_avars => AIInv'
  <1> SUFFICES ASSUME AIInv, [AsyncNext]_avars PROVE AIInv'
    OBVIOUS
  <1>1. CASE OpenUdp \/ \E c \in Peers : Arrive(c) \/ Break(c)
    BY <1>1, OutsideKeepsAIInv
  <1>2. CASE End
    BY <1>2, EndKeepsAIInv
  <1>3. ASSUME NEW c \in Peers, Begin(c) PROVE AIInv'
    BY <1>3, BeginKeepsAIInv
  <1>4. ASSUME NEW c \in Peers, CountDown(c) \/ CloseRaises(c) PROVE AIInv'
    BY <1>4, EndingKeepsAIInv
  <1>5. ASSUME NEW c \in Peers,
               \/ Serve(c) \/ Drain(c) \/ Drained(c) \/ Depart(c)
               \/ Raised(c) \/ Flushed(c)
        PROVE  AIInv'
    <2>1. PICK from \in SUBSET (Serving \cup Closing), to \in Serving \cup Closing :
             Goes(c, from, to) /\ UNCHANGED <<phase, up, broken, total, leaked, connects>>
      BY <1>5 DEF Serve, Drain, Drained, Depart, Raised, Flushed, NextRound, Serving, Closing
    <2> QED
      BY <2>1, GoingKeepsAIInv
  <1>6. CASE UNCHANGED avars
    BY <1>6 DEF avars, AIInv, AsyncTypeOK, TotalExplained, Counted, At
  <1> QED
    BY <1>1, <1>2, <1>3, <1>4, <1>5, <1>6 DEF AsyncNext, Runs

-----------------------------------------------------------------------------
(* The theorems.                                                           *)

\* AIInv holds of every state of the server.
THEOREM AsyncInvariance == AsyncSpec => []AIInv
  BY InitEstablishesAIInv, NextKeepsAIInv, PTL DEF AsyncSpec

\* client_count is off by exactly the closes that ended in an exception
\* (main_server.py:288), whatever was reset, cancelled or came early.
THEOREM TotalIsExplained == AsyncSpec => []TotalExplained
  <1>1. AIInv => TotalExplained
    BY DEF AIInv
  <1> QED
    BY <1>1, AsyncInvariance, PTL
=============================================================================
