------------------------ MODULE MatrixGatewayProofs ------------------------
(***************************************************************************)
(* Theorems about the Matrix appservice gateway.                           *)
(***************************************************************************)
EXTENDS MatrixGateway, LeastIndex, SequenceTheorems

\* What the gateway holds in the loop of handle before the first event
Before == [ids |-> processedEventIds, queue |-> queue]

-----------------------------------------------------------------------------
(* The loop.                                                               *)

\* The loop of handle goes from one event to the next.
LEMMA LoopTurns ==
  ASSUME NEW S, NEW events \in Seq(S)
  PROVE  /\ Loop(events)[0] = Before
         /\ \A i \in 1..Len(events) :
              Loop(events)[i] = HandleEvent(Loop(events)[i - 1], events[i])
<1> DEFINE N == Len(events)
           Turns(f, n) == /\ f = [i \in 0..n |-> f[i]]
                          /\ f[0] = Before
                          /\ \A i \in 1..n :
                               f[i] = HandleEvent(f[i - 1], events[i])
           Runs == {n \in 0..N : \E f : Turns(f, n)}
           Body(f) == [i \in 0..N |->
                         IF i = 0 THEN Before
                         ELSE HandleEvent(f[i - 1], events[i])]
<1>1. N \in Nat
  OBVIOUS
<1>2. 0 \in Runs
  <2>1. Turns([i \in 0..0 |-> Before], 0)
    OBVIOUS
  <2> HIDE DEF Turns
  <2> QED
    BY <1>1, <2>1
<1>3. ASSUME NEW n \in 1..N, n - 1 \in Runs PROVE n \in Runs
  <2>1. PICK f : Turns(f, n - 1)
    BY <1>3
  <2> DEFINE g == [i \in 0..n |-> IF i = n THEN HandleEvent(f[n - 1], events[n])
                                  ELSE f[i]]
  <2>2. g = [i \in 0..n |-> g[i]] /\ g[0] = Before
    BY <1>1, <2>1
  <2>3. ASSUME NEW i \in 1..n
        PROVE  g[i] = HandleEvent(g[i - 1], events[i])
    <3>1. i - 1 \in 0..n /\ i - 1 # n /\ i \in 0..n
      BY <1>1
    <3>2. g[i - 1] = f[i - 1]
      BY <3>1
    <3>3. CASE i = n
      BY <3>1, <3>2, <3>3
    <3>4. CASE i # n
      <4>1. i \in 1..(n - 1)
        BY <1>1, <3>4
      <4> QED
        BY <2>1, <3>1, <3>2, <3>4, <4>1
    <3> QED
      BY <3>3, <3>4
  <2>4. Turns(g, n)
    BY <2>2, <2>3
  <2> HIDE DEF Turns, g
  <2> QED
    BY <1>1, <2>4
<1>4. N \in Runs
  <2>1. 0..N \subseteq Runs
    <3> HIDE DEF Runs
    <3> QED
      BY <1>1, <1>2, <1>3, EveryTurn
  <2> QED
    BY <1>1, <2>1
<1>5. PICK f : Turns(f, N)
  BY <1>4
<1>6. f = Body(f)
  <2>1. \A i \in 0..N : f[i] = Body(f)[i]
    <3>1. f[0] = Body(f)[0]
      BY <1>1, <1>5
    <3>2. ASSUME NEW i \in 1..N PROVE f[i] = Body(f)[i]
      <4>1. i \in 0..N /\ i # 0
        BY <1>1
      <4> QED
        BY <1>5, <4>1
    <3>3. \A i \in 0..N : i = 0 \/ i \in 1..N
      BY <1>1
    <3> HIDE DEF Body, N
    <3> QED
      BY <3>1, <3>2, <3>3
  <2>2. Body(f) = [i \in 0..N |-> Body(f)[i]]
    OBVIOUS
  <2> HIDE DEF Body
  <2> QED
    BY <1>5, <2>1, <2>2
<1>7. Loop(events) = CHOOSE g : g = Body(g)
  BY DEF Loop, Before
<1>8. Loop(events) = Body(Loop(events))
  <2> HIDE DEF Body
  <2> QED
    BY <1>6, <1>7
<1> QED
  BY <1>1, <1>8

\* The events before one throws are the first ones of their transaction, and
\* all of them have an id.
LEMMA HandledEvents ==
  ASSUME NEW t \in Txns
  PROVE  LET events == BeforeThrow(Transactions[t])
         IN  /\ events \in Seq(EventsSent)
             /\ Len(events) <= Len(Transactions[t])
             /\ \A i \in 1..Len(events) :
                  /\ events[i] = Transactions[t][i]
                  /\ events[i].kind # "malformed"
<1> DEFINE txn == Transactions[t]
           throws(e) == e.kind \in {"unmappable", "malformed"}
           I == {i \in 1..Len(txn) : throws(txn[i])}
<1>1. txn \in Seq(EventsSent)
  BY GatewayAssumption DEF Txns, EventsSent
<1>2. CASE I = {}
  <2>1. BeforeThrow(txn) = txn
    BY <1>2 DEF BeforeThrow, SelectInSeq
  <2> QED
    BY <1>1, <1>2, <2>1
<1>3. CASE I # {}
  <2>1. PICK i \in I : \A j \in I : i <= j
    <3>1. I \in SUBSET Nat
      OBVIOUS
    <3> HIDE DEF I
    <3> QED
      BY <1>3, <3>1, SetOfNaturalsHasMin
  <2>2. BeforeThrow(txn) = SubSeq(txn, 1, i - 1)
    <3>1. I \in SUBSET Nat
      OBVIOUS
    <3>2. Min(I) = i
      <4> HIDE DEF I
      <4>1. \A x \in I : (\A y \in I : x <= y) => x = i
        BY <2>1, <3>1
      <4> QED
        BY <2>1, <4>1 DEF Min
    <3>3. SelectInSeq(txn, throws) = Min(I) /\ i # 0
      BY <1>3 DEF SelectInSeq
    <3> QED
      BY <3>2, <3>3 DEF BeforeThrow
  <2>3. /\ i - 1 \in 0..Len(txn) /\ i - 1 <= Len(txn)
        /\ \A k \in 1..(i - 1) : ~ throws(txn[k])
    <3>1. \A k \in 1..(i - 1) : k \in 1..Len(txn) /\ ~ (i <= k)
      BY <1>1
    <3> QED
      BY <1>1, <2>1, <3>1
  <2>4. /\ BeforeThrow(txn) \in Seq(EventsSent)
        /\ Len(BeforeThrow(txn)) = i - 1
        /\ \A k \in 1..(i - 1) : BeforeThrow(txn)[k] = txn[k]
    <3> HIDE DEF txn
    <3> QED
      BY <1>1, <2>2, <2>3
  <2> QED
    BY <2>3, <2>4
<1> QED
  BY <1>2, <1>3

-----------------------------------------------------------------------------
(* What the loop remembers and queues.                                     *)

\* What m remembers are events the homeserver has; those that are work are in
\* the queue, once, and nothing else is.
Remembers(m) ==
  /\ m.ids \subseteq EventIds
  /\ m.queue \in Seq(EventIds)
  /\ IsInjective(m.queue)
  /\ ToSet(m.queue) = m.ids \cap AcceptedIds

\* An event that has an id is remembered, and queued if it is new work.
LEMMA EventIsRemembered ==
  ASSUME NEW m, Remembers(m),
         NEW e \in EventsSent, e.kind # "malformed"
  PROVE  Remembers(HandleEvent(m, e))
<1>1. e.id \in EventIds
  BY GatewayAssumption DEF EventIds
<1>2. e.id \in AcceptedIds <=> e.kind = "accepted"
  BY GatewayAssumption DEF AcceptedIds
<1>3. CASE e.id \in m.ids
  BY <1>3 DEF HandleEvent
<1>4. CASE e.id \notin m.ids /\ e.kind # "accepted"
  BY <1>1, <1>2, <1>4 DEF HandleEvent, Remembers
<1>5. CASE e.id \notin m.ids /\ e.kind = "accepted"
  <2> DEFINE q == m.queue
             r == Append(q, e.id)
  <2>1. q \in Seq(EventIds) /\ r \in Seq(EventIds)
    BY <1>1 DEF Remembers
  <2>2. /\ DOMAIN q = 1..Len(q) /\ DOMAIN r = 1..(Len(q) + 1)
        /\ \A i \in 1..Len(q) : r[i] = q[i]
        /\ r[Len(q) + 1] = e.id /\ Len(q) \in Nat
    BY <2>1
  <2>3. \A i \in 1..Len(q) : q[i] # e.id
    BY <1>5, <2>2 DEF Remembers, ToSet
  <2>4. IsInjective(r)
    <3>1. IsInjective(q)
      BY DEF Remembers
    <3> HIDE DEF q, r
    <3> QED
      BY <2>2, <2>3, <3>1 DEF IsInjective
  <2>5. ToSet(r) = ToSet(q) \cup {e.id}
    <3> HIDE DEF q, r
    <3> QED
      BY <2>2 DEF ToSet
  <2>6. HandleEvent(m, e) = [ids |-> m.ids \cup {e.id}, queue |-> r]
    BY <1>5 DEF HandleEvent
  <2> QED
    BY <1>1, <1>2, <1>5, <2>1, <2>4, <2>5, <2>6 DEF Remembers
<1> QED
  BY <1>3, <1>4, <1>5

\* A transaction, whole or up to a throw, is remembered like each of its
\* events.
LEMMA HandledIsRemembered ==
  ASSUME Remembers(Before), NEW t \in Txns
  PROVE  Remembers(Handled(t))
<1> DEFINE events == BeforeThrow(Transactions[t])
           N == Len(events)
           S == {i \in 0..N : Remembers(Loop(events)[i])}
<1>1. /\ events \in Seq(EventsSent) /\ N \in Nat
      /\ \A i \in 1..N : events[i] \in EventsSent /\ events[i].kind # "malformed"
  BY HandledEvents
<1>2. 0 \in S
  BY <1>1, LoopTurns
<1>3. ASSUME NEW i \in 1..N, i - 1 \in S PROVE i \in S
  <2>1. Loop(events)[i] = HandleEvent(Loop(events)[i - 1], events[i])
    BY <1>1, LoopTurns
  <2>2. Remembers(Loop(events)[i - 1]) /\ i \in 0..N
    BY <1>1, <1>3
  <2> HIDE DEF events, N
  <2> QED
    BY <1>1, <2>1, <2>2, EventIsRemembered
<1>4. 0..N \subseteq S
  <2>1. N \in Nat /\ \A i \in 1..N : i - 1 \in S => i \in S
    BY <1>1, <1>3
  <2> HIDE DEF S, N
  <2> QED
    BY <1>2, <2>1, EveryTurn
<1> QED
  BY <1>1, <1>4 DEF Handled

-----------------------------------------------------------------------------
(* The order of what is remembered and queued.                             *)

\* The ids of the homeserver's events before place i of transaction t
IdsBefore(t, i) == {IdAt(p) : p \in {q \in Places : Earlier(q, <<t, i>>)}}

\* Every id of s was first sent before those behind it.
Ordered(s) == \A i, j \in DOMAIN s : i < j => SentBefore(s[i], s[j])

\* Places are pairs of numbers.
LEMMA PlacesArePairs ==
  ASSUME NEW p
  PROVE  p \in Places <=> /\ p = <<p[1], p[2]>>
                          /\ p[1] \in 1..Len(Transactions)
                          /\ p[2] \in 1..Len(Transactions[p[1]])
<1>1. /\ Txns = 1..Len(Transactions)
      /\ \A t \in Txns : DOMAIN Transactions[t] = 1..Len(Transactions[t])
  BY GatewayAssumption DEF Txns
<1> QED
  BY <1>1 DEF Places

\* The next place adds its event, and no other.
LEMMA IdsOfNextPlace ==
  ASSUME NEW t \in Txns, NEW i \in 1..Len(Transactions[t])
  PROVE  IdsBefore(t, i + 1) = IdsBefore(t, i) \cup {Transactions[t][i].id}
<1>1. t \in 1..Len(Transactions) /\ t \in Nat /\ i \in Nat
  BY GatewayAssumption DEF Txns
<1>2. <<t, i>> \in Places
  BY <1>1, PlacesArePairs
<1>3. ASSUME NEW q \in Places
      PROVE  Earlier(q, <<t, i + 1>>) <=> Earlier(q, <<t, i>>) \/ q = <<t, i>>
  <2>1. q = <<q[1], q[2]>> /\ q[1] \in Nat /\ q[2] \in Nat
    BY PlacesArePairs
  <2> QED
    BY <1>1, <2>1 DEF Earlier
<1> QED
  BY <1>2, <1>3 DEF IdsBefore, IdAt

\* After the last event of a transaction comes the first of the next.
LEMMA IdsOfTransaction ==
  ASSUME NEW t \in Txns
  PROVE  IdsBefore(t, Len(Transactions[t]) + 1) = IdsBefore(t + 1, 1)
<1>1. t \in Nat /\ Len(Transactions[t]) \in Nat
  BY GatewayAssumption DEF Txns
<1>2. ASSUME NEW q \in Places
      PROVE  Earlier(q, <<t, Len(Transactions[t]) + 1>>)
               <=> Earlier(q, <<t + 1, 1>>)
  <2>1. /\ q[1] \in Nat /\ q[2] \in Nat /\ q[2] >= 1
        /\ q[1] = t => q[2] <= Len(Transactions[t])
    BY PlacesArePairs
  <2> QED
    BY <1>1, <2>1 DEF Earlier
<1> QED
  BY <1>2 DEF IdsBefore

\* An event handled in its turn is queued behind all that was sent before it.
LEMMA TurnKeepsOrder ==
  ASSUME NEW t \in Txns, NEW i \in 1..Len(Transactions[t]),
         NEW m, Remembers(m), m.ids = IdsBefore(t, i), Ordered(m.queue)
  PROVE  LET e == Transactions[t][i]
         IN  /\ HandleEvent(m, e).ids = IdsBefore(t, i + 1)
             /\ Ordered(HandleEvent(m, e).queue)
<1> DEFINE e == Transactions[t][i]
           q == m.queue
           r == Append(q, e.id)
<1>1. IdsBefore(t, i + 1) = m.ids \cup {e.id}
  BY IdsOfNextPlace
<1>2. CASE e.id \in m.ids
  BY <1>1, <1>2 DEF HandleEvent
<1>3. CASE e.id \notin m.ids
  <2>1. t \in Nat /\ i \in Nat
    BY GatewayAssumption DEF Txns
  <2>2. ASSUME NEW a \in ToSet(q) PROVE SentBefore(a, e.id)
    <3>1. a \in IdsBefore(t, i)
      BY DEF Remembers
    <3>2. PICK p \in Places : IdAt(p) = a /\ Earlier(p, <<t, i>>)
      BY <3>1 DEF IdsBefore
    <3>3. ASSUME NEW o \in Places, IdAt(o) = e.id PROVE Earlier(p, o)
      <4>1. ~ Earlier(o, <<t, i>>)
        BY <1>3, <3>3 DEF IdsBefore
      <4>2. p[1] \in Nat /\ p[2] \in Nat /\ o[1] \in Nat /\ o[2] \in Nat
        BY PlacesArePairs
      <4> QED
        BY <2>1, <3>2, <4>1, <4>2 DEF Earlier
    <3> QED
      BY <3>2, <3>3 DEF SentBefore
  <2>3. /\ DOMAIN q = 1..Len(q) /\ DOMAIN r = 1..(Len(q) + 1)
        /\ \A j \in 1..Len(q) : r[j] = q[j] /\ q[j] \in ToSet(q)
        /\ r[Len(q) + 1] = e.id /\ Len(q) \in Nat
    BY DEF Remembers, ToSet
  <2>4. Ordered(r)
    <3>1. SUFFICES ASSUME NEW j \in 1..(Len(q) + 1), NEW k \in 1..(Len(q) + 1),
                          j < k
                   PROVE  SentBefore(r[j], r[k])
      BY <2>3 DEF Ordered
    <3>2. j \in 1..Len(q) /\ (k \in 1..Len(q) \/ k = Len(q) + 1)
      BY <2>3, <3>1
    <3>3. Ordered(q)
      OBVIOUS
    <3>4. CASE k \in 1..Len(q)
      <4> HIDE DEF q, r
      <4> QED
        BY <2>3, <3>1, <3>2, <3>3, <3>4 DEF Ordered
    <3>5. CASE k = Len(q) + 1
      <4> HIDE DEF q, r
      <4> QED
        BY <2>2, <2>3, <3>2, <3>5
    <3> QED
      BY <3>2, <3>4, <3>5
  <2>5. /\ HandleEvent(m, e).ids = m.ids \cup {e.id}
        /\ HandleEvent(m, e).queue \in {q, r}
    BY <1>3 DEF HandleEvent
  <2> QED
    BY <1>1, <2>4, <2>5
<1> QED
  BY <1>2, <1>3

\* The next transaction, handled for the first time or once more after a
\* throw, leaves its events remembered up to the throw, and the queue in order.
LEMMA HandledInTurn ==
  ASSUME NEW t \in Txns, Remembers(Before), Ordered(queue),
         \/ processedEventIds = IdsBefore(t, 1)
         \/ processedEventIds
              = IdsBefore(t, Len(BeforeThrow(Transactions[t])) + 1)
  PROVE  /\ Handled(t).ids
              = IdsBefore(t, Len(BeforeThrow(Transactions[t])) + 1)
         /\ Ordered(Handled(t).queue)
<1> DEFINE events == BeforeThrow(Transactions[t])
           N == Len(events)
           after == Loop(events)
<1>1. /\ N \in Nat /\ N <= Len(Transactions[t])
      /\ events \in Seq(EventsSent)
      /\ \A i \in 1..N : /\ events[i] = Transactions[t][i]
                          /\ events[i] \in EventsSent
                          /\ events[i].kind # "malformed"
                          /\ i \in 1..Len(Transactions[t])
  <2>1. Len(Transactions[t]) \in Nat
    BY GatewayAssumption DEF Txns
  <2> QED
    BY <2>1, HandledEvents
<1>2. /\ after[0] = Before
      /\ \A i \in 1..N : after[i] = HandleEvent(after[i - 1], events[i])
  BY <1>1, LoopTurns
<1>3. Handled(t) = after[N]
  BY DEF Handled
<1>4. CASE processedEventIds = IdsBefore(t, 1)
  <2> DEFINE S == {i \in 0..N : /\ Remembers(after[i])
                                /\ after[i].ids = IdsBefore(t, i + 1)
                                /\ Ordered(after[i].queue)}
  <2>1. 0 \in S
    BY <1>1, <1>2, <1>4 DEF Before
  <2>2. ASSUME NEW i \in 1..N, i - 1 \in S PROVE i \in S
    <3>1. /\ Remembers(after[i - 1]) /\ Ordered(after[i - 1].queue)
          /\ after[i - 1].ids = IdsBefore(t, i)
      BY <1>1, <2>2
    <3> HIDE DEF after, events, N
    <3>2. Remembers(after[i])
      BY <1>1, <1>2, <3>1, EventIsRemembered
    <3>3. after[i].ids = IdsBefore(t, i + 1) /\ Ordered(after[i].queue)
      BY <1>1, <1>2, <3>1, TurnKeepsOrder
    <3> QED
      BY <1>1, <3>2, <3>3
  <2>3. 0..N \subseteq S
    <3>1. \A i \in 1..N : i - 1 \in S => i \in S
      BY <2>2
    <3> HIDE DEF S, N
    <3> QED
      BY <1>1, <2>1, <3>1, EveryTurn
  <2> QED
    BY <1>1, <1>3, <2>3
<1>5. CASE processedEventIds = IdsBefore(t, N + 1)
  <2> DEFINE S == {i \in 0..N : after[i] = Before}
  <2>1. ASSUME NEW i \in 1..N PROVE events[i].id \in Before.ids
    <3>1. <<t, i>> \in Places /\ Earlier(<<t, i>>, <<t, N + 1>>)
      <4>1. t \in 1..Len(Transactions)
        BY GatewayAssumption DEF Txns
      <4> QED
        BY <1>1, <4>1, PlacesArePairs DEF Earlier
    <3>2. Transactions[t][i].id \in IdsBefore(t, N + 1)
      BY <3>1 DEF IdsBefore, IdAt
    <3>3. events[i] = Transactions[t][i] /\ Before.ids = processedEventIds
      BY <1>1 DEF Before
    <3> QED
      BY <1>5, <3>2, <3>3
  <2>2. 0 \in S
    BY <1>1, <1>2
  <2>3. ASSUME NEW i \in 1..N, i - 1 \in S PROVE i \in S
    <3>1. after[i] = HandleEvent(Before, events[i]) /\ i \in 0..N
      BY <1>1, <1>2, <2>3
    <3>2. HandleEvent(Before, events[i]) = Before
      BY <2>1 DEF HandleEvent
    <3> QED
      BY <3>1, <3>2
  <2>4. 0..N \subseteq S
    <3>1. \A i \in 1..N : i - 1 \in S => i \in S
      BY <2>3
    <3> HIDE DEF S, N
    <3> QED
      BY <1>1, <2>2, <3>1, EveryTurn
  <2> QED
    BY <1>1, <1>3, <1>5, <2>4 DEF Before
<1> QED
  BY <1>4, <1>5

-----------------------------------------------------------------------------
(* The invariant.                                                          *)

\* Only the transaction after the last acknowledged one can be new.
SentInTurn ==
  \A t \in Txns :
    requests[t] > 0 \/ t \in answers \/ t \in processedTransactionIds
      => t <= acknowledged + 1

\* While the gateway stays up, it remembers exactly the events before some
\* place of the homeserver's order: a transaction boundary, or where the
\* transaction that is being retried throws.
RemembersPrefix ==
  LET next == acknowledged + 1
  IN  IF next \in processedTransactionIds
      THEN processedEventIds = IdsBefore(next + 1, 1)
      ELSE \/ processedEventIds = IdsBefore(next, 1)
           \/ /\ next \in Txns
              /\ processedEventIds
                   = IdsBefore(next, Len(BeforeThrow(Transactions[next])) + 1)

\* While the gateway stays up, transactions are marked as processed before
\* the homeserver is told.
InTurn ==
  crashes = 0 =>
    /\ (1..acknowledged) \cup answers \subseteq processedTransactionIds
    /\ RemembersPrefix
    /\ Ordered(queue)

\* The inductive invariant
IInv == TypeOK /\ WorkIsQueuedOnce /\ SentInTurn /\ InTurn

\* Before the first transaction nothing was sent.
LEMMA NothingBefore == IdsBefore(1, 1) = {}
<1>1. ASSUME NEW q \in Places PROVE ~ Earlier(q, <<1, 1>>)
  BY PlacesArePairs DEF Earlier
<1> QED
  BY <1>1 DEF IdsBefore

\* A gateway that has just started has nothing to remember.
LEMMA GatewayInit == Init => IInv
<1> SUFFICES ASSUME Init PROVE IInv
  OBVIOUS
<1>1. Txns = 1..Len(Transactions) /\ Len(Transactions) \in Nat
  BY GatewayAssumption DEF Txns
<1>2. TypeOK
  BY <1>1, GatewayAssumption DEF Init, TypeOK
<1>3. WorkIsQueuedOnce
  BY DEF Init, WorkIsQueuedOnce, IsInjective, ToSet
<1>4. SentInTurn
  BY <1>1 DEF Init, SentInTurn
<1>5. RemembersPrefix
  BY NothingBefore DEF Init, RemembersPrefix
<1>6. InTurn
  BY <1>5 DEF Init, InTurn, Ordered
<1> QED
  BY <1>2, <1>3, <1>4, <1>6 DEF IInv

\* The loop of handle keeps the types and queues work once.
LEMMA LoopKeepsQueue ==
  ASSUME TypeOK, WorkIsQueuedOnce, NEW t \in Txns, RunLoop(t)
  PROVE  /\ processedEventIds' \subseteq EventIds
         /\ queue' \in Seq(EventIds)
         /\ WorkIsQueuedOnce'
<1>1. Remembers(Before)
  BY DEF TypeOK, WorkIsQueuedOnce, Remembers, Before
<1>2. Remembers(Handled(t))
  BY <1>1, HandledIsRemembered
<1> QED
  BY <1>2 DEF RunLoop, Remembers, WorkIsQueuedOnce

\* So does every other step.
LEMMA StepKeepsQueue ==
  ASSUME TypeOK, WorkIsQueuedOnce, Next
  PROVE  TypeOK' /\ WorkIsQueuedOnce'
<1> USE DEF TypeOK
<1>1. Txns = 1..Len(Transactions) /\ Len(Transactions) \in Nat
  BY GatewayAssumption DEF Txns
<1>2. MaxInFlight \in Nat /\ MaxCrashes \in Nat /\ QueueStates \subseteq BOOLEAN
  BY GatewayAssumption
<1>3. ASSUME UNCHANGED <<processedEventIds, queue>> PROVE WorkIsQueuedOnce'
  BY <1>3 DEF WorkIsQueuedOnce
<1>4. ASSUME NEW t \in Txns, Send(t)
      PROVE  TypeOK' /\ WorkIsQueuedOnce'
  BY <1>2, <1>3, <1>4 DEF Send, memory
<1>5. ASSUME NEW t \in Txns, LoseAnswer(t) \/ ReceiveOk(t)
      PROVE  TypeOK' /\ WorkIsQueuedOnce'
  <2>1. acknowledged' \in {acknowledged, t} /\ answers' \subseteq Txns
    BY <1>5 DEF LoseAnswer, ReceiveOk
  <2>2. acknowledged' \in 0..Len(Transactions)
    BY <1>1, <2>1
  <2> QED
    BY <1>3, <1>5, <2>1, <2>2 DEF LoseAnswer, ReceiveOk, memory
<1>6. ASSUME NEW t \in Txns, Take(t)
      PROVE  /\ acknowledged' \in 0..Len(Transactions)
             /\ requests' \in [Txns -> 0..MaxInFlight]
             /\ available' \in BOOLEAN /\ crashes' \in 0..MaxCrashes
  BY <1>2, <1>6 DEF Take
<1>7. ASSUME NEW t \in Txns,
             RefuseOrLose(t) \/ AnswerDuplicate(t) \/ AnswerUnavailable(t)
      PROVE  TypeOK' /\ WorkIsQueuedOnce'
  BY <1>3, <1>6, <1>7
     DEF RefuseOrLose, AnswerDuplicate, AnswerUnavailable, Answer200, memory
<1>8. ASSUME NEW t \in Txns, HandleTransaction(t) \/ HandleThrows(t)
      PROVE  TypeOK' /\ WorkIsQueuedOnce'
  <2>1. /\ processedEventIds' \subseteq EventIds /\ queue' \in Seq(EventIds)
        /\ WorkIsQueuedOnce'
    BY <1>8, LoopKeepsQueue DEF HandleTransaction, HandleThrows
  <2>2. answers' \subseteq Txns /\ processedTransactionIds' \subseteq Txns
    BY <1>8 DEF HandleTransaction, HandleThrows, Answer200
  <2> QED
    BY <1>6, <1>8, <2>1, <2>2 DEF HandleTransaction, HandleThrows
<1>9. CASE CrashAndRestart
  <2>1. TypeOK'
    BY <1>2, <1>9 DEF CrashAndRestart, network
  <2>2. WorkIsQueuedOnce'
    BY <1>9 DEF CrashAndRestart, WorkIsQueuedOnce, IsInjective, ToSet
  <2> QED
    BY <2>1, <2>2
<1> QED
  BY <1>4, <1>5, <1>7, <1>8, <1>9 DEF Next

\* A transaction is sent, answered and handled in its turn.
LEMMA StepKeepsTurns ==
  ASSUME TypeOK, SentInTurn, Next
  PROVE  SentInTurn'
<1> USE DEF SentInTurn
<1>1. /\ Txns = 1..Len(Transactions) /\ Len(Transactions) \in Nat
      /\ acknowledged \in Nat
      /\ \A t \in Txns : requests[t] \in Nat
  BY GatewayAssumption DEF Txns, TypeOK
<1>2. ASSUME NEW t \in Txns, Send(t) PROVE SentInTurn'
  BY <1>1, <1>2 DEF Send, memory, TypeOK
<1>3. ASSUME NEW t \in Txns, LoseAnswer(t) \/ ReceiveOk(t) PROVE SentInTurn'
  BY <1>1, <1>3 DEF LoseAnswer, ReceiveOk, memory
<1>4. ASSUME NEW t \in Txns, Take(t)
      PROVE  /\ acknowledged' = acknowledged /\ t <= acknowledged + 1
             /\ \A u \in Txns : requests'[u] > 0 => requests[u] > 0
  BY <1>1, <1>4 DEF Take, TypeOK
<1>5. ASSUME NEW t \in Txns,
             \/ RefuseOrLose(t) \/ AnswerDuplicate(t) \/ AnswerUnavailable(t)
             \/ HandleTransaction(t) \/ HandleThrows(t)
      PROVE  SentInTurn'
  <2>1. /\ Take(t)
        /\ answers' \subseteq answers \cup {t}
        /\ processedTransactionIds' \subseteq processedTransactionIds \cup {t}
    BY <1>5 DEF RefuseOrLose, AnswerDuplicate, AnswerUnavailable,
                HandleTransaction, HandleThrows, Answer200, memory
  <2> QED
    BY <1>4, <2>1
<1>6. CASE CrashAndRestart
  BY <1>6 DEF CrashAndRestart, network
<1> QED
  BY <1>2, <1>3, <1>5, <1>6 DEF Next

\* While the gateway stays up, a transaction that is not yet remembered is
\* the next one, and handling it remembers its events up to the throw.
LEMMA NextIsHandled ==
  ASSUME IInv, crashes = 0, NEW t \in Txns,
         t \notin processedTransactionIds, requests[t] > 0, RunLoop(t)
  PROVE  /\ t = acknowledged + 1
         /\ processedEventIds'
              = IdsBefore(t, Len(BeforeThrow(Transactions[t])) + 1)
         /\ Ordered(queue')
<1>1. t = acknowledged + 1
  <2>1. t \in Nat /\ acknowledged \in Nat /\ t >= 1
    BY GatewayAssumption DEF Txns, IInv, TypeOK
  <2>2. t \notin 1..acknowledged /\ t <= acknowledged + 1
    BY DEF IInv, InTurn, SentInTurn
  <2> QED
    BY <2>1, <2>2
<1>2. Remembers(Before)
  BY DEF IInv, TypeOK, WorkIsQueuedOnce, Remembers, Before
<1>3. \/ processedEventIds = IdsBefore(t, 1)
      \/ processedEventIds
           = IdsBefore(t, Len(BeforeThrow(Transactions[t])) + 1)
  BY <1>1 DEF IInv, InTurn, RemembersPrefix
<1>4. Ordered(queue)
  BY DEF IInv, InTurn
<1> QED
  BY <1>1, <1>2, <1>3, <1>4, HandledInTurn DEF RunLoop

\* While the gateway stays up, what is acknowledged is remembered, a prefix is
\* remembered, and the queue stays in order.
LEMMA StepStaysInTurn ==
  ASSUME IInv, Next
  PROVE  InTurn'
<1> SUFFICES ASSUME crashes' = 0
             PROVE  /\ (1..acknowledged') \cup answers'
                           \subseteq processedTransactionIds'
                    /\ RemembersPrefix' /\ Ordered(queue')
  BY DEF InTurn, Ordered
<1>1. /\ Txns = 1..Len(Transactions) /\ Len(Transactions) \in Nat
      /\ acknowledged \in Nat /\ crashes \in Nat
  BY GatewayAssumption DEF Txns, IInv, TypeOK
<1>2. crashes = 0 /\ ~ CrashAndRestart
  BY <1>1 DEF Next, Send, LoseAnswer, ReceiveOk, RefuseOrLose, AnswerDuplicate,
              AnswerUnavailable, HandleTransaction, HandleThrows, Take,
              CrashAndRestart
<1>3. /\ (1..acknowledged) \cup answers \subseteq processedTransactionIds
      /\ RemembersPrefix /\ Ordered(queue)
  BY <1>2 DEF IInv, InTurn
<1>4. ASSUME UNCHANGED <<acknowledged, memory>>
      PROVE  RemembersPrefix' /\ Ordered(queue')
  BY <1>3, <1>4 DEF RemembersPrefix, memory
<1>5. ASSUME NEW t \in Txns,
             \/ Send(t) \/ LoseAnswer(t) \/ RefuseOrLose(t)
             \/ AnswerDuplicate(t) \/ AnswerUnavailable(t)
      PROVE  /\ UNCHANGED <<acknowledged, memory>>
             /\ answers' \subseteq answers \cup processedTransactionIds
  BY <1>5 DEF Send, LoseAnswer, RefuseOrLose, AnswerDuplicate, Answer200,
              AnswerUnavailable, Take
<1>6. ASSUME NEW t \in Txns, ReceiveOk(t)
      PROVE  /\ (1..acknowledged') \cup answers'
                    \subseteq processedTransactionIds'
             /\ RemembersPrefix' /\ Ordered(queue')
  <2>1. /\ answers' \subseteq answers
        /\ UNCHANGED <<processedTransactionIds, processedEventIds, queue>>
        /\ t \in processedTransactionIds /\ t <= acknowledged + 1
    BY <1>3, <1>6 DEF ReceiveOk, memory, IInv, SentInTurn
  <2>2. CASE acknowledged' = acknowledged
    BY <1>3, <1>4, <2>1, <2>2 DEF memory
  <2>3. CASE acknowledged' # acknowledged
    <3>1. t = acknowledged + 1 /\ acknowledged' = t
      BY <1>1, <1>6, <2>1, <2>3 DEF ReceiveOk
    <3>2. (1..acknowledged') = (1..acknowledged) \cup {t}
      BY <1>1, <3>1
    <3>3. t + 1 \notin processedTransactionIds
      <4>1. processedTransactionIds \subseteq Txns
        BY DEF IInv, TypeOK
      <4> QED
        BY <1>1, <3>1, <4>1 DEF IInv, SentInTurn
    <3>4. processedEventIds = IdsBefore(t + 1, 1)
      BY <1>3, <2>1, <3>1 DEF RemembersPrefix
    <3>5. RemembersPrefix'
      BY <2>1, <3>1, <3>3, <3>4 DEF RemembersPrefix
    <3> QED
      BY <1>3, <2>1, <3>2, <3>5
  <2> QED
    BY <2>2, <2>3
<1>7. ASSUME NEW t \in Txns, HandleTransaction(t)
      PROVE  /\ (1..acknowledged') \cup answers'
                    \subseteq processedTransactionIds'
             /\ RemembersPrefix' /\ Ordered(queue')
  <2>1. /\ t = acknowledged + 1 /\ Ordered(queue')
        /\ processedEventIds'
             = IdsBefore(t, Len(BeforeThrow(Transactions[t])) + 1)
    BY <1>2, <1>7, NextIsHandled DEF HandleTransaction, Take
  <2>2. processedEventIds' = IdsBefore(t + 1, 1)
    BY <1>7, <2>1, IdsOfTransaction DEF HandleTransaction, Throws
  <2>3. /\ acknowledged' = acknowledged /\ answers' = answers \cup {t}
        /\ processedTransactionIds' = processedTransactionIds \cup {t}
    BY <1>7 DEF HandleTransaction, Take, Answer200
  <2>4. RemembersPrefix'
    BY <2>1, <2>2, <2>3 DEF RemembersPrefix
  <2> QED
    BY <1>3, <2>1, <2>3, <2>4
<1>8. ASSUME NEW t \in Txns, HandleThrows(t)
      PROVE  /\ (1..acknowledged') \cup answers'
                    \subseteq processedTransactionIds'
             /\ RemembersPrefix' /\ Ordered(queue')
  <2>1. /\ t = acknowledged + 1 /\ Ordered(queue')
        /\ processedEventIds'
             = IdsBefore(t, Len(BeforeThrow(Transactions[t])) + 1)
    BY <1>2, <1>8, NextIsHandled DEF HandleThrows, Take
  <2>2. /\ t \notin processedTransactionIds
        /\ UNCHANGED <<acknowledged, answers, processedTransactionIds>>
    BY <1>8 DEF HandleThrows, Take
  <2>3. RemembersPrefix'
    BY <2>1, <2>2 DEF RemembersPrefix
  <2> QED
    BY <1>3, <2>1, <2>2, <2>3
<1> QED
  BY <1>2, <1>3, <1>4, <1>5, <1>6, <1>7, <1>8 DEF Next, memory

\* So every step keeps the invariant.
LEMMA GatewayStep == IInv /\ [Next]_vars => IInv'
<1> SUFFICES ASSUME IInv, [Next]_vars PROVE IInv'
  OBVIOUS
<1>1. CASE Next
  <2>1. TypeOK' /\ WorkIsQueuedOnce'
    BY <1>1, StepKeepsQueue DEF IInv
  <2>2. SentInTurn'
    BY <1>1, StepKeepsTurns DEF IInv
  <2> QED
    BY <1>1, <2>1, <2>2, StepStaysInTurn DEF IInv
<1>2. CASE UNCHANGED vars
  BY <1>2 DEF vars, network, memory, IInv, TypeOK, WorkIsQueuedOnce, SentInTurn,
              InTurn, RemembersPrefix
<1> QED
  BY <1>1, <1>2

\* And it holds for ever.
LEMMA AlwaysInTurn == Spec => []IInv
BY GatewayInit, GatewayStep, PTL DEF Spec

-----------------------------------------------------------------------------
(* Theorems.                                                               *)

\* Homeserver, network and gateway keep their types: nothing without an id is
\* ever remembered or queued.
THEOREM GatewayTypeCorrect == Spec => []TypeOK
BY AlwaysInTurn, PTL DEF IInv

\* Runtime gets every accepted event once, for any transactions and any
\* number of retries, repeated events and restarts.
THEOREM WorkIsAlwaysQueuedOnce == Spec => []WorkIsQueuedOnce
BY AlwaysInTurn, PTL DEF IInv

\* A transaction that will not be sent again was handled to its last event.
THEOREM AcknowledgedIsAlwaysComplete == Spec => []AcknowledgedIsComplete
<1>1. IInv => AcknowledgedIsComplete
  <2> SUFFICES ASSUME IInv, crashes = 0,
                      NEW t \in (1..acknowledged) \cup answers,
                      NEW i \in DOMAIN Transactions[t]
               PROVE  Transactions[t][i].id \in processedEventIds
    BY DEF AcknowledgedIsComplete
  <2>1. /\ Txns = 1..Len(Transactions) /\ Len(Transactions) \in Nat
        /\ acknowledged \in Nat /\ acknowledged <= Len(Transactions)
        /\ answers \subseteq Txns
    BY GatewayAssumption DEF Txns, IInv, TypeOK
  <2>2. t \in Txns /\ t <= acknowledged + 1
    BY <2>1 DEF IInv, SentInTurn
  <2>3. i \in 1..Len(Transactions[t]) /\ Len(Transactions[t]) \in Nat
    BY <2>2, GatewayAssumption DEF Txns
  <2>4. <<t, i>> \in Places
    BY <2>1, <2>2, <2>3, PlacesArePairs
  <2>5. t \in processedTransactionIds /\ RemembersPrefix
    BY DEF IInv, InTurn
  <2>6. CASE t = acknowledged + 1
    <3>1. Earlier(<<t, i>>, <<t + 1, 1>>)
      BY <2>1, <2>2, <2>3 DEF Earlier
    <3>2. processedEventIds = IdsBefore(t + 1, 1)
      BY <2>5, <2>6 DEF RemembersPrefix
    <3> QED
      BY <2>4, <3>1, <3>2 DEF IdsBefore, IdAt
  <2>7. CASE t < acknowledged + 1
    <3>1. PICK u, j : /\ u \in Nat /\ u > t
                      /\ processedEventIds = IdsBefore(u, j)
      BY <2>1, <2>2, <2>5, <2>7 DEF RemembersPrefix
    <3>2. Earlier(<<t, i>>, <<u, j>>)
      BY <2>1, <2>2, <3>1 DEF Earlier
    <3> QED
      BY <2>4, <3>1, <3>2 DEF IdsBefore, IdAt
  <2> QED
    BY <2>1, <2>2, <2>6, <2>7
<1> QED
  BY <1>1, AlwaysInTurn, PTL

\* While the gateway stays up, work is queued in the homeserver's order.
THEOREM WorkIsAlwaysInOrder == Spec => []WorkIsInOrder
<1>1. IInv => WorkIsInOrder
  BY DEF IInv, InTurn, Ordered, WorkIsInOrder
<1> QED
  BY <1>1, AlwaysInTurn, PTL
=============================================================================
