------------------------ MODULE L2BlockHandlerProofs ------------------------
(***************************************************************************)
(* Proofs about L2BlockHandler, for any processers and any length of the   *)
(* chain.                                                                  *)
(***************************************************************************)
EXTENDS L2BlockHandler, TLAPS

\* What fetchBlocks knows about its locals while blocks are handled.
LoopInv ==
  /\ current <= head
  /\ pc = "fetch" => i >= 1
  /\ pc = "handle" => 1 <= i /\ i < current

\* The inductive invariant of the loop.
BelowInv == TypeOK /\ LoopInv /\ BelowHead

\* Nothing has been handled yet.
LEMMA BelowInit == Init => BelowInv
  BY HandlerAssumption DEF Init, BelowInv, TypeOK, LoopInv, BelowHead

\* L2 grows: what was below the head stays below it.
LEMMA BelowNewBlock ==
  ASSUME BelowInv, NewBlock
  PROVE  BelowInv'
  <1> USE HandlerAssumption DEF BelowInv, NewBlock
  <1>1. TypeOK' /\ LoopInv'
    BY DEF TypeOK, LoopInv
  <1>2. BelowHead'
    <2> SUFFICES ASSUME NEW p \in Processers, NEW k \in DOMAIN seen[p]
                 PROVE  seen[p][k] < head + 1
      BY DEF BelowHead
    <2>1. seen[p] \in Seq(1..MaxHeight) /\ seen[p][k] \in 1..MaxHeight
      BY DEF TypeOK
    <2>2. seen[p][k] < head
      BY DEF BelowHead
    <2> QED
      BY <2>1, <2>2 DEF TypeOK
  <1> QED
    BY <1>1, <1>2

\* handleBlock calls a processer with block i of the loop of fetchBlocks.
LEMMA BelowOnBlock ==
  ASSUME BelowInv, NEW q \in Processers, OnBlock(q)
  PROVE  BelowInv'
  <1> USE HandlerAssumption DEF BelowInv, OnBlock
  <1>1. i \in 1..MaxHeight /\ i < head
    BY DEF TypeOK, LoopInv
  <1>2. TypeOK'
    <2>1. Append(seen[q], i) \in Seq(1..MaxHeight)
      <3>1. seen[q] \in Seq(1..MaxHeight)
        BY DEF TypeOK
      <3> QED
        BY <3>1, <1>1
    <2>2. seen' \in [Processers -> Seq(1..MaxHeight)]
      BY <2>1 DEF TypeOK
    <2> QED
      BY <2>2 DEF TypeOK
  <1>3. LoopInv'
    BY DEF LoopInv
  <1>4. BelowHead'
    <2> SUFFICES ASSUME NEW p \in Processers, NEW k \in DOMAIN seen'[p]
                 PROVE  seen'[p][k] < head
      BY DEF BelowHead
    <2>1. CASE p = q
      <3>1. seen'[p] = Append(seen[p], i) /\ seen[p] \in Seq(1..MaxHeight)
        BY <2>1 DEF TypeOK
      <3>2. CASE k = Len(seen[p]) + 1
        BY <3>1, <3>2, <1>1
      <3>3. CASE k \in DOMAIN seen[p]
        BY <3>1, <3>3 DEF BelowHead
      <3> QED
        BY <3>1, <3>2, <3>3
    <2>2. CASE p # q
      BY <2>2 DEF TypeOK, BelowHead
    <2> QED
      BY <2>1, <2>2
  <1> QED
    BY <1>2, <1>3, <1>4

\* AddProcesser: the processer of that name has been called with nothing yet.
LEMMA BelowAdd ==
  ASSUME BelowInv, NEW q \in Processers, AddProcesser(q)
  PROVE  BelowInv'
  <1> USE HandlerAssumption DEF BelowInv, AddProcesser
  <1>1. TypeOK' /\ LoopInv'
    <2>1. seen' \in [Processers -> Seq(1..MaxHeight)]
      BY DEF TypeOK
    <2> QED
      BY <2>1 DEF TypeOK, LoopInv
  <1>2. BelowHead'
    <2> SUFFICES ASSUME NEW p \in Processers, NEW k \in DOMAIN seen'[p]
                 PROVE  seen'[p][k] < head
      BY DEF BelowHead
    <2>1. CASE p = q
      BY <2>1 DEF TypeOK
    <2>2. CASE p # q
      BY <2>2 DEF TypeOK, BelowHead
    <2> QED
      BY <2>1, <2>2
  <1> QED
    BY <1>1, <1>2

\* The control of the goroutine: no processer is called.
LEMMA BelowControl ==
  ASSUME BelowInv,
         \/ Tick \/ EndLoop \/ Fetch \/ FetchFails \/ Handled \/ Stop
  PROVE  BelowInv'
  <1> USE HandlerAssumption DEF BelowInv, TypeOK, LoopInv
  <1>1. UNCHANGED <<head, seen>>
    BY DEF Tick, EndLoop, Fetch, FetchFails, Handled, Stop
  <1>2. BelowHead'
    BY <1>1 DEF BelowHead
  <1>3. TypeOK' /\ LoopInv'
    <2>1. CASE Tick
      BY <2>1 DEF Tick
    <2>2. CASE EndLoop
      BY <2>2 DEF EndLoop
    <2>3. CASE Fetch
      BY <2>3 DEF Fetch
    <2>4. CASE FetchFails
      BY <2>4 DEF FetchFails
    <2>5. CASE Handled
      BY <2>5 DEF Handled
    <2>6. CASE Stop
      BY <2>6 DEF Stop
    <2> QED
      BY <2>1, <2>2, <2>3, <2>4, <2>5, <2>6
  <1> QED
    BY <1>2, <1>3

\* Every step, and every stutter, keeps the loop below the head.
LEMMA BelowNext == BelowInv /\ [Next]_vars => BelowInv'
  <1> SUFFICES ASSUME BelowInv, [Next]_vars
               PROVE  BelowInv'
    OBVIOUS
  <1>1. CASE UNCHANGED vars
    BY <1>1 DEF vars, BelowInv, TypeOK, LoopInv, BelowHead
  <1> QED
    BY <1>1, BelowNewBlock, BelowAdd, BelowOnBlock, BelowControl DEF Next, Goroutine

\* The loop of fetchBlocks stays below the head it has read.
THEOREM BelowInvariant == Spec => []BelowInv
  <1>1. QED
    BY BelowInit, BelowNext, PTL DEF Spec

\* The variables of the handler and its goroutine keep their types.
THEOREM HandlerTypeCorrect == Spec => []TypeOK
  <1>1. BelowInv => TypeOK
    BY DEF BelowInv
  <1> QED
    BY <1>1, BelowInvariant, PTL

\* handleBlock never hands out the newest block of L2, whatever ticks fail and
\* whenever processers are added.
THEOREM BelowHeadThm == Spec => []BelowHead
  <1>1. BelowInv => BelowHead
    BY DEF BelowInv
  <1> QED
    BY <1>1, BelowInvariant, PTL
-----------------------------------------------------------------------------
\* The block at hand is the one after the last one handled.
GapInv == pc \in {"fetch", "handle"} => i = latestBlockNumber + 1

\* Nobody is called before it is registered.
JoinInv ==
  /\ \A p \in processers : joined[p] <= latestBlockNumber
  /\ \A p \in Processers \ processers : seen[p] = <<>>

\* The inductive invariant of what is delivered.
DeliveryInv == GapInv /\ JoinInv /\ DeliveredOnce

\* Nothing has been delivered yet.
LEMMA DeliveryInit == Init => DeliveryInv
  BY DEF Init, DeliveryInv, GapInv, JoinInv, DeliveredOnce

\* A step that calls nobody and registers nobody, and leaves to every processer
\* the block it was called with last.
LEMMA SameDelivered ==
  ASSUME DeliveryInv, UNCHANGED <<processers, seen, joined>>,
         \A p \in processers : UpTo(p)' = UpTo(p)
  PROVE  DeliveredOnce'
  BY DEF DeliveryInv, DeliveredOnce

\* AddProcesser: the new processer starts after the last block handled.
LEMMA DeliveryAdd ==
  ASSUME BelowInv, DeliveryInv, NEW q \in Processers, AddProcesser(q)
  PROVE  DeliveryInv'
  <1>1. GapInv'
    BY DEF DeliveryInv, GapInv, AddProcesser
  <1>2. /\ joined' = [joined EXCEPT ![q] = latestBlockNumber] /\ joined \in [Processers -> Nat]
        /\ seen' = [seen EXCEPT ![q] = <<>>] /\ seen \in [Processers -> Seq(1..MaxHeight)]
        /\ processers' = processers \cup {q} /\ processers \subseteq Processers
        /\ latestBlockNumber' = latestBlockNumber /\ latestBlockNumber \in Nat
    BY DEF AddProcesser, BelowInv, TypeOK
  <1>3. JoinInv'
    BY <1>2 DEF DeliveryInv, JoinInv
  <1>4. DeliveredOnce'
    <2> SUFFICES ASSUME NEW p \in processers'
                 PROVE  /\ \A j, k \in DOMAIN seen'[p] : j < k => seen'[p][j] < seen'[p][k]
                        /\ \A n \in 1..MaxHeight :
                             (\E k \in DOMAIN seen'[p] : seen'[p][k] = n)
                               <=> joined'[p] < n /\ n <= UpTo(p)'
      BY DEF DeliveredOnce
    <2>1. UpTo(p)' = latestBlockNumber /\ UpTo(p) = latestBlockNumber
      BY DEF UpTo, AddProcesser
    <2>2. CASE p = q
      <3>1. seen'[p] = <<>> /\ joined'[p] = latestBlockNumber
        BY <1>2, <2>2
      <3> QED
        BY <1>2, <2>1, <3>1, HandlerAssumption DEF HandlerAssumption
    <2>3. CASE p # q
      <3>1. p \in processers /\ joined'[p] = joined[p] /\ seen'[p] = seen[p]
        BY <1>2, <2>3
      <3> QED
        BY <2>1, <3>1 DEF DeliveryInv, DeliveredOnce
    <2> QED
      BY <2>2, <2>3
  <1> QED
    BY <1>1, <1>3, <1>4 DEF DeliveryInv

\* A sequence is a function on its positions.
LEMMA SeqFacts ==
  ASSUME NEW S, NEW s \in Seq(S)
  PROVE  /\ DOMAIN s = 1..Len(s) /\ Len(s) \in Nat
         /\ \A k \in DOMAIN s : s[k] \in S
  OBVIOUS

\* handleBlock calls a processer with the next block after all the ones it
\* has had.
LEMMA DeliveryOnBlock ==
  ASSUME BelowInv, DeliveryInv, NEW q \in Processers, OnBlock(q)
  PROVE  DeliveryInv'
  <1>1. GapInv'
    BY DEF DeliveryInv, GapInv, OnBlock
  <1>2. /\ seen \in [Processers -> Seq(1..MaxHeight)]
        /\ q \in processers /\ i \in 1..MaxHeight /\ latestBlockNumber \in Nat
        /\ joined \in [Processers -> Nat] /\ processers \subseteq Processers
    BY HandlerAssumption DEF HandlerAssumption, BelowInv, TypeOK, LoopInv, OnBlock
  <1>3. JoinInv'
    <2> SUFFICES ASSUME NEW p \in Processers \ processers
                 PROVE  seen'[p] = <<>>
      BY DEF DeliveryInv, JoinInv, OnBlock
    <2> QED
      BY <1>2 DEF DeliveryInv, JoinInv, OnBlock
  <1>4. DeliveredOnce'
    <2> SUFFICES ASSUME NEW p \in processers
                 PROVE  /\ \A j, k \in DOMAIN seen'[p] : j < k => seen'[p][j] < seen'[p][k]
                        /\ \A n \in 1..MaxHeight :
                             (\E k \in DOMAIN seen'[p] : seen'[p][k] = n)
                               <=> joined[p] < n /\ n <= UpTo(p)'
      BY DEF DeliveredOnce, OnBlock
    <2>1. CASE p # q
      <3>1. seen'[p] = seen[p] /\ UpTo(p)' = UpTo(p)
        BY <1>2, <2>1 DEF OnBlock, UpTo
      <3> QED
        BY <3>1 DEF DeliveryInv, DeliveredOnce
    <2>2. CASE p = q
      <3>1. /\ UpTo(p) = latestBlockNumber /\ UpTo(p)' = i
            /\ i = latestBlockNumber + 1 /\ joined[p] <= latestBlockNumber
        <4>1. /\ pc = "handle" /\ q \in todo /\ todo' = todo \ {q}
              /\ UNCHANGED <<pc, i, latestBlockNumber>>
          BY DEF OnBlock
        <4>2. UpTo(p) = latestBlockNumber /\ UpTo(p)' = i
          BY <2>2, <4>1 DEF UpTo
        <4>3. i = latestBlockNumber + 1 /\ joined[p] <= latestBlockNumber
          BY <4>1 DEF DeliveryInv, GapInv, JoinInv
        <4> QED
          BY <4>2, <4>3
      <3>2. /\ seen[p] \in Seq(1..MaxHeight) /\ seen'[p] = Append(seen[p], i)
        BY <1>2, <2>2 DEF OnBlock
      <3>3. /\ DOMAIN seen[p] = 1..Len(seen[p]) /\ Len(seen[p]) \in Nat
            /\ DOMAIN seen'[p] = 1..(Len(seen[p]) + 1)
            /\ \A k \in DOMAIN seen[p] : seen'[p][k] = seen[p][k] /\ seen[p][k] \in 1..MaxHeight
            /\ seen'[p][Len(seen[p]) + 1] = i
        <4> DEFINE s == seen[p]
        <4>1. s \in Seq(1..MaxHeight) /\ Append(s, i) \in Seq(1..MaxHeight)
          BY <1>2, <3>2
        <4> HIDE DEF s
        <4>2. /\ DOMAIN s = 1..Len(s) /\ Len(s) \in Nat
              /\ \A k \in DOMAIN s : s[k] \in 1..MaxHeight
          BY <4>1, SeqFacts, Zenon
        <4>3. /\ DOMAIN Append(s, i) = 1..(Len(s) + 1)
              /\ \A k \in 1..Len(s) : Append(s, i)[k] = s[k]
              /\ Append(s, i)[Len(s) + 1] = i
          BY <1>2, <4>1
        <4>4. seen'[p] = Append(s, i)
          BY <3>2 DEF s
        <4> QED
          BY <4>2, <4>3, <4>4 DEF s
      <3>4. /\ \A j, k \in DOMAIN seen[p] : j < k => seen[p][j] < seen[p][k]
            /\ \A n \in 1..MaxHeight :
                 (\E k \in DOMAIN seen[p] : seen[p][k] = n)
                   <=> joined[p] < n /\ n <= latestBlockNumber
        BY <3>1 DEF DeliveryInv, DeliveredOnce
      <3>5. \A k \in DOMAIN seen[p] : seen[p][k] <= latestBlockNumber
        BY <3>3, <3>4
      <3>6. \A j, k \in DOMAIN seen'[p] : j < k => seen'[p][j] < seen'[p][k]
        <4> SUFFICES ASSUME NEW j \in DOMAIN seen'[p], NEW k \in DOMAIN seen'[p], j < k
                     PROVE  seen'[p][j] < seen'[p][k]
          OBVIOUS
        <4>1. j \in DOMAIN seen[p] /\ (k \in DOMAIN seen[p] \/ k = Len(seen[p]) + 1)
          BY <3>3
        <4>2. CASE k \in DOMAIN seen[p]
          BY <3>3, <3>4, <4>1, <4>2
        <4>3. CASE k = Len(seen[p]) + 1
          BY <1>2, <3>1, <3>3, <3>5, <4>1, <4>3
        <4> QED
          BY <4>1, <4>2, <4>3
      <3>7. ASSUME NEW n \in 1..MaxHeight
            PROVE  (\E k \in DOMAIN seen'[p] : seen'[p][k] = n)
                     <=> joined[p] < n /\ n <= i
        <4>1. (\E k \in DOMAIN seen'[p] : seen'[p][k] = n)
                <=> (\E k \in DOMAIN seen[p] : seen[p][k] = n) \/ n = i
          <5>1. DOMAIN seen'[p] = DOMAIN seen[p] \cup {Len(seen[p]) + 1}
            BY <3>3
          <5> QED
            BY <3>3, <5>1
        <4>2. joined[p] \in Nat
          BY <1>2
        <4> QED
          BY <1>2, <3>1, <3>4, <4>1, <4>2
      <3> QED
        BY <3>1, <3>6, <3>7
    <2> QED
      BY <2>1, <2>2
  <1> QED
    BY <1>1, <1>3, <1>4 DEF DeliveryInv

\* The control of the goroutine: a block counts as handled when everybody has
\* been called.
LEMMA DeliveryControl ==
  ASSUME BelowInv, DeliveryInv,
         \/ NewBlock \/ Tick \/ EndLoop \/ Fetch \/ FetchFails \/ Handled \/ Stop
  PROVE  DeliveryInv'
  <1>1. /\ UNCHANGED <<processers, seen, joined>>
        /\ latestBlockNumber \in Nat /\ i \in Nat /\ todo \subseteq processers
        /\ joined \in [Processers -> Nat] /\ processers \subseteq Processers
    BY DEF NewBlock, Tick, EndLoop, Fetch, FetchFails, Handled, Stop, BelowInv, TypeOK
  <1>2. GapInv'
    <2>1. CASE NewBlock \/ EndLoop \/ FetchFails \/ Stop
      BY <2>1 DEF DeliveryInv, GapInv, NewBlock, EndLoop, FetchFails, Stop
    <2>2. CASE Tick
      BY <1>1, <2>2 DEF DeliveryInv, GapInv, Tick
    <2>3. CASE Fetch
      BY <2>3 DEF DeliveryInv, GapInv, Fetch
    <2>4. CASE Handled
      BY <1>1, <2>4 DEF DeliveryInv, GapInv, Handled
    <2> QED
      BY <2>1, <2>2, <2>3, <2>4
  <1>3. latestBlockNumber' >= latestBlockNumber
    BY <1>1
    DEF NewBlock, Tick, EndLoop, Fetch, FetchFails, Handled, Stop, DeliveryInv, GapInv
  <1>4. latestBlockNumber' \in Nat
    BY <1>1 DEF NewBlock, Tick, EndLoop, Fetch, FetchFails, Handled, Stop
  <1>5. JoinInv'
    BY <1>1, <1>3, <1>4 DEF DeliveryInv, JoinInv
  <1>6. \A p \in processers : UpTo(p)' = UpTo(p)
    <2>1. CASE NewBlock \/ Tick \/ EndLoop \/ FetchFails \/ Stop
      BY <2>1 DEF UpTo, NewBlock, Tick, EndLoop, FetchFails, Stop
    <2>2. CASE Fetch
      BY <2>2 DEF UpTo, Fetch
    <2>3. CASE Handled
      BY <2>3 DEF UpTo, Handled
    <2> QED
      BY <2>1, <2>2, <2>3
  <1> QED
    BY <1>1, <1>2, <1>5, <1>6, SameDelivered DEF DeliveryInv

\* Every step, and every stutter.
LEMMA DeliveryNext == BelowInv /\ DeliveryInv /\ [Next]_vars => DeliveryInv'
  <1> SUFFICES ASSUME BelowInv, DeliveryInv, [Next]_vars
               PROVE  DeliveryInv'
    OBVIOUS
  <1>1. CASE UNCHANGED vars
    <2>1. /\ UNCHANGED <<processers, seen, joined>>
          /\ UNCHANGED <<latestBlockNumber, pc, i, todo>>
      BY <1>1 DEF vars
    <2> QED
      BY <2>1 DEF DeliveryInv, GapInv, JoinInv, DeliveredOnce, UpTo
  <1> QED
    BY <1>1, DeliveryAdd, DeliveryOnBlock, DeliveryControl DEF Next, Goroutine

\* Every processer is called with all blocks since it was registered, once each
\* and in order: ticks that fail, and processers that come late or replace
\* others, lose none and repeat none.
THEOREM DeliveredOnceThm == Spec => []DeliveredOnce
  <1>1. Spec => []DeliveryInv
    BY BelowInvariant, DeliveryInit, DeliveryNext, PTL DEF Spec
  <1>2. DeliveryInv => DeliveredOnce
    BY DEF DeliveryInv
  <1> QED
    BY <1>1, <1>2, PTL
=============================================================================
