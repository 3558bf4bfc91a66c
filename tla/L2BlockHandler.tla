--------------------------- MODULE L2BlockHandler ---------------------------
(***************************************************************************)
(* The block handler of the operator: a goroutine that on every tick reads *)
(* the head of L2 and hands the blocks below it, one by one, to the        *)
(* registered processers, while other goroutines may register more.  No    *)
(* code sets blockInterval, so every block is handled.                     *)
(***************************************************************************)
EXTENDS Integers, Sequences

CONSTANTS
  Processers,     \* names a processer may be registered under
  MaxHeight,      \* bound: the L2 chain stops growing at this block
  FirstLatest     \* WithLatestBlock: what counts as processed at the start

ASSUME HandlerAssumption ==
  MaxHeight \in Nat /\ FirstLatest \subseteq Nat

VARIABLES
  head,               \* newest L2 block
  latestBlockNumber,  \* newest block handled
  processers,         \* the registered ones, under processersMutex
  pc,                 \* the goroutine
  current,            \* BlockNumber's answer in fetchBlocks
  i,                  \* the loop variable of fetchBlocks
  todo,               \* processers still to be called for block i
  seen,               \* history: the blocks each processer was called with
  joined              \* history: latestBlockNumber when it was registered

vars == <<head, latestBlockNumber, processers, pc, current, i,
          todo, seen, joined>>

TypeOK ==
  /\ head \in 0..MaxHeight
  /\ latestBlockNumber \in Nat
  /\ processers \subseteq Processers
  /\ pc \in {"wait", "fetch", "handle", "stopped"}
  /\ current \in 0..MaxHeight /\ i \in Nat
  /\ todo \subseteq processers
  /\ seen \in [Processers -> Seq(1..MaxHeight)]
  /\ joined \in [Processers -> Nat]

Init ==
  /\ head \in 0..MaxHeight
  /\ latestBlockNumber \in FirstLatest
  /\ processers = {}
  /\ pc = "wait"
  /\ current = 0 /\ i = 0 /\ todo = {}
  /\ seen = [p \in Processers |-> <<>>]
  /\ joined = [p \in Processers |-> 0]
-----------------------------------------------------------------------------
NewBlock ==
  /\ head < MaxHeight
  /\ head' = head + 1
  /\ UNCHANGED <<latestBlockNumber, processers, pc, current, i, todo, seen, joined>>

\* Takes the write lock, so it waits while handleBlock holds the read lock.  A
\* processer registered under a name in use replaces the one there.
AddProcesser(p) ==
  /\ pc # "handle"
  /\ processers' = processers \cup {p}
  /\ seen' = [seen EXCEPT ![p] = <<>>]
  /\ joined' = [joined EXCEPT ![p] = latestBlockNumber]
  /\ UNCHANGED <<head, latestBlockNumber, pc, current, i, todo>>

\* Mutant: the tick starts at the block handled last.
TickFromLatest ==
  /\ pc = "wait"
  /\ head > latestBlockNumber
  /\ current' = head
  /\ i' = latestBlockNumber
  /\ pc' = "fetch"
  /\ UNCHANGED <<head, latestBlockNumber, processers, todo, seen, joined>>

\* fetchBlocks up to its loop.  A failed BlockNumber ends the tick.
Tick ==
  /\ pc = "wait"
  /\ head > latestBlockNumber
  /\ current' = head
  /\ i' = latestBlockNumber + 1
  /\ pc' = "fetch"
  /\ UNCHANGED <<head, latestBlockNumber, processers, todo, seen, joined>>

\* The loop of fetchBlocks ends at the head.
EndLoop ==
  /\ pc = "fetch"
  /\ i >= current
  /\ pc' = "wait" /\ current' = 0 /\ i' = 0
  /\ UNCHANGED <<head, latestBlockNumber, processers, todo, seen, joined>>

\* Mutant: the loop includes the newest block.
FetchHead ==
  /\ pc = "fetch"
  /\ i <= current
  /\ pc' = "handle"
  /\ todo' = processers
  /\ UNCHANGED <<head, latestBlockNumber, processers, current, i, seen, joined>>

\* fetchBlock and the start of handleBlock: the read lock is taken.
Fetch ==
  /\ pc = "fetch"
  /\ i < current
  /\ pc' = "handle"
  /\ todo' = processers
  /\ UNCHANGED <<head, latestBlockNumber, processers, current, i, seen, joined>>

\* Mutant: the failed block counts as handled.
FetchFailsSkips ==
  /\ pc = "fetch"
  /\ i < current
  /\ latestBlockNumber' = i
  /\ pc' = "wait" /\ current' = 0 /\ i' = 0
  /\ UNCHANGED <<head, processers, todo, seen, joined>>

\* BlockByNumber fails: the tick ends, the next one starts after the last
\* block handled.
FetchFails ==
  /\ pc = "fetch"
  /\ i < current
  /\ pc' = "wait" /\ current' = 0 /\ i' = 0
  /\ UNCHANGED <<head, latestBlockNumber, processers, todo, seen, joined>>

\* The processers are called in map order, that is in any order.  An error is
\* logged and dropped.
OnBlock(p) ==
  /\ pc = "handle"
  /\ p \in todo
  /\ todo' = todo \ {p}
  /\ seen' = [seen EXCEPT ![p] = Append(@, i)]
  /\ UNCHANGED <<head, latestBlockNumber, processers, pc, current, i, joined>>

\* Mutant: setProcessedBlock is forgotten.
HandledUnrecorded ==
  /\ pc = "handle"
  /\ todo = {}
  /\ i' = i + 1
  /\ pc' = "fetch"
  /\ UNCHANGED <<head, latestBlockNumber, processers, current, todo, seen, joined>>

\* handleBlock unlocks, setProcessedBlock, and the loop goes on.
Handled ==
  /\ pc = "handle"
  /\ todo = {}
  /\ latestBlockNumber' = i
  /\ i' = i + 1
  /\ pc' = "fetch"
  /\ UNCHANGED <<head, processers, current, todo, seen, joined>>

\* ctx is done: noticed between two ticks.
Stop ==
  /\ pc = "wait"
  /\ pc' = "stopped"
  /\ UNCHANGED <<head, latestBlockNumber, processers, current, i, todo, seen, joined>>

Goroutine == Tick \/ EndLoop \/ Fetch \/ Handled \/ \E p \in Processers : OnBlock(p)

Next ==
  \/ NewBlock
  \/ \E p \in Processers : AddProcesser(p)
  \/ Goroutine
  \/ FetchFails
  \/ Stop

Spec == Init /\ [][Next]_vars

\* The ticker keeps ticking, OnBlock returns, and L2 does not refuse every
\* block it is asked for.
FairSpec == Spec /\ WF_vars(Goroutine) /\ SF_vars(Fetch)
-----------------------------------------------------------------------------
(***************************************************************************)
(* Properties.                                                             *)
(***************************************************************************)
\* The newest block that p has been called with.
UpTo(p) == IF pc = "handle" /\ p \notin todo THEN i ELSE latestBlockNumber

\* A processer is called with every block since it was registered, in
\* order and once, whatever ticks fail and whenever it was registered.
DeliveredOnce ==
  \A p \in processers :
    /\ \A j, k \in DOMAIN seen[p] : j < k => seen[p][j] < seen[p][k]
    /\ \A n \in 1..MaxHeight :
         (\E k \in DOMAIN seen[p] : seen[p][k] = n)
           <=> joined[p] < n /\ n <= UpTo(p)

\* The newest block is never handed out: it may still be replaced.
BelowHead ==
  \A p \in Processers : \A k \in DOMAIN seen[p] : seen[p][k] < head

\* Every block below the head is handled, unless the handler stops.
CatchesUp ==
  \A n \in 1..MaxHeight :
    head > n ~> latestBlockNumber >= n \/ pc = "stopped"
=============================================================================
