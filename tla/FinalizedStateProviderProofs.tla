-------------------- MODULE FinalizedStateProviderProofs --------------------
(***************************************************************************)
(* Proofs about FinalizedStateProvider, with any number of requests over   *)
(* the shared caches.                                                      *)
(*                                                                         *)
(* Whatever the network does, the service keeps its types, its checks are  *)
(* those of BlockFinality, and every request has a bounded number of steps *)
(* left.  In a settled network it also behaves like FinalizedSearch, where *)
(* a probe is answered in one step: L2 is not reorganised, every provider  *)
(* is registered from the start, and, where providers vote in order, a     *)
(* quorum for a block is also one for the blocks below.                    *)
(***************************************************************************)
EXTENDS FinalizedStateProvider, BlockFinalityProofs, TLAPS

SP == INSTANCE FinalizedSearchProofs WITH
        head <- Len(chain), final <- finalBlocks

\* The powers on Babylon may change from one BTC block to the next as long as
\* the providers that finalize block h could also finalize block g.
QuorumFor(h, A) == QuorumReached(PowerOf(Power[BtcHeightOf[<<h, 0>>]], Fps), A)

QuorumBelow(g, h) == \A A \in SUBSET Fps : QuorumFor(h, A) => QuorumFor(g, A)

Settled ==
  /\ MaxReorgs = 0
  /\ InitialFps = Fps
  /\ VotesInOrder => \A h \in Heights : \A g \in 1..(h-1) : QuorumBelow(g, h)
-----------------------------------------------------------------------------
(***************************************************************************)
(* The finalized blocks, as a function of the votes.                       *)
(***************************************************************************)
\* The blocks of a chain of n blocks that the votes V finalize.
FinalUpTo(n, V) == {h \in 1..n : FinalIn({Fps}, V, <<h, 0>>)}

Nested(V) == \A h \in Heights : \A g \in 1..(h-1) : V[<<h, 0>>] \subseteq V[<<g, 0>>]

\* The finalized blocks of the state are those its votes finalize.
LEMMA FinalBlocksDef ==
  ASSUME Settled, BlockInv, OneList
  PROVE  /\ finalBlocks = FinalUpTo(Len(chain), votes)
         /\ Len(chain) \in Heights /\ DOMAIN chain = 1..Len(chain)
         /\ \A h \in DOMAIN chain : chain[h] = 0
  <1>1. /\ chain \in Seq({0}) /\ Len(chain) \in Heights /\ registered = Fps
    BY DEF BlockInv, TypeOK, Settled, Versions, OneList
  <1>2. DOMAIN chain = 1..Len(chain) /\ \A h \in DOMAIN chain : chain[h] = 0
    BY <1>1
  <1>3. \A b : FinalAmong(registered, b) <=> FinalIn({Fps}, votes, b)
    BY <1>1 DEF FinalAmong, FinalIn
  <1>4. \A h \in DOMAIN chain : <<h, chain[h]>> = <<h, 0>>
    BY <1>2
  <1>5. \A h : h \in finalBlocks <=>
              h \in 1..Len(chain) /\ FinalIn({Fps}, votes, <<h, 0>>)
    BY <1>2, <1>3, <1>4 DEF finalBlocks
  <1> QED
    BY <1>1, <1>2, <1>5 DEF FinalUpTo

\* The same in the next state.
LEMMA FinalBlocksNext ==
  ASSUME Settled, BlockInv', OneList'
  PROVE  /\ finalBlocks' = FinalUpTo(Len(chain'), votes')
         /\ Len(chain') \in Heights /\ DOMAIN chain' = 1..Len(chain')
         /\ \A h \in DOMAIN chain' : chain'[h] = 0
  <1>1. /\ chain' \in Seq({0}) /\ Len(chain') \in Heights /\ registered' = Fps
    BY DEF BlockInv, TypeOK, Settled, Versions, OneList
  <1>2. DOMAIN chain' = 1..Len(chain') /\ \A h \in DOMAIN chain' : chain'[h] = 0
    BY <1>1
  <1>3. \A b : FinalAmong(registered, b)' <=> FinalIn({Fps}, votes', b)
    BY <1>1 DEF FinalAmong, FinalIn
  <1>4. \A h \in DOMAIN chain' : <<h, chain'[h]>> = <<h, 0>>
    BY <1>2
  <1>5. \A h : h \in finalBlocks' <=>
              h \in 1..Len(chain') /\ FinalIn({Fps}, votes', <<h, 0>>)
    BY <1>2, <1>3, <1>4 DEF finalBlocks
  <1> QED
    BY <1>1, <1>2, <1>5 DEF FinalUpTo

\* A vote more leaves a final block final, and the blocks below it have their
\* quorum as well.
LEMMA FinalGrows ==
  ASSUME NEW V, NEW W, NEW g \in Heights, NEW h \in Heights, g = h \/ QuorumBelow(g, h),
         V[<<h, 0>>] \subseteq W[<<g, 0>>], W[<<g, 0>>] \subseteq Fps,
         FinalIn({Fps}, V, <<h, 0>>)
  PROVE  FinalIn({Fps}, W, <<g, 0>>)
  <1> DEFINE p == PowerOf(Power[BtcHeightOf[<<h, 0>>]], Fps)
  <1>1. QuorumReached(p, V[<<h, 0>>])
    BY DEF FinalIn
  <1> HIDE DEF p
  <1>2. QuorumReached(p, W[<<g, 0>>])
    BY <1>1, QuorumMonotone
  <1>3. QuorumFor(h, W[<<g, 0>>])
    BY <1>2 DEF p, QuorumFor
  <1>4. QuorumFor(g, W[<<g, 0>>])
    BY <1>3 DEF QuorumBelow
  <1> QED
    BY <1>4 DEF FinalIn, QuorumFor

\* Nested votes finalize the chain from its first block upwards.
LEMMA NestedOrdered ==
  ASSUME Settled, VotesInOrder, NEW n \in Heights,
         NEW V \in [Blocks -> SUBSET Fps], Nested(V)
  PROVE  S!Ordered(FinalUpTo(n, V))
  <1> SUFFICES ASSUME NEW h \in FinalUpTo(n, V), NEW g \in 1..h
               PROVE  g \in FinalUpTo(n, V)
    BY DEF S!Ordered
  <1>1. /\ h \in 1..n /\ FinalIn({Fps}, V, <<h, 0>>)
        /\ h \in Heights /\ g \in Heights /\ g \in 1..n
    BY BlockAssumption DEF FinalUpTo, Heights
  <1>2. CASE g = h
    BY <1>2
  <1>3. CASE g # h
    <2>1. g \in 1..(h-1)
      BY <1>1, <1>3, BlockAssumption DEF Heights
    <2>2. V[<<h, 0>>] \subseteq V[<<g, 0>>]
      BY <1>1, <2>1 DEF Nested
    <2>3. QuorumBelow(g, h)
      BY <1>1, <2>1 DEF Settled
    <2>4. V[<<g, 0>>] \subseteq Fps
      <3>1. <<g, 0>> \in Blocks
        BY <1>1, BlockAssumption DEF Blocks, Versions
      <3> QED
        BY <3>1
    <2> QED
      BY <1>1, <2>2, <2>3, <2>4, FinalGrows DEF FinalUpTo
  <1> QED
    BY <1>2, <1>3

-----------------------------------------------------------------------------
(***************************************************************************)
(* The steps of a check, as the request that runs it sees them.            *)
(***************************************************************************)
\* A record with the fields of a check.
IsCheck(q) ==
  DOMAIN q = {"stage", "step", "height", "blk", "fps", "btc", "pow", "voted", "ans"}

\* The check c goes on to state p: it is still the check of its height, has
\* less to do, and what it has seen is among the heights D.
Advanced(D, c, p) ==
  /\ chk' = [chk EXCEPT ![c] = p]
  /\ chk[c].stage \notin {"idle", "done", "failed"}
  /\ p.stage # "idle"
  /\ p.stage # "failed" => p.height = chk[c].height
  /\ OnChain(D, p)
  /\ CheckLeft(p) < CheckLeft(chk[c])

\* An answered check goes on to its next stage.
LEMMA AfterStage ==
  ASSUME NEW q, IsCheck(q), q.stage \in Asking
  PROVE  /\ After(q).height = q.height
         /\ q.stage = "block" => After(q).stage = "fps" /\ After(q).step = "lookup"
         /\ q.stage = "fps" => After(q).stage = "btc" /\ After(q).step = "lookup"
         /\ q.stage = "btc" => After(q).stage = "power" /\ After(q).step = "lookup"
         /\ q.stage = "power" => /\ After(q).stage \in {"mark", "votes"}
                                 /\ After(q).step = "lookup"
         /\ q.stage = "votes" => After(q).stage \in {"mark", "done"}
  <1>1. \A e, stage : IsCheck(e) => /\ Goto(e, stage).stage = stage
                                    /\ Goto(e, stage).step = "lookup"
                                    /\ Goto(e, stage).height = e.height
    BY DEF Goto, IsCheck
  <1>2. Done(q, FALSE).stage = "done" /\ Done(q, FALSE).height = q.height
    BY DEF Done, Idle
  <1> DEFINE p == [q EXCEPT !.fps = {}, !.btc = 0]
  <1>3. IsCheck(p) /\ p.height = q.height
    BY DEF IsCheck
  <1> HIDE DEF p
  <1>4. CASE q.stage \in {"block", "fps", "btc"}
    BY <1>1, <1>4, ZenonT(40) DEF After
  <1>5. CASE q.stage = "power"
    <2>1. After(q) = Goto(p, "mark") \/ After(q) = Goto(p, "votes")
      BY <1>5 DEF After, p
    <2> QED
      BY <1>1, <1>3, <1>5, <2>1
  <1>6. CASE q.stage = "votes"
    <2>1. After(q) = Goto(q, "mark") \/ After(q) = Done(q, FALSE)
      BY <1>6 DEF After
    <2>2. CASE After(q) = Goto(q, "mark")
      BY <1>1, <1>6, <2>2
    <2>3. CASE After(q) = Done(q, FALSE)
      BY <1>2, <1>6, <2>3
    <2> QED
      BY <2>1, <2>2, <2>3
  <1> QED
    BY <1>4, <1>5, <1>6 DEF Asking

\* It keeps its height, and has less to do than at any step of its stage.
LEMMA AfterShape ==
  ASSUME NEW q, IsCheck(q), q.stage \in Asking, NEW D, q.height \in D,
         NEW e, e.stage = q.stage, e.step \in Steps
  PROVE  /\ After(q).stage \notin {"idle", "failed"} /\ After(q).height = q.height
         /\ OnChain(D, After(q))
         /\ CheckLeft(After(q)) < CheckLeft(e)
  <1> DEFINE a == After(q)
  <1>1. /\ a.height = q.height
        /\ q.stage = "block" => a.stage = "fps" /\ a.step = "lookup"
        /\ q.stage = "fps" => a.stage = "btc" /\ a.step = "lookup"
        /\ q.stage = "btc" => a.stage = "power" /\ a.step = "lookup"
        /\ q.stage = "power" => a.stage \in {"mark", "votes"} /\ a.step = "lookup"
        /\ q.stage = "votes" => a.stage \in {"mark", "done"}
    BY AfterStage
  <1> HIDE DEF a
  <1>2. a.stage \notin {"idle", "failed"} /\ OnChain(D, a)
    BY <1>1 DEF OnChain, Asking
  <1>3. CheckLeft(a) < CheckLeft(e)
    BY <1>1 DEF CheckLeft, Asking, Steps
  <1> QED
    BY <1>1, <1>2, <1>3 DEF a

\* A failed call keeps no block.
LEMMA FailedShape ==
  ASSUME NEW q, NEW D
  PROVE  Failed(q).stage = "failed" /\ OnChain(D, Failed(q)) /\ CheckLeft(Failed(q)) = 0
  <1>1. Failed(q).stage = "failed"
    BY DEF Failed, Idle
  <1> QED
    BY <1>1 DEF OnChain, SawBlock, CheckLeft

\* The steps of the read-through pattern.
LEMMA CachedAdvances ==
  ASSUME NEW D, NEW c, IsCheck(chk[c]), chk[c].stage \in Asking, chk[c].step \in Steps,
         OnChain(D, chk[c]),
         NEW known, NEW hit, NEW answered,
         known => /\ IsCheck(hit) /\ hit.stage = chk[c].stage
                  /\ hit.height = chk[c].height /\ hit.height \in D,
         \A a \in answered : /\ IsCheck(a) /\ a.stage = chk[c].stage
                             /\ a.height = chk[c].height /\ a.height \in D,
         \/ chk[c].step = "lookup" /\ known /\ Local(c, After(hit))
         \/ /\ chk[c].step = "lookup"
            /\ Local(c, [chk[c] EXCEPT !.step = "fetch"])
         \/ /\ chk[c].step = "fetch"
            /\ \E a \in answered : Local(c, [a EXCEPT !.step = "put"])
         \/ Local(c, Failed(chk[c]))
         \/ chk[c].step = "put" /\ Local(c, After(chk[c]))
  PROVE  \E p : Advanced(D, c, p)
  <1> DEFINE q == chk[c]
             f == [q EXCEPT !.step = "fetch"]
  <1>0. q.stage \notin {"idle", "done", "failed", "final", "mark"}
    BY DEF Asking
  <1>1. CASE known /\ Local(c, After(hit))
    BY <1>0, <1>1, AfterShape, ZenonT(40) DEF Advanced, Local
  <1>2. CASE q.step = "lookup" /\ Local(c, f)
    <2>1. f.stage = q.stage /\ f.height = q.height /\ f.step = "fetch"
      BY DEF IsCheck
    <2>2. OnChain(D, f)
      BY <1>0, <2>1 DEF OnChain, SawBlock
    <2> HIDE DEF f
    <2>3. CheckLeft(f) < CheckLeft(q)
      BY <1>2, <2>1 DEF CheckLeft, Asking
    <2> QED
      BY <1>0, <1>2, <2>1, <2>2, <2>3 DEF Advanced, Local
  <1>3. ASSUME q.step = "fetch", NEW a \in answered, Local(c, [a EXCEPT !.step = "put"])
        PROVE  \E p : Advanced(D, c, p)
    <2> DEFINE p == [a EXCEPT !.step = "put"]
    <2>1. /\ p.stage = q.stage /\ p.step = "put"
          /\ p.height = q.height /\ p.height \in D
      BY <1>3 DEF IsCheck
    <2> HIDE DEF p
    <2>2. CheckLeft(p) < CheckLeft(q)
      BY <1>3, <2>1 DEF CheckLeft, Asking
    <2> QED
      BY <1>0, <1>3, <2>1, <2>2 DEF Advanced, Local, OnChain, p
  <1>4. CASE Local(c, Failed(q))
    <2>1. CheckLeft(q) > 0
      BY DEF CheckLeft, Asking, Steps
    <2> QED
      BY <1>0, <1>4, <2>1, FailedShape, ZenonT(40) DEF Advanced, Local
  <1>5. CASE q.step = "put" /\ Local(c, After(q))
    <2>1. q.height \in D
      BY <1>0, <1>5 DEF OnChain, SawBlock, Asking
    <2> QED
      BY <1>0, <1>5, <2>1, AfterShape DEF Advanced, Local
  <1> QED
    BY <1>1, <1>2, <1>3, <1>4, <1>5

\* A check moves on with its own height, and caches only heights of D.
LEMMA CheckAdvances ==
  ASSUME BlockInv, NEW D, DOMAIN chain \subseteq D, ChainInv(D), NEW c \in Checks,
         CheckStep(c)
  PROVE  /\ \E p : Advanced(D, c, p)
         /\ DOMAIN finalizedCache' \subseteq D
         /\ DOMAIN l2BlockCache' \subseteq D
         /\ UNCHANGED env
  <1> DEFINE q == chk[c]
  <1>1. /\ IsCheck(q) /\ q.step \in Steps
        /\ OnChain(D, q)
        /\ DOMAIN finalizedCache \subseteq D
        /\ DOMAIN l2BlockCache \subseteq D
    BY InvTypes DEF ChainInv, Check, IsCheck, Requests
  <1>2. CASE lookupFinalized(c)
    <2>1. CASE q.height \in DOMAIN finalizedCache
      <3> DEFINE p == Done(q, TRUE)
      <3>1. p.stage = "done" /\ p.height = q.height
        BY DEF Done, Idle
      <3>2. Local(c, p)
        BY <1>2, <2>1 DEF lookupFinalized
      <3> HIDE DEF p
      <3>3. CheckLeft(p) < CheckLeft(q)
        BY <1>2, <3>1 DEF CheckLeft, lookupFinalized
      <3> QED
        BY <1>1, <1>2, <2>1, <3>1, <3>2, <3>3
        DEF Advanced, Local, OnChain, lookupFinalized, caches
    <2>2. CASE q.height \notin DOMAIN finalizedCache
      <3> DEFINE p == Goto(q, "block")
      <3>1. p.stage = "block" /\ p.step = "lookup" /\ p.height = q.height
        BY <1>1 DEF Goto, IsCheck
      <3>2. Local(c, p)
        BY <1>2, <2>2 DEF lookupFinalized
      <3> HIDE DEF p
      <3>3. CheckLeft(p) < CheckLeft(q)
        BY <1>2, <3>1 DEF CheckLeft, lookupFinalized
      <3> QED
        BY <1>1, <1>2, <3>1, <3>2, <3>3
        DEF Advanced, Local, OnChain, SawBlock, lookupFinalized, caches
    <2> QED
      BY <2>1, <2>2
  <1>3. CASE markFinalized(c)
    <2> DEFINE p == Done(q, TRUE)
    <2>1. p.stage = "done" /\ p.height = q.height
      BY DEF Done, Idle
    <2>2. Local(c, p) /\ q.stage = "mark" /\ finalizedCache' = Put(finalizedCache, q.height, TRUE)
      BY <1>3 DEF markFinalized
    <2> HIDE DEF p
    <2>5. CheckLeft(p) < CheckLeft(q)
      BY <2>1, <2>2 DEF CheckLeft
    <2>3. q.height \in D
      BY <1>1, <2>2 DEF OnChain, SawBlock
    <2>4. DOMAIN finalizedCache' \subseteq D
      <3>1. DOMAIN Put(finalizedCache, q.height, TRUE) \subseteq DOMAIN finalizedCache \cup {q.height}
        BY PutEntries
      <3> QED
        BY <1>1, <2>2, <2>3, <3>1
    <2> QED
      BY <1>1, <1>3, <2>1, <2>2, <2>3, <2>4, <2>5
      DEF Advanced, Local, OnChain, markFinalized
  <1>4. CASE blockByNumber(c)
    <2> DEFINE known == q.height \in DOMAIN l2BlockCache
               hit == [q EXCEPT !.blk = l2BlockCache[q.height]]
               answered == {[q EXCEPT !.blk = b] : b \in L2BlockAt(q.height)}
    <2>1. q.stage = "block" /\ q.stage \in Asking /\ UNCHANGED <<finalizedCache, env>>
          /\ Cached(c, l2BlockCache, q.height, hit, answered, q.blk)
      BY <1>4 DEF blockByNumber, Asking
    <2>2. known => /\ IsCheck(hit) /\ hit.stage = q.stage
                   /\ hit.height = q.height /\ hit.height \in D
      BY <1>1 DEF IsCheck
    <2>3. \A a \in answered : /\ IsCheck(a) /\ a.stage = q.stage
                              /\ a.height = q.height /\ a.height \in D
      BY <1>1 DEF IsCheck, L2BlockAt
    <2>4. /\ \/ q.step = "lookup" /\ known /\ Local(c, After(hit))
             \/ q.step = "lookup" /\ Local(c, [q EXCEPT !.step = "fetch"])
             \/ q.step = "fetch" /\ \E a \in answered : Local(c, [a EXCEPT !.step = "put"])
             \/ Local(c, Failed(q))
             \/ q.step = "put" /\ Local(c, After(q))
          /\ \/ l2BlockCache' = l2BlockCache
             \/ q.step = "put" /\ l2BlockCache' = Put(l2BlockCache, q.height, q.blk)
      BY <2>1 DEF Cached
    <2>5. DOMAIN l2BlockCache' \subseteq D
      <3>1. q.step = "put" => q.height \in D
        BY <1>1, <2>1 DEF OnChain, SawBlock
      <3> QED
        BY <1>1, <2>4, <3>1, PutEntries
    <2> HIDE DEF known, hit, answered
    <2>6. \E p : Advanced(D, c, p)
      BY <1>1, <2>1, <2>2, <2>3, <2>4, CachedAdvances
    <2> QED
      BY <1>1, <2>1, <2>5, <2>6
  <1>5. ASSUME q.stage \in {"fps", "btc", "power", "votes"},
               NEW known, NEW hit, NEW answered,
               known => IsCheck(hit) /\ hit.stage = q.stage /\ hit.height = q.height,
               \A a \in answered : IsCheck(a) /\ a.stage = q.stage /\ a.height = q.height,
               \/ q.step = "lookup" /\ known /\ Local(c, After(hit))
               \/ q.step = "lookup" /\ Local(c, [q EXCEPT !.step = "fetch"])
               \/ q.step = "fetch" /\ \E a \in answered : Local(c, [a EXCEPT !.step = "put"])
               \/ Local(c, Failed(q))
               \/ q.step = "put" /\ Local(c, After(q)),
               UNCHANGED <<finalizedCache, l2BlockCache>>, UNCHANGED env
        PROVE  /\ \E p : Advanced(D, c, p)
               /\ DOMAIN finalizedCache' \subseteq D
               /\ DOMAIN l2BlockCache' \subseteq D
               /\ UNCHANGED env
    <2>1. q.height \in D /\ q.stage \in Asking
      BY <1>1, <1>5 DEF OnChain, SawBlock, Asking
    <2>2. /\ known => hit.height \in D
          /\ \A a \in answered : a.height \in D
      BY <1>5, <2>1
    <2>3. \E p : Advanced(D, c, p)
      BY <1>1, <1>5, <2>1, <2>2, CachedAdvances
    <2> QED
      BY <1>1, <1>5, <2>3
  <1>6. CASE queryAllFpBtcPubKeys(c)
    <2> DEFINE known == allFpsCache # {} /\ allFpsFresh
               hit == [q EXCEPT !.fps = allFpsCache]
               answered == {[q EXCEPT !.fps = registered]}
    <2>1. q.stage = "fps" /\ UNCHANGED <<finalizedCache, l2BlockCache>> /\ UNCHANGED env
      BY <1>6 DEF queryAllFpBtcPubKeys, caches
    <2>2. /\ known => IsCheck(hit) /\ hit.stage = q.stage /\ hit.height = q.height
          /\ \A a \in answered : IsCheck(a) /\ a.stage = q.stage /\ a.height = q.height
      BY <1>1 DEF IsCheck
    <2>3. [q EXCEPT !.fps = registered, !.step = "put"]
            = [[q EXCEPT !.fps = registered] EXCEPT !.step = "put"]
      BY <1>1 DEF IsCheck
    <2>4. \/ q.step = "lookup" /\ known /\ Local(c, After(hit))
          \/ q.step = "lookup" /\ Local(c, [q EXCEPT !.step = "fetch"])
          \/ q.step = "fetch" /\ \E a \in answered : Local(c, [a EXCEPT !.step = "put"])
          \/ Local(c, Failed(q))
          \/ q.step = "put" /\ Local(c, After(q))
      BY <1>6, <2>3 DEF queryAllFpBtcPubKeys
    <2> HIDE DEF known, hit, answered
    <2> QED
      BY <1>5, <2>1, <2>2, <2>4
  <1>7. CASE getBlockHeightByTimestamp(c)
    <2> DEFINE known == q.blk \in DOMAIN btcblockHeightCache
               hit == [q EXCEPT !.btc = btcblockHeightCache[q.blk]]
               answered == {[q EXCEPT !.btc = BtcHeightOf[q.blk]]}
    <2>1. /\ q.stage = "btc"
          /\ UNCHANGED <<finalizedCache, l2BlockCache>> /\ UNCHANGED env
          /\ Cached(c, btcblockHeightCache, q.blk, hit, answered, q.btc)
      BY <1>7 DEF getBlockHeightByTimestamp
    <2>2. /\ known => IsCheck(hit) /\ hit.stage = q.stage /\ hit.height = q.height
          /\ \A a \in answered : IsCheck(a) /\ a.stage = q.stage /\ a.height = q.height
      BY <1>1 DEF IsCheck
    <2>3. \/ q.step = "lookup" /\ known /\ Local(c, After(hit))
          \/ q.step = "lookup" /\ Local(c, [q EXCEPT !.step = "fetch"])
          \/ q.step = "fetch" /\ \E a \in answered : Local(c, [a EXCEPT !.step = "put"])
          \/ Local(c, Failed(q))
          \/ q.step = "put" /\ Local(c, After(q))
      BY <2>1 DEF Cached
    <2> HIDE DEF known, hit, answered
    <2> QED
      BY <1>5, <2>1, <2>2, <2>3
  <1>8. CASE queryMultiFpPower(c)
    <2> DEFINE known == q.btc \in DOMAIN multiFpPowerCache
               hit == [q EXCEPT !.pow = multiFpPowerCache[q.btc]]
               answered == {[q EXCEPT !.pow = PowerOf(Power[q.btc], q.fps)]}
    <2>1. /\ q.stage = "power"
          /\ UNCHANGED <<finalizedCache, l2BlockCache>> /\ UNCHANGED env
          /\ Cached(c, multiFpPowerCache, q.btc, hit, answered, q.pow)
      BY <1>8 DEF queryMultiFpPower
    <2>2. /\ known => IsCheck(hit) /\ hit.stage = q.stage /\ hit.height = q.height
          /\ \A a \in answered : IsCheck(a) /\ a.stage = q.stage /\ a.height = q.height
      BY <1>1 DEF IsCheck
    <2>3. \/ q.step = "lookup" /\ known /\ Local(c, After(hit))
          \/ q.step = "lookup" /\ Local(c, [q EXCEPT !.step = "fetch"])
          \/ q.step = "fetch" /\ \E a \in answered : Local(c, [a EXCEPT !.step = "put"])
          \/ Local(c, Failed(q))
          \/ q.step = "put" /\ Local(c, After(q))
      BY <2>1 DEF Cached
    <2> HIDE DEF known, hit, answered
    <2> QED
      BY <1>5, <2>1, <2>2, <2>3
  <1>9. CASE queryListOfVotedFinalityProviders(c)
    <2> DEFINE known == q.blk \in DOMAIN votedFpPksCache
               hit == [q EXCEPT !.voted = votedFpPksCache[q.blk]]
               answered == {[q EXCEPT !.voted = votes[q.blk]]}
    <2>1. /\ q.stage = "votes"
          /\ UNCHANGED <<finalizedCache, l2BlockCache>> /\ UNCHANGED env
          /\ Cached(c, votedFpPksCache, q.blk, hit, answered, q.voted)
      BY <1>9 DEF queryListOfVotedFinalityProviders
    <2>2. /\ known => IsCheck(hit) /\ hit.stage = q.stage /\ hit.height = q.height
          /\ \A a \in answered : IsCheck(a) /\ a.stage = q.stage /\ a.height = q.height
      BY <1>1 DEF IsCheck
    <2>3. \/ q.step = "lookup" /\ known /\ Local(c, After(hit))
          \/ q.step = "lookup" /\ Local(c, [q EXCEPT !.step = "fetch"])
          \/ q.step = "fetch" /\ \E a \in answered : Local(c, [a EXCEPT !.step = "put"])
          \/ Local(c, Failed(q))
          \/ q.step = "put" /\ Local(c, After(q))
      BY <2>1 DEF Cached
    <2> HIDE DEF known, hit, answered
    <2> QED
      BY <1>5, <2>1, <2>2, <2>3
  <1> QED
    BY <1>2, <1>3, <1>4, <1>6, <1>7, <1>8, <1>9 DEF CheckStep

-----------------------------------------------------------------------------
(***************************************************************************)
(* The steps of the network.                                               *)
(***************************************************************************)
\* Of the network's steps a settled one has three: a new block, a vote, and
\* the expiry of the list of providers.
LEMMA NetworkStep ==
  ASSUME Settled, BlockInv, OneList, Environment
  PROVE  \/ \E h \in Heights : NewBlock(h)
         \/ \E f \in Fps, h \in DOMAIN chain : Vote(f, h)
         \/ Expire
  <1>1. \A f \in Fps : ~Register(f)
    BY DEF Register, OneList
  <1> QED
    BY <1>1 DEF Environment

\* No height is replaced: a new block is one on top of the chain.
LEMMA OnTop ==
  ASSUME Settled, BlockInv, OneList, NEW h \in Heights, NewBlock(h)
  PROVE  /\ h = Len(chain) + 1 /\ Len(chain') = Len(chain) + 1
         /\ DOMAIN chain' = 1..Len(chain')
         /\ UNCHANGED <<votes, registered, listed, service>>
  <1>1. /\ Len(chain) \in Heights /\ DOMAIN chain = 1..Len(chain)
        /\ chain \in Seq(Versions)
        /\ chain[Len(chain)] = 0 /\ MaxReorgs = 0 /\ h \in 1..MaxHeight
    BY FinalBlocksDef, BlockAssumption DEF Heights, Settled, BlockInv, TypeOK
  <1>2. /\ h \notin 1..Len(chain) /\ h <= Len(chain) + 1
        /\ chain' = Append(SubSeq(chain, 1, h - 1), 0)
        /\ UNCHANGED <<votes, registered, listed, service>>
    BY <1>1 DEF NewBlock, Reorgs
  <1>3. h = Len(chain) + 1 /\ Len(chain) \in Nat
    BY <1>1, <1>2, BlockAssumption DEF Heights
  <1>4. SubSeq(chain, 1, h - 1) \in Seq(Versions) /\ Len(SubSeq(chain, 1, h - 1)) = h - 1
    <2>1. \A i \in 1..(h - 1) : chain[i] \in Versions
      BY <1>1, <1>3
    <2> QED
      BY <1>1, <1>3, <2>1, SubSeqProperties
  <1>5. Len(chain') = h /\ DOMAIN chain' = 1..Len(chain')
    BY <1>2, <1>3, <1>4
  <1> QED
    BY <1>2, <1>3, <1>5

\* A vote in order keeps the votes nested.
LEMMA VoteNested ==
  ASSUME Settled, BlockInv, OneList, VotesNested, NEW f \in Fps, NEW h \in DOMAIN chain,
         Vote(f, h)
  PROVE  /\ votes' = [votes EXCEPT ![<<h, 0>>] = @ \cup {f}]
         /\ VotesNested'
  <1>1. /\ chain[h] = 0 /\ h \in Heights
        /\ \A g \in 1..(h-1) : g \in Heights /\ chain[g] = 0
    BY FinalBlocksDef, BlockAssumption DEF Heights
  <1>2. votes' = [votes EXCEPT ![<<h, 0>>] = @ \cup {f}]
    BY <1>1 DEF Vote
  <1>3. VotesInOrder => \A g \in 1..(h-1) : f \in votes[<<g, 0>>]
    BY <1>1 DEF Vote
  <1>4. votes \in [Blocks -> SUBSET Fps] /\ \A g \in Heights : <<g, 0>> \in Blocks
    BY DEF BlockInv, TypeOK, Blocks, Versions, Settled
  <1>5. ASSUME VotesInOrder, NEW k \in Heights, NEW g \in 1..(k-1)
        PROVE  votes'[<<k, 0>>] \subseteq votes'[<<g, 0>>]
    <2>1. g \in Heights /\ g # k
      BY <1>5, BlockAssumption DEF Heights
    <2>2. votes[<<k, 0>>] \subseteq votes[<<g, 0>>]
      BY <1>5 DEF VotesNested
    <2>3. votes[<<g, 0>>] \subseteq votes'[<<g, 0>>]
      BY <1>2, <1>4, <2>1
    <2>4. CASE k = h
      <3>1. f \in votes[<<g, 0>>]
        BY <1>3, <1>5, <2>4
      <3>2. votes'[<<k, 0>>] = votes[<<k, 0>>] \cup {f}
        BY <1>2, <1>4, <2>4
      <3> QED
        BY <2>2, <2>3, <3>1, <3>2
    <2>5. CASE k # h
      <3>1. votes'[<<k, 0>>] = votes[<<k, 0>>]
        BY <1>2, <1>4, <2>5
      <3> QED
        BY <2>2, <2>3, <3>1
    <2> QED
      BY <2>4, <2>5
  <1> QED
    BY <1>2, <1>5 DEF VotesNested

\* A new block is a step of the search's network.
LEMMA NewBlockMaps ==
  ASSUME Settled, ProviderInv, NEW h \in Heights, NewBlock(h), BlockInv', OneList',
         UNCHANGED searchVars
  PROVE  S!NewBlock
  <1> DEFINE n == Len(chain)
  <1>1. /\ n \in Heights /\ n + 1 \in Heights /\ n < MaxHeight /\ n \in Nat
        /\ Len(chain') = n + 1 /\ votes' = votes
    BY OnTop, BlockAssumption DEF ProviderInv, FlowInv, BlockInv, TypeOK, Heights
  <1>2. /\ finalBlocks = FinalUpTo(n, votes) /\ finalBlocks' = FinalUpTo(n + 1, votes)
    BY <1>1, FinalBlocksDef, FinalBlocksNext DEF ProviderInv, FlowInv
  <1> HIDE DEF n
  <1>3. CASE n + 1 \notin finalBlocks'
    <2>1. finalBlocks' = finalBlocks
      BY <1>1, <1>2, <1>3 DEF FinalUpTo
    <2> QED
      BY <1>1, <2>1 DEF S!NewBlock, searchVars, n
  <1>4. CASE n + 1 \in finalBlocks'
    <2>1. finalBlocks' = finalBlocks \cup {n + 1}
      BY <1>1, <1>2, <1>4 DEF FinalUpTo
    <2>2. ASSUME VotesInOrder PROVE 1..n \subseteq finalBlocks
      <3>1. S!Ordered(finalBlocks')
        BY <1>1, <1>2, <2>2, NestedOrdered
        DEF ProviderInv, FlowInv, BlockInv, TypeOK, VotesNested, Nested
      <3>2. 1..(n + 1) \subseteq finalBlocks'
        BY <1>4, <3>1 DEF S!Ordered
      <3> QED
        BY <1>1, <2>1, <3>2
    <2>3. S!MayFinalize(n + 1)
      <3>1. 1..((n + 1) - 1) = 1..n
        BY <1>1
      <3> QED
        BY <2>2, <3>1 DEF S!MayFinalize
    <2> QED
      BY <1>1, <2>1, <2>3 DEF S!NewBlock, searchVars, n
  <1> QED
    BY <1>3, <1>4

\* A vote finalizes its block, or changes nothing for the search.
LEMMA VoteMaps ==
  ASSUME Settled, ProviderInv, NEW f \in Fps, NEW h \in DOMAIN chain, Vote(f, h),
         BlockInv', OneList', UNCHANGED searchVars
  PROVE  S!Finalize(h) \/ UNCHANGED S!vars
  <1> DEFINE n == Len(chain)
  <1>1. /\ n \in Heights /\ h \in 1..n /\ h \in Heights /\ n \in Nat
        /\ chain' = chain /\ 1..n \subseteq Heights
    BY FinalBlocksDef, BlockAssumption DEF ProviderInv, FlowInv, Vote, Heights
  <1>2. /\ finalBlocks = FinalUpTo(n, votes) /\ finalBlocks' = FinalUpTo(n, votes')
    BY <1>1, FinalBlocksDef, FinalBlocksNext DEF ProviderInv, FlowInv
  <1>3. /\ votes' = [votes EXCEPT ![<<h, 0>>] = @ \cup {f}] /\ VotesNested'
    BY VoteNested DEF ProviderInv, FlowInv
  <1>4. votes \in [Blocks -> SUBSET Fps] /\ \A g \in Heights : <<g, 0>> \in Blocks
    BY DEF ProviderInv, FlowInv, BlockInv, TypeOK, Blocks, Versions, Settled
  <1> HIDE DEF n
  <1>5. \A g \in Heights \ {h} : votes'[<<g, 0>>] = votes[<<g, 0>>]
    BY <1>3, <1>4
  <1>6. \A g \in 1..n : g # h => (g \in finalBlocks' <=> g \in finalBlocks)
    BY <1>1, <1>2, <1>5 DEF FinalUpTo, FinalIn
  <1>7. finalBlocks \subseteq 1..n /\ finalBlocks' \subseteq 1..n
    BY <1>2 DEF FinalUpTo
  <1>8. h \in finalBlocks => h \in finalBlocks'
    <2>1. votes[<<h, 0>>] \subseteq votes'[<<h, 0>>] /\ votes'[<<h, 0>>] \subseteq Fps
      BY <1>1, <1>3, <1>4
    <2> QED
      BY <1>1, <1>2, <2>1, FinalGrows DEF FinalUpTo
  <1>9. CASE h \in finalBlocks \/ h \notin finalBlocks'
    <2>0. \A g : g \in finalBlocks' <=> g \in finalBlocks
      BY <1>6, <1>7, <1>8, <1>9
    <2>1. finalBlocks' = finalBlocks
      BY <2>0, Zenon
    <2> QED
      BY <1>1, <2>1 DEF S!vars, searchVars, n
  <1>10. CASE h \notin finalBlocks /\ h \in finalBlocks'
    <2>1. finalBlocks' = finalBlocks \cup {h}
      BY <1>1, <1>6, <1>7, <1>10
    <2>2. ASSUME VotesInOrder PROVE 1..(h-1) \subseteq finalBlocks
      <3>1. S!Ordered(finalBlocks')
        BY <1>1, <1>2, <1>3, <2>2, NestedOrdered DEF BlockInv, TypeOK, VotesNested, Nested
      <3>2. 1..h \subseteq finalBlocks'
        BY <1>10, <3>1 DEF S!Ordered
      <3> QED
        BY <1>1, <2>1, <3>2 DEF Heights
    <2> QED
      BY <1>1, <1>10, <2>1, <2>2 DEF S!Finalize, S!MayFinalize, searchVars, n
  <1> QED
    BY <1>9, <1>10

-----------------------------------------------------------------------------
(***************************************************************************)
(* The steps of a request, whatever the network does.                      *)
(***************************************************************************)
\* The constants are as the search wants them.
LEMMA SearchConstants == SP!SearchAssumption
  BY BlockAssumption, ProviderAssumption DEF SP!SearchAssumption

\* The chain and the blocks final on it are those of a search.
LEMMA FinalBlocksType ==
  ASSUME TypeOK
  PROVE  Len(chain) \in 0..MaxHeight /\ finalBlocks \in SUBSET (1..Len(chain))
  <1>1. Len(chain) \in 1..MaxHeight /\ DOMAIN chain = 1..Len(chain)
    BY DEF TypeOK, Heights
  <1>2. Len(chain) \in 0..MaxHeight
    BY <1>1, BlockAssumption
  <1> QED
    BY <1>1, <1>2 DEF finalBlocks

\* The same in the next state.
LEMMA FinalBlocksTypeNext ==
  ASSUME TypeOK'
  PROVE  Len(chain)' \in 0..MaxHeight /\ finalBlocks' \in SUBSET (1..Len(chain)')
  <1>1. Len(chain') \in 1..MaxHeight /\ DOMAIN chain' = 1..Len(chain')
    BY DEF TypeOK, Heights
  <1>2. Len(chain') \in 0..MaxHeight
    BY <1>1, BlockAssumption
  <1> QED
    BY <1>1, <1>2 DEF finalBlocks

\* The search of this module and the one its theorems are about are the same.
LEMMA SameSearch ==
  /\ S!Request = SP!Request
  /\ S!TypeOK <=> SP!TypeOK
  /\ \A q : (S!Interval(q) <=> SP!Interval(q)) /\ S!Left(q) = SP!Left(q)
  /\ \A r, res : S!Resume(r, res) <=> SP!Resume(r, res)
  /\ \A r : /\ S!ReadLast(r) <=> SP!ReadLast(r)
            /\ S!SetResult(r) <=> SP!SetResult(r)
            /\ S!Query(r) <=> SP!Query(r)
            /\ S!Return(r) <=> SP!Return(r)
  <1>1. S!Request = SP!Request
    BY DEF S!Request, SP!Request, S!PCs, SP!PCs, S!Probing, SP!Probing
  <1>2. S!TypeOK <=> SP!TypeOK
    BY <1>1 DEF S!TypeOK, SP!TypeOK
  <1>3. \A q : (S!Interval(q) <=> SP!Interval(q)) /\ S!Left(q) = SP!Left(q)
    BY DEF S!Interval, SP!Interval, S!Left, SP!Left, S!Probing, SP!Probing
  <1>4. \A q, a, b : S!FromTo(q, a, b) = SP!FromTo(q, a, b)
    BY DEF S!FromTo, SP!FromTo, S!Lower, SP!Lower, S!Higher, SP!Higher
  <1>5. \A q : S!AfterFast(q) = SP!AfterFast(q)
    BY <1>4 DEF S!AfterFast, SP!AfterFast, S!Probe, SP!Probe
  <1>6. \A q : S!AfterHead(q) = SP!AfterHead(q)
    BY <1>5 DEF S!AfterHead, SP!AfterHead, S!Probe, SP!Probe
  <1>7. \A q, last : S!AfterStart(q, last) = SP!AfterStart(q, last)
    BY <1>6 DEF S!AfterStart, SP!AfterStart, S!Probe, SP!Probe, S!Done, SP!Done
  <1>8. \A r, res : S!Resume(r, res) <=> SP!Resume(r, res)
    BY <1>4, <1>5, <1>6
    DEF S!Resume, SP!Resume, S!ProbeHead, SP!ProbeHead, S!ProbeFast, SP!ProbeFast,
        S!ProbeNext, SP!ProbeNext, S!ProbeTry, SP!ProbeTry, S!ProbeBisect,
        SP!ProbeBisect, S!Local, SP!Local, S!Done, SP!Done, S!Failed, SP!Failed,
        S!Idle, SP!Idle, S!Heard, SP!Heard, S!SetLastFinalized, SP!SetLastFinalized
  <1>9. \A r : /\ S!ReadLast(r) <=> SP!ReadLast(r)
               /\ S!SetResult(r) <=> SP!SetResult(r)
               /\ S!Query(r) <=> SP!Query(r)
               /\ S!Return(r) <=> SP!Return(r)
    BY <1>7 DEF S!ReadLast, SP!ReadLast, S!SetResult, SP!SetResult, S!Query, SP!Query,
        S!Return, SP!Return, S!Local, SP!Local, S!Done, SP!Done, S!Failed, SP!Failed,
        S!Idle, SP!Idle, S!Called, SP!Called, S!SetLastFinalized, SP!SetLastFinalized
  <1> QED
    BY <1>1, <1>2, <1>3, <1>8, <1>9

\* A step of the search leaves its request well-formed, with less to do.
LEMMA OwnFlow ==
  ASSUME S!TypeOK, NEW r \in Requests, S!Interval(req[r]),
         (\E res : S!Resume(r, res)) \/ S!ReadLast(r) \/ S!SetResult(r)
  PROVE  /\ lastFinalizedHeight' \in 0..MaxHeight
         /\ req' \in [Requests -> S!Request]
         /\ \A s \in Requests : s # r => req'[s] = req[s]
         /\ S!Interval(req'[r])
         /\ S!Left(req'[r]) < S!Left(req[r])
  <1>1. /\ SP!TypeOK /\ SP!Interval(req[r])
        /\ (\E res : SP!Resume(r, res)) \/ SP!ReadLast(r) \/ SP!SetResult(r)
    BY SameSearch
  <1>2. /\ lastFinalizedHeight' \in 0..MaxHeight
        /\ req' \in [Requests -> SP!Request]
        /\ \A s \in Requests : s # r => req'[s] = req[s]
        /\ SP!Interval(req'[r])
        /\ SP!Left(req'[r]) < SP!Left(req[r])
    BY <1>1, SearchConstants, SP!OwnEffect
  <1> QED
    BY <1>2, SameSearch

\* So does the beginning of a call and its end.
LEMMA CallFlow ==
  ASSUME S!TypeOK, NEW r \in Requests, S!Query(r) \/ S!Return(r)
  PROVE  /\ UNCHANGED lastFinalizedHeight
         /\ req' \in [Requests -> S!Request]
         /\ \A s \in Requests : s # r => req'[s] = req[s]
         /\ S!Interval(req'[r])
         /\ req[r].pc \in {"idle", "done", "failed"}
  <1>1. SP!TypeOK /\ (SP!Query(r) \/ SP!Return(r))
    BY SameSearch
  <1>2. /\ UNCHANGED lastFinalizedHeight
        /\ req' \in [Requests -> SP!Request]
        /\ \A s \in Requests : s # r => req'[s] = req[s]
        /\ SP!Interval(req'[r])
        /\ req[r].pc \in {"idle", "done", "failed"}
    BY <1>1, SearchConstants, SP!CallEffect
  <1> QED
    BY <1>2, SameSearch

\* A step of a check leaves it well-formed, with less to do.
LEMMA CheckFlow ==
  ASSUME BlockInv, NEW r \in Requests, CheckStep(r)
  PROVE  /\ \E p : Advanced(0..MaxHeight, r, p)
         /\ UNCHANGED env
  <1>1. DOMAIN chain \subseteq 0..MaxHeight
    <2>1. DOMAIN chain = 1..Len(chain) /\ Len(chain) \in 1..MaxHeight
      BY DEF BlockInv, TypeOK, Heights
    <2> QED
      BY <2>1, BlockAssumption
  <1>2. ChainInv(0..MaxHeight)
    <2>1. Heights \subseteq 0..MaxHeight
      BY BlockAssumption DEF Heights
    <2>2. DOMAIN finalizedCache \subseteq Heights /\ DOMAIN l2BlockCache \subseteq Heights
      BY DEF BlockInv, TypeOK, PartialMap
    <2>3. \A s \in Requests : chk[s].height \in 0..MaxHeight
      BY DEF BlockInv, TypeOK, Requests, Check
    <2> QED
      BY <2>1, <2>2, <2>3 DEF ChainInv, OnChain
  <1> QED
    BY <1>1, <1>2, CheckAdvances DEF Requests

\* Every step of the service is a step of its checks or leaves them alone.
LEMMA FlowBlock ==
  ASSUME FlowInv, [ProviderNext]_providerVars
  PROVE  BlockInv' /\ [Next]_vars
  <1>1. ASSUME NEW r \in Requests, BeginProbe(r)
        PROVE  \E h \in Heights : Begin(r, h)
    <2>1. req[r].probe \in 0..MaxHeight /\ req[r].probe # 0
      BY <1>1 DEF FlowInv, ProviderTypeOK, S!TypeOK, S!Request, S!Interval, BeginProbe
    <2>2. req[r].probe \in Heights
      BY <2>1, BlockAssumption DEF Heights
    <2> QED
      BY <1>1, <2>2 DEF BeginProbe
  <1>2. [Next]_vars
    <2>1. CASE UNCHANGED providerVars
      BY <2>1 DEF providerVars, vars
    <2>2. CASE Environment
      BY <2>2 DEF Next
    <2>3. ASSUME NEW r \in Requests, UNCHANGED checkVars
          PROVE  UNCHANGED vars
      BY <2>3 DEF checkVars, env, caches, fps, vars
    <2>4. ASSUME NEW r \in Requests, Serve(r)
          PROVE  [Next]_vars
      BY <1>1, <2>3, <2>4 DEF Serve, Search, ProbeStep, EndProbe, Next, Requests
    <2>5. ASSUME NEW r \in Requests, Query(r) \/ Deliver(r) \/ Fail(r)
          PROVE  UNCHANGED vars
      BY <2>3, <2>5 DEF Query, Deliver, Fail
    <2> QED
      BY <2>1, <2>2, <2>4, <2>5 DEF ProviderNext
  <1> QED
    BY <1>2, StepInv DEF FlowInv

\* What a step does to request r and its check, if it does anything: the step
\* is its own, and afterwards the check still runs inside a probe of its block.
LEMMA ServeEffect ==
  ASSUME FlowInv, NEW r \in Requests, Serve(r)
  PROVE  /\ lastFinalizedHeight' \in 0..MaxHeight
         /\ req' \in [Requests -> S!Request]
         /\ \A s \in Requests : s # r => req'[s] = req[s] /\ chk'[s] = chk[s]
         /\ S!Interval(req'[r]) /\ Linked(chk'[r], req'[r])
         /\ Work(req'[r], chk'[r]) < Work(req[r], chk[r])
         /\ UNCHANGED reply
  <1>0. /\ chk \in [Requests -> Check] /\ req \in [Requests -> S!Request]
        /\ S!TypeOK /\ lastFinalizedHeight \in 0..MaxHeight
        /\ S!Interval(req[r]) /\ Linked(chk[r], req[r])
    BY DEF FlowInv, ProviderTypeOK, TypeOK, S!TypeOK, Requests
  <1>1. \A e \in S!Request : S!Left(e) \in Int
    BY BlockAssumption DEF S!Left, S!Request
  <1>2. \A q \in Check : CheckLeft(q) \in Int
    BY DEF CheckLeft, Check, Stages, Steps
  <1>3. CASE Search(r)
    <2>1. UNCHANGED <<chk, reply>> /\ (S!ReadLast(r) \/ S!SetResult(r))
      BY <1>3 DEF Search, checkVars
    <2>2. /\ lastFinalizedHeight' \in 0..MaxHeight
          /\ req' \in [Requests -> S!Request]
          /\ \A s \in Requests : s # r => req'[s] = req[s]
          /\ S!Interval(req'[r]) /\ S!Left(req'[r]) < S!Left(req[r])
      BY <1>0, <2>1, OwnFlow
    <2>3. Linked(chk'[r], req'[r])
      <3>1. req[r].pc \notin S!Probing
        BY <2>1 DEF S!ReadLast, S!SetResult, S!Probing
      <3> QED
        BY <1>0, <2>1, <3>1 DEF Linked
    <2>4. Work(req'[r], chk'[r]) < Work(req[r], chk[r])
      BY <1>0, <1>1, <1>2, <2>1, <2>2 DEF Work
    <2> QED
      BY <2>1, <2>2, <2>3, <2>4
  <1>4. ASSUME NEW p, chk' = [chk EXCEPT ![r] = p], UNCHANGED <<searchVars, reply>>,
               p.stage # "idle" => req[r].pc \in S!Probing,
               p.stage \notin {"idle", "failed"} => p.height = req[r].probe,
               CheckLeft(p) < CheckLeft(chk[r]), CheckLeft(p) \in Int
        PROVE  /\ lastFinalizedHeight' \in 0..MaxHeight
               /\ req' \in [Requests -> S!Request]
               /\ \A s \in Requests : s # r => req'[s] = req[s] /\ chk'[s] = chk[s]
               /\ S!Interval(req'[r]) /\ Linked(chk'[r], req'[r])
               /\ Work(req'[r], chk'[r]) < Work(req[r], chk[r])
               /\ UNCHANGED reply
    <2>1. req' = req /\ lastFinalizedHeight' = lastFinalizedHeight
      BY <1>4 DEF searchVars
    <2>2. chk'[r] = p /\ \A s \in Requests : s # r => chk'[s] = chk[s]
      BY <1>0, <1>4
    <2>3. Linked(p, req[r])
      BY <1>4 DEF Linked
    <2>4. Work(req[r], p) < Work(req[r], chk[r])
      BY <1>0, <1>1, <1>2, <1>4 DEF Work
    <2> QED
      BY <1>0, <1>4, <2>1, <2>2, <2>3, <2>4
  <1>5. CASE BeginProbe(r)
    <2> DEFINE p == [Goto(Idle, "final") EXCEPT !.height = req[r].probe]
    <2>1. p.stage = "final" /\ p.height = req[r].probe
      BY DEF Goto, Idle
    <2>2. /\ chk' = [chk EXCEPT ![r] = p] /\ chk[r].stage = "idle"
          /\ UNCHANGED <<searchVars, reply>> /\ req[r].pc \in S!Probing
      BY <1>5 DEF BeginProbe, Begin, Local
    <2> HIDE DEF p
    <2>3. CheckLeft(p) < CheckLeft(chk[r]) /\ CheckLeft(p) \in Int
      BY <2>1, <2>2 DEF CheckLeft
    <2>4. /\ p.stage # "idle" => req[r].pc \in S!Probing
          /\ p.stage \notin {"idle", "failed"} => p.height = req[r].probe
      BY <2>1, <2>2
    <2> QED
      BY <1>4, <2>2, <2>3, <2>4
  <1>6. CASE ProbeStep(r)
    <2>1. PICK p : Advanced(0..MaxHeight, r, p)
      BY <1>6, CheckFlow DEF ProbeStep, FlowInv
    <2>2. chk' \in [Requests -> Check]
      <3>1. BlockInv'
        BY <1>6, FlowBlock DEF ProviderNext, Serve
      <3> QED
        BY <3>1 DEF BlockInv, TypeOK, Requests
    <2>3. p \in Check
      BY <1>0, <2>1, <2>2 DEF Advanced
    <2>4. CheckLeft(p) \in Int
      BY <1>2, <2>3
    <2>5. /\ chk[r].stage \notin {"idle", "failed"}
          /\ req[r].pc \in S!Probing /\ chk[r].height = req[r].probe
      BY <1>0, <2>1 DEF Advanced, Linked
    <2> QED
      BY <1>4, <1>6, <2>1, <2>4, <2>5 DEF Advanced, ProbeStep
  <1>7. CASE EndProbe(r)
    <2>1. /\ chk' = [chk EXCEPT ![r] = Idle] /\ chk[r].stage \in {"done", "failed"}
          /\ UNCHANGED reply /\ \E res : S!Resume(r, res)
      BY <1>7 DEF EndProbe, End, Local
    <2>2. /\ lastFinalizedHeight' \in 0..MaxHeight
          /\ req' \in [Requests -> S!Request]
          /\ \A s \in Requests : s # r => req'[s] = req[s]
          /\ S!Interval(req'[r]) /\ S!Left(req'[r]) < S!Left(req[r])
      BY <1>0, <2>1, OwnFlow
    <2>3. chk'[r] = Idle /\ \A s \in Requests : s # r => chk'[s] = chk[s]
      BY <1>0, <2>1
    <2>4. Idle.stage = "idle"
      BY DEF Idle
    <2>5. Linked(chk'[r], req'[r])
      BY <2>3, <2>4 DEF Linked
    <2>6. CheckLeft(chk'[r]) = 18 /\ CheckLeft(chk[r]) = 0
      BY <2>1, <2>3, <2>4 DEF CheckLeft
    <2>7. S!Left(req'[r]) \in Int /\ S!Left(req[r]) \in Int
      BY <1>0, <1>1, <2>2
    <2>8. Work(req'[r], chk'[r]) < Work(req[r], chk[r])
      BY <2>2, <2>6, <2>7 DEF Work
    <2> QED
      BY <2>1, <2>2, <2>3, <2>5, <2>8
  <1> QED
    BY <1>3, <1>5, <1>6, <1>7 DEF Serve

\* A call begins, or its caller gets the reply.
LEMMA ClientEffect ==
  ASSUME FlowInv, NEW r \in Requests, Query(r) \/ Deliver(r) \/ Fail(r)
  PROVE  /\ UNCHANGED <<lastFinalizedHeight, chk>>
         /\ req' \in [Requests -> S!Request]
         /\ \A s \in Requests : s # r => req'[s] = req[s]
         /\ S!Interval(req'[r]) /\ Linked(chk'[r], req'[r])
         /\ req[r].pc \in {"idle", "done", "failed"}
         /\ reply' \in [Requests -> Blocks \cup {Nothing}]
  <1>0. /\ S!TypeOK /\ Linked(chk[r], req[r])
        /\ reply \in [Requests -> Blocks \cup {Nothing}]
        /\ chain \in Seq(Versions) /\ Len(chain) \in Heights
    BY DEF FlowInv, ProviderTypeOK, TypeOK
  <1>1. UNCHANGED chk /\ (S!Query(r) \/ S!Return(r))
    BY DEF Query, Deliver, Fail, checkVars
  <1>2. /\ UNCHANGED lastFinalizedHeight
        /\ req' \in [Requests -> S!Request]
        /\ \A s \in Requests : s # r => req'[s] = req[s]
        /\ S!Interval(req'[r])
        /\ req[r].pc \in {"idle", "done", "failed"}
    BY <1>0, <1>1, CallFlow
  <1>3. Linked(chk'[r], req'[r])
    BY <1>0, <1>1, <1>2 DEF Linked, S!Probing
  <1>4. \A n \in DOMAIN chain : <<n, chain[n]>> \in Blocks
    BY <1>0, BlockAssumption DEF Blocks, Heights
  <1>5. reply' \in [Requests -> Blocks \cup {Nothing}]
    BY <1>0, <1>4 DEF Query, Deliver, Fail
  <1> QED
    BY <1>1, <1>2, <1>3, <1>5

\* The network and the clock leave the requests and their checks alone.
LEMMA NetworkEffect ==
  ASSUME Environment
  PROVE  UNCHANGED chk
  BY DEF Environment, NewBlock, Vote, Register, Expire, service

\* FlowInv is inductive.
LEMMA FlowStep ==
  ASSUME FlowInv, [ProviderNext]_providerVars
  PROVE  FlowInv'
  <1>0. /\ lastFinalizedHeight \in 0..MaxHeight
        /\ reply \in [Requests -> Blocks \cup {Nothing}]
        /\ req \in [Requests -> S!Request]
        /\ \A s \in Requests : S!Interval(req[s]) /\ Linked(chk[s], req[s])
    BY DEF FlowInv, ProviderTypeOK, S!TypeOK
  <1>1. /\ BlockInv' /\ TypeOK'
        /\ Len(chain)' \in 0..MaxHeight /\ finalBlocks' \in SUBSET (1..Len(chain)')
    BY FlowBlock, FinalBlocksTypeNext DEF BlockInv
  <1> SUFFICES /\ lastFinalizedHeight' \in 0..MaxHeight
               /\ reply' \in [Requests -> Blocks \cup {Nothing}]
               /\ req' \in [Requests -> S!Request]
               /\ \A s \in Requests : S!Interval(req'[s]) /\ Linked(chk'[s], req'[s])
    BY <1>1 DEF FlowInv, ProviderTypeOK, S!TypeOK
  <1>2. CASE UNCHANGED providerVars
    BY <1>0, <1>2 DEF providerVars
  <1>3. CASE Environment /\ UNCHANGED <<searchVars, reply>>
    BY <1>0, <1>3, NetworkEffect DEF searchVars
  <1>4. ASSUME NEW r \in Requests, Serve(r)
        PROVE  /\ lastFinalizedHeight' \in 0..MaxHeight
               /\ reply' \in [Requests -> Blocks \cup {Nothing}]
               /\ req' \in [Requests -> S!Request]
               /\ \A s \in Requests : S!Interval(req'[s]) /\ Linked(chk'[s], req'[s])
    BY <1>0, <1>4, ServeEffect
  <1>5. ASSUME NEW r \in Requests, Query(r) \/ Deliver(r) \/ Fail(r)
        PROVE  /\ lastFinalizedHeight' \in 0..MaxHeight
               /\ reply' \in [Requests -> Blocks \cup {Nothing}]
               /\ req' \in [Requests -> S!Request]
               /\ \A s \in Requests : S!Interval(req'[s]) /\ Linked(chk'[s], req'[s])
    BY <1>0, <1>5, ClientEffect
  <1> QED
    BY <1>2, <1>3, <1>4, <1>5 DEF ProviderNext

\* No check runs before the first request.
LEMMA FlowStart ==
  ASSUME ProviderInit
  PROVE  FlowInv /\ Init
  <1>1. Init /\ BlockInv /\ TypeOK
    BY InitInv DEF ProviderInit, BlockInv
  <1>2. Len(chain) \in 0..MaxHeight /\ finalBlocks \in SUBSET (1..Len(chain))
    BY <1>1, FinalBlocksType
  <1>3. S!Idle \in S!Request /\ S!Interval(S!Idle)
    BY BlockAssumption DEF S!Idle, S!Request, S!PCs, S!Probing, S!Interval
  <1>4. ProviderTypeOK
    BY <1>1, <1>2, <1>3, BlockAssumption DEF ProviderInit, ProviderTypeOK, S!TypeOK
  <1>5. \A r \in Requests : S!Interval(req[r]) /\ Linked(chk[r], req[r])
    BY <1>1, <1>3 DEF ProviderInit, Init, Linked, Idle, Requests
  <1> QED
    BY <1>1, <1>4, <1>5 DEF FlowInv

\* Whatever the network does, a check runs inside a probe of its request and
\* tests the block probed, and the search and the checks stay well formed.
THEOREM FlowInvariant == ProviderSpec => []FlowInv
  <1>1. ProviderInit => FlowInv
    BY FlowStart
  <1>2. FlowInv /\ [ProviderNext]_providerVars => FlowInv'
    BY FlowStep
  <1> QED
    BY <1>1, <1>2, PTL DEF ProviderSpec

\* Every state of the service, its requests and its replies is well formed.
THEOREM ProviderTypeCorrect == ProviderSpec => []ProviderTypeOK
  <1>1. FlowInv => ProviderTypeOK
    BY DEF FlowInv
  <1> QED
    BY <1>1, FlowInvariant, PTL

\* The checks that the requests run are those of BlockFinality, so all that is
\* proved of a check and of the caches holds in the service.
THEOREM ImplementsChecksThm == ProviderSpec => Spec
  <1>1. ProviderInit => Init
    BY FlowStart
  <1>2. FlowInv /\ [ProviderNext]_providerVars => [Next]_vars
    BY FlowBlock
  <1> QED
    BY <1>1, <1>2, FlowInvariant, PTL DEF ProviderSpec, Spec

\* In particular every block found finalized has a quorum among the providers of
\* one list, finalizedCache holds only heights of such blocks, and no cache
\* outgrows its bound, whatever the requests ask in whatever order.
THEOREM ProviderCachesThm == ProviderSpec => [](FinalizedSound /\ CacheBound)
  BY ImplementsChecksThm, FinalizedSoundThm, CacheBoundThm, PTL

\* A request ends after at most 19 steps for each of those of its search,
\* although the chain is reorganised, providers register, calls fail, and the
\* other requests write to the caches and to lastFinalizedHeight.
THEOREM ServeAdvancesThm == ProviderSpec => ServeAdvances
  <1> DEFINE Advances(r) ==
        /\ req[r].pc \notin {"idle", "done", "failed"}
        /\ <<req'[r], chk'[r]>> # <<req[r], chk[r]>>
        => Work(req'[r], chk'[r]) < Work(req[r], chk[r])
  <1>1. ASSUME FlowInv, ProviderNext, NEW r \in Requests
        PROVE  Advances(r)
    <2>1. CASE Environment /\ UNCHANGED <<searchVars, reply>>
      BY <2>1, NetworkEffect DEF searchVars
    <2>2. ASSUME NEW s \in Requests, Serve(s)
          PROVE  Advances(r)
      BY <1>1, <2>2, ServeEffect
    <2>3. ASSUME NEW s \in Requests, Query(s) \/ Deliver(s) \/ Fail(s)
          PROVE  Advances(r)
      <3>1. /\ UNCHANGED chk /\ req[s].pc \in {"idle", "done", "failed"}
            /\ s # r => req'[r] = req[r]
        BY <1>1, <2>3, ClientEffect
      <3> QED
        BY <3>1
    <2> QED
      BY <1>1, <2>1, <2>2, <2>3 DEF ProviderNext
  <1>2. FlowInv /\ [ProviderNext]_providerVars => [\A r \in Requests : Advances(r)]_providerVars
    BY <1>1
  <1> QED
    BY <1>2, FlowInvariant, PTL DEF ProviderSpec, ServeAdvances

-----------------------------------------------------------------------------
(***************************************************************************)
(* The invariant of a settled network.                                     *)
(***************************************************************************)
\* So are their invariants.
LEMMA SameSearchInv ==
  S!SearchInv <=> SP!SearchInv
  BY DEF S!SearchInv, SP!SearchInv, S!TypeOK, SP!TypeOK, S!Request, SP!Request,
         S!PCs, SP!PCs, S!Probing, SP!Probing, S!Ordered, SP!Ordered,
         S!LastFinalizedSound, SP!LastFinalizedSound, S!Trusted, SP!Trusted,
         S!TrustedIn, SP!TrustedIn, S!LocalInv, SP!LocalInv, S!Interval, SP!Interval,
         S!SoundLocal, SP!SoundLocal, S!FreshLocal, SP!FreshLocal, S!Expected,
         SP!Expected, S!BackLocal, SP!BackLocal, S!AtLeast, SP!AtLeast

\* In the next state too.
LEMMA SameSearchInvNext ==
  SP!SearchInv' => S!SearchInv'
  BY DEF S!SearchInv, SP!SearchInv, S!TypeOK, SP!TypeOK, S!Request, SP!Request,
         S!PCs, SP!PCs, S!Probing, SP!Probing, S!Ordered, SP!Ordered,
         S!LastFinalizedSound, SP!LastFinalizedSound, S!Trusted, SP!Trusted,
         S!TrustedIn, SP!TrustedIn, S!LocalInv, SP!LocalInv, S!Interval, SP!Interval,
         S!SoundLocal, SP!SoundLocal, S!FreshLocal, SP!FreshLocal, S!Expected,
         SP!Expected, S!BackLocal, SP!BackLocal, S!AtLeast, SP!AtLeast

\* The search's own invariant is inductive for the steps of the search.
LEMMA SearchStep ==
  ASSUME S!SearchInv, [S!Next]_(S!vars)
  PROVE  S!SearchInv'
  <1>1. SP!SearchInv
    BY SameSearchInv
  <1>2. [SP!Next]_(SP!vars)
    BY SameSearch
    DEF S!Next, SP!Next, S!vars, SP!vars, S!NewBlock, SP!NewBlock, S!Finalize,
        SP!Finalize, S!MayFinalize, SP!MayFinalize, S!Step, SP!Step, S!Answered,
        SP!Answered, S!Answers, SP!Answers, S!Probing, SP!Probing
  <1>3. SP!SearchInv'
    BY <1>1, <1>2, SearchConstants, SP!StepInv
  <1> QED
    BY <1>3, SameSearchInvNext

\* Babylon's list of providers stays the one it is.
LEMMA ProviderBlockStep ==
  ASSUME ProviderInv, [ProviderNext]_providerVars
  PROVE  BlockInv' /\ OneList' /\ [Next]_vars
  BY FlowBlock, OneListStep DEF ProviderInv, FlowInv

\* An answer yes is about a final block.
LEMMA YesIsFinal ==
  ASSUME Settled, ProviderInv, NEW r \in Requests, chk[r].stage = "done", chk[r].ans
  PROVE  req[r].probe \in finalBlocks
  <1> DEFINE h == req[r].probe
  <1>1. chk[r].height = h
    BY DEF ProviderInv, FlowInv, Linked
  <1>2. h \in DOMAIN chain
    BY <1>1 DEF ProviderInv, FlowInv, ChainInv, OnChain, SawBlock
  <1>3. FinalHeight({Fps}, votes, h)
    BY <1>1 DEF ProviderInv, FlowInv, BlockInv, LocalInv, OneList, Requests
  <1>4. FinalIn({Fps}, votes, <<h, 0>>)
    BY <1>3 DEF FinalHeight, Versions, Settled
  <1> QED
    BY <1>2, <1>4, FinalBlocksDef DEF FinalUpTo, ProviderInv, FlowInv

\* Every step of the provider is a step of the search, or changes nothing that
\* the search knows of.
LEMMA StepRefines ==
  ASSUME Settled, ProviderInv, [ProviderNext]_providerVars
  PROVE  [S!Next]_(S!vars)
  <1>0. BlockInv' /\ OneList' /\ [Next]_vars
    BY ProviderBlockStep
  <1>1. UNCHANGED env /\ UNCHANGED searchVars => UNCHANGED S!vars
    BY DEF env, searchVars, S!vars, finalBlocks, FinalAmong
  <1>2. UNCHANGED checkVars => UNCHANGED env
    BY DEF checkVars
  <1>3. CASE UNCHANGED providerVars
    BY <1>1, <1>3 DEF providerVars, env, searchVars
  <1>4. CASE Environment /\ UNCHANGED searchVars
    <2>1. CASE \E h \in Heights : NewBlock(h)
      BY <1>0, <1>4, <2>1, NewBlockMaps DEF S!Next
    <2>2. ASSUME NEW f \in Fps, NEW h \in DOMAIN chain, Vote(f, h)
          PROVE  [S!Next]_(S!vars)
      <3>1. h \in 1..Len(chain)
        BY FinalBlocksDef DEF ProviderInv, FlowInv
      <3> QED
        BY <1>0, <1>4, <2>2, <3>1, VoteMaps DEF S!Next
    <2>3. CASE Expire
      BY <1>1, <1>4, <2>3 DEF Expire
    <2> QED
      BY <1>4, <2>1, <2>2, <2>3, NetworkStep DEF ProviderInv, FlowInv
  <1>5. ASSUME NEW r \in Requests, Query(r) \/ Search(r) \/ Deliver(r) \/ Fail(r)
        PROVE  [S!Next]_(S!vars)
    BY <1>5 DEF Query, Search, Deliver, Fail, S!Next, S!Step
  <1>6. ASSUME NEW r \in Requests, BeginProbe(r) \/ ProbeStep(r)
        PROVE  [S!Next]_(S!vars)
    <2>1. CheckStep(r) => UNCHANGED env
      BY CheckFlow DEF ProviderInv, FlowInv
    <2> QED
      BY <1>1, <1>6, <2>1 DEF BeginProbe, ProbeStep, Begin
  <1>7. ASSUME NEW r \in Requests, EndProbe(r)
        PROVE  [S!Next]_(S!vars)
    <2> DEFINE res == IF chk[r].stage = "failed" THEN "err"
                      ELSE IF chk[r].ans THEN "yes" ELSE "no"
    <2>1. UNCHANGED <<Len(chain), finalBlocks>>
      BY <1>7 DEF EndProbe, End, env, finalBlocks, FinalAmong
    <2>2. req[r].pc \in S!Probing
      BY <1>7 DEF EndProbe, End, ProviderInv, FlowInv, Linked
    <2>3. res \in S!Answers(req[r].probe)
      BY <1>7, YesIsFinal DEF EndProbe, End, S!Answers
    <2>4. S!Resume(r, res)
      BY <1>7 DEF EndProbe
    <2> HIDE DEF res
    <2>5. S!Answered(r)
      BY <2>1, <2>2, <2>3, <2>4 DEF S!Answered
    <2> QED
      BY <2>5 DEF S!Next, S!Step
  <1> QED
    BY <1>3, <1>4, <1>5, <1>6, <1>7 DEF ProviderNext, Serve


\* The chain only grows.
LEMMA ChainGrows ==
  ASSUME Settled, ProviderInv, Environment
  PROVE  DOMAIN chain \subseteq DOMAIN chain'
  <1>1. chain \in Seq(Versions) /\ DOMAIN chain = 1..Len(chain)
    BY FinalBlocksDef DEF ProviderInv, FlowInv, BlockInv, TypeOK
  <1>2. ASSUME NEW h \in Heights, NewBlock(h)
        PROVE  DOMAIN chain \subseteq DOMAIN chain'
    <2>1. Len(chain') = Len(chain) + 1 /\ DOMAIN chain' = 1..Len(chain')
      BY <1>2, OnTop DEF ProviderInv, FlowInv
    <2> QED
      BY <1>1, <2>1
  <1>3. ASSUME chain' = chain PROVE DOMAIN chain \subseteq DOMAIN chain'
    BY <1>3
  <1> QED
    BY <1>2, <1>3, NetworkStep DEF ProviderInv, FlowInv, Vote, Expire, env

\* What is in the caches stays on the chain.
LEMMA ChainInvStep ==
  ASSUME Settled, ProviderInv, [ProviderNext]_providerVars
  PROVE  ChainInv(DOMAIN chain)'
  <1>0. chk \in [Requests -> Check] /\ ChainInv(DOMAIN chain)
    BY DEF ProviderInv, FlowInv, BlockInv, TypeOK, Requests
  <1>1. CASE UNCHANGED <<caches, chk>> /\ DOMAIN chain \subseteq DOMAIN chain'
    BY <1>0, <1>1 DEF ChainInv, OnChain, caches
  <1>2. ASSUME NEW r \in Requests, NEW p, chk' = [chk EXCEPT ![r] = p],
               OnChain(DOMAIN chain, p), UNCHANGED chain,
               DOMAIN finalizedCache' \subseteq DOMAIN chain,
               DOMAIN l2BlockCache' \subseteq DOMAIN chain
        PROVE  ChainInv(DOMAIN chain)'
    <2>1. \A s \in Requests : chk'[s] = IF s = r THEN p ELSE chk[s]
      BY <1>0, <1>2
    <2>2. \A s \in Requests : OnChain(DOMAIN chain, chk'[s])
      BY <1>0, <1>2, <2>1 DEF ChainInv
    <2> QED
      BY <1>2, <2>2 DEF ChainInv
  <1>3. CASE UNCHANGED providerVars
    BY <1>1, <1>3 DEF providerVars, caches
  <1>4. CASE Environment
    <2>1. UNCHANGED <<caches, chk>>
      BY <1>4 DEF Environment, NewBlock, Vote, Register, Expire, service
    <2> QED
      BY <1>1, <1>4, <2>1, ChainGrows
  <1>5. ASSUME NEW r \in Requests, UNCHANGED checkVars
        PROVE  ChainInv(DOMAIN chain)'
    BY <1>1, <1>5 DEF checkVars, env
  <1>6. ASSUME NEW r \in Requests, BeginProbe(r)
        PROVE  ChainInv(DOMAIN chain)'
    <2> DEFINE p == [Goto(Idle, "final") EXCEPT !.height = req[r].probe]
    <2>1. p.stage = "final"
      BY DEF Goto, Idle
    <2>2. OnChain(DOMAIN chain, p)
      BY <2>1 DEF OnChain, SawBlock
    <2>3. Local(r, p) /\ UNCHANGED <<env, caches>>
      BY <1>6 DEF BeginProbe, Begin
    <2> HIDE DEF p
    <2> QED
      BY <1>0, <1>2, <2>2, <2>3 DEF Local, env, caches, ChainInv
  <1>7. ASSUME NEW r \in Requests, End(r)
        PROVE  ChainInv(DOMAIN chain)'
    <2>1. OnChain(DOMAIN chain, Idle)
      BY DEF OnChain, SawBlock, Idle
    <2> QED
      BY <1>0, <1>2, <1>7, <2>1 DEF End, Local, env, caches, ChainInv
  <1>8. ASSUME NEW r \in Requests, CheckStep(r)
        PROVE  ChainInv(DOMAIN chain)'
    <2>1. PICK p : Advanced(DOMAIN chain, r, p)
      BY <1>0, <1>8, CheckAdvances DEF ProviderInv, FlowInv, Requests
    <2>2. /\ DOMAIN finalizedCache' \subseteq DOMAIN chain
          /\ DOMAIN l2BlockCache' \subseteq DOMAIN chain
          /\ UNCHANGED env
      BY <1>0, <1>8, CheckAdvances DEF ProviderInv, FlowInv, Requests
    <2> QED
      BY <1>2, <2>1, <2>2 DEF Advanced, env
  <1> QED
    BY <1>3, <1>4, <1>5, <1>6, <1>7, <1>8
    DEF ProviderNext, Serve, Query, Search, Deliver, Fail, EndProbe, ProbeStep

\* What a client got stays final.
LEMMA ReplyStep ==
  ASSUME Settled, ProviderInv, [ProviderNext]_providerVars, [Next]_vars
  PROVE  ReplyInv' /\ VotesNested'
  <1>0. /\ reply \in [Requests -> Blocks \cup {Nothing}]
        /\ VotesInOrder => DeliveredFinalized
        /\ registered = Fps /\ VotesNested
    BY DEF ProviderInv, FlowInv, ProviderTypeOK, ReplyInv, OneList
  <1>1. /\ OneList' /\ registered' = registered
    BY ProviderBlockStep DEF OneList, ProviderInv
  <1>2. ASSUME UNCHANGED <<votes, reply>>
        PROVE  ReplyInv' /\ VotesNested'
    BY <1>0, <1>1, <1>2 DEF ReplyInv, DeliveredFinalized, VotesNested, FinalAmong
  <1>3. CASE UNCHANGED providerVars
    BY <1>2, <1>3 DEF providerVars
  <1>4. CASE Environment /\ UNCHANGED <<searchVars, reply>>
    <2>1. CASE (\E h \in Heights : NewBlock(h)) \/ Expire
      BY <1>2, <1>4, <2>1 DEF NewBlock, Expire, env
    <2>2. ASSUME NEW f \in Fps, NEW h \in DOMAIN chain, Vote(f, h)
          PROVE  ReplyInv' /\ VotesNested'
      <3>1. votes' = [votes EXCEPT ![<<h, 0>>] = @ \cup {f}] /\ VotesNested'
        BY <2>2, VoteNested DEF ProviderInv, FlowInv
      <3>2. votes \in [Blocks -> SUBSET Fps]
        BY DEF ProviderInv, FlowInv, BlockInv, TypeOK
      <3>3. \A b \in Blocks : votes[b] \subseteq votes'[b]
        BY <3>1, <3>2
      <3>4. \A b \in Blocks : FinalAmong(registered, b) => FinalAmong(registered, b)'
        BY <1>1, <3>3, QuorumMonotone DEF FinalAmong
      <3>5. VotesInOrder => DeliveredFinalized'
        BY <1>0, <1>4, <3>4 DEF DeliveredFinalized
      <3> QED
        BY <1>0, <1>4, <3>1, <3>5 DEF ReplyInv
    <2> QED
      BY <1>4, <2>1, <2>2, NetworkStep DEF ProviderInv, FlowInv
  <1>5. ASSUME NEW r \in Requests, Query(r) \/ Search(r) \/ Fail(r) \/ BeginProbe(r) \/ EndProbe(r)
        PROVE  ReplyInv' /\ VotesNested'
    <2>1. UNCHANGED <<votes, reply>>
      BY <1>5 DEF Query, Search, Fail, BeginProbe, EndProbe, Begin, End, checkVars, env
    <2> QED
      BY <1>2, <2>1
  <1>6. ASSUME NEW r \in Requests, ProbeStep(r)
        PROVE  ReplyInv' /\ VotesNested'
    <2>1. UNCHANGED env
      BY <1>6, CheckFlow DEF ProviderInv, FlowInv, ProbeStep
    <2> QED
      BY <1>2, <1>6, <2>1 DEF ProbeStep, env
  <1>7. ASSUME NEW r \in Requests, Deliver(r)
        PROVE  ReplyInv' /\ VotesNested'
    <2>1. UNCHANGED votes
      BY <1>7 DEF Deliver, checkVars, env
    <2>2. CASE UNCHANGED reply
      BY <1>2, <2>1, <2>2
    <2>3. ASSUME NEW b, reply' = [reply EXCEPT ![r] = b], b \in Blocks \cup {Nothing},
                 VotesInOrder => b \in {Nothing, <<1, 0>>} \/ FinalAmong(registered, b)
          PROVE  ReplyInv' /\ VotesNested'
      <3>1. \A s \in Requests : reply'[s] = IF s = r THEN b ELSE reply[s]
        BY <1>0, <2>3
      <3>2. \A x : FinalAmong(registered, x)' <=> FinalAmong(registered, x)
        BY <1>1, <2>1 DEF FinalAmong
      <3>3. VotesInOrder => DeliveredFinalized'
        BY <1>0, <2>3, <3>1, <3>2 DEF DeliveredFinalized
      <3> QED
        BY <1>0, <2>1, <2>3, <3>3 DEF ReplyInv, VotesNested
    <2>4. CASE req[r].ans \notin DOMAIN chain /\ reply' = [reply EXCEPT ![r] = Nothing]
      BY <2>3, <2>4
    <2>5. CASE /\ req[r].ans \in DOMAIN chain
               /\ reply' = [reply EXCEPT ![r] = <<req[r].ans, chain[req[r].ans]>>]
      <3> DEFINE n == req[r].ans
                 b == <<n, 0>>
      <3>1. chain[n] = 0 /\ n \in Heights /\ n # 0
        BY <2>5, FinalBlocksDef, BlockAssumption DEF ProviderInv, FlowInv, Heights
      <3>2. b \in Blocks
        BY <3>1 DEF Blocks, Versions, Settled
      <3>3. req[r].pc = "done"
        BY <1>7 DEF Deliver
      <3>4. VotesInOrder => n \in finalBlocks \cup {0, 1}
        BY <3>3 DEF ProviderInv, FlowInv, S!SearchInv, S!LocalInv, S!SoundLocal, S!TrustedIn
      <3>5. n \in finalBlocks => FinalAmong(registered, b)
        BY <3>1 DEF finalBlocks
      <3>6. VotesInOrder => b \in {Nothing, <<1, 0>>} \/ FinalAmong(registered, b)
        BY <3>1, <3>4, <3>5
      <3>7. reply' = [reply EXCEPT ![r] = b]
        BY <2>5, <3>1
      <3> HIDE DEF b, n
      <3> QED
        BY <2>3, <3>2, <3>6, <3>7
    <2> QED
      BY <1>7, <2>2, <2>4, <2>5 DEF Deliver
  <1> QED
    BY <1>3, <1>4, <1>5, <1>6, <1>7 DEF ProviderNext, Serve

\* ProviderInv is inductive.
LEMMA ProviderStep ==
  ASSUME Settled, ProviderInv, [ProviderNext]_providerVars
  PROVE  ProviderInv'
  <1>1. OneList' /\ [Next]_vars
    BY ProviderBlockStep
  <1>2. S!SearchInv'
    BY StepRefines, SearchStep DEF ProviderInv
  <1>3. ReplyInv' /\ VotesNested'
    BY <1>1, ReplyStep
  <1>4. FlowInv'
    BY FlowStep DEF ProviderInv
  <1> QED
    BY <1>1, <1>2, <1>3, <1>4, ChainInvStep DEF ProviderInv

\* An empty chain of checks, and a search that has not begun.
LEMMA ProviderStart ==
  ASSUME Settled, ProviderInit
  PROVE  S!Init /\ ProviderInv
  <1>1. FlowInv /\ OneList
    BY FlowStart DEF ProviderInit, Init, OneList, Settled
  <1>2. /\ Len(chain) = 1 /\ finalBlocks \subseteq {1}
        /\ \A h \in finalBlocks : 1..h \subseteq finalBlocks
    <2>1. Len(chain) = 1 /\ DOMAIN chain = {1}
      BY DEF ProviderInit, Init
    <2>2. finalBlocks \subseteq {1}
      BY <2>1 DEF finalBlocks
    <2> QED
      BY <2>1, <2>2
  <1>3. S!Init
    BY <1>2, BlockAssumption DEF ProviderInit, S!Init
  <1>4. S!SearchInv
    <2>1. S!TypeOK
      BY <1>1 DEF FlowInv, ProviderTypeOK
    <2>2. \A r \in Requests : S!LocalInv(finalBlocks, req[r])
      BY DEF ProviderInit, S!Idle, S!LocalInv, S!Interval, S!SoundLocal, S!FreshLocal,
             S!Probing
    <2>3. \A r \in Requests : S!BackLocal(lastFinalizedHeight, req[r])
      BY DEF ProviderInit, S!Idle, S!BackLocal, S!Probing
    <2> QED
      BY <1>2, <2>1, <2>2, <2>3 DEF ProviderInit, S!SearchInv, S!Ordered, S!LastFinalizedSound,
                              S!Trusted, S!TrustedIn
  <1>5. VotesNested
    <2>1. \A h \in Heights : votes[<<h, 0>>] = {}
      BY DEF ProviderInit, Init, Blocks, Versions, Settled
    <2> QED
      BY <2>1 DEF VotesNested
  <1>6. ChainInv(DOMAIN chain)
    BY DEF ProviderInit, Init, ChainInv, EmptyMap, OnChain, SawBlock, Idle, Requests
  <1>7. ReplyInv
    BY DEF ProviderInit, ReplyInv, DeliveredFinalized
  <1> QED
    BY <1>1, <1>3, <1>4, <1>5, <1>6, <1>7 DEF ProviderInv

\* The invariant that ties the requests, their checks, the caches, the chain
\* and the votes together.
THEOREM ProviderInvariant ==
  ASSUME Settled
  PROVE  ProviderSpec => []ProviderInv
  <1>1. ProviderInit => ProviderInv
    BY ProviderStart
  <1>2. ProviderInv /\ [ProviderNext]_providerVars => ProviderInv'
    BY ProviderStep
  <1> QED
    BY <1>1, <1>2, PTL DEF ProviderSpec

\* The service with its caches, checked block by block by any number of
\* concurrent requests while blocks and votes arrive, implements the search in
\* which a block is tested in one step.
THEOREM ImplementsSearchThm ==
  ASSUME Settled
  PROVE  ProviderSpec => ImplementsSearch
  <1>1. ProviderInit => S!Init
    BY ProviderStart
  <1>2. ProviderInv /\ [ProviderNext]_providerVars => [S!Next]_(S!vars)
    BY StepRefines
  <1> QED
    BY <1>1, <1>2, ProviderInvariant, PTL DEF ProviderSpec, ImplementsSearch, S!Spec

\* When providers vote in order of height, every number a request returns and
\* the height the requests share are final, although their checks race over
\* the caches.
THEOREM ConcurrentSoundThm ==
  ASSUME Settled, VotesInOrder
  PROVE  ProviderSpec => []ConcurrentSound
  <1>1. ProviderInv => ConcurrentSound
    BY DEF ProviderInv, FlowInv, ConcurrentSound, S!SearchInv, S!LastFinalizedSound, S!AnswerSound,
           S!LocalInv, S!SoundLocal, S!Trusted
  <1> QED
    BY <1>1, ProviderInvariant, PTL

\* When providers vote in order of height, a client that asks for the
\* finalized block gets one that has its quorum, or the unchecked block 1.
THEOREM DeliveredFinalizedThm ==
  ASSUME Settled, VotesInOrder
  PROVE  ProviderSpec => []DeliveredFinalized
  <1>1. ProviderInv => DeliveredFinalized
    BY DEF ProviderInv, FlowInv, ReplyInv
  <1> QED
    BY <1>1, ProviderInvariant, PTL
=============================================================================
