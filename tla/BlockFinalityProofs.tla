------------------------ MODULE BlockFinalityProofs ------------------------
(***************************************************************************)
(* Proofs about BlockFinality, for every number of concurrent checks,      *)
(* every chain and its reorganisations, every set of finality providers    *)
(* and every size of the caches.                                           *)
(***************************************************************************)
EXTENDS BlockFinality, StakeQuorumProofs, SequenceTheorems, TLAPS

(***************************************************************************)
(* Writing to a map.                                                       *)
(***************************************************************************)

\* A write to a full map drops the old entries, never changes their values.
LEMMA PutEntries ==
  ASSUME NEW m, NEW k, NEW v
  PROVE  /\ DOMAIN Put(m, k, v) \subseteq DOMAIN m \cup {k}
         /\ k \in DOMAIN Put(m, k, v)
         /\ \A x \in DOMAIN Put(m, k, v) :
              IF x = k THEN Put(m, k, v)[x] = v
                       ELSE x \in DOMAIN m /\ Put(m, k, v)[x] = m[x]
  <1> DEFINE kept == IF Cardinality(DOMAIN m) > CacheMapCount THEN EmptyMap ELSE m
  <1>1. DOMAIN kept \subseteq DOMAIN m /\ \A x \in DOMAIN kept : kept[x] = m[x]
    BY DEF EmptyMap
  <1>2. Put(m, k, v) = [x \in DOMAIN kept \cup {k} |-> IF x = k THEN v ELSE kept[x]]
    BY DEF Put
  <1> HIDE DEF kept
  <1> QED
    BY <1>1, <1>2

\* Writing an entry keeps the type of a map, also when the map is dropped first.
LEMMA PutType ==
  ASSUME NEW D, NEW R, NEW m, PartialMap(m, D, R), NEW k \in D, NEW v \in R
  PROVE  PartialMap(Put(m, k, v), D, R)
  <1> DEFINE p == Put(m, k, v)
  <1>1. DOMAIN m \subseteq D /\ \A x \in DOMAIN m : m[x] \in R
    BY DEF PartialMap
  <1>2. p = [x \in DOMAIN p |-> p[x]]
    BY DEF Put
  <1>3. DOMAIN p \subseteq D /\ \A x \in DOMAIN p : p[x] \in R
    BY <1>1, PutEntries
  <1> HIDE DEF p
  <1>4. PartialMap(p, D, R)
    BY <1>2, <1>3 DEF PartialMap
  <1> QED
    BY <1>4 DEF p

\* A map has at most one entry more than CacheMapCount after a write.
LEMMA PutBound ==
  ASSUME NEW m, NEW k, NEW v, IsFiniteSet(DOMAIN m)
  PROVE  Bounded(Put(m, k, v)) /\ IsFiniteSet(DOMAIN Put(m, k, v))
  <1> DEFINE kept == IF Cardinality(DOMAIN m) > CacheMapCount THEN EmptyMap ELSE m
  <1>1. DOMAIN Put(m, k, v) = DOMAIN kept \cup {k}
    BY DEF Put
  <1>2. /\ IsFiniteSet(DOMAIN kept) /\ Cardinality(DOMAIN kept) \in Nat
        /\ Cardinality(DOMAIN kept) <= CacheMapCount
    <2>1. IsFiniteSet({}) /\ Cardinality({}) = 0
      BY FS_EmptySet
    <2>2. DOMAIN EmptyMap = {}
      BY DEF EmptyMap
    <2>3. Cardinality(DOMAIN m) \in Nat
      BY FS_CardinalityType
    <2>4. CacheMapCount \in Nat
      BY BlockAssumption
    <2> QED
      BY <2>1, <2>2, <2>3, <2>4
  <1> HIDE DEF kept
  <1>3. /\ IsFiniteSet(DOMAIN kept \cup {k})
        /\ \/ Cardinality(DOMAIN kept \cup {k}) = Cardinality(DOMAIN kept)
           \/ Cardinality(DOMAIN kept \cup {k}) = Cardinality(DOMAIN kept) + 1
    BY <1>2, FS_AddElement
  <1>4. CacheMapCount \in Nat
    BY BlockAssumption
  <1> QED
    BY <1>1, <1>2, <1>3, <1>4 DEF Bounded
-----------------------------------------------------------------------------
(***************************************************************************)
(* The local state of a check.  L stands for the lists of providers that   *)
(* Babylon has had, V for the votes in the contract.                       *)
(***************************************************************************)
Asking == {"block", "fps", "btc", "power", "votes"}

Lists == SUBSET (SUBSET Fps)

\* The constants the code starts from.
LEMMA Zeros ==
  /\ NoPower \in Powers
  /\ Idle \in Check
  /\ \A L, V : LocalInv(L, V, Idle)
  <1>1. NoPower \in Powers
    BY StakeAssumption DEF NoPower, Powers
  <1>2. /\ Idle.stage = "idle" /\ Idle.step = "lookup" /\ Idle.height = 0
        /\ Idle.blk = <<0, 0>> /\ Idle.fps = {} /\ Idle.btc = 0
        /\ Idle.pow = NoPower /\ Idle.voted = {} /\ Idle.ans = FALSE
    BY DEF Idle
  <1>3. Idle \in Check
    BY <1>1, BlockAssumption DEF Idle, Check, Steps
  <1> QED
    BY <1>1, <1>2, <1>3 DEF LocalInv, Has

\* A failed call and a finished one keep nothing but the result.
LEMMA ResultInv ==
  ASSUME NEW L, NEW V, NEW q \in Check, NEW isFinalized \in BOOLEAN,
         isFinalized => q.height \in Heights /\ FinalHeight(L, V, q.height)
  PROVE  /\ Failed(q) \in Check /\ LocalInv(L, V, Failed(q))
         /\ Done(q, isFinalized) \in Check /\ LocalInv(L, V, Done(q, isFinalized))
  <1> DEFINE d == Done(q, isFinalized)
  <1>1. Failed(q) \in Check /\ d \in Check
    BY Zeros DEF Failed, Done, Check
  <1>2. /\ Failed(q).stage = "failed" /\ Failed(q).step = "lookup"
        /\ d.stage = "done" /\ d.step = "lookup"
        /\ d.height = q.height /\ d.ans = isFinalized
    BY Zeros DEF Failed, Done, Check, Idle
  <1> HIDE DEF d
  <1>3. LocalInv(L, V, Failed(q)) /\ LocalInv(L, V, d)
    BY <1>2 DEF LocalInv, Has
  <1> QED
    BY <1>1, <1>3 DEF d

\* An answered check goes on to the next stage with what it needs there, and
\* its verdict is of a quorum that exists.
LEMMA AfterInv ==
  ASSUME NEW L \in Lists, NEW V \in [Blocks -> SUBSET Fps], NEW q \in Check,
         q.stage \in Asking, LocalInv(L, V, [q EXCEPT !.step = "put"])
  PROVE  After(q) \in Check /\ LocalInv(L, V, After(q))
  <1> DEFINE p == [q EXCEPT !.step = "put"]
             e == After(q)
  <1>0. /\ p.stage = q.stage /\ p.step = "put" /\ p.height = q.height
        /\ p.blk = q.blk /\ p.fps = q.fps /\ p.btc = q.btc /\ p.pow = q.pow
        /\ p.voted = q.voted /\ p.ans = q.ans
    BY DEF Check
  <1>K. LocalInv(L, V, p)
    OBVIOUS
  <1> HIDE DEF p
  <1>B. q.blk \in Blocks /\ q.blk[1] = q.height
    BY <1>0, <1>K DEF LocalInv, Has, Asking
  <1>1. CASE q.stage = "block"
    <2>1. /\ e \in Check /\ e.stage = "fps" /\ e.step = "lookup"
          /\ e.height = q.height /\ e.blk = q.blk
      BY <1>1 DEF After, Goto, Check, Stages, Steps
    <2> HIDE DEF e
    <2>2. LocalInv(L, V, e)
      BY <2>1, <1>B DEF LocalInv, Has
    <2> QED
      BY <2>1, <2>2 DEF e
  <1>2. CASE q.stage = "fps"
    <2>1. /\ e \in Check /\ e.stage = "btc" /\ e.step = "lookup"
          /\ e.height = q.height /\ e.blk = q.blk /\ e.fps = q.fps
      BY <1>2 DEF After, Goto, Check, Stages, Steps
    <2>2. q.fps \in L
      BY <1>2, <1>0, <1>K DEF LocalInv, Has
    <2> HIDE DEF e
    <2>3. LocalInv(L, V, e)
      BY <2>1, <2>2, <1>B DEF LocalInv, Has
    <2> QED
      BY <2>1, <2>3 DEF e
  <1>3. CASE q.stage = "btc"
    <2>1. /\ e \in Check /\ e.stage = "power" /\ e.step = "lookup"
          /\ e.height = q.height /\ e.blk = q.blk /\ e.fps = q.fps /\ e.btc = q.btc
      BY <1>3 DEF After, Goto, Check, Stages, Steps
    <2>2. q.fps \in L /\ q.btc = BtcHeightOf[q.blk]
      BY <1>3, <1>0, <1>K DEF LocalInv, Has
    <2> HIDE DEF e
    <2>3. LocalInv(L, V, e)
      BY <2>1, <2>2, <1>B DEF LocalInv, Has
    <2> QED
      BY <2>1, <2>3 DEF e
  <1>4. CASE q.stage = "power"
    <2>1. PowersIn(L, BtcHeightOf[q.blk], q.pow)
      BY <1>4, <1>0, <1>K DEF LocalInv, Has
    <2>2. CASE totalPower(q.pow) = 0
      <3>1. e = [q EXCEPT !.fps = {}, !.btc = 0, !.stage = "mark", !.step = "lookup"]
        BY <1>4, <2>2 DEF After, Goto, Check
      <3>2. /\ e \in Check /\ e.stage = "mark" /\ e.step = "lookup"
            /\ e.height = q.height /\ e.blk = q.blk
        BY <3>1 DEF Check, Stages, Steps
      <3>3. FinalIn(L, V, q.blk)
        BY <2>1, <2>2, <1>B DEF FinalIn, PowersIn, QuorumReached
      <3> HIDE DEF e
      <3>4. LocalInv(L, V, e)
        BY <3>2, <3>3, <1>B DEF LocalInv, Has
      <3> QED
        BY <3>2, <3>4 DEF e
    <2>3. CASE totalPower(q.pow) # 0
      <3>1. e = [q EXCEPT !.fps = {}, !.btc = 0, !.stage = "votes", !.step = "lookup"]
        BY <1>4, <2>3 DEF After, Goto, Check
      <3>2. /\ e \in Check /\ e.stage = "votes" /\ e.step = "lookup"
            /\ e.height = q.height /\ e.blk = q.blk /\ e.pow = q.pow
        BY <3>1 DEF Check, Stages, Steps
      <3> HIDE DEF e
      <3>3. LocalInv(L, V, e)
        BY <3>2, <2>1, <1>B DEF LocalInv, Has
      <3> QED
        BY <3>2, <3>3 DEF e
    <2> QED
      BY <2>2, <2>3
  <1>5. CASE q.stage = "votes"
    <2>1. PowersIn(L, BtcHeightOf[q.blk], q.pow) /\ q.voted \subseteq V[q.blk]
      BY <1>5, <1>0, <1>K DEF LocalInv, Has
    <2>2. CASE QuorumReached(q.pow, q.voted)
      <3>1. /\ e \in Check /\ e.stage = "mark" /\ e.step = "lookup"
            /\ e.height = q.height /\ e.blk = q.blk
        BY <1>5, <2>2 DEF After, Goto, Check, Stages, Steps
      <3>2. QuorumReached(q.pow, V[q.blk])
        BY <2>1, <2>2, QuorumMonotone
      <3>3. FinalIn(L, V, q.blk)
        BY <2>1, <3>2, <1>B DEF FinalIn, PowersIn
      <3> HIDE DEF e
      <3>4. LocalInv(L, V, e)
        BY <3>1, <3>3, <1>B DEF LocalInv, Has
      <3> QED
        BY <3>1, <3>4 DEF e
    <2>3. CASE ~QuorumReached(q.pow, q.voted)
      <3>1. e = Done(q, FALSE)
        BY <1>5, <2>3 DEF After
      <3> QED
        BY <3>1, ResultInv
    <2> QED
      BY <2>2, <2>3
  <1> QED
    BY <1>1, <1>2, <1>3, <1>4, <1>5 DEF Asking
-----------------------------------------------------------------------------
(***************************************************************************)
(* The steps of a check.                                                   *)
(***************************************************************************)
\* The check moves to a sound local state.
Moved(c) ==
  \E q \in Check : LocalInv(listed, votes, q) /\ chk' = [chk EXCEPT ![c] = q]

\* What the invariant says about the types of the variables.
LEMMA InvTypes ==
  ASSUME BlockInv, NEW c \in Checks
  PROVE  /\ listed \in Lists /\ votes \in [Blocks -> SUBSET Fps]
         /\ chk[c] \in Check /\ LocalInv(listed, votes, chk[c])
  BY DEF BlockInv, TypeOK, Lists

\* A check that asks a service or fails stays sound.
LEMMA AskedInv ==
  ASSUME BlockInv, NEW c \in Checks, chk[c].stage \in Asking,
         chk[c].step = "lookup"
  PROVE  /\ [chk[c] EXCEPT !.step = "fetch"] \in Check
         /\ LocalInv(listed, votes, [chk[c] EXCEPT !.step = "fetch"])
  <1> DEFINE q == chk[c]
             e == [q EXCEPT !.step = "fetch"]
  <1>1. q \in Check /\ LocalInv(listed, votes, q)
    BY InvTypes
  <1>2. q.stage \in Asking /\ q.step = "lookup"
    OBVIOUS
  <1> HIDE DEF q
  <1>3. /\ e \in Check /\ e.stage = q.stage /\ e.step = "fetch"
        /\ e.height = q.height /\ e.blk = q.blk /\ e.fps = q.fps
        /\ e.btc = q.btc /\ e.pow = q.pow /\ e.voted = q.voted /\ e.ans = q.ans
    BY <1>1 DEF Check, Steps
  <1> HIDE DEF e
  <1>4. LocalInv(listed, votes, e)
    BY <1>1, <1>2, <1>3 DEF LocalInv, Has, Asking
  <1> QED
    BY <1>3, <1>4 DEF e, q

\* An answer about the height of the check is what its stage promises, whether
\* it comes from the cache or from the service.
LEMMA AnsweredInv ==
  ASSUME NEW L \in Lists, NEW V \in [Blocks -> SUBSET Fps], NEW q \in Check,
         LocalInv(L, V, q)
  PROVE  /\ \A b \in Blocks : q.stage = "block" /\ b[1] = q.height =>
              /\ [q EXCEPT !.blk = b, !.step = "put"] \in Check
              /\ LocalInv(L, V, [q EXCEPT !.blk = b, !.step = "put"])
         /\ \A S \in L : q.stage = "fps" =>
              /\ [q EXCEPT !.fps = S, !.step = "put"] \in Check
              /\ LocalInv(L, V, [q EXCEPT !.fps = S, !.step = "put"])
         /\ \A x : q.stage = "btc" /\ x = BtcHeightOf[q.blk] =>
              /\ [q EXCEPT !.btc = x, !.step = "put"] \in Check
              /\ LocalInv(L, V, [q EXCEPT !.btc = x, !.step = "put"])
         /\ \A m \in Powers : q.stage = "power" /\ PowersIn(L, q.btc, m) =>
              /\ [q EXCEPT !.pow = m, !.step = "put"] \in Check
              /\ LocalInv(L, V, [q EXCEPT !.pow = m, !.step = "put"])
         /\ \A S \in SUBSET V[q.blk] : q.stage = "votes" =>
              /\ [q EXCEPT !.voted = S, !.step = "put"] \in Check
              /\ LocalInv(L, V, [q EXCEPT !.voted = S, !.step = "put"])
  <1>1. ASSUME NEW b \in Blocks, q.stage = "block", b[1] = q.height
        PROVE  /\ [q EXCEPT !.blk = b, !.step = "put"] \in Check
               /\ LocalInv(L, V, [q EXCEPT !.blk = b, !.step = "put"])
    <2> DEFINE e == [q EXCEPT !.blk = b, !.step = "put"]
    <2>1. /\ e \in Check /\ e.stage = "block" /\ e.height = q.height /\ e.blk = b
      BY <1>1 DEF Check, Steps
    <2>2. q.height \in Heights
      BY <1>1 DEF LocalInv
    <2> HIDE DEF e
    <2>3. LocalInv(L, V, e)
      BY <1>1, <2>1, <2>2 DEF LocalInv, Has
    <2> QED
      BY <2>1, <2>3 DEF e
  <1>2. ASSUME NEW S \in L, q.stage = "fps"
        PROVE  /\ [q EXCEPT !.fps = S, !.step = "put"] \in Check
               /\ LocalInv(L, V, [q EXCEPT !.fps = S, !.step = "put"])
    <2> DEFINE e == [q EXCEPT !.fps = S, !.step = "put"]
    <2>1. /\ e \in Check /\ e.stage = "fps" /\ e.height = q.height /\ e.blk = q.blk
          /\ e.fps = S
      BY <1>2 DEF Check, Steps, Lists
    <2>2. q.blk \in Blocks /\ q.blk[1] = q.height
      BY <1>2 DEF LocalInv, Has
    <2> HIDE DEF e
    <2>3. LocalInv(L, V, e)
      BY <1>2, <2>1, <2>2 DEF LocalInv, Has
    <2> QED
      BY <2>1, <2>3 DEF e
  <1>3. ASSUME NEW x, q.stage = "btc", x = BtcHeightOf[q.blk]
        PROVE  /\ [q EXCEPT !.btc = x, !.step = "put"] \in Check
               /\ LocalInv(L, V, [q EXCEPT !.btc = x, !.step = "put"])
    <2> DEFINE e == [q EXCEPT !.btc = x, !.step = "put"]
    <2>1. q.blk \in Blocks /\ q.blk[1] = q.height /\ q.fps \in L
      BY <1>3 DEF LocalInv, Has
    <2>2. x \in BtcHeights
      BY <1>3, <2>1, BlockAssumption DEF Blocks
    <2>3. /\ e \in Check /\ e.stage = "btc" /\ e.height = q.height /\ e.blk = q.blk
          /\ e.fps = q.fps /\ e.btc = x
      BY <1>3, <2>2 DEF Check, Steps
    <2> HIDE DEF e
    <2>4. LocalInv(L, V, e)
      BY <1>3, <2>1, <2>3 DEF LocalInv, Has
    <2> QED
      BY <2>3, <2>4 DEF e
  <1>4. ASSUME NEW m \in Powers, q.stage = "power", PowersIn(L, q.btc, m)
        PROVE  /\ [q EXCEPT !.pow = m, !.step = "put"] \in Check
               /\ LocalInv(L, V, [q EXCEPT !.pow = m, !.step = "put"])
    <2> DEFINE e == [q EXCEPT !.pow = m, !.step = "put"]
    <2>1. /\ e \in Check /\ e.stage = "power" /\ e.height = q.height /\ e.blk = q.blk
          /\ e.fps = q.fps /\ e.btc = q.btc /\ e.pow = m
      BY <1>4 DEF Check, Steps
    <2>2. /\ q.blk \in Blocks /\ q.blk[1] = q.height /\ q.fps \in L
          /\ q.btc = BtcHeightOf[q.blk]
      BY <1>4 DEF LocalInv, Has
    <2> HIDE DEF e
    <2>3. LocalInv(L, V, e)
      BY <1>4, <2>1, <2>2 DEF LocalInv, Has
    <2> QED
      BY <2>1, <2>3 DEF e
  <1>5. ASSUME NEW S \in SUBSET V[q.blk], q.stage = "votes"
        PROVE  /\ [q EXCEPT !.voted = S, !.step = "put"] \in Check
               /\ LocalInv(L, V, [q EXCEPT !.voted = S, !.step = "put"])
    <2> DEFINE e == [q EXCEPT !.voted = S, !.step = "put"]
    <2>1. /\ q.blk \in Blocks /\ q.blk[1] = q.height
          /\ PowersIn(L, BtcHeightOf[q.blk], q.pow)
      BY <1>5 DEF LocalInv, Has
    <2>2. S \subseteq Fps
      BY <2>1
    <2>3. /\ e \in Check /\ e.stage = "votes" /\ e.height = q.height /\ e.blk = q.blk
          /\ e.pow = q.pow /\ e.voted = S
      BY <1>5, <2>2 DEF Check, Steps
    <2> HIDE DEF e
    <2>4. LocalInv(L, V, e)
      BY <1>5, <2>1, <2>3 DEF LocalInv, Has
    <2> QED
      BY <2>3, <2>4 DEF e
  <1> QED
    BY <1>1, <1>2, <1>3, <1>4, <1>5
\* A check that writes its answer goes on soundly.
LEMMA WrittenInv ==
  ASSUME BlockInv, NEW c \in Checks, chk[c].stage \in Asking, chk[c].step = "put"
  PROVE  After(chk[c]) \in Check /\ LocalInv(listed, votes, After(chk[c]))
  <1> DEFINE q == chk[c]
  <1>1. q \in Check /\ LocalInv(listed, votes, q) /\ q.step = "put"
        /\ q.stage \in Asking
    BY InvTypes
  <1> HIDE DEF q
  <1>2. [q EXCEPT !.step = "put"] = q
    BY <1>1 DEF Check
  <1>3. After(q) \in Check /\ LocalInv(listed, votes, After(q))
    BY <1>1, <1>2, AfterInv, InvTypes
  <1> QED
    BY <1>3 DEF q

\* A failed call.
LEMMA FailedInv ==
  ASSUME BlockInv, NEW c \in Checks
  PROVE  Failed(chk[c]) \in Check /\ LocalInv(listed, votes, Failed(chk[c]))
  BY InvTypes, ResultInv

\* L2 answers with a block of the height it was asked for, and only such
\* blocks are in l2BlockCache.
LEMMA BlockStep ==
  ASSUME BlockInv, NEW c \in Checks, blockByNumber(c)
  PROVE  /\ Moved(c)
         /\ PartialMap(l2BlockCache', Heights, Blocks)
         /\ \A h \in DOMAIN l2BlockCache' : l2BlockCache'[h][1] = h
  <1> DEFINE q == chk[c]
             m == l2BlockCache
  <1>0. /\ q \in Check /\ LocalInv(listed, votes, q) /\ q.stage = "block"
        /\ listed \in Lists /\ votes \in [Blocks -> SUBSET Fps]
        /\ q.stage \in Asking
    BY InvTypes DEF blockByNumber, Asking
  <1>m. /\ PartialMap(m, Heights, Blocks)
        /\ \A h \in DOMAIN m : m[h] \in Blocks /\ m[h][1] = h
    BY DEF BlockInv, TypeOK, CacheInv, PartialMap
  <1>1. CASE /\ q.step = "lookup" /\ m' = m
             /\ Local(c, IF q.height \in DOMAIN m
                         THEN After([q EXCEPT !.blk = m[q.height]])
                         ELSE [q EXCEPT !.step = "fetch"])
    <2>1. CASE q.height \in DOMAIN m
      <3> DEFINE hit == [q EXCEPT !.blk = m[q.height]]
      <3>1. m[q.height] \in Blocks /\ m[q.height][1] = q.height
        BY <2>1, <1>m
      <3>2. /\ hit \in Check /\ hit.stage \in Asking
            /\ [hit EXCEPT !.step = "put"]
                 = [q EXCEPT !.blk = m[q.height], !.step = "put"]
        BY <3>1, <1>0 DEF Check
      <3>3. LocalInv(listed, votes, [hit EXCEPT !.step = "put"])
        BY <3>1, <3>2, <1>0, AnsweredInv
      <3>4. After(hit) \in Check /\ LocalInv(listed, votes, After(hit))
        BY <3>2, <3>3, <1>0, AfterInv
      <3> QED
        BY <1>1, <1>m, <2>1, <3>4 DEF Local, Moved
    <2>2. CASE q.height \notin DOMAIN m
      BY <1>0, <1>1, <1>m, <2>2, AskedInv DEF Local, Moved
    <2> QED
      BY <2>1, <2>2
  <1>2. CASE /\ q.step = "fetch" /\ m' = m
             /\ \/ \E p \in {[q EXCEPT !.blk = b] : b \in L2BlockAt(q.height)} :
                       Local(c, [p EXCEPT !.step = "put"])
                \/ Local(c, Failed(q))
    <2>1. ASSUME NEW b \in L2BlockAt(q.height),
                 Local(c, [[q EXCEPT !.blk = b] EXCEPT !.step = "put"])
          PROVE  Moved(c)
      <3>1. b \in Blocks /\ b[1] = q.height
        <4>1. chain \in Seq(Versions) /\ Len(chain) \in Heights
          BY DEF BlockInv, TypeOK
        <4>2. q.height \in DOMAIN chain /\ b = <<q.height, chain[q.height]>>
          BY <2>1 DEF L2BlockAt
        <4>3. q.height \in Heights
          BY <4>1, <4>2, BlockAssumption DEF Heights
        <4> QED
          BY <4>1, <4>2, <4>3 DEF Blocks
      <3>2. [[q EXCEPT !.blk = b] EXCEPT !.step = "put"]
              = [q EXCEPT !.blk = b, !.step = "put"]
        BY <1>0 DEF Check
      <3> QED
        BY <2>1, <3>1, <3>2, <1>0, AnsweredInv DEF Local, Moved
    <2>2. Local(c, Failed(q)) => Moved(c)
      BY FailedInv DEF Local, Moved
    <2> QED
      BY <1>2, <2>1, <2>2, <1>m
  <1>3. CASE /\ q.step = "put" /\ m' = Put(m, q.height, q.blk)
             /\ Local(c, After(q))
    <2>1. q.blk \in Blocks /\ q.blk[1] = q.height /\ q.height \in Heights
      BY <1>0, <1>3 DEF LocalInv, Has
    <2>2. Moved(c)
      BY <1>0, <1>3, WrittenInv DEF Local, Moved
    <2>3. PartialMap(m', Heights, Blocks)
      BY <1>3, <1>m, <2>1, PutType
    <2>4. \A h \in DOMAIN m' : m'[h][1] = h
      BY <1>3, <1>m, <2>1, PutEntries
    <2> QED
      BY <2>2, <2>3, <2>4
  <1> QED
    BY <1>1, <1>2, <1>3 DEF blockByNumber, Cached
\* Whatever is in btcblockHeightCache is the BTC height of its block.
LEMMA BtcStep ==
  ASSUME BlockInv, NEW c \in Checks, getBlockHeightByTimestamp(c)
  PROVE  /\ Moved(c)
         /\ PartialMap(btcblockHeightCache', Blocks, BtcHeights)
         /\ \A k \in DOMAIN btcblockHeightCache' : btcblockHeightCache'[k] = BtcHeightOf[k]
  <1> DEFINE q == chk[c]
             m == btcblockHeightCache
             a == BtcHeightOf[q.blk]
  <1>0. /\ q \in Check /\ LocalInv(listed, votes, q) /\ q.stage = "btc"
        /\ listed \in Lists /\ votes \in [Blocks -> SUBSET Fps]
        /\ q.stage \in Asking
    BY InvTypes DEF getBlockHeightByTimestamp, Asking
  <1>m. /\ PartialMap(m, Blocks, BtcHeights)
        /\ \A k \in DOMAIN m : m[k] \in BtcHeights /\ m[k] = BtcHeightOf[k]
    BY DEF BlockInv, TypeOK, CacheInv, PartialMap
  <1>k. /\ q.blk \in Blocks /\ q.blk[1] = q.height
        /\ BtcHeightOf[q.blk] \in BtcHeights
    BY <1>0, BlockAssumption DEF LocalInv, Has
  <1>1. CASE /\ q.step = "lookup" /\ m' = m
             /\ Local(c, IF q.blk \in DOMAIN m
                         THEN After([q EXCEPT !.btc = m[q.blk]])
                         ELSE [q EXCEPT !.step = "fetch"])
    <2>1. CASE q.blk \in DOMAIN m
      <3> DEFINE hit == [q EXCEPT !.btc = m[q.blk]]
      <3>1. m[q.blk] \in BtcHeights /\ m[q.blk] = BtcHeightOf[q.blk]
        BY <2>1, <1>m
      <3>2. /\ hit \in Check /\ hit.stage \in Asking
            /\ [hit EXCEPT !.step = "put"]
                 = [q EXCEPT !.btc = m[q.blk], !.step = "put"]
        BY <3>1, <1>0 DEF Check
      <3>3. LocalInv(listed, votes, [hit EXCEPT !.step = "put"])
        BY <3>1, <3>2, <1>0, <1>k, AnsweredInv
      <3>4. After(hit) \in Check /\ LocalInv(listed, votes, After(hit))
        BY <3>2, <3>3, <1>0, AfterInv
      <3> QED
        BY <1>1, <1>m, <2>1, <3>4 DEF Local, Moved
    <2>2. CASE q.blk \notin DOMAIN m
      BY <1>0, <1>1, <1>m, <2>2, AskedInv DEF Local, Moved
    <2> QED
      BY <2>1, <2>2
  <1>2. CASE /\ q.step = "fetch" /\ m' = m
             /\ \/ Local(c, [[q EXCEPT !.btc = a] EXCEPT !.step = "put"])
                \/ Local(c, Failed(q))
    <2>1. [[q EXCEPT !.btc = a] EXCEPT !.step = "put"]
            = [q EXCEPT !.btc = a, !.step = "put"]
      BY <1>0 DEF Check
    <2>2. /\ [q EXCEPT !.btc = a, !.step = "put"] \in Check
          /\ LocalInv(listed, votes, [q EXCEPT !.btc = a, !.step = "put"])
      BY <1>0, <1>k, AnsweredInv
    <2>3. Local(c, Failed(q)) => Moved(c)
      BY FailedInv DEF Local, Moved
    <2> HIDE DEF a, q
    <2>4. Moved(c)
      BY <1>2, <2>1, <2>2, <2>3 DEF Local, Moved
    <2> QED
      BY <1>2, <2>4, <1>m
  <1>3. CASE /\ q.step = "put" /\ m' = Put(m, q.blk, q.btc)
             /\ Local(c, After(q))
    <2>1. q.blk \in Blocks /\ q.btc \in BtcHeights /\ q.btc = BtcHeightOf[q.blk]
      BY <1>0, <1>3, <1>k DEF LocalInv, Has, Check
    <2>2. Moved(c)
      BY <1>0, <1>3, WrittenInv DEF Local, Moved
    <2>3. PartialMap(m', Blocks, BtcHeights)
      BY <1>3, <1>m, <2>1, PutType
    <2>4. \A k \in DOMAIN m' : m'[k] = BtcHeightOf[k]
      BY <1>3, <1>m, <2>1, PutEntries
    <2> QED
      BY <2>2, <2>3, <2>4
  <1> QED
    BY <1>1, <1>2, <1>3 DEF getBlockHeightByTimestamp, Cached

\* Powers are cached by BTC height alone, and are the powers of some list that
\* Babylon has had.
LEMMA PowerStep ==
  ASSUME BlockInv, NEW c \in Checks, queryMultiFpPower(c)
  PROVE  /\ Moved(c)
         /\ PartialMap(multiFpPowerCache', BtcHeights, Powers)
         /\ \A k \in DOMAIN multiFpPowerCache' : PowersIn(listed, k, multiFpPowerCache'[k])
  <1> DEFINE q == chk[c]
             m == multiFpPowerCache
             a == PowerOf(Power[q.btc], q.fps)
  <1>0. /\ q \in Check /\ LocalInv(listed, votes, q) /\ q.stage = "power"
        /\ listed \in Lists /\ votes \in [Blocks -> SUBSET Fps]
        /\ q.stage \in Asking
    BY InvTypes DEF queryMultiFpPower, Asking
  <1>m. /\ PartialMap(m, BtcHeights, Powers)
        /\ \A k \in DOMAIN m : m[k] \in Powers /\ PowersIn(listed, k, m[k])
    BY DEF BlockInv, TypeOK, CacheInv, PartialMap
  <1>k. /\ q.fps \in listed /\ q.btc = BtcHeightOf[q.blk] /\ q.btc \in BtcHeights
        /\ a \in Powers /\ PowersIn(listed, q.btc, a)
    <2>1. /\ q.fps \in listed /\ q.btc = BtcHeightOf[q.blk]
          /\ q.blk \in Blocks /\ q.blk[1] = q.height
      BY <1>0 DEF LocalInv, Has
    <2>2. q.btc \in BtcHeights
      BY <2>1, BlockAssumption DEF Blocks
    <2>3. Power[q.btc] \in Powers
      BY <2>2, BlockAssumption
    <2>4. a \in Powers
      BY <2>3, StakeAssumption DEF PowerOf, Powers
    <2> QED
      BY <2>1, <2>2, <2>4 DEF PowersIn
  <1>1. CASE /\ q.step = "lookup" /\ m' = m
             /\ Local(c, IF q.btc \in DOMAIN m
                         THEN After([q EXCEPT !.pow = m[q.btc]])
                         ELSE [q EXCEPT !.step = "fetch"])
    <2>1. CASE q.btc \in DOMAIN m
      <3> DEFINE hit == [q EXCEPT !.pow = m[q.btc]]
      <3>1. m[q.btc] \in Powers /\ PowersIn(listed, q.btc, m[q.btc])
        BY <2>1, <1>m
      <3>2. /\ hit \in Check /\ hit.stage \in Asking
            /\ [hit EXCEPT !.step = "put"]
                 = [q EXCEPT !.pow = m[q.btc], !.step = "put"]
        BY <3>1, <1>0 DEF Check
      <3>3. LocalInv(listed, votes, [hit EXCEPT !.step = "put"])
        BY <3>1, <3>2, <1>0, <1>k, AnsweredInv
      <3>4. After(hit) \in Check /\ LocalInv(listed, votes, After(hit))
        BY <3>2, <3>3, <1>0, AfterInv
      <3> QED
        BY <1>1, <1>m, <2>1, <3>4 DEF Local, Moved
    <2>2. CASE q.btc \notin DOMAIN m
      BY <1>0, <1>1, <1>m, <2>2, AskedInv DEF Local, Moved
    <2> QED
      BY <2>1, <2>2
  <1>2. CASE /\ q.step = "fetch" /\ m' = m
             /\ \/ Local(c, [[q EXCEPT !.pow = a] EXCEPT !.step = "put"])
                \/ Local(c, Failed(q))
    <2>1. [[q EXCEPT !.pow = a] EXCEPT !.step = "put"]
            = [q EXCEPT !.pow = a, !.step = "put"]
      BY <1>0 DEF Check
    <2>2. /\ [q EXCEPT !.pow = a, !.step = "put"] \in Check
          /\ LocalInv(listed, votes, [q EXCEPT !.pow = a, !.step = "put"])
      BY <1>0, <1>k, AnsweredInv
    <2>3. Local(c, Failed(q)) => Moved(c)
      BY FailedInv DEF Local, Moved
    <2> HIDE DEF a, q
    <2>4. Moved(c)
      BY <1>2, <2>1, <2>2, <2>3 DEF Local, Moved
    <2> QED
      BY <1>2, <2>4, <1>m
  <1>3. CASE /\ q.step = "put" /\ m' = Put(m, q.btc, q.pow)
             /\ Local(c, After(q))
    <2>1. q.btc \in BtcHeights /\ q.pow \in Powers /\ PowersIn(listed, q.btc, q.pow)
      BY <1>0, <1>3, <1>k DEF LocalInv, Has, Check
    <2>2. Moved(c)
      BY <1>0, <1>3, WrittenInv DEF Local, Moved
    <2>3. PartialMap(m', BtcHeights, Powers)
      BY <1>3, <1>m, <2>1, PutType
    <2>4. \A k \in DOMAIN m' : PowersIn(listed, k, m'[k])
      BY <1>3, <1>m, <2>1, PutEntries
    <2> QED
      BY <2>2, <2>3, <2>4
  <1> QED
    BY <1>1, <1>2, <1>3 DEF queryMultiFpPower, Cached

\* The votes in votedFpPksCache are in the contract, if not all of them.
LEMMA VotesStep ==
  ASSUME BlockInv, NEW c \in Checks, queryListOfVotedFinalityProviders(c)
  PROVE  /\ Moved(c)
         /\ PartialMap(votedFpPksCache', Blocks, SUBSET Fps)
         /\ \A k \in DOMAIN votedFpPksCache' : votedFpPksCache'[k] \subseteq votes[k]
  <1> DEFINE q == chk[c]
             m == votedFpPksCache
             a == votes[q.blk]
  <1>0. /\ q \in Check /\ LocalInv(listed, votes, q) /\ q.stage = "votes"
        /\ listed \in Lists /\ votes \in [Blocks -> SUBSET Fps]
        /\ q.stage \in Asking
    BY InvTypes DEF queryListOfVotedFinalityProviders, Asking
  <1>m. /\ PartialMap(m, Blocks, SUBSET Fps)
        /\ \A k \in DOMAIN m : m[k] \in SUBSET Fps /\ m[k] \subseteq votes[k]
    BY DEF BlockInv, TypeOK, CacheInv, PartialMap
  <1>k. q.blk \in Blocks /\ votes[q.blk] \subseteq Fps
    BY <1>0 DEF LocalInv, Has
  <1>1. CASE /\ q.step = "lookup" /\ m' = m
             /\ Local(c, IF q.blk \in DOMAIN m
                         THEN After([q EXCEPT !.voted = m[q.blk]])
                         ELSE [q EXCEPT !.step = "fetch"])
    <2>1. CASE q.blk \in DOMAIN m
      <3> DEFINE hit == [q EXCEPT !.voted = m[q.blk]]
      <3>1. m[q.blk] \in SUBSET Fps /\ m[q.blk] \subseteq votes[q.blk]
        BY <2>1, <1>m
      <3>2. /\ hit \in Check /\ hit.stage \in Asking
            /\ [hit EXCEPT !.step = "put"]
                 = [q EXCEPT !.voted = m[q.blk], !.step = "put"]
        BY <3>1, <1>0 DEF Check
      <3>3. LocalInv(listed, votes, [hit EXCEPT !.step = "put"])
        BY <3>1, <3>2, <1>0, <1>k, AnsweredInv
      <3>4. After(hit) \in Check /\ LocalInv(listed, votes, After(hit))
        BY <3>2, <3>3, <1>0, AfterInv
      <3> QED
        BY <1>1, <1>m, <2>1, <3>4 DEF Local, Moved
    <2>2. CASE q.blk \notin DOMAIN m
      BY <1>0, <1>1, <1>m, <2>2, AskedInv DEF Local, Moved
    <2> QED
      BY <2>1, <2>2
  <1>2. CASE /\ q.step = "fetch" /\ m' = m
             /\ \/ Local(c, [[q EXCEPT !.voted = a] EXCEPT !.step = "put"])
                \/ Local(c, Failed(q))
    <2>1. [[q EXCEPT !.voted = a] EXCEPT !.step = "put"]
            = [q EXCEPT !.voted = a, !.step = "put"]
      BY <1>0 DEF Check
    <2>2. /\ [q EXCEPT !.voted = a, !.step = "put"] \in Check
          /\ LocalInv(listed, votes, [q EXCEPT !.voted = a, !.step = "put"])
      BY <1>0, <1>k, AnsweredInv
    <2>3. Local(c, Failed(q)) => Moved(c)
      BY FailedInv DEF Local, Moved
    <2> HIDE DEF a, q
    <2>4. Moved(c)
      BY <1>2, <2>1, <2>2, <2>3 DEF Local, Moved
    <2> QED
      BY <1>2, <2>4, <1>m
  <1>3. CASE /\ q.step = "put" /\ m' = Put(m, q.blk, q.voted)
             /\ Local(c, After(q))
    <2>1. q.blk \in Blocks /\ q.voted \in SUBSET Fps /\ q.voted \subseteq votes[q.blk]
      BY <1>0, <1>3, <1>k DEF LocalInv, Has, Check
    <2>2. Moved(c)
      BY <1>0, <1>3, WrittenInv DEF Local, Moved
    <2>3. PartialMap(m', Blocks, SUBSET Fps)
      BY <1>3, <1>m, <2>1, PutType
    <2>4. \A k \in DOMAIN m' : m'[k] \subseteq votes[k]
      BY <1>3, <1>m, <2>1, PutEntries
    <2> QED
      BY <2>2, <2>3, <2>4
  <1> QED
    BY <1>1, <1>2, <1>3 DEF queryListOfVotedFinalityProviders, Cached

\* The providers a check works with are a list that Babylon has had.
LEMMA FpsStep ==
  ASSUME BlockInv, NEW c \in Checks, queryAllFpBtcPubKeys(c)
  PROVE  /\ Moved(c)
         /\ allFpsCache' \subseteq Fps /\ allFpsFresh' \in BOOLEAN
         /\ allFpsCache' = {} \/ allFpsCache' \in listed
  <1> DEFINE q == chk[c]
  <1>0. /\ q \in Check /\ LocalInv(listed, votes, q) /\ q.stage = "fps"
        /\ listed \in Lists /\ votes \in [Blocks -> SUBSET Fps]
        /\ q.stage \in Asking
    BY InvTypes DEF queryAllFpBtcPubKeys, Asking
  <1>m. /\ allFpsCache \subseteq Fps /\ allFpsFresh \in BOOLEAN
        /\ allFpsCache = {} \/ allFpsCache \in listed
        /\ registered \in listed
    BY DEF BlockInv, TypeOK, CacheInv
  <1>1. ASSUME NEW S \in listed
        PROVE  /\ [q EXCEPT !.fps = S, !.step = "put"] \in Check
               /\ LocalInv(listed, votes, [q EXCEPT !.fps = S, !.step = "put"])
    BY <1>0, AnsweredInv
  <1>2. CASE /\ q.step = "lookup" /\ UNCHANGED fps
             /\ Local(c, IF allFpsCache # {} /\ allFpsFresh
                         THEN After([q EXCEPT !.fps = allFpsCache])
                         ELSE [q EXCEPT !.step = "fetch"])
    <2>1. CASE allFpsCache # {} /\ allFpsFresh
      <3> DEFINE hit == [q EXCEPT !.fps = allFpsCache]
      <3>1. /\ hit \in Check /\ hit.stage \in Asking
            /\ [hit EXCEPT !.step = "put"]
                 = [q EXCEPT !.fps = allFpsCache, !.step = "put"]
        BY <1>m, <1>0 DEF Check
      <3>2. LocalInv(listed, votes, [hit EXCEPT !.step = "put"])
        BY <2>1, <3>1, <1>m, <1>1
      <3>3. After(hit) \in Check /\ LocalInv(listed, votes, After(hit))
        BY <3>1, <3>2, <1>0, AfterInv
      <3> QED
        BY <1>2, <1>m, <2>1, <3>3 DEF Local, Moved, fps
    <2>2. CASE ~(allFpsCache # {} /\ allFpsFresh)
      BY <1>0, <1>2, <1>m, <2>2, AskedInv DEF Local, Moved, fps
    <2> QED
      BY <2>1, <2>2
  <1>3. CASE /\ q.step = "fetch" /\ UNCHANGED fps
             /\ \/ Local(c, [q EXCEPT !.fps = registered, !.step = "put"])
                \/ Local(c, Failed(q))
    <2>1. Moved(c)
      BY <1>1, <1>3, <1>m, FailedInv DEF Local, Moved
    <2> QED
      BY <1>3, <2>1, <1>m DEF fps
  <1>4. CASE /\ q.step = "put" /\ allFpsCache' = q.fps /\ allFpsFresh' = TRUE
             /\ Local(c, After(q))
    <2>1. q.fps \in listed
      BY <1>0, <1>4 DEF LocalInv, Has
    <2>2. Moved(c)
      BY <1>0, <1>4, WrittenInv DEF Local, Moved
    <2> QED
      BY <1>0, <1>4, <2>1, <2>2 DEF Lists
  <1> QED
    BY <1>2, <1>3, <1>4 DEF queryAllFpBtcPubKeys

\* Only heights with a quorum enter finalizedCache.
LEMMA MarkStep ==
  ASSUME BlockInv, NEW c \in Checks, markFinalized(c)
  PROVE  /\ Moved(c)
         /\ PartialMap(finalizedCache', Heights, {TRUE})
         /\ \A h \in DOMAIN finalizedCache' : FinalHeight(listed, votes, h)
         /\ verdicts' \subseteq Blocks
         /\ \A b \in verdicts' : FinalIn(listed, votes, b)
  <1> DEFINE q == chk[c]
             m == finalizedCache
  <1>0. /\ q \in Check /\ LocalInv(listed, votes, q) /\ q.stage = "mark"
    BY InvTypes DEF markFinalized
  <1>m. /\ PartialMap(m, Heights, {TRUE}) /\ verdicts \subseteq Blocks
        /\ \A h \in DOMAIN m : FinalHeight(listed, votes, h)
        /\ \A b \in verdicts : FinalIn(listed, votes, b)
    BY DEF BlockInv, TypeOK, CacheInv
  <1>1. q.blk \in Blocks /\ q.blk[1] = q.height /\ FinalIn(listed, votes, q.blk)
    BY <1>0 DEF LocalInv, Has
  <1>2. q.blk = <<q.height, q.blk[2]>> /\ q.blk[2] \in Versions /\ q.height \in Heights
    BY <1>1 DEF Blocks
  <1>3. FinalHeight(listed, votes, q.height)
    BY <1>1, <1>2 DEF FinalHeight
  <1>4. m' = Put(m, q.height, TRUE) /\ verdicts' = verdicts \cup {q.blk}
        /\ Local(c, Done(q, TRUE))
    BY DEF markFinalized
  <1>5. Moved(c)
    BY <1>0, <1>2, <1>3, <1>4, ResultInv DEF Local, Moved
  <1>6. PartialMap(m', Heights, {TRUE})
    BY <1>2, <1>4, <1>m, PutType
  <1>7. \A h \in DOMAIN m' : FinalHeight(listed, votes, h)
    <2>1. SUFFICES ASSUME NEW h \in DOMAIN Put(m, q.height, TRUE)
                   PROVE  FinalHeight(listed, votes, h)
      BY <1>4
    <2>2. h = q.height \/ h \in DOMAIN m
      BY PutEntries, ZenonT(40)
    <2> QED
      BY <2>2, <1>3, <1>m
  <1>8. verdicts' \subseteq Blocks /\ \A b \in verdicts' : FinalIn(listed, votes, b)
    BY <1>1, <1>4, <1>m
  <1> QED
    BY <1>5, <1>6, <1>7, <1>8

\* A hit in finalizedCache is a quorum that exists.
LEMMA LookupStep ==
  ASSUME BlockInv, NEW c \in Checks, lookupFinalized(c)
  PROVE  Moved(c)
  <1> DEFINE q == chk[c]
  <1>0. /\ q \in Check /\ LocalInv(listed, votes, q) /\ q.stage = "final"
    BY InvTypes DEF lookupFinalized
  <1>1. q.height \in Heights
    BY <1>0 DEF LocalInv
  <1>2. CASE q.height \in DOMAIN finalizedCache
    <2>1. FinalHeight(listed, votes, q.height)
      BY <1>2 DEF BlockInv, CacheInv
    <2>2. Local(c, Done(q, TRUE))
      BY <1>2 DEF lookupFinalized
    <2> QED
      BY <1>0, <1>1, <2>1, <2>2, ResultInv DEF Local, Moved
  <1>3. CASE q.height \notin DOMAIN finalizedCache
    <2> DEFINE e == [q EXCEPT !.stage = "block", !.step = "lookup"]
    <2>1. Local(c, e)
      BY <1>3 DEF lookupFinalized, Goto
    <2>2. e \in Check /\ e.stage = "block" /\ e.step = "lookup" /\ e.height = q.height
      BY <1>0 DEF Check, Stages, Steps
    <2> HIDE DEF e
    <2>3. LocalInv(listed, votes, e)
      BY <1>1, <2>2 DEF LocalInv, Has
    <2> QED
      BY <2>1, <2>2, <2>3 DEF Local, Moved
  <1> QED
    BY <1>2, <1>3

\* A call begins with its height and nothing else, and ends with nothing.
LEMMA CallStep ==
  ASSUME BlockInv, NEW c \in Checks,
         (\E h \in Heights : Begin(c, h)) \/ End(c)
  PROVE  Moved(c)
  <1>1. ASSUME NEW h \in Heights, Begin(c, h)
        PROVE  Moved(c)
    <2> DEFINE e == [[Idle EXCEPT !.stage = "final", !.step = "lookup"] EXCEPT !.height = h]
    <2>1. Local(c, e)
      BY <1>1 DEF Begin, Goto
    <2>2. h \in 0..MaxHeight
      BY <1>1, BlockAssumption DEF Heights
    <2>3. e \in Check /\ e.stage = "final" /\ e.step = "lookup" /\ e.height = h
      BY <2>2, Zeros DEF Check, Stages, Steps
    <2> HIDE DEF e
    <2>4. LocalInv(listed, votes, e)
      BY <1>1, <2>3 DEF LocalInv, Has
    <2> QED
      BY <2>1, <2>3, <2>4 DEF Local, Moved
  <1>2. End(c) => Moved(c)
    BY Zeros DEF End, Local, Moved
  <1> QED
    BY <1>1, <1>2

-----------------------------------------------------------------------------
(***************************************************************************)
(* The steps of L2, of the contract and of Babylon.                        *)
(***************************************************************************)
\* What was finalized stays so when lists and votes are added.
LEMMA GrowInv ==
  ASSUME NEW L \in Lists, NEW V \in [Blocks -> SUBSET Fps],
         NEW L1 \in Lists, NEW V1 \in [Blocks -> SUBSET Fps],
         L \subseteq L1, \A b \in Blocks : V[b] \subseteq V1[b]
  PROVE  /\ \A b \in Blocks : FinalIn(L, V, b) => FinalIn(L1, V1, b)
         /\ \A h \in Heights : FinalHeight(L, V, h) => FinalHeight(L1, V1, h)
         /\ \A x, m : PowersIn(L, x, m) => PowersIn(L1, x, m)
         /\ \A q \in Check : LocalInv(L, V, q) => LocalInv(L1, V1, q)
  <1>1. ASSUME NEW b \in Blocks, FinalIn(L, V, b)
        PROVE  FinalIn(L1, V1, b)
    <2>1. PICK S \in L : QuorumReached(PowerOf(Power[BtcHeightOf[b]], S), V[b])
      BY <1>1 DEF FinalIn
    <2>2. QuorumReached(PowerOf(Power[BtcHeightOf[b]], S), V1[b])
      BY <2>1, QuorumMonotone
    <2> QED
      BY <2>2 DEF FinalIn
  <1>2. ASSUME NEW h \in Heights, FinalHeight(L, V, h)
        PROVE  FinalHeight(L1, V1, h)
    BY <1>1, <1>2 DEF FinalHeight, Blocks
  <1>3. \A x, m : PowersIn(L, x, m) => PowersIn(L1, x, m)
    BY DEF PowersIn
  <1>4. ASSUME NEW q \in Check, LocalInv(L, V, q)
        PROVE  LocalInv(L1, V1, q)
    <2>1. Has(q, "block", {"fps", "btc", "power", "votes", "mark"}) =>
            q.blk \in Blocks /\ q.blk[1] = q.height
      BY <1>4 DEF LocalInv
    <2>2. Has(q, "votes", {}) => q.voted \subseteq V1[q.blk]
      BY <1>4, <2>1 DEF LocalInv, Has
    <2>3. q.stage = "mark" => FinalIn(L1, V1, q.blk)
      BY <1>4, <2>1, <1>1 DEF LocalInv, Has
    <2>4. q.stage = "done" /\ q.ans => FinalHeight(L1, V1, q.height)
      BY <1>2, <1>4 DEF LocalInv
    <2>5. Has(q, "fps", {"btc", "power"}) => q.fps \in L1
      BY <1>4 DEF LocalInv
    <2>6. Has(q, "power", {"votes"}) => PowersIn(L1, BtcHeightOf[q.blk], q.pow)
      BY <1>4, <1>3 DEF LocalInv
    <2> QED
      BY <1>4, <2>1, <2>2, <2>3, <2>4, <2>5, <2>6 DEF LocalInv
  <1> QED
    BY <1>1, <1>2, <1>3, <1>4

\* L2 may grow or be reorganised, votes and lists only grow.
LEMMA EnvStep ==
  ASSUME BlockInv, Environment
  PROVE  /\ chain' \in Seq(Versions) /\ Len(chain') \in Heights
         /\ votes' \in [Blocks -> SUBSET Fps]
         /\ registered' \subseteq Fps /\ registered' \in listed' /\ listed' \in Lists
         /\ allFpsFresh' \in BOOLEAN
         /\ listed \subseteq listed'
         /\ \A b \in Blocks : votes[b] \subseteq votes'[b]
         /\ HonestVotes'
         /\ UNCHANGED <<caches, allFpsCache, chk, verdicts>>
  <1> USE BlockAssumption
  <1>0. /\ chain \in Seq(Versions) /\ Len(chain) \in 1..MaxHeight
        /\ votes \in [Blocks -> SUBSET Fps] /\ registered \subseteq Fps
        /\ allFpsFresh \in BOOLEAN
        /\ listed \in Lists /\ registered \in listed /\ HonestVotes
    BY DEF BlockInv, TypeOK, Lists, Heights
  <1>1. Reorgs \in Versions
    BY <1>0 DEF Reorgs
  <1>3. ASSUME NEW h \in Heights, NewBlock(h)
        PROVE  /\ chain' \in Seq(Versions) /\ Len(chain') \in Heights
               /\ UNCHANGED <<votes, registered, listed, service>>
    <2> DEFINE v == Reorgs + (IF h \in DOMAIN chain THEN 1 ELSE 0)
    <2>1. /\ chain' = Append(SubSeq(chain, 1, h - 1), v)
          /\ h \in 1..(Len(chain) + 1) /\ v <= MaxReorgs
          /\ UNCHANGED <<votes, registered, listed, service>>
      BY <1>0, <1>3 DEF NewBlock, Heights
    <2>2. v \in Versions
      BY <1>1, <2>1 DEF Versions
    <2> HIDE DEF v
    <2>3. SubSeq(chain, 1, h - 1) \in Seq(Versions) /\ Len(SubSeq(chain, 1, h - 1)) = h - 1
      <3>1. \A i \in 1..(h - 1) : chain[i] \in Versions
        BY <1>0, <2>1
      <3> QED
        BY <1>0, <2>1, <3>1, SubSeqProperties
    <2>4. chain' \in Seq(Versions) /\ Len(chain') = h
      BY <2>1, <2>2, <2>3
    <2> QED
      BY <1>3, <2>1, <2>4
  <1>4. CASE \E h \in Heights : NewBlock(h)
    BY <1>0, <1>3, <1>4 DEF service, fps, HonestVotes
  <1>5. ASSUME NEW f \in Fps, NEW h \in DOMAIN chain, Vote(f, h)
        PROVE  /\ votes' \in [Blocks -> SUBSET Fps]
               /\ \A b \in Blocks : votes[b] \subseteq votes'[b]
               /\ HonestVotes'
               /\ UNCHANGED <<chain, registered, listed, service>>
    <2> DEFINE b == <<h, chain[h]>>
    <2>1. /\ votes' = [votes EXCEPT ![b] = @ \cup {f}]
          /\ f \in Byzantine \/ \A v \in Versions : f \notin votes[<<h, v>>]
          /\ UNCHANGED <<chain, registered, listed, service>>
      BY <1>5 DEF Vote
    <2>2. b \in Blocks /\ h \in Heights /\ chain[h] \in Versions
      BY <1>0, <1>5 DEF Blocks, Heights
    <2>3. \A d \in Blocks : votes'[d] = IF d = b THEN votes[d] \cup {f} ELSE votes[d]
      BY <1>0, <2>1
    <2>4. votes' \in [Blocks -> SUBSET Fps]
      BY <1>0, <2>1
    <2>5. HonestVotes'
      <3> SUFFICES ASSUME NEW e \in Fps \ Byzantine, NEW k \in Heights,
                          NEW v \in Versions, NEW w \in Versions,
                          e \in votes'[<<k, v>>], e \in votes'[<<k, w>>]
                   PROVE  v = w
        BY DEF HonestVotes
      <3>1. <<k, v>> \in Blocks /\ <<k, w>> \in Blocks
        BY DEF Blocks
      <3>2. CASE e \in votes[<<k, v>>] /\ e \in votes[<<k, w>>]
        BY <1>0, <3>2 DEF HonestVotes
      <3>3. CASE e \notin votes[<<k, v>>]
        <4>1. e = f /\ k = h /\ v = chain[h]
          BY <2>3, <3>1, <3>3
        <4>2. e \notin votes[<<k, w>>]
          BY <2>1, <4>1
        <4> QED
          BY <2>3, <3>1, <4>1, <4>2
      <3>4. CASE e \notin votes[<<k, w>>]
        <4>1. e = f /\ k = h /\ w = chain[h]
          BY <2>3, <3>1, <3>4
        <4>2. e \notin votes[<<k, v>>]
          BY <2>1, <4>1
        <4> QED
          BY <2>3, <3>1, <4>1, <4>2
      <3> QED
        BY <3>2, <3>3, <3>4
    <2> QED
      BY <2>1, <2>3, <2>4, <2>5
  <1>6. CASE \E f \in Fps, h \in DOMAIN chain : Vote(f, h)
    BY <1>0, <1>5, <1>6 DEF service, fps, Heights
  <1>7. CASE \E f \in Fps : Register(f)
    BY <1>0, <1>7 DEF Register, service, fps, HonestVotes, Lists, Heights
  <1>8. CASE Expire
    BY <1>0, <1>8 DEF Expire, env, HonestVotes, Heights
  <1> QED
    BY <1>4, <1>6, <1>7, <1>8 DEF Environment

-----------------------------------------------------------------------------
(***************************************************************************)
(* The invariant.                                                          *)
(***************************************************************************)
LEMMA InitInv == Init => BlockInv
  <1> SUFFICES ASSUME Init PROVE BlockInv
    OBVIOUS
  <1>1. \A D, R : PartialMap(EmptyMap, D, R)
    BY DEF PartialMap, EmptyMap
  <1>2. TypeOK
    <2>1. chain \in Seq(Versions) /\ Len(chain) = 1
      BY BlockAssumption DEF Init, Versions
    <2>2. 1 \in Heights
      BY BlockAssumption DEF Heights
    <2>3. votes \in [Blocks -> SUBSET Fps] /\ chk \in [Checks -> Check]
      BY Zeros DEF Init
    <2>4. registered \subseteq Fps /\ listed \subseteq SUBSET Fps /\ registered \in listed
      BY BlockAssumption DEF Init
    <2> QED
      BY <1>1, <2>1, <2>2, <2>3, <2>4 DEF Init, TypeOK
  <1>3. CacheInv(listed, votes)
    BY DEF Init, CacheInv, EmptyMap
  <1>4. HonestVotes
    BY DEF Init, HonestVotes, Blocks
  <1>5. FoundInv
    BY DEF Init, FoundInv, Found, Idle, EmptyMap
  <1> QED
    BY <1>2, <1>3, <1>4, <1>5, Zeros DEF Init, BlockInv

\* A step of a check leaves the votes and the lists alone and keeps the rest of
\* the invariant.
LEMMA ServiceInv ==
  ASSUME BlockInv, NEW c \in Checks, Moved(c), UNCHANGED env,
         PartialMap(finalizedCache', Heights, {TRUE}),
         PartialMap(l2BlockCache', Heights, Blocks),
         PartialMap(btcblockHeightCache', Blocks, BtcHeights),
         PartialMap(multiFpPowerCache', BtcHeights, Powers),
         PartialMap(votedFpPksCache', Blocks, SUBSET Fps),
         allFpsCache' \subseteq Fps, allFpsFresh' \in BOOLEAN,
         verdicts' \subseteq Blocks,
         CacheInv(listed, votes)', FoundInv',
         \A b \in verdicts' : FinalIn(listed, votes, b)
  PROVE  BlockInv'
  <1>0. chk \in [Checks -> Check] /\ \A d \in Checks : LocalInv(listed, votes, chk[d])
    BY DEF BlockInv, TypeOK
  <1>1. PICK q \in Check : LocalInv(listed, votes, q) /\ chk' = [chk EXCEPT ![c] = q]
    BY DEF Moved
  <1>2. chk' \in [Checks -> Check] /\ \A d \in Checks : LocalInv(listed, votes, chk'[d])
    BY <1>0, <1>1
  <1>3. TypeOK'
    BY <1>2 DEF BlockInv, TypeOK, env
  <1>4. HonestVotes'
    BY DEF BlockInv, HonestVotes, env
  <1>5. listed' = listed /\ votes' = votes
    BY DEF env
  <1> QED
    BY <1>2, <1>3, <1>4, <1>5 DEF BlockInv

\* The steps of a check that ask and answer its questions report nothing.
AtStage(q) == {"stage", "step"} \subseteq DOMAIN q /\ q.stage \in Asking

Asks(c) ==
  \E q : /\ chk' = [chk EXCEPT ![c] = q]
         /\ \/ \E r : AtStage(r) /\ q = After(r)
            \/ AtStage(q)
            \/ q = Failed(chk[c])

LEMMA AsksFound ==
  ASSUME NEW F, NEW q, (\E r : AtStage(r) /\ q = After(r)) \/ AtStage(q) \/ q.stage = "failed"
  PROVE  Found(F, q)
  <1>1. ASSUME NEW r, AtStage(r) PROVE Found(F, After(r))
    <2>1. \A p, t : "stage" \in DOMAIN p => Goto(p, t).stage = t
      BY DEF Goto
    <2>2. "stage" \in DOMAIN r /\ "stage" \in DOMAIN [r EXCEPT !.fps = {}, !.btc = 0]
      BY <1>1 DEF AtStage
    <2>3. Done(r, FALSE).ans = FALSE
      BY DEF Done, Idle
    <2>4. \/ After(r) = Done(r, FALSE)
          \/ After(r).stage \in {"fps", "btc", "power", "votes", "mark"}
      <3>1. CASE r.stage = "power"
        BY <2>1, <2>2, <3>1 DEF After
      <3>2. CASE r.stage # "power"
        BY <1>1, <2>1, <2>2, <3>2 DEF After, AtStage, Asking
      <3> QED
        BY <3>1, <3>2
    <2> QED
      BY <2>3, <2>4 DEF Found
  <1>2. AtStage(q) => Found(F, q)
    BY DEF AtStage, Asking, Found
  <1> QED
    BY <1>1, <1>2 DEF Found

LEMMA Questions ==
  ASSUME BlockInv, NEW c \in Checks,
         \/ blockByNumber(c)
         \/ queryAllFpBtcPubKeys(c)
         \/ getBlockHeightByTimestamp(c)
         \/ queryMultiFpPower(c)
         \/ queryListOfVotedFinalityProviders(c)
  PROVE  Asks(c) /\ UNCHANGED <<finalizedCache, verdicts>>
  <1> DEFINE q == chk[c]
  <1>1. AtStage(q)
    BY InvTypes DEF AtStage, Asking, Check, blockByNumber, queryAllFpBtcPubKeys,
       getBlockHeightByTimestamp, queryMultiFpPower, queryListOfVotedFinalityProviders
  <1>2. /\ AtStage([q EXCEPT !.step = "fetch"])
        /\ \A x : AtStage([q EXCEPT !.blk = x]) /\ AtStage([q EXCEPT !.btc = x])
                    /\ AtStage([q EXCEPT !.pow = x]) /\ AtStage([q EXCEPT !.voted = x])
                    /\ AtStage([q EXCEPT !.fps = x])
                    /\ AtStage([q EXCEPT !.fps = x, !.step = "put"])
    BY <1>1 DEF AtStage
  <1>3. \A r : AtStage(r) => AtStage([r EXCEPT !.step = "put"])
    BY DEF AtStage
  <1>4. /\ \A r : AtStage(r) /\ Local(c, r) => Asks(c)
        /\ \A r : AtStage(r) /\ Local(c, After(r)) => Asks(c)
        /\ Local(c, Failed(q)) => Asks(c)
    BY DEF Local, Asks
  <1> HIDE DEF q
  <1>5. blockByNumber(c) => Asks(c) /\ UNCHANGED <<finalizedCache, verdicts>>
    BY <1>1, <1>2, <1>3, <1>4 DEF blockByNumber, Cached, q
  <1>6. queryAllFpBtcPubKeys(c) => Asks(c) /\ UNCHANGED <<finalizedCache, verdicts>>
    BY <1>1, <1>2, <1>3, <1>4 DEF queryAllFpBtcPubKeys, caches, q
  <1>7. getBlockHeightByTimestamp(c) => Asks(c) /\ UNCHANGED <<finalizedCache, verdicts>>
    BY <1>1, <1>2, <1>3, <1>4 DEF getBlockHeightByTimestamp, Cached, q
  <1>8. queryMultiFpPower(c) => Asks(c) /\ UNCHANGED <<finalizedCache, verdicts>>
    BY <1>1, <1>2, <1>3, <1>4 DEF queryMultiFpPower, Cached, q
  <1>9. queryListOfVotedFinalityProviders(c) => Asks(c) /\ UNCHANGED <<finalizedCache, verdicts>>
    BY <1>1, <1>2, <1>3, <1>4 DEF queryListOfVotedFinalityProviders, Cached, q
  <1> QED
    BY <1>5, <1>6, <1>7, <1>8, <1>9

\* A check reports a height because it finds it in finalizedCache, or because it
\* has just found one of its blocks finalized.
LEMMA FoundStep ==
  ASSUME BlockInv, [Next]_vars
  PROVE  FoundInv'
  <1> DEFINE F == {b[1] : b \in verdicts}
             G == {b[1] : b \in verdicts'}
  <1>0. /\ DOMAIN finalizedCache \subseteq F /\ \A d \in Checks : Found(F, chk[d])
        /\ chk \in [Checks -> Check]
    BY DEF BlockInv, FoundInv, TypeOK
  <1>1. ASSUME NEW c \in Checks, NEW q, chk' = [chk EXCEPT ![c] = q], Found(G, q),
               F \subseteq G, DOMAIN finalizedCache' \subseteq G
        PROVE  FoundInv'
    <2>1. \A d \in Checks : Found(G, chk'[d])
      BY <1>0, <1>1 DEF Found
    <2> QED
      BY <1>1, <2>1 DEF FoundInv
  <1>2. ASSUME NEW c \in Checks, NEW q, chk' = [chk EXCEPT ![c] = q], Found(F, q),
               UNCHANGED <<finalizedCache, verdicts>>
        PROVE  FoundInv'
    BY <1>0, <1>1, <1>2
  <1>3. CASE UNCHANGED <<finalizedCache, verdicts, chk>>
    BY <1>0, <1>3 DEF FoundInv
  <1>4. Environment => UNCHANGED <<finalizedCache, verdicts, chk>>
    BY DEF Environment, NewBlock, Vote, Register, Expire, service, caches
  <1>5. ASSUME NEW c \in Checks, Asks(c), UNCHANGED <<finalizedCache, verdicts>>
        PROVE  FoundInv'
    <2>1. Failed(chk[c]).stage = "failed"
      BY DEF Failed, Idle
    <2> QED
      BY <1>2, <1>5, <2>1, AsksFound DEF Asks
  <1>6. ASSUME NEW c \in Checks, (\E h \in Heights : Begin(c, h)) \/ End(c)
        PROVE  FoundInv'
    <2>1. UNCHANGED <<finalizedCache, verdicts>>
      BY <1>6 DEF Begin, End, caches
    <2>2. Found(F, Idle) /\ \A h : Found(F, [Goto(Idle, "final") EXCEPT !.height = h])
      BY DEF Found, Goto, Idle
    <2> HIDE DEF F
    <2> QED
      BY <1>2, <1>6, <2>1, <2>2 DEF Begin, End, Local
  <1>7. ASSUME NEW c \in Checks, lookupFinalized(c)
        PROVE  FoundInv'
    <2>1. UNCHANGED <<finalizedCache, verdicts>>
      BY <1>7 DEF lookupFinalized, caches
    <2>2. chk[c].height \in DOMAIN finalizedCache => Found(F, Done(chk[c], TRUE))
      BY <1>0 DEF Found, Done, Idle
    <2>3. Found(F, Goto(chk[c], "block"))
      <3>1. "stage" \in DOMAIN chk[c]
        BY <1>0 DEF Check
      <3> QED
        BY <3>1 DEF Found, Goto
    <2> HIDE DEF F
    <2> QED
      BY <1>2, <1>7, <2>1, <2>2, <2>3 DEF lookupFinalized, Local
  <1>8. ASSUME NEW c \in Checks, markFinalized(c)
        PROVE  FoundInv'
    <2> DEFINE q == chk[c]
    <2>1. /\ finalizedCache' = Put(finalizedCache, q.height, TRUE)
          /\ verdicts' = verdicts \cup {q.blk}
          /\ chk' = [chk EXCEPT ![c] = Done(q, TRUE)]
      BY <1>8 DEF markFinalized, Local
    <2>2. q.blk[1] = q.height
      BY <1>8, InvTypes DEF markFinalized, LocalInv, Has
    <2>3. F \subseteq G /\ q.height \in G
      BY <2>1, <2>2
    <2>4. DOMAIN finalizedCache' \subseteq G
      <3>1. DOMAIN finalizedCache' \subseteq DOMAIN finalizedCache \cup {q.height}
        BY <2>1, PutEntries, ZenonT(40)
      <3> QED
        BY <1>0, <2>3, <3>1
    <2>5. Found(G, Done(q, TRUE))
      BY <2>3 DEF Found, Done, Idle
    <2> QED
      BY <1>1, <2>1, <2>3, <2>4, <2>5
  <1> QED
    BY <1>3, <1>4, <1>5, <1>6, <1>7, <1>8, Questions DEF Next, CheckStep, vars

\* No step of the environment or of a check breaks the invariant.
LEMMA StepInv ==
  ASSUME BlockInv, [Next]_vars
  PROVE  BlockInv'
  <1>T. /\ PartialMap(finalizedCache, Heights, {TRUE})
        /\ PartialMap(l2BlockCache, Heights, Blocks)
        /\ PartialMap(btcblockHeightCache, Blocks, BtcHeights)
        /\ PartialMap(multiFpPowerCache, BtcHeights, Powers)
        /\ PartialMap(votedFpPksCache, Blocks, SUBSET Fps)
        /\ allFpsCache \subseteq Fps /\ allFpsFresh \in BOOLEAN
        /\ verdicts \subseteq Blocks
        /\ \A b \in verdicts : FinalIn(listed, votes, b)
        /\ CacheInv(listed, votes)
    BY DEF BlockInv, TypeOK
  <1>F. FoundInv'
    BY FoundStep
  <1>1. CASE Environment
    <2>1. /\ listed \in Lists /\ votes \in [Blocks -> SUBSET Fps]
          /\ \A c \in Checks : chk[c] \in Check /\ LocalInv(listed, votes, chk[c])
      BY InvTypes DEF BlockInv, TypeOK, Lists
    <2>2. /\ \A b \in Blocks : FinalIn(listed, votes, b) => FinalIn(listed', votes', b)
          /\ \A h \in Heights :
               FinalHeight(listed, votes, h) => FinalHeight(listed', votes', h)
          /\ \A x, m : PowersIn(listed, x, m) => PowersIn(listed', x, m)
          /\ \A q \in Check : LocalInv(listed, votes, q) => LocalInv(listed', votes', q)
      BY <1>1, <2>1, EnvStep, GrowInv
    <2>3. UNCHANGED <<caches, allFpsCache, chk, verdicts>>
      BY <1>1, EnvStep
    <2>4. TypeOK'
      BY <1>1, <2>3, EnvStep DEF BlockInv, TypeOK, caches, Lists
    <2>5. CacheInv(listed, votes)'
      <3>1. /\ DOMAIN finalizedCache \subseteq Heights
            /\ DOMAIN votedFpPksCache \subseteq Blocks
        BY <1>T DEF PartialMap
      <3>2. /\ listed \subseteq listed'
            /\ \A b \in Blocks : votes[b] \subseteq votes'[b]
        BY <1>1, EnvStep
      <3>3. \A h \in DOMAIN finalizedCache : FinalHeight(listed', votes', h)
        BY <1>T, <2>2, <3>1 DEF CacheInv
      <3>4. \A x \in DOMAIN multiFpPowerCache : PowersIn(listed', x, multiFpPowerCache[x])
        BY <1>T, <2>2 DEF CacheInv
      <3>5. \A b \in DOMAIN votedFpPksCache : votedFpPksCache[b] \subseteq votes'[b]
        BY <1>T, <3>1, <3>2 DEF CacheInv
      <3> QED
        BY <1>T, <2>3, <3>2, <3>3, <3>4, <3>5 DEF CacheInv, caches
    <2>6. \A c \in Checks : LocalInv(listed', votes', chk'[c])
      BY <2>1, <2>2, <2>3
    <2>7. \A b \in verdicts' : FinalIn(listed', votes', b)
      BY <1>T, <2>2, <2>3
    <2>8. HonestVotes'
      BY <1>1, EnvStep
    <2> QED
      BY <1>F, <2>4, <2>5, <2>6, <2>7, <2>8 DEF BlockInv
  <1>2. ASSUME NEW c \in Checks, (\E h \in Heights : Begin(c, h)) \/ End(c)
        PROVE  BlockInv'
    <2>1. UNCHANGED <<env, caches, fps, verdicts>>
      BY <1>2 DEF Begin, End
    <2>2. CacheInv(listed, votes)'
      BY <1>T, <2>1 DEF CacheInv, env, caches, fps
    <2> QED
      BY <1>2, <1>T, <1>F, <2>1, <2>2, CallStep, ServiceInv DEF caches, fps
  <1>3. ASSUME NEW c \in Checks, lookupFinalized(c)
        PROVE  BlockInv'
    <2>1. UNCHANGED <<env, caches, fps, verdicts>>
      BY <1>3 DEF lookupFinalized
    <2>2. CacheInv(listed, votes)'
      BY <1>T, <2>1 DEF CacheInv, env, caches, fps
    <2> QED
      BY <1>3, <1>T, <1>F, <2>1, <2>2, LookupStep, ServiceInv DEF caches, fps
  <1>4. ASSUME NEW c \in Checks, blockByNumber(c)
        PROVE  BlockInv'
    <2>1. UNCHANGED <<finalizedCache, btcblockHeightCache, multiFpPowerCache,
                      votedFpPksCache, env, fps, verdicts>>
      BY <1>4 DEF blockByNumber
    <2>2. CacheInv(listed, votes)'
      BY <1>T, <1>4, <2>1, BlockStep DEF CacheInv, env, fps
    <2> QED
      BY <1>4, <1>T, <1>F, <2>1, <2>2, BlockStep, ServiceInv DEF fps
  <1>5. ASSUME NEW c \in Checks, queryAllFpBtcPubKeys(c)
        PROVE  BlockInv'
    <2>1. UNCHANGED <<env, caches, verdicts>>
      BY <1>5 DEF queryAllFpBtcPubKeys
    <2>2. CacheInv(listed, votes)'
      BY <1>T, <1>5, <2>1, FpsStep DEF CacheInv, env, caches
    <2> QED
      BY <1>5, <1>T, <1>F, <2>1, <2>2, FpsStep, ServiceInv DEF caches
  <1>6. ASSUME NEW c \in Checks, getBlockHeightByTimestamp(c)
        PROVE  BlockInv'
    <2>1. UNCHANGED <<finalizedCache, l2BlockCache, multiFpPowerCache,
                      votedFpPksCache, env, fps, verdicts>>
      BY <1>6 DEF getBlockHeightByTimestamp
    <2>2. CacheInv(listed, votes)'
      BY <1>T, <1>6, <2>1, BtcStep DEF CacheInv, env, fps
    <2> QED
      BY <1>6, <1>T, <1>F, <2>1, <2>2, BtcStep, ServiceInv DEF fps
  <1>7. ASSUME NEW c \in Checks, queryMultiFpPower(c)
        PROVE  BlockInv'
    <2>1. UNCHANGED <<finalizedCache, l2BlockCache, btcblockHeightCache,
                      votedFpPksCache, env, fps, verdicts>>
      BY <1>7 DEF queryMultiFpPower
    <2>2. CacheInv(listed, votes)'
      BY <1>T, <1>7, <2>1, PowerStep DEF CacheInv, env, fps
    <2> QED
      BY <1>7, <1>T, <1>F, <2>1, <2>2, PowerStep, ServiceInv DEF fps
  <1>8. ASSUME NEW c \in Checks, queryListOfVotedFinalityProviders(c)
        PROVE  BlockInv'
    <2>1. UNCHANGED <<finalizedCache, l2BlockCache, btcblockHeightCache,
                      multiFpPowerCache, env, fps, verdicts>>
      BY <1>8 DEF queryListOfVotedFinalityProviders
    <2>2. CacheInv(listed, votes)'
      BY <1>T, <1>8, <2>1, VotesStep DEF CacheInv, env, fps
    <2> QED
      BY <1>8, <1>T, <1>F, <2>1, <2>2, VotesStep, ServiceInv DEF fps
  <1>9. ASSUME NEW c \in Checks, markFinalized(c)
        PROVE  BlockInv'
    <2>1. UNCHANGED <<l2BlockCache, btcblockHeightCache, multiFpPowerCache,
                      votedFpPksCache, env, fps>>
      BY <1>9 DEF markFinalized
    <2>2. CacheInv(listed, votes)'
      BY <1>T, <1>9, <2>1, MarkStep DEF CacheInv, env, fps
    <2> QED
      BY <1>9, <1>T, <1>F, <2>1, <2>2, MarkStep, ServiceInv DEF fps
  <1>10. CASE UNCHANGED vars
    BY <1>F, <1>10 DEF vars, BlockInv, TypeOK, CacheInv, HonestVotes
  <1> QED
    BY <1>1, <1>2, <1>3, <1>4, <1>5, <1>6, <1>7, <1>8, <1>9, <1>10
       DEF Next, CheckStep

\* Every state of the service and of its caches is well formed.
THEOREM BlockInvariant == Spec => []BlockInv
  <1>1. BlockInv /\ [Next]_vars => BlockInv'
    BY StepInv
  <1> QED
    BY InitInv, <1>1, PTL DEF Spec

\* Chain, contract, caches and checks keep their types.
THEOREM TypeCorrect == Spec => []TypeOK
  <1>1. BlockInv => TypeOK
    BY DEF BlockInv
  <1> QED
    BY BlockInvariant, <1>1, PTL

\* For any number of checks interleaved over the caches, any size of the maps,
\* any lists of providers and any reorganisation: the votes that a check counts
\* are on its own block, the powers are those at the BTC height of that block of
\* one list that Babylon has had, and what is reported was found in this way.
THEOREM FinalizedSoundThm == Spec => []FinalizedSound
  <1>1. BlockInv => FinalizedSound
    BY DEF BlockInv, FoundInv, Found, FinalIn, FinalAmong, FinalizedSound
  <1> QED
    BY BlockInvariant, <1>1, PTL

\* No list is added to the one that holds every provider.
LEMMA OneListStep ==
  ASSUME OneList, [Next]_vars
  PROVE  OneList'
  <1>1. ASSUME UNCHANGED env PROVE OneList'
    BY <1>1 DEF env, OneList
  <1>2. CASE Environment
    BY <1>2 DEF Environment, NewBlock, Vote, Register, Expire, env, OneList
  <1>3. ASSUME NEW c \in Checks,
               (\E h \in Heights : Begin(c, h)) \/ CheckStep(c) \/ End(c)
        PROVE  UNCHANGED env
    BY <1>3 DEF Begin, End, CheckStep, lookupFinalized, blockByNumber,
         queryAllFpBtcPubKeys, getBlockHeightByTimestamp, queryMultiFpPower,
         queryListOfVotedFinalityProviders, markFinalized
  <1> QED
    BY <1>1, <1>2, <1>3 DEF Next, vars, env

\* With every provider registered from the start the one list is the present
\* one, and votes are never taken back: whatever is found finalized had its
\* quorum of all the providers at that moment.
THEOREM FixedListSound ==
  ASSUME InitialFps = Fps
  PROVE  Spec => [](FinalizedSound /\ \A b \in verdicts : FinalAmong(Fps, b))
  <1>1. Init => OneList
    BY DEF Init, OneList
  <1>2. OneList /\ [Next]_vars => OneList'
    BY OneListStep
  <1>3. OneList /\ FinalizedSound =>
          FinalizedSound /\ \A b \in verdicts : FinalAmong(Fps, b)
    BY DEF OneList, FinalizedSound
  <1> QED
    BY <1>1, <1>2, <1>3, FinalizedSoundThm, PTL DEF Spec

\* A reorganisation is the one thing that takes the quorum of a height away
\* from the block it has on L2: without one, a height is reported as finalized
\* for that very block, although finalizedCache and l2BlockCache know heights
\* only, and although votes, powers and lists of providers are cached.
THEOREM ChainBlockFinalizedThm ==
  ASSUME MaxReorgs = 0
  PROVE  Spec => [](\A c \in Checks :
                      chk[c].stage = "done" /\ chk[c].ans => FinalOnChain(chk[c].height))
  <1>1. TypeOK /\ FinalizedSound =>
          \A c \in Checks :
            chk[c].stage = "done" /\ chk[c].ans => FinalOnChain(chk[c].height)
    <2> SUFFICES ASSUME TypeOK, FinalizedSound, NEW c \in Checks,
                        chk[c].stage = "done", chk[c].ans,
                        NEW d \in L2BlockAt(chk[c].height)
                 PROVE  \E S \in listed : FinalAmong(S, d)
      BY DEF FinalOnChain
    <2>1. Versions = {0}
      BY DEF Versions
    <2>2. d = <<chk[c].height, 0>>
      BY <2>1 DEF L2BlockAt, TypeOK
    <2>3. PICK b \in verdicts : b[1] = chk[c].height
      BY DEF FinalizedSound
    <2>4. b = d
      BY <2>1, <2>2, <2>3 DEF TypeOK, Blocks
    <2> QED
      BY <2>3, <2>4 DEF FinalizedSound
  <1> QED
    BY TypeCorrect, FinalizedSoundThm, <1>1, PTL
-----------------------------------------------------------------------------
(***************************************************************************)
(* Agreement.                                                              *)
(***************************************************************************)
\* A provider is added to the list that holds all that were listed before.
LEMMA ListsGrowStep ==
  ASSUME TypeOK, ListsGrow, [Next]_vars
  PROVE  ListsGrow'
  <1>1. ASSUME UNCHANGED <<registered, listed>> PROVE ListsGrow'
    BY <1>1 DEF ListsGrow
  <1>2. ASSUME NEW f \in Fps, Register(f)
        PROVE  ListsGrow'
    <2>1. registered' = registered \cup {f} /\ listed' = listed \cup {registered'}
      BY <1>2 DEF Register
    <2>2. registered \in listed
      BY DEF TypeOK
    <2>3. \A S \in listed : InitialFps \subseteq S /\ S \subseteq registered
      BY DEF ListsGrow
    <2>4. \A S \in listed' : InitialFps \subseteq S /\ S \subseteq registered'
      BY <2>1, <2>2, <2>3
    <2>5. \A U, T \in listed' : U \subseteq T \/ T \subseteq U
      BY <2>1, <2>4 DEF ListsGrow
    <2> QED
      BY <2>4, <2>5 DEF ListsGrow
  <1>3. CASE Environment
    BY <1>1, <1>2, <1>3 DEF Environment, NewBlock, Vote, Expire, env
  <1>4. ASSUME NEW c \in Checks,
               (\E h \in Heights : Begin(c, h)) \/ CheckStep(c) \/ End(c)
        PROVE  UNCHANGED env
    BY <1>4 DEF Begin, End, CheckStep, lookupFinalized, blockByNumber,
         queryAllFpBtcPubKeys, getBlockHeightByTimestamp, queryMultiFpPower,
         queryListOfVotedFinalityProviders, markFinalized
  <1> QED
    BY <1>1, <1>3, <1>4 DEF Next, vars, env

\* Two verdicts on versions of one height, under lists of which one has grown
\* into the other, have more than Byzantine stake behind both.
LEMMA SharedStake ==
  ASSUME ByzantineWeak, NEW h \in Heights, NEW v \in Versions, NEW w \in Versions, v # w,
         NEW T \in SUBSET Fps, NEW S \in SUBSET T, InitialFps \subseteq S,
         NEW A \in SUBSET Fps, NEW B \in SUBSET Fps,
         QuorumReached(PowerOf(Power[BtcHeightOf[<<h, v>>]], S), A),
         QuorumReached(PowerOf(Power[BtcHeightOf[<<h, w>>]], T), B)
  PROVE  ~ (A \cap B \subseteq Byzantine)
  <1> DEFINE p == Power[BtcHeightOf[<<h, v>>]]
             q == Power[BtcHeightOf[<<h, w>>]]
             m == Common(p, q)
             ab == Stake(m, A \cap B)
             byz == Stake(m, Byzantine)
             ms == Stake(m, S)
             s == Stake(p, S)
             t == Stake(q, T)
             all == Stake(q, Fps)
  <1>1. p \in Powers /\ q \in Powers
    BY BlockAssumption DEF Blocks
  <1>2. 3 * ab + s + t >= 3 * ms
    <2>1. S \cap T = S /\ S \in SUBSET Fps
      OBVIOUS
    <2>2. /\ QuorumReached(PowerOf(p, S), A) /\ QuorumReached(PowerOf(q, T), B)
      OBVIOUS
    <2> HIDE DEF p, q
    <2> QED
      BY <1>1, <2>1, <2>2, QuorumsShare
  <1>3. t <= all
    BY StakeMonotone
  <1>4. A \cap B \subseteq Byzantine => ab <= byz
    BY StakeMonotone
  <1>5. 3 * byz + s + all < 3 * ms
    BY DEF ByzantineWeak
  <1>6. ab \in Nat /\ byz \in Nat /\ ms \in Nat /\ s \in Nat /\ t \in Nat /\ all \in Nat
    BY UnitsFinite
  <1> HIDE DEF ab, byz, ms, s, t, all
  <1> QED
    BY <1>2, <1>3, <1>4, <1>5, <1>6

\* Two versions of one height cannot both have a quorum: the providers that
\* their quorums share would have to be Byzantine.
LEMMA OneVersion ==
  ASSUME BlockInv, ListsGrow, ByzantineWeak
  PROVE  Agreement
  <1> SUFFICES ASSUME NEW a \in verdicts, NEW b \in verdicts, a[1] = b[1], a # b
               PROVE  FALSE
    BY DEF Agreement
  <1> DEFINE h == a[1]
             v == a[2]
             w == b[2]
  <1>1. votes \in [Blocks -> SUBSET Fps] /\ registered \subseteq Fps
    BY DEF BlockInv, TypeOK
  <1>2. /\ h \in Heights /\ v \in Versions /\ w \in Versions /\ v # w
        /\ a = <<h, v>> /\ b = <<h, w>> /\ a \in Blocks /\ b \in Blocks
    BY DEF BlockInv, TypeOK, Blocks
  <1>3. PICK S \in listed : QuorumReached(PowerOf(Power[BtcHeightOf[a]], S), votes[a])
    BY DEF BlockInv, FinalIn
  <1>4. PICK T \in listed : QuorumReached(PowerOf(Power[BtcHeightOf[b]], T), votes[b])
    BY DEF BlockInv, FinalIn
  <1>5. votes[a] \in SUBSET Fps /\ votes[b] \in SUBSET Fps
    BY <1>1, <1>2
  <1>6. votes[a] \cap votes[b] \subseteq Byzantine
    BY <1>2, <1>5 DEF BlockInv, HonestVotes
  <1>7. /\ S \in SUBSET Fps /\ T \in SUBSET Fps
        /\ InitialFps \subseteq S /\ InitialFps \subseteq T
        /\ S \subseteq T \/ T \subseteq S
    BY <1>1 DEF ListsGrow
  <1> HIDE DEF h, v, w
  <1> DEFINE A == votes[a]
             B == votes[b]
  <1>q. /\ QuorumReached(PowerOf(Power[BtcHeightOf[<<h, v>>]], S), A)
        /\ QuorumReached(PowerOf(Power[BtcHeightOf[<<h, w>>]], T), B)
        /\ A \in SUBSET Fps /\ B \in SUBSET Fps
    BY <1>2, <1>3, <1>4, <1>5
  <1> HIDE DEF A, B
  <1>8. CASE S \subseteq T
    <2>1. S \in SUBSET T
      BY <1>8
    <2>2. ~ (A \cap B \subseteq Byzantine)
      BY <1>2, <1>7, <1>q, <2>1, SharedStake
    <2> QED
      BY <1>6, <2>2 DEF A, B
  <1>9. CASE T \subseteq S
    <2>1. T \in SUBSET S /\ S \in SUBSET Fps /\ InitialFps \subseteq T
      BY <1>7, <1>9
    <2>2. h \in Heights /\ w \in Versions /\ v \in Versions /\ w # v
      BY <1>2
    <2>3. ~ (B \cap A \subseteq Byzantine)
      BY <1>q, <2>1, <2>2, SharedStake, ZenonT(40)
    <2> QED
      BY <1>6, <2>3 DEF A, B
  <1> QED
    BY <1>7, <1>8, <1>9

\* Whatever is reorganised, whoever votes twice, whoever registers between two
\* verdicts and whatever the BTC heights of two blocks are: the service finds at
\* most one block of a height finalized, as long as the providers listed from the
\* start keep enough of the stake and the Byzantine ones hold little enough.
THEOREM AgreementThm ==
  ASSUME ByzantineWeak
  PROVE  Spec => []Agreement
  <1>1. Init => ListsGrow
    BY DEF Init, ListsGrow
  <1>2. TypeOK /\ ListsGrow /\ [Next]_vars => ListsGrow'
    BY ListsGrowStep
  <1>3. BlockInv /\ ListsGrow => Agreement
    BY OneVersion
  <1> QED
    BY BlockInvariant, TypeCorrect, <1>1, <1>2, <1>3, PTL DEF Spec

\* With every provider registered from the start, a Byzantine stake below a third
\* is little enough, at every BTC height whose powers two versions of a height are
\* both weighed with.  When the powers differ, as much as has moved from one
\* provider to another has to be left over.
THEOREM FixedListAgreement ==
  ASSUME InitialFps = Fps,
         \A h \in Heights : \A v, w \in Versions : v # w =>
           LET p == Power[BtcHeightOf[<<h, v>>]]
               q == Power[BtcHeightOf[<<h, w>>]]
               m == Common(p, q)
           IN  /\ p = q => 3 * Stake(p, Byzantine) < totalPower(p)
               /\ p # q => 3 * Stake(m, Byzantine) + totalPower(p) + totalPower(q)
                             < 3 * totalPower(m)
  PROVE  Spec => []Agreement
  <1>1. ByzantineWeak
    <2> SUFFICES ASSUME NEW h \in Heights, NEW v \in Versions, NEW w \in Versions, v # w,
                        NEW S \in SUBSET Fps, InitialFps \subseteq S
                 PROVE  LET p == Power[BtcHeightOf[<<h, v>>]]
                            q == Power[BtcHeightOf[<<h, w>>]]
                            m == Common(p, q)
                        IN  3 * Stake(m, Byzantine) + Stake(p, S) + Stake(q, Fps)
                              < 3 * Stake(m, S)
      BY DEF ByzantineWeak
    <2> DEFINE p == Power[BtcHeightOf[<<h, v>>]]
               q == Power[BtcHeightOf[<<h, w>>]]
               m == Common(p, q)
    <2>1. S = Fps
      OBVIOUS
    <2>2. /\ p = q => 3 * Stake(p, Byzantine) < Stake(p, Fps)
          /\ p # q => 3 * Stake(m, Byzantine) + Stake(p, Fps) + Stake(q, Fps) < 3 * Stake(m, Fps)
      BY DEF totalPower
    <2>3. p \in Powers /\ q \in Powers
      BY BlockAssumption DEF Blocks
    <2>4. Stake(p, Byzantine) \in Nat /\ Stake(p, Fps) \in Nat
      BY UnitsFinite
    <2> HIDE DEF p, q
    <2>5. p = q => m = p
      BY <2>3 DEF Common, Powers
    <2>6. 3 * Stake(m, Byzantine) + Stake(p, Fps) + Stake(q, Fps) < 3 * Stake(m, Fps)
      <3>1. CASE p = q
        <4>1. 3 * Stake(p, Byzantine) + Stake(p, Fps) + Stake(p, Fps) < 3 * Stake(p, Fps)
          BY <2>2, <2>4, <3>1
        <4> QED
          BY <2>5, <3>1, <4>1
      <3>2. CASE p # q
        BY <2>2, <3>2
      <3> QED
        BY <3>1, <3>2
    <2> QED
      BY <2>1, <2>6 DEF p, q
  <1> QED
    BY <1>1, AgreementThm
-----------------------------------------------------------------------------
(***************************************************************************)
(* The size of the caches.                                                 *)
(***************************************************************************)
Written(m, n) == n = m \/ \E k, v : n = Put(m, k, v)

FiniteMaps ==
  /\ IsFiniteSet(DOMAIN finalizedCache) /\ IsFiniteSet(DOMAIN l2BlockCache)
  /\ IsFiniteSet(DOMAIN btcblockHeightCache) /\ IsFiniteSet(DOMAIN multiFpPowerCache)
  /\ IsFiniteSet(DOMAIN votedFpPksCache)

\* Every map is changed by Put alone.
LEMMA MapsWritten ==
  ASSUME [Next]_vars
  PROVE  /\ Written(finalizedCache, finalizedCache')
         /\ Written(l2BlockCache, l2BlockCache')
         /\ Written(btcblockHeightCache, btcblockHeightCache')
         /\ Written(multiFpPowerCache, multiFpPowerCache')
         /\ Written(votedFpPksCache, votedFpPksCache')
  <1>1. UNCHANGED vars => UNCHANGED caches
    BY DEF vars, caches
  <1>2. Environment => UNCHANGED caches
    BY DEF Environment, NewBlock, Vote, Register, Expire, service, caches
  <1>3. ASSUME NEW c \in Checks,
               (\E h \in Heights : Begin(c, h)) \/ End(c) \/ lookupFinalized(c)
                 \/ queryAllFpBtcPubKeys(c)
        PROVE  UNCHANGED caches
    BY <1>3 DEF Begin, End, lookupFinalized, queryAllFpBtcPubKeys
  <1>4. ASSUME NEW c \in Checks, blockByNumber(c)
        PROVE  /\ Written(l2BlockCache, l2BlockCache')
               /\ UNCHANGED <<finalizedCache, btcblockHeightCache,
                              multiFpPowerCache, votedFpPksCache>>
    BY <1>4 DEF blockByNumber, Cached, Written
  <1>5. ASSUME NEW c \in Checks, getBlockHeightByTimestamp(c)
        PROVE  /\ Written(btcblockHeightCache, btcblockHeightCache')
               /\ UNCHANGED <<finalizedCache, l2BlockCache,
                              multiFpPowerCache, votedFpPksCache>>
    BY <1>5 DEF getBlockHeightByTimestamp, Cached, Written
  <1>6. ASSUME NEW c \in Checks, queryMultiFpPower(c)
        PROVE  /\ Written(multiFpPowerCache, multiFpPowerCache')
               /\ UNCHANGED <<finalizedCache, l2BlockCache,
                              btcblockHeightCache, votedFpPksCache>>
    BY <1>6 DEF queryMultiFpPower, Cached, Written
  <1>7. ASSUME NEW c \in Checks, queryListOfVotedFinalityProviders(c)
        PROVE  /\ Written(votedFpPksCache, votedFpPksCache')
               /\ UNCHANGED <<finalizedCache, l2BlockCache,
                              btcblockHeightCache, multiFpPowerCache>>
    BY <1>7 DEF queryListOfVotedFinalityProviders, Cached, Written
  <1>8. ASSUME NEW c \in Checks, markFinalized(c)
        PROVE  /\ Written(finalizedCache, finalizedCache')
               /\ UNCHANGED <<l2BlockCache, btcblockHeightCache,
                              multiFpPowerCache, votedFpPksCache>>
    BY <1>8 DEF markFinalized, Written
  <1>9. \A m : Written(m, m)
    BY DEF Written
  <1> QED
    BY <1>1, <1>2, <1>3, <1>4, <1>5, <1>6, <1>7, <1>8, <1>9
       DEF Next, CheckStep, caches

\* For every CacheMapCount no map ever holds more than one entry above it.
THEOREM CacheBoundThm == Spec => []CacheBound
  <1>1. \A m, n : Written(m, n) /\ IsFiniteSet(DOMAIN m) /\ Bounded(m) =>
                    IsFiniteSet(DOMAIN n) /\ Bounded(n)
    BY PutBound DEF Written
  <1>2. Init => FiniteMaps /\ CacheBound
    <2>1. IsFiniteSet({}) /\ Cardinality({}) = 0
      BY FS_EmptySet
    <2>2. DOMAIN EmptyMap = {}
      BY DEF EmptyMap
    <2>3. IsFiniteSet(DOMAIN EmptyMap) /\ Bounded(EmptyMap)
      BY <2>1, <2>2, BlockAssumption DEF Bounded
    <2> QED
      BY <2>3 DEF Init, FiniteMaps, CacheBound
  <1>3. FiniteMaps /\ CacheBound /\ [Next]_vars => FiniteMaps' /\ CacheBound'
    <2> SUFFICES ASSUME FiniteMaps, CacheBound, [Next]_vars
                 PROVE  FiniteMaps' /\ CacheBound'
      OBVIOUS
    <2> QED
      BY <1>1, MapsWritten DEF FiniteMaps, CacheBound
  <1> QED
    BY <1>2, <1>3, PTL DEF Spec
=============================================================================
