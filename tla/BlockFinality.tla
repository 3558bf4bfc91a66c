--------------------------- MODULE BlockFinality ---------------------------
(***************************************************************************)
(* The test of one L2 block, queryFinalizedBlockInBabylonByNumber, as any  *)
(* number of concurrent requests run it over the caches they share.        *)
(*                                                                         *)
(* A check looks its height up in finalizedCache, then asks in turn for    *)
(* the L2 block, the finality providers of the consumer chain, the BTC     *)
(* height of the block, the voting powers at that height and the votes on  *)
(* the block.  Every question is answered from a cache, or by a service    *)
(* (which may fail) whose answer is then written to the cache: three       *)
(* separate steps, between which cacheMu is free.                          *)
(*                                                                         *)
(* A block is its height and a version, which stands for its hash: an L2   *)
(* reorganisation gives the heights it replaces a new version.             *)
(***************************************************************************)
EXTENDS StakeQuorum, Sequences

CONSTANTS
  Checks,         \* concurrent callers
  MaxHeight,      \* bound: the L2 chain stops growing at this block
  MaxReorgs,      \* bound: L2 reorganisations
  CacheMapCount,  \* 4096 in the code
  BtcHeights,
  BtcHeightOf,    \* BTC height of the timestamp of a block
  Power,          \* voting powers on Babylon, by BTC height
  InitialFps,     \* providers registered at the start
  Byzantine,      \* providers that may vote for two blocks of one height
  VotesInOrder    \* TRUE: a provider votes for a chain from block 1 upwards

Heights  == 1..MaxHeight
Versions == 0..MaxReorgs
Blocks   == Heights \X Versions

ASSUME BlockAssumption ==
  /\ MaxHeight \in Nat \ {0} /\ MaxReorgs \in Nat /\ CacheMapCount \in Nat
  /\ BtcHeightOf \in [Blocks -> BtcHeights]
  /\ Power \in [BtcHeights -> Powers]
  /\ InitialFps \subseteq Fps /\ Byzantine \subseteq Fps
  /\ VotesInOrder \in BOOLEAN

VARIABLES
  chain,        \* the L2 chain: the version of each height
  votes,        \* finality contract: the providers that voted for a block
  registered,   \* Babylon: the providers of the consumer chain
  finalizedCache,       \* the maps of FinalizedStateProvider, under cacheMu
  l2BlockCache,
  btcblockHeightCache,
  multiFpPowerCache,
  votedFpPksCache,
  allFpsCache,  \* the slice, and whether it is younger than 240 s
  allFpsFresh,
  chk,          \* the local state of every check
  listed,       \* history: every value registered has had
  verdicts      \* history: the blocks some check has found finalized

env    == <<chain, votes, registered, listed>>
caches == <<finalizedCache, l2BlockCache, btcblockHeightCache,
            multiFpPowerCache, votedFpPksCache>>
fps    == <<allFpsCache, allFpsFresh>>
vars   == <<chain, votes, registered, listed, finalizedCache, l2BlockCache,
            btcblockHeightCache, multiFpPowerCache, votedFpPksCache,
            allFpsCache, allFpsFresh, chk, verdicts>>

Stages == {"final", "block", "fps", "btc", "power", "votes", "mark"}
Steps  == {"lookup", "fetch", "put"}

NoPower == [f \in Fps |-> 0]

Idle == [stage |-> "idle", step |-> "lookup", height |-> 0, blk |-> <<0, 0>>,
         fps |-> {}, btc |-> 0, pow |-> NoPower, voted |-> {}, ans |-> FALSE]

Check == [stage : Stages \cup {"idle", "done", "failed"}, step : Steps,
          height : 0..MaxHeight, blk : Blocks \cup {<<0, 0>>}, fps : SUBSET Fps,
          btc : BtcHeights \cup {0}, pow : Powers, voted : SUBSET Fps,
          ans : BOOLEAN]

\* m is a function from a part of D to R.
PartialMap(m, D, R) ==
  /\ m = [x \in DOMAIN m |-> m[x]]
  /\ DOMAIN m \subseteq D
  /\ \A x \in DOMAIN m : m[x] \in R

EmptyMap == [x \in {} |-> x]

TypeOK ==
  /\ chain \in Seq(Versions) /\ Len(chain) \in Heights
  /\ votes \in [Blocks -> SUBSET Fps]
  /\ registered \subseteq Fps
  /\ PartialMap(finalizedCache, Heights, {TRUE})
  /\ PartialMap(l2BlockCache, Heights, Blocks)
  /\ PartialMap(btcblockHeightCache, Blocks, BtcHeights)
  /\ PartialMap(multiFpPowerCache, BtcHeights, Powers)
  /\ PartialMap(votedFpPksCache, Blocks, SUBSET Fps)
  /\ allFpsCache \subseteq Fps /\ allFpsFresh \in BOOLEAN
  /\ chk \in [Checks -> Check]
  /\ listed \subseteq SUBSET Fps /\ registered \in listed
  /\ verdicts \subseteq Blocks

\* NewFinalizedStateProvider: empty caches, against a chain with one block.
Init ==
  /\ chain = <<0>>
  /\ votes = [b \in Blocks |-> {}]
  /\ registered = InitialFps
  /\ finalizedCache = EmptyMap /\ l2BlockCache = EmptyMap
  /\ btcblockHeightCache = EmptyMap /\ multiFpPowerCache = EmptyMap
  /\ votedFpPksCache = EmptyMap
  /\ allFpsCache = {} /\ allFpsFresh = FALSE
  /\ chk = [c \in Checks |-> Idle]
  /\ listed = {InitialFps}
  /\ verdicts = {}
-----------------------------------------------------------------------------
(***************************************************************************)
(* Environment: L2, the finality contract, Babylon and the clock.          *)
(***************************************************************************)
\* How many reorganisations there have been: the newest block is newest.
Reorgs == chain[Len(chain)]

service == <<caches, fps, chk, verdicts>>

\* L2's next block, or, at a height it has already, a reorganisation: the block
\* replaces the chain from there on, which may grow back one block at a time.
NewBlock(h) ==
  LET replaced == IF h \in DOMAIN chain THEN 1 ELSE 0
  IN  /\ h <= Len(chain) + 1
      /\ Reorgs + replaced <= MaxReorgs
      /\ chain' = Append(SubSeq(chain, 1, h - 1), Reorgs + replaced)
      /\ UNCHANGED <<votes, registered, listed, service>>

\* A registered provider votes for a block of the chain.  An honest one votes
\* for one block of a height.
Vote(f, h) ==
  LET b == <<h, chain[h]>>
  IN  /\ f \in registered \ votes[b]
      /\ f \in Byzantine \/ \A v \in Versions : f \notin votes[<<h, v>>]
      /\ VotesInOrder => \A g \in 1..(h-1) : f \in votes[<<g, chain[g]>>]
      /\ votes' = [votes EXCEPT ![b] = @ \cup {f}]
      /\ UNCHANGED <<chain, registered, listed, service>>

Register(f) ==
  /\ f \notin registered
  /\ registered' = registered \cup {f}
  /\ listed' = listed \cup {registered'}
  /\ UNCHANGED <<chain, votes, service>>

\* 240 s pass since allFpsCacheLastTime.
Expire ==
  /\ allFpsFresh
  /\ allFpsFresh' = FALSE
  /\ UNCHANGED <<env, caches, allFpsCache, chk, verdicts>>
-----------------------------------------------------------------------------
(***************************************************************************)
(* The service.                                                            *)
(***************************************************************************)
\* Mutant: the map is never dropped.
PutAlways(m, k, v) == [x \in DOMAIN m \cup {k} |-> IF x = k THEN v ELSE m[x]]

\* Writing to a map: a map with more than CacheMapCount entries is dropped
\* first.
Put(m, k, v) ==
  LET kept == IF Cardinality(DOMAIN m) > CacheMapCount THEN EmptyMap ELSE m
  IN  [x \in DOMAIN kept \cup {k} |-> IF x = k THEN v ELSE kept[x]]

Local(c, q) == chk' = [chk EXCEPT ![c] = q]

Goto(q, stage) == [q EXCEPT !.stage = stage, !.step = "lookup"]

\* At the end of the call only the result remains.
Failed(q) == [Idle EXCEPT !.stage = "failed"]

Done(q, isFinalized) ==
  [Idle EXCEPT !.stage = "done", !.height = q.height, !.ans = isFinalized]

\* The stage after the one whose answer q holds.  Without any power the block
\* counts as finalized; the votes decide otherwise.
After(q) ==
  CASE q.stage = "block" -> Goto(q, "fps")
    [] q.stage = "fps"   -> Goto(q, "btc")
    [] q.stage = "btc"   -> Goto(q, "power")
    [] q.stage = "power" -> Goto([q EXCEPT !.fps = {}, !.btc = 0],
                                 IF totalPower(q.pow) = 0 THEN "mark" ELSE "votes")
    [] q.stage = "votes" -> IF QuorumReached(q.pow, q.voted) THEN Goto(q, "mark")
                                                             ELSE Done(q, FALSE)

\* The read-through pattern of the four maps: check c looks key k up in the
\* map, where a hit makes its local state `hit'; else it asks the service,
\* which puts it into one of the states `answered' or fails, and writes v, the
\* answer, to the map.
Cached(c, map, k, hit, answered, v) ==
  \/ /\ chk[c].step = "lookup"
     /\ Local(c, IF k \in DOMAIN map THEN After(hit)
                                    ELSE [chk[c] EXCEPT !.step = "fetch"])
     /\ map' = map
  \/ /\ chk[c].step = "fetch"
     /\ \/ \E q \in answered : Local(c, [q EXCEPT !.step = "put"])
        \/ Local(c, Failed(chk[c]))
     /\ map' = map
  \/ /\ chk[c].step = "put"
     /\ map' = Put(map, k, v)
     /\ Local(c, After(chk[c]))

\* L2 knows the blocks of its chain by number.
L2BlockAt(h) == IF h \in DOMAIN chain THEN {<<h, chain[h]>>} ELSE {}

blockByNumber(c) ==
  LET q == chk[c]
  IN  /\ q.stage = "block"
      /\ Cached(c, l2BlockCache, q.height,
                [q EXCEPT !.blk = l2BlockCache[q.height]],
                {[q EXCEPT !.blk = b] : b \in L2BlockAt(q.height)}, q.blk)
      /\ UNCHANGED <<finalizedCache, btcblockHeightCache, multiFpPowerCache,
                     votedFpPksCache, env, fps, verdicts>>

\* The providers, from a slice that is used while it is fresh and not empty.
\* QueryConsumerId and QueryAllFpBtcPubKeys may each fail.
queryAllFpBtcPubKeys(c) ==
  LET q == chk[c]
  IN  /\ q.stage = "fps"
      /\ \/ /\ q.step = "lookup"
            /\ Local(c, IF allFpsCache # {} /\ allFpsFresh
                        THEN After([q EXCEPT !.fps = allFpsCache])
                        ELSE [q EXCEPT !.step = "fetch"])
            /\ UNCHANGED fps
         \/ /\ q.step = "fetch"
            /\ \/ Local(c, [q EXCEPT !.fps = registered, !.step = "put"])
               \/ Local(c, Failed(q))
            /\ UNCHANGED fps
         \/ /\ q.step = "put"
            /\ allFpsCache' = q.fps
            /\ allFpsFresh' = TRUE
            /\ Local(c, After(q))
      /\ UNCHANGED <<env, caches, verdicts>>

getBlockHeightByTimestamp(c) ==
  LET q == chk[c]
  IN  /\ q.stage = "btc"
      /\ Cached(c, btcblockHeightCache, q.blk,
                [q EXCEPT !.btc = btcblockHeightCache[q.blk]],
                {[q EXCEPT !.btc = BtcHeightOf[q.blk]]}, q.btc)
      /\ UNCHANGED <<finalizedCache, l2BlockCache, multiFpPowerCache,
                     votedFpPksCache, env, fps, verdicts>>

\* The powers are cached under the BTC height alone, whatever providers the
\* question was about.
queryMultiFpPower(c) ==
  LET q == chk[c]
  IN  /\ q.stage = "power"
      /\ Cached(c, multiFpPowerCache, q.btc,
                [q EXCEPT !.pow = multiFpPowerCache[q.btc]],
                {[q EXCEPT !.pow = PowerOf(Power[q.btc], q.fps)]}, q.pow)
      /\ UNCHANGED <<finalizedCache, l2BlockCache, btcblockHeightCache,
                     votedFpPksCache, env, fps, verdicts>>

\* Mutant: votes are cached under the height of their block.
queryListOfVotedFinalityProvidersByHeight(c) ==
  LET q == chk[c]
      k == <<q.height, 0>>
  IN  /\ q.stage = "votes"
      /\ Cached(c, votedFpPksCache, k,
                [q EXCEPT !.voted = votedFpPksCache[k]],
                {[q EXCEPT !.voted = votes[q.blk]]}, q.voted)
      /\ UNCHANGED <<finalizedCache, l2BlockCache, btcblockHeightCache,
                     multiFpPowerCache, env, fps, verdicts>>

\* The votes, and the verdict over them.
queryListOfVotedFinalityProviders(c) ==
  LET q == chk[c]
  IN  /\ q.stage = "votes"
      /\ Cached(c, votedFpPksCache, q.blk,
                [q EXCEPT !.voted = votedFpPksCache[q.blk]],
                {[q EXCEPT !.voted = votes[q.blk]]}, q.voted)
      /\ UNCHANGED <<finalizedCache, l2BlockCache, btcblockHeightCache,
                     multiFpPowerCache, env, fps, verdicts>>

\* The block of height h has its quorum, among the providers in S.
FinalAmong(S, b) ==
  QuorumReached(PowerOf(Power[BtcHeightOf[b]], S), votes[b])

\* Mutant: the block above is tested.
BeginAbove(c, h) ==
  /\ chk[c].stage = "idle"
  /\ Local(c, [Goto(Idle, "final") EXCEPT !.height = h + 1])
  /\ UNCHANGED <<env, caches, fps, verdicts>>

\* queryFinalizedBlockInBabylonByNumber is called for height h.
Begin(c, h) ==
  /\ chk[c].stage = "idle"
  /\ Local(c, [Goto(Idle, "final") EXCEPT !.height = h])
  /\ UNCHANGED <<env, caches, fps, verdicts>>

\* Its first step: finalizedCache.
lookupFinalized(c) ==
  /\ chk[c].stage = "final"
  /\ Local(c, IF chk[c].height \in DOMAIN finalizedCache
              THEN Done(chk[c], TRUE) ELSE Goto(chk[c], "block"))
  /\ UNCHANGED <<env, caches, fps, verdicts>>

\* Its last: a finalized height is remembered.
markFinalized(c) ==
  /\ chk[c].stage = "mark"
  /\ finalizedCache' = Put(finalizedCache, chk[c].height, TRUE)
  /\ verdicts' = verdicts \cup {chk[c].blk}
  /\ Local(c, Done(chk[c], TRUE))
  /\ UNCHANGED <<l2BlockCache, btcblockHeightCache, multiFpPowerCache,
                 votedFpPksCache, env, fps>>

\* The caller takes the result.
End(c) ==
  /\ chk[c].stage \in {"done", "failed"}
  /\ Local(c, Idle)
  /\ UNCHANGED <<env, caches, fps, verdicts>>

CheckStep(c) ==
  \/ lookupFinalized(c)
  \/ blockByNumber(c)
  \/ queryAllFpBtcPubKeys(c)
  \/ getBlockHeightByTimestamp(c)
  \/ queryMultiFpPower(c)
  \/ queryListOfVotedFinalityProviders(c)
  \/ markFinalized(c)

Environment ==
  \/ \E h \in Heights : NewBlock(h)
  \/ \E f \in Fps, h \in DOMAIN chain : Vote(f, h)
  \/ \E f \in Fps : Register(f)
  \/ Expire

Next ==
  \/ Environment
  \/ \E c \in Checks : \/ \E h \in Heights : Begin(c, h)
                       \/ CheckStep(c)
                       \/ End(c)

Spec == Init /\ [][Next]_vars
-----------------------------------------------------------------------------
(***************************************************************************)
(* Properties.                                                             *)
(***************************************************************************)
\* The service is right about the votes it counts, whatever checks race over
\* the caches, whichever call fails, and whenever a map is wiped or a chain
\* reorganised between two steps.  A block found finalized has, among the votes
\* on that very block, a quorum of the powers at its own BTC height, in one list
\* of providers that Babylon has really had; and a height that finalizedCache or
\* a check reports is one of which a block was found finalized.  The list may be
\* older than the votes: see AllProvidersWeighed.
FinalizedSound ==
  LET found == {b[1] : b \in verdicts}
  IN  /\ \A b \in verdicts : \E S \in listed : FinalAmong(S, b)
      /\ DOMAIN finalizedCache \subseteq found
      /\ \A c \in Checks : chk[c].stage = "done" /\ chk[c].ans => chk[c].height \in found

\* The Byzantine providers hold less than two quorums for versions v and w of
\* height h must share: what the providers listed first, S, keep from the one BTC
\* height to the other, less a third of what either list holds.
ByzantineWeak ==
  \A h \in Heights, v, w \in Versions :
    v # w => LET p == Power[BtcHeightOf[<<h, v>>]]
                 q == Power[BtcHeightOf[<<h, w>>]]
                 m == Common(p, q)
             IN  \A S \in SUBSET Fps : InitialFps \subseteq S =>
                   3 * Stake(m, Byzantine) + Stake(p, S) + Stake(q, Fps) < 3 * Stake(m, S)

\* Two different blocks of one height are never both found finalized, whatever
\* is reorganised, however the list of providers grows between two verdicts and
\* whatever powers the blocks are weighed with, when ByzantineWeak.
Agreement == \A a, b \in verdicts : a[1] = b[1] => a = b

\* No map outgrows CacheMapCount by more than the entry being written.
Bounded(m) == Cardinality(DOMAIN m) <= CacheMapCount + 1

CacheBound ==
  /\ Bounded(finalizedCache) /\ Bounded(l2BlockCache)
  /\ Bounded(btcblockHeightCache) /\ Bounded(multiFpPowerCache)
  /\ Bounded(votedFpPksCache)

\* "return true if finalized, false if not finalized": a check that needs no
\* answer from the contract any more does not return false for a block that
\* has its quorum by then.
NoMeansNotFinal ==
  [][\A c \in Checks :
       /\ chk[c].stage = "votes" /\ chk[c].step = "lookup"
       /\ chk'[c].stage = "done" /\ ~chk'[c].ans
       => ~QuorumReached(chk[c].pow, votes[chk[c].blk])]_vars

\* "get all the FPs pubkey for the consumer chain", "get all FPs voting power at
\* this BTC height", "calculate total voting power": the powers that a check
\* weighs give a block no quorum that it lacks among the providers which the
\* check has just been given.
AllProvidersWeighed ==
  [][\A c \in Checks :
       /\ chk[c].stage = "power" /\ chk'[c].stage \in {"votes", "mark"}
       /\ QuorumReached(chk'[c].pow, votes[chk[c].blk])
       => FinalAmong(chk[c].fps, chk[c].blk)]_vars

\* "check if the voted voting power is more than 2/3 of the total voting power"
MoreThanTwoThirds ==
  \A c \in Checks : chk[c].stage = "mark" =>
    3 * votedPower(chk[c].pow, votes[chk[c].blk]) > 2 * totalPower(chk[c].pow)

\* The block that height h has on L2 has its quorum.
FinalOnChain(h) == \A b \in L2BlockAt(h) : \E S \in listed : FinalAmong(S, b)

\* "get all FPs that voted this L2 block with the same height and hash": a call
\* that finds its height in finalizedCache, and returns true at once, is right
\* about the block which that height has on L2.
ChainBlockFinalized ==
  [][\A c \in Checks : chk[c].stage = "final" /\ chk'[c].stage = "done" =>
       FinalOnChain(chk[c].height)]_vars
-----------------------------------------------------------------------------
(***************************************************************************)
(* The inductive invariant behind FinalizedSound and Agreement             *)
(* (BlockFinalityProofs).  It is stated over the lists L that Babylon has  *)
(* had and the votes V in the contract, both of which only grow.           *)
(***************************************************************************)
FinalIn(L, V, b) ==
  \E S \in L : QuorumReached(PowerOf(Power[BtcHeightOf[b]], S), V[b])

FinalHeight(L, V, h) == \E v \in Versions : FinalIn(L, V, <<h, v>>)

PowersIn(L, x, power) == \E S \in L : power = PowerOf(Power[x], S)

\* The answer of `stage' is in q: the check is at a later stage, or about to
\* write it.
Has(q, stage, later) == q.stage \in later \/ (q.stage = stage /\ q.step = "put")

\* What a check holds at each stage is about its own height, and old at most.
LocalInv(L, V, q) ==
  /\ q.stage = "final" => q.height \in Heights
  /\ q.stage = "block" => q.height \in Heights
  /\ Has(q, "block", {"fps", "btc", "power", "votes", "mark"}) =>
       q.blk \in Blocks /\ q.blk[1] = q.height
  /\ Has(q, "fps", {"btc", "power"}) => q.fps \in L
  /\ Has(q, "btc", {"power"}) => q.btc = BtcHeightOf[q.blk]
  /\ Has(q, "power", {"votes"}) => PowersIn(L, BtcHeightOf[q.blk], q.pow)
  /\ Has(q, "votes", {}) => q.voted \subseteq V[q.blk]
  /\ q.stage = "mark" => FinalIn(L, V, q.blk)
  /\ q.stage = "done" /\ q.ans => q.height \in Heights /\ FinalHeight(L, V, q.height)

\* What a cache holds was true when it was read, whoever wrote it.
CacheInv(L, V) ==
  /\ \A h \in DOMAIN finalizedCache : FinalHeight(L, V, h)
  /\ \A h \in DOMAIN l2BlockCache : l2BlockCache[h][1] = h
  /\ \A b \in DOMAIN btcblockHeightCache : btcblockHeightCache[b] = BtcHeightOf[b]
  /\ \A x \in DOMAIN multiFpPowerCache : PowersIn(L, x, multiFpPowerCache[x])
  /\ \A b \in DOMAIN votedFpPksCache : votedFpPksCache[b] \subseteq V[b]
  /\ allFpsCache = {} \/ allFpsCache \in L

HonestVotes ==
  \A f \in Fps \ Byzantine : \A h \in Heights : \A v, w \in Versions :
    f \in votes[<<h, v>>] /\ f \in votes[<<h, w>>] => v = w

\* A height is reported as finalized only after one of its blocks was found so.
Found(F, q) == q.stage = "done" /\ q.ans => q.height \in F

FoundInv ==
  LET F == {b[1] : b \in verdicts}
  IN  /\ DOMAIN finalizedCache \subseteq F
      /\ \A c \in Checks : Found(F, chk[c])

\* With every provider registered from the start there is one list.
OneList == listed = {Fps} /\ registered = Fps

\* Of two lists that Babylon has had one holds all of the other.
ListsGrow ==
  /\ \A S \in listed : InitialFps \subseteq S /\ S \subseteq registered
  /\ \A S, T \in listed : S \subseteq T \/ T \subseteq S

BlockInv ==
  /\ TypeOK
  /\ CacheInv(listed, votes)
  /\ \A c \in Checks : LocalInv(listed, votes, chk[c])
  /\ \A b \in verdicts : FinalIn(listed, votes, b)
  /\ FoundInv
  /\ HonestVotes
=============================================================================
