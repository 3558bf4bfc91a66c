# A specification of the BLITZ finality gadget

TLA+ modules, TLC runs and TLAPS proofs about the Go code of the finality
gadget (`finality-gadget/`). Source paths below are relative to
`src/finality-gadget/`; `FSP` is `rpc/provider/finality_state_provider.go`.

BLITZ gives an Arbitrum Orbit chain (the *L2*) fast finality: *finality
providers*, to whom BTC is delegated on Babylon, vote for L2 blocks in a
contract on Babylon, and a block is final when the votes carry two thirds of
the stake. The repository holds the operator that runs a provider, and the
JSON-RPC service that answers `eth_getBlockByNumber("finalized")` by looking
at the votes.

## 1. Inventory

| Component | Code | State | Operations |
|---|---|---|---|
| Search for the highest finalized block | `FSP` 113-215, 305-337 | `lastFinalizedHeight` under `mu`, the locals of every request | `QueryFinalizedBlockInBabylon`, `queryFinalizedBlockInBabylonFromTo`, `Get/SetLastFinalized` |
| Test of one block | `FSP` 217-303, 339-657 | five maps and a slice under `cacheMu` | `queryFinalizedBlockInBabylonByNumber` and the queries below it |
| JSON-RPC handler | `rpc/rpc.go` 137-192 | none | `GetBlockByNumber`, `init` |
| JSON-RPC server | `rpc/rpc.go` 31-135 | the HTTP server | `StartServer` |
| Operator application | `operator/fp/app.go`, `operator/finality-gadget-operator/` | clients, daemon, server goroutine, `quit`, `wg` | boot, `Start`, `stopImpl` |
| Stand-alone RPC service | `rpc/finality-gadget-rpc-services/` | clients, the server in the main goroutine | boot, `StartServer` |
| Block handler (a library; no program here imports it) | `operator/block_handler.go` | `latestBlockNumber`, `processers` under an RWMutex | `AddProcesser`, `Start`, `fetchBlocks` |
| `fps restore` | `operator/fp/fp.go` | the provider's record in the local store | `RestoreFP`, `putFpFromResponse` |
| Consumer controller | `operator/fp/controllers/controller.go` | `metricsMu`, goroutines of `recordFpBalance` | `CommitPubRandList`, `SubmitBatchFinalitySigs`, metrics loop |
| L2 client | `client/l2eth/l2client.go` | `Layer2.ChainId`, configured or learned | `NewL2EthClient` |
| Metrics | `metrics/` | the HTTP server, the gauge of the balance | `Start`, `Stop`, `RecordFpBalance` |
| EOTS manager client | `client/eotsmanager/` | a gRPC connection | open, `Close`, forwarding |
| Signer, configuration, logging, scripts | `signer/`, `core/`, ... | none of their own | I/O and set-up |

How they interact: every JSON-RPC request runs in its own goroutine and calls
the one `FinalizedStateProvider`. The search of a request asks for the test of
one block after another; each test goes through caches that all requests share
and asks L2, Babylon, Bitcoin and the contract when a cache has no answer.
Between two critical sections anything may happen: the chain grows or is
reorganised, votes arrive, other requests write the caches. The operator runs
the server in a goroutine next to the provider daemon and takes both down when
a signal cancels the context. The provider instance in the daemon submits
randomness and votes through the consumer controller, which starts a goroutine
after each submission to bring a gauge up to date. The block handler has a goroutine of its own.
`fps restore` is a separate process that has the store to itself.

What is hard: requests racing on `lastFinalizedHeight`; lookup, query and
write of a cache being three steps; caches that outlive what they cache;
errors between two steps (dropped in one place, `FSP` 149-155); the order of
a shutdown with requests and submissions in flight; goroutines that outlive
the call they were started for; a metrics server whose error ends the process
at any time; failing ticks of the block handler; a
restore that dies half way and is repeated. `PROJECT.json` lists each hazard
at its line with the properties that watch it.

What makes the components correct:

* search: an answer is final, misses only blocks that a probe has denied, does
  not go back behind the shared height the request began with, and every
  request ends; the shared height is final;
* test of a block: a block is found finalized only by votes on that block and
  powers at its own BTC height, two versions of a block are never both found
  finalized, the caches are bounded;
* service: the block handed out has its quorum;
* operator and RPC service: what a request or the provider needs is closed only
  after them, both L2 clients are on one chain, and a signal ends the process;
* controller: the gauge follows the submissions, never goes back, and the mutex
  is always given back;
* block handler: every block below the head once, in order, eventually;
* restore: never a vote Babylon has not seen, never a voted height taken back.

## 2. Modules

| Module | Models | Extends or instantiates |
|---|---|---|
| `FinalizedSearch` | the search; one action per stretch of a request between two reads of shared state | |
| `StakeQuorum` | the sums and the comparison of `QueryIsBlockBabylonFinalizedFromBabylon` | |
| `BlockFinality` | the test of a block over the caches | extends `StakeQuorum` |
| `FinalizedStateProvider` | `GetBlockByNumber`: search, tests and the second L2 query | extends `BlockFinality`, instantiates `FinalizedSearch` as `S` |
| `L2BlockHandler` | the block handler | |
| `RestoreFp` | `fps restore` | |
| `ConsumerController` | submissions, the metrics goroutines, the gauge | |
| `OperatorApp` | the life of the operator and of the stand-alone RPC service | extends `ConsumerController` |
| `MCBlockFinality`, `MCFinalizedStateProvider` | instances for TLC | |
| `...Proofs` | proofs | the module they are about; those of the composed modules also extend the proofs of their parts |

**FinalizedSearch.** `req[r]` holds the locals of a request: `pc` says which
probe comes next (`head` FSP:149, `fast` 165, `next` 182, `try` 199, `bisect`
325), `current`, `from`, `to` and `probe` are the variables of the code,
`since` and `floor` are history. The code between two probes has no effect on
shared state and is one operator (`AfterStart`, `AfterHead`, `AfterFast`,
`FromTo`). `SetLastFinalized(check-1)` belongs to the step that receives a
positive probe; the trailing `SetLastFinalized(res)` is `SetResult`. A probe is
answered in one step from `final`, the blocks finalized by the contract, but it
may always deny a final block, as votes cached in `votedFpPksCache` before the
quorum do, or fail. `VotesInOrder` says whether a block is finalized only after
those below it.

**BlockFinality.** A check walks through the stages of
`queryFinalizedBlockInBabylonByNumber`; the provider list has a slice of its
own, and each of the four maps is used by `Cached`: a lookup
step under the read lock, a fetch step with no lock, which may fail, and a put
step under the write lock, which first drops a map with more than
`CacheMapCount` entries. A block is a pair of height and version; the version
stands for the hash. Its BTC height, `BtcHeightOf`, is one of the block and not of
its height: the code asks Bitcoin with the block's own timestamp and caches the
answer by hash (FSP:505-519), so two versions of one height may be weighed with
different powers. `verdicts` and `listed` are history: the blocks that a check has
found finalized, and the lists of providers that Babylon has had. The environment
appends and reorganises blocks, lets
registered providers vote (a Byzantine one for two versions of a height),
registers providers and lets the 240 s of the provider list pass. Locals no
longer needed are reset so that states do not differ in dead values.

**FinalizedStateProvider.** A probe is now a whole check: `BeginProbe`, the
steps of `BlockFinality`, `EndProbe`. The property `ImplementsSearch` is the
specification of `FinalizedSearch` under the refinement mapping `head` = length
of the chain, `final` = the blocks of the chain with a quorum of votes. The steps of a check are stutters of the abstract search.

**L2BlockHandler.** `Tick`, `Fetch`, `OnBlock`, `Handled`, `EndLoop`
follow `fetchBlocks`; `AddProcesser` waits while `handleBlock` holds the read
lock, as the RWMutex makes it, and replaces the processer whose name it is
given. `blockInterval` has no setter, so the branch that skips blocks
(`block_handler.go`:140-148) is never taken and is left out. `seen` and `joined`
are history variables of the processer registered now.

**RestoreFp.** One action per query and per write transaction of
`putFpFromResponse`; `Fail` stands for an error and for a kill at any point.

**ConsumerController.** `Call` and `Returned` are the two ends of a submission;
between them Babylon may include the transaction and take its fee. A balance is
its place in the history of the account, so that "older" can be said. The
goroutine of `recordFpBalance` takes `metricsMu` (`Lock`), asks for its address
(`GetAddr`, which may return early and runs the deferred unlock), queries
(`queryBalance`, which may time out, fail, or find the context done) and sets the
gauge (`RecordFpBalance`), with 0 when the query failed, as the code does.

**OperatorApp.** `program` says which of the two processes runs. One action per
call of the boot that can fail (metrics server, configuration, EOTS manager,
controllers, each of the two L2 clients, daemon, instance), one per call of
`stopImpl` that can fail or wait, the steps of `StartServer`, and a counter of
HTTP requests in flight. `Returns` is `main` returning, which runs the deferred
`Stop` of the metrics server; `Dies` is `logger.Fatal`, or a panic in a
goroutine, which runs nothing and may come from the metrics server, from the
JSON-RPC server or, when Babylon's answer holds no balance (`controller.go`:190),
from a metrics goroutine (`AnswerPanics`). The actions of `ConsumerController` run inside while the process is
alive; the loop starts in `NewControllers`, and only a running instance submits.

## 3. Runs

| Run | Question | Bounds |
|---|---|---|
| `SearchInOrder` | Are answers final, do they miss only what a probe has denied, does the finalized tag not go back, does the shared height stay final, does every bisection halve its interval, is `SearchInv` an invariant, has a request less left to do after every step, and does it end? | 2 requests, 5 blocks, fast check 3, head lag 1 |
| `BlockChecks` | Does a verdict of checks that race rest on votes for that block and powers at its BTC height, and can two versions of a block both be found finalized? | 2 checks, 3 providers (one registering late, one voting twice), 1 height, 1 reorganisation into the next BTC block, where the stake is spread otherwise (4, 2, 1 and 4, 3, 1), maps dropped at every second entry |
| `ProviderSearch` | Does the whole service implement the search, deliver final blocks, bound its caches, move every request forward with every step, and end it? | 1 request after another, 4 blocks in 2 BTC blocks, fast check 2, maps dropped at every second entry |
| `ProviderRaces` | Do two searches over the same caches and the same shared height stay sound? | 2 requests, 3 blocks in 2 BTC blocks, fast check 1, maps dropped at every second entry |
| `HandlerBlocks` | Does every processer get every block once and in order, and does the handler catch up? | 2 names, under which processers come and are replaced, 5 blocks |
| `RestoreRetries` | Is the store consistent whatever fails and however often the command is repeated? | 3 votes, 2 edits |
| `OperatorStops` | For both programs: is a stop orderly, does a signal end the process, are both L2 clients on one chain, does the gauge follow the submissions in order, is the mutex held by the goroutine inside only, and given back? | no chain id configured and an endpoint that answers for 2, 1 request in flight, 2 metrics goroutines, 1 change of the balance |

The bounds reach every branch: with 5 blocks and a fast check of 3 the search
takes the head, fast, next, try and bisect probes, bisects twice, and two
requests can hold different heads and a shared height above their own. Maps
that are dropped at every second entry lose entries between the lookup
and the write of another check. In `BlockChecks` a provider registers between two
checks, so that the list, the powers and the votes can come from different
moments, and the two versions of its one height are in two BTC blocks, so that
every map but `finalizedCache` and `l2BlockCache` has two keys; its `NewBlock` is a
reorganisation, and a chain that grows is in the two runs of the provider. The stakes satisfy `ByzantineWeak` (section
4): TLC evaluates it in `MCBlockFinality`. With the four blocks in two BTC blocks of
`ProviderSearch` every map has two keys or more, so that `CacheBound` is not met for
want of entries. `ProviderRaces` has the fewest blocks with which every kind of
probe is made and two bisections write the shared height (a mutant that stores the
midpoint before its answer fails there); its states are compared without the
replies already given and the other history (`WithoutHistory`), on which no step
and not the property depends. The branch for a
consumer chain without any stake is not reached by these runs: that a block
without stake counts as finalized is part of `QuorumReached`, and the theorems
cover it. In `OperatorStops` two goroutines and one change of the balance are
enough for a late answer to meet a younger one (the mutant without the mutex
fails), and a configured chain id is the state after the first client has
learned one.

The remaining runs check a sentence of the code's comments, logs or texts that
the code does not keep:

| Run | Sentence | What the code does |
|---|---|---|
| `BlockTwoThirds` | FSP:354 "more than 2/3 of the total voting power" | exactly 2/3 suffice (FSP:400) |
| `BlockStaleVotes` | FSP:344 "return true if finalized, false if not finalized" | votes cached before the quorum answer false until the map is dropped (FSP:476) |
| `BlockOldPowers` | FSP:348-351 "all the FPs pubkey for the consumer chain", "all FPs voting power at this BTC height", "total voting power" | powers are cached by BTC height alone (FSP:600): a check that is given a longer list weighs the votes without the new stake |
| `BlockReorged` | FSP:352 "voted this L2 block with the same height and hash" | `finalizedCache` knows heights only: a check begun after a reorganisation finds its height there (FSP:260) |
| `BalanceGauge` | `metrics/fp_collectors.go`:25 "Current Balance of a finality provider 's babylon address" | a query that fails sets the gauge to 0 (`controller.go`:163) |

Five smaller disagreements between a comment or a log line and the code are
part of the models without a run of their own: the first search of a process
starts from block 1 untested and may return it, although FSP:306 says "from is
a finalized block" (this is why the properties say `Trusted`); FSP:378 logs
"block not finalized by no totalPower" and the next line returns true; the path
of `putFpFromResponse` that creates the record leaves the last voted height at
0, although `fp.go`:83 says "update db with the fp info from the consumer
chain"; FSP:342 says "if the finality gadget is not enabled, always return true",
which the code never asks; and `Start` starts the configured or the only stored provider instance,
although `app.go`:160 says "without any finality-provider instances".

`CHECK_DEADLOCK FALSE` stands only where the goroutine or the process really
stops (block handler, controller, operator).

**Fairness.** Weak fairness for the goroutine of a request, of the block
handler, of `main`, of the server and for the metrics goroutines as a whole: the
Go scheduler runs a goroutine that is not blocked, and every external call
returns an answer or an error (the query of a balance has a deadline of 8 s).
Of two goroutines that wait for `metricsMu` neither is favoured: `MutexFreed`
asks only that the one inside leaves. `CatchesUp` also needs strong fairness of
`Fetch`: L2 does not refuse every block it is asked for. `SignalStops` also needs
that requests and submissions in flight end, the first of which is what
`RequestsEnd` and `RequestsServed` show; without it the `Shutdown` with no
deadline would wait for ever. Nothing is assumed of the environment: no block,
vote, request or signal has to come.

## 4. Proofs

`FinalizedSearchProofs` proves, for every set of requests, every chain length,
every `FastCheckNumberCount` and `HeadLag`:

* `TypeCorrect`: type correctness;
* `SearchInvariant`: `SearchInv`, the inductive invariant;
* `LastFinalizedSoundThm`, `AnswerSoundThm`: with `VotesInOrder` the shared
  height and every answer are final (or the unchecked places 0 and 1);
* `AnswerFreshThm`: with `VotesInOrder` an answer misses nothing below the head
  that was final when the request began, except at and above a block that one
  of its own probes has denied. That a probe may deny a final block is the
  finding of `BlockStaleVotes`; the theorem says that nothing else loses one, not
  an error that is dropped, not swapped ends, not another request;
* `NeverBackThm`: an answer is not below the shared height its request began
  with, or is next to the head it read. It needs no assumption on votes or probes;
* `BisectHalvesThm`: a recursion of the bisection gets half of its interval,
  rounded up (`FromToLinear`, one block less each time, is a mutant);
* `RequestAdvancesThm`: every step of a running request lowers `Left`, a bound on
  the steps it has left that starts at `MaxHeight` + 5, and nothing raises it.
  It needs no assumption on votes, probes or other requests. With the fairness of
  the goroutine, which the prover cannot use, it is why `RequestsEnd` holds.

The argument: `LastFinalizedSound` alone is not inductive, because
`SetLastFinalized` is called with a height that no probe has answered. `SearchInv`
adds what each request knows: the lower end of its interval is trusted (final,
or 0 or 1), the probe is the rounded-up midpoint of the interval, and, for freshness,
everything it should still find (`since`) lies below the upper end; `BackLocal` says
that the lower end is at or above `floor`. `final`
only grows and, with votes in order, is closed downwards, so what one request
knows is not disturbed by another, and `check - 1` is trusted when `check` is final
(`TrustedDown`). The case where another request has raised the shared height
above this request's head, so that the ends are swapped, is covered by
`FromToInv`, which holds for ends in either order.

`StakeQuorumProofs` proves, for every finite set of providers and every map of
powers: `QuorumMonotone` (more votes never undo a quorum, so a positive verdict
from old votes is right) and `QuorumIntersection` (two quorums share at least a
third of the stake, so conflicting verdicts need a third of it voting twice;
with "more than 2/3" it would be more than a third). `QuorumsShare` is the same for
two quorums reached under different powers p and q by the lists S and T, of which
T holds S: they share at least what S keeps in both maps (`Common(p, q)`, the
lesser power of each provider), less a third of what either list holds. A
sum of powers is defined as the number of units of stake behind a set of
providers, which can be reasoned about without induction; `StakeIsSumThm` is the
body of the loop that sums up (nobody has 0, one provider more adds its power),
and on the instances of the runs TLC compares it with a sum
(`StakeIsSum` in `MCBlockFinality`).

`RestoreFpProofs` proves `RestoreInv` and from it `NeverAhead`, `UpdatedAgrees`,
`VotesNeverForgotten` and `SlashedForGood`. The invariant says that a response is
what Babylon once said (votes and slashings are only ever added), that the
record does not claim more than the response while a command works (nobody else
writes to the store meanwhile), and how far the command has got.

`BlockFinalityProofs` proves, for any number of checks, any chain, any number of
reorganisations, any `CacheMapCount`, any powers and any BTC heights of the blocks,
`BlockInv` and from it type correctness and `FinalizedSound`, and `CacheBound`.
`FinalizedSound` says of every block found finalized that the votes on that very
block are a quorum of the powers at its own BTC height in one list of providers
that Babylon has had, and that only heights of such blocks are in `finalizedCache`
or reported. It does not say that all this held at one moment: the powers may be
those of a list older than the votes, which is the finding of `BlockOldPowers`.
With every provider registered from the start there is one list, votes only
grow, and the qualification falls: `FixedListSound`. `FinalizedSound` is not
inductive: a check in the middle has only parts of a quorum. `BlockInv` adds
what each part is worth: `CacheInv` says of every cache entry, and `LocalInv` of
every check at every stage, that it was true when it was read - powers are those
of the right BTC height for *some* list that Babylon has had, votes are a subset
of the votes in the contract, a block has the height it is filed under. Both are
stated over the lists had so far and the votes, which only grow, so the steps of
the environment keep them (more votes never undo a quorum: `QuorumMonotone`),
and `Put` writes only what a check holds, so the steps of other checks keep them
too, whatever they drop.

`AgreementThm` lets providers register between two verdicts and two versions of a
height have different BTC heights. It assumes `ByzantineWeak`: for any two versions
of a height, weighed with the powers p and q, and any list S from the first one on,
three times the Byzantine stake in `Common(p, q)`, plus the stake of S in p and of
all in q, is less than three times what S keeps in both. A verdict may rest on any
list that Babylon has had; of two lists one holds the other (`ListsGrow`, an
invariant), so `QuorumsShare` gives the two quorums more shared stake than the
Byzantine providers have, and an honest provider votes for one version of a height
(`HonestVotes`). With all registered from the start and the same powers for both
versions `ByzantineWeak` says less than a third: `FixedListAgreement`, which also says
what is needed when the powers differ.

`ChainBlockFinalizedThm` is the other side of the finding of `BlockReorged`:
without reorganisations a height is reported as finalized for the very block
it has on L2, from the cache or not, so they are the only cause.

`FinalizedStateProviderProofs` has two parts, both for any number of requests.

*In any network*, with reorganisations, late registrations and votes in any order:
`FlowInv` says that the search's intervals and the checks are well formed and that
a check runs only inside a probe of its request and tests that block (`Linked`).
From it follow type correctness, that the service implements `BlockFinality`
(`ImplementsChecksThm`), so that `FinalizedSound` and `CacheBound` hold of the whole
service (`ProviderCachesThm`), and `ServeAdvancesThm`: `Work`, 19 times the steps left
to the search plus the steps left to the check, falls with every step of a
request. The search consumes one step per check whatever the check answers, and
a check passes its stages once, whatever the caches have lost meanwhile.

*In a settled network* the service implements `FinalizedSearch`
(`ImplementsSearchThm`: each step of the service is a step of the search or a
stutter), from which `ConcurrentSound` and `DeliveredFinalized` follow. `Settled` is: no
reorganisations, a fixed list, and, where votes come in order, a quorum for a
block is one for the blocks below it, whatever their powers - without the last a
block may be final while the one below it is not, and the search has no ground
to stand on. `ProviderInv` adds to `FlowInv` the search's `SearchInv`, that
the list is the fixed one (`OneList`), that voters of a block have voted for the
blocks below (`VotesNested`), and that whatever a cache or a check holds is on the
chain (`ChainInv`). `SearchInv` is not proved again: the theorems of
`FinalizedSearchProofs` are instantiated under the refinement mapping.

`ConsumerControllerProofs` proves `MutexHeld` (`metricsMu` is held by the goroutine
between `Lock` and `Unlock`, by one at most and by none that has returned),
`GaugeInOrder` and `GaugeFollows`. The last two are not inductive: the invariant
adds `MutexHeld`, that an answer in hand is not older than what the gauge
shows (`Younger`), and that nobody knows a balance that has not been (`Known`).

`OperatorAppProofs` proves that the controller inside the process behaves like
`ConsumerController` (`ControllerThm`, step by step), so that its theorems hold of
the process (`OperatorMutexHeld`, `OperatorGaugeInOrder`, `OperatorGaugeFollows`); and, by way of the
stages of the boot and of `stopImpl` (`ChainStages`, `StopStages`), `OrderlyStop`,
`SameChain` and type correctness.

`L2BlockHandlerProofs` proves type correctness, `BelowHead` (the loop variable of
`fetchBlocks` stays below a head that L2 had, and L2 only grows) and
`DeliveredOnce`. For the last the invariant says that the block at hand is the one
after the last one handled (`GapInv`), through failed ticks and new ones, and that
nobody is called before it is registered (`JoinInv`).

All are proved from the named assumptions on the constants
(`SearchAssumption`, `StakeAssumption`, `BlockAssumption`, ...), which only give
their types, and from what is said above.

Only model-checked: all liveness (`RequestsEnd`, `RequestsServed`, `CatchesUp`,
`SignalStops`, `MutexFreed`), which is out of the prover's reach, as induction
over data and recursive operators are (`StakeIsSum` as a sum over a whole set); and
the runs that find a violation. Of `RequestsEnd`, `RequestsServed` and
`MutexFreed` the safety part is proved: `RequestAdvances`, `ServeAdvances` and
`MutexHeld`.

## 5. Assumptions and what is not modelled

* `VotesInOrder` is an assumption about the providers, not enforced by this
  code: a bisection is meaningless without it.
* The refinement of the search is checked and proved without reorganisations and
  with a fixed list of providers (that of the checks needs neither); with a late registration or a reorganisation a verdict can
  refer to another list or block, which is what `FinalizedSound` and
  `BlockReorged` are about.
* The BTC height of a block does not change: the answer of
  `GetBlockHeightByTimestamp` for one timestamp stays what it is while Bitcoin
  grows, and Bitcoin is not reorganised. The powers at a BTC height do not change
  either, but for the providers they are asked for.
* `DeliveredFinalized` is checked and proved without reorganisations, where the
  second L2 query of `GetBlockByNumber` returns the block that was tested. With
  one between the two the code promises nothing.
* A request to the JSON-RPC server that hangs, and a `Shutdown` that waits for it,
  are excluded by the fairness of `RequestEnds`.
* `votedPower*3` and `totalPower*2` cannot overflow 64 bits with the supply of
  satoshis there is, so powers are natural numbers.
* `QueryEarliestActiveDelBtcHeight` (FSP 527-566) and the controller's `Close`
  have no caller; `Close` would use an `l2Client` that nothing sets. The package
  `finality-gadget/operator` (`block_handler.go`) is imported by no program of
  this repository, and its `blockInterval` has no setter: `L2BlockHandler` models the
  library as a program that registers processers would use it.
* The metrics goroutines are bounded by `Recorders`; the code has no bound.
  Scrapes of the metrics server are not modelled.
* Block numbers other than "finalized" are passed to L2 unchanged.
* The provider instance, the randomness committer and the submitter are in the
  finality-provider library: here they are submissions that may happen. The
  other methods of the EOTS manager client, the signer (a service of its own,
  `signer/services.go`:24-61, which opens an L2 client and then waits on a ticker
  that does nothing), configuration, logging, test helpers and scripts keep no state
  that a property here depends on; `PROJECT.json` gives the reason for each.

## 6. Plan

Done: every component of the code that keeps state of its own, their
compositions (search over caches, controller in the operator), the refinement
with its proof, and the proofs of section 4. What would add most next:

1. a version of `BlockFinality` in which the BTC height of a block may change
   under a reorganisation of Bitcoin, and one in which providers register under
   the refinement;
2. the steps left to a stop of the operator, as `ServeAdvances` is for a request;
3. liveness of the operator with scrapes that hang.
