----------------------- MODULE FinalizedStateProvider -----------------------
(***************************************************************************)
(* The JSON-RPC service as a whole: GetBlockByNumber("finalized") searches *)
(* for the highest finalized block (FinalizedSearch), each probe of the    *)
(* search is a check of one block over the shared caches (BlockFinality),  *)
(* and the block of the number found is then fetched from L2 by a second   *)
(* client.                                                                 *)
(*                                                                         *)
(* The steps are those of the two modules.  A probe begins and ends with   *)
(* its check, so the services, the other requests and the clock move       *)
(* between the question and the use of its answer.                         *)
(***************************************************************************)
EXTENDS BlockFinality

\* A request runs one check at a time, so it is named like its check.
Requests == Checks

CONSTANTS FastCheckNumberCount, HeadLag          \* see FinalizedSearch

ASSUME ProviderAssumption == FastCheckNumberCount \in Nat /\ HeadLag \in Nat

VARIABLES
  lastFinalizedHeight, req,                      \* see FinalizedSearch
  reply                                          \* what each client got last

\* The blocks of the L2 chain that the votes in the contract finalize.
finalBlocks == {h \in DOMAIN chain : FinalAmong(registered, <<h, chain[h]>>)}

\* Votes read before a block reached its quorum stay in votedFpPksCache, so a
\* probe may deny a final block, as the probes of FinalizedSearch may.
S == INSTANCE FinalizedSearch WITH
       head <- Len(chain), final <- finalBlocks

searchVars == <<lastFinalizedHeight, req>>
checkVars == <<env, caches, fps, chk, verdicts>>
providerVars ==
  <<chain, votes, registered, listed, finalizedCache, l2BlockCache,
    btcblockHeightCache, multiFpPowerCache, votedFpPksCache, allFpsCache,
    allFpsFresh, chk, verdicts, lastFinalizedHeight, req, reply>>

Nothing == <<0, 0>>

ProviderTypeOK ==
  /\ TypeOK
  /\ S!TypeOK
  /\ reply \in [Requests -> Blocks \cup {Nothing}]

ProviderInit ==
  /\ Init
  /\ lastFinalizedHeight = 0
  /\ req = [r \in Requests |-> S!Idle]
  /\ reply = [r \in Requests |-> Nothing]

\* GetBlockByNumber: the search of QueryFinalizedBlockInBabylon begins.
Query(r) ==
  /\ UNCHANGED <<checkVars, reply>>
  /\ S!Query(r)

\* The parts of the search between its probes.
Search(r) ==
  /\ UNCHANGED <<checkVars, reply>>
  /\ S!ReadLast(r) \/ S!SetResult(r)

BeginProbe(r) ==
  /\ req[r].pc \in S!Probing
  /\ Begin(r, req[r].probe)
  /\ UNCHANGED <<searchVars, reply>>

ProbeStep(r) ==
  /\ CheckStep(r)
  /\ UNCHANGED <<searchVars, reply>>

\* Mutants: an error of the check counts as finalized; a failed check is
\* repeated until it succeeds.
EndProbeErrorIsYes(r) ==
  /\ End(r)
  /\ S!Resume(r, IF chk[r].stage = "failed" \/ chk[r].ans THEN "yes" ELSE "no")
  /\ UNCHANGED reply

EndProbeRetries(r) ==
  /\ End(r)
  /\ \/ chk[r].stage = "failed" /\ UNCHANGED searchVars
     \/ chk[r].stage = "done" /\ S!Resume(r, IF chk[r].ans THEN "yes" ELSE "no")
  /\ UNCHANGED reply

\* The check returns and the search goes on with its answer.
EndProbe(r) ==
  /\ End(r)
  /\ S!Resume(r, IF chk[r].stage = "failed" THEN "err"
                 ELSE IF chk[r].ans THEN "yes" ELSE "no")
  /\ UNCHANGED reply

\* Mutants: the newest block is returned; number and hash are swapped.
DeliverLatest(r) ==
  /\ req[r].pc = "done"
  /\ UNCHANGED checkVars
  /\ S!Return(r)
  /\ reply' = [reply EXCEPT ![r] = <<Len(chain), chain[Len(chain)]>>]

DeliverSwapped(r) ==
  /\ req[r].pc = "done"
  /\ UNCHANGED checkVars
  /\ S!Return(r)
  /\ reply' = [reply EXCEPT ![r] = <<chain[req[r].ans], req[r].ans>>]

\* eth_getBlockByNumber of the number found: the block L2 has there now.
Deliver(r) ==
  /\ req[r].pc = "done"
  /\ UNCHANGED checkVars
  /\ S!Return(r)
  /\ \/ reply' = [reply EXCEPT ![r] =
                   IF req[r].ans \in DOMAIN chain
                   THEN <<req[r].ans, chain[req[r].ans]>> ELSE Nothing]
     \/ UNCHANGED reply

Fail(r) ==
  /\ req[r].pc = "failed"
  /\ UNCHANGED <<checkVars, reply>>
  /\ S!Return(r)

\* What the goroutine of a request does by itself.
Serve(r) ==
  \/ Search(r)
  \/ BeginProbe(r)
  \/ ProbeStep(r)
  \/ EndProbe(r)

ProviderNext ==
  \/ Environment /\ UNCHANGED <<searchVars, reply>>
  \/ \E r \in Requests : Query(r) \/ Serve(r) \/ Deliver(r) \/ Fail(r)

ProviderSpec == ProviderInit /\ [][ProviderNext]_providerVars

\* A goroutine that serves a request keeps running.
FairSpec == ProviderSpec /\ \A r \in Requests : WF_providerVars(Serve(r))
-----------------------------------------------------------------------------
(***************************************************************************)
(* Properties.                                                             *)
(***************************************************************************)
\* The caches, the votes and the search together behave like FinalizedSearch:
\* a probe answered yes is of a block that is final when the answer is used.
\* Without reorganisations and with a fixed list of providers.
ImplementsSearch == S!Spec

\* A client that asks for the finalized block gets a block that has its quorum
\* of votes in the contract, or the unchecked block 1.
DeliveredFinalized ==
  \A r \in Requests :
    \/ reply[r] \in {Nothing, <<1, 0>>}
    \/ FinalAmong(registered, reply[r])

\* The height the requests share, and the numbers they return, are final in
\* the contract, with the checks of several requests interleaved over the
\* caches.
ConcurrentSound == S!LastFinalizedSound /\ S!AnswerSound

\* Every request is answered or fails, and the caches cannot keep the search
\* from ending.
RequestsServed ==
  \A r \in Requests : req[r].pc = "start" ~> req[r].pc \in {"done", "failed"}

\* A bound on the steps that the check of a probe has left: a lookup, an answer
\* and a write at each of its five stages.
CheckLeft(q) ==
  LET asking(n) == CASE q.step = "lookup" -> n + 2
                     [] q.step = "fetch"  -> n + 1
                     [] q.step = "put"    -> n
  IN  CASE q.stage = "idle"  -> 18
        [] q.stage = "final" -> 17
        [] q.stage = "block" -> asking(14)
        [] q.stage = "fps"   -> asking(11)
        [] q.stage = "btc"   -> asking(8)
        [] q.stage = "power" -> asking(5)
        [] q.stage = "votes" -> asking(2)
        [] q.stage = "mark"  -> 1
        [] q.stage \in {"done", "failed"} -> 0

\* The same of a request: each step of the search may run one check.
Work(e, q) == 19 * S!Left(e) + CheckLeft(q)

\* Nothing sends a running request back: not a reorganisation, a provider that
\* registers, a failed call, a wiped map, nor what the other requests write to
\* the caches and to lastFinalizedHeight.
ServeAdvances ==
  [][\A r \in Requests :
       /\ req[r].pc \notin {"idle", "done", "failed"}
       /\ <<req'[r], chk'[r]>> # <<req[r], chk[r]>>
       => Work(req'[r], chk'[r]) < Work(req[r], chk[r])]_providerVars
-----------------------------------------------------------------------------
(***************************************************************************)
(* The inductive invariant behind the refinement                           *)
(* (FinalizedStateProviderProofs): FlowInv for any network, ProviderInv    *)
(* for one that is settled.                                                *)
(***************************************************************************)
\* The check holds a block that L2 had at its height.
SawBlock(q) ==
  \/ q.stage \in {"fps", "btc", "power", "votes", "mark"}
  \/ q.stage = "block" /\ q.step = "put"
  \/ q.stage = "done" /\ q.ans

OnChain(D, q) == SawBlock(q) => q.height \in D

\* Only heights that L2 has reached are in the caches and found finalized.
ChainInv(D) ==
  /\ DOMAIN finalizedCache \subseteq D
  /\ DOMAIN l2BlockCache \subseteq D
  /\ \A r \in Requests : OnChain(D, chk[r])

\* A check runs only inside a probe of its request, and tests that block.
Linked(q, e) ==
  /\ q.stage # "idle" => e.pc \in S!Probing
  /\ q.stage \notin {"idle", "failed"} => q.height = e.probe

\* The requests and their checks, whatever the network does.
FlowInv ==
  /\ ProviderTypeOK
  /\ BlockInv
  /\ \A r \in Requests : S!Interval(req[r]) /\ Linked(chk[r], req[r])

\* Providers that vote in order have voted for every block below.
VotesNested ==
  VotesInOrder => \A h \in Heights : \A g \in 1..(h-1) :
                    votes[<<h, 0>>] \subseteq votes[<<g, 0>>]

ReplyInv == VotesInOrder => DeliveredFinalized

ProviderInv ==
  /\ FlowInv
  /\ OneList
  /\ S!SearchInv
  /\ VotesNested
  /\ ChainInv(DOMAIN chain)
  /\ ReplyInv
=============================================================================
