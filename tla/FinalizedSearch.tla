--------------------------- MODULE FinalizedSearch ---------------------------
(***************************************************************************)
(* The search of FinalizedStateProvider for the highest finalized L2       *)
(* block: QueryFinalizedBlockInBabylon and its bisection                   *)
(* queryFinalizedBlockInBabylonFromTo, run by any number of concurrent     *)
(* JSON-RPC requests that share lastFinalizedHeight.                       *)
(*                                                                         *)
(* The test of one block, queryFinalizedBlockInBabylonByNumber, is a probe *)
(* answered in one step from the set `final' of blocks that Babylon has    *)
(* finalized, or denied: votes cached before the quorum hide it from every *)
(* later probe.  BlockFinality models the test itself and                  *)
(* FinalizedStateProvider puts the two together.                           *)
(***************************************************************************)
EXTENDS Integers

CONSTANTS
  Requests,             \* concurrent callers of QueryFinalizedBlockInBabylon
  MaxHeight,            \* bound: the L2 chain stops growing at this block
  FastCheckNumberCount, \* 256 in the code
  HeadLag,              \* how far the answer of BlockNumber may trail the head
  VotesInOrder          \* TRUE: block h is finalized only after 1..h-1

ASSUME SearchAssumption ==
  /\ MaxHeight \in Nat \ {0}
  /\ FastCheckNumberCount \in Nat
  /\ HeadLag \in Nat
  /\ VotesInOrder \in BOOLEAN

VARIABLES
  head,                 \* newest L2 block
  final,                \* L2 blocks finalized by the votes in the contract
  lastFinalizedHeight,  \* FinalizedStateProvider.lastFinalizedHeight (under mu)
  req                   \* the local state of every request

vars == <<head, final, lastFinalizedHeight, req>>

Probing == {"head", "fast", "next", "try", "bisect"}

PCs == {"idle", "start", "set", "done", "failed"} \cup Probing

\* Two fields are history: `since', the blocks below the head it read that were
\* final when the request began and lie below every block its probes have
\* denied, and `floor', the shared height when it began.
Idle == [pc |-> "idle", current |-> 0, from |-> 0, to |-> 0,
         probe |-> 0, ans |-> 0, since |-> {}, floor |-> 0]

Request == [pc : PCs, current : 0..MaxHeight, from : 0..MaxHeight,
            to : 0..MaxHeight, probe : 0..MaxHeight, ans : 0..MaxHeight,
            since : SUBSET (1..MaxHeight), floor : 0..MaxHeight]

TypeOK ==
  /\ head \in 0..MaxHeight
  /\ final \in SUBSET (1..head)
  /\ lastFinalizedHeight \in 0..MaxHeight
  /\ req \in [Requests -> Request]

\* The service starts against a chain of any age; nothing is persisted, so
\* lastFinalizedHeight is the zero value.
Init ==
  /\ head \in 0..MaxHeight
  /\ final \in SUBSET (1..head)
  /\ VotesInOrder => \A h \in final : 1..h \subseteq final
  /\ lastFinalizedHeight = 0
  /\ req = [r \in Requests |-> Idle]
-----------------------------------------------------------------------------
(***************************************************************************)
(* Environment: the L2 chain and the finality contract on Babylon.         *)
(***************************************************************************)
MayFinalize(h) == VotesInOrder => 1..(h-1) \subseteq final

\* A new L2 block.  A block whose BTC height carries no stake at all is final
\* as soon as it exists.
NewBlock ==
  /\ head < MaxHeight
  /\ head' = head + 1
  /\ \/ final' = final
     \/ MayFinalize(head + 1) /\ final' = final \cup {head + 1}
  /\ UNCHANGED <<lastFinalizedHeight, req>>

\* The votes on block h reach the quorum.
Finalize(h) ==
  /\ h \in (1..head) \ final
  /\ MayFinalize(h)
  /\ final' = final \cup {h}
  /\ UNCHANGED <<head, lastFinalizedHeight, req>>
-----------------------------------------------------------------------------
(***************************************************************************)
(* The control of a request between two probes.  Each operator takes the   *)
(* local state q and returns the local state at the next probe or at the   *)
(* end of the call.                                                        *)
(***************************************************************************)
Lower(a, b)  == IF a <= b THEN a ELSE b
Higher(a, b) == IF a <= b THEN b ELSE a

\* At the end of the call only its result, and its history, remain.
Done(q, n) == [q EXCEPT !.pc = "done", !.ans = n, !.from = 0, !.to = 0, !.probe = 0]

Failed(q) == [Idle EXCEPT !.pc = "failed"]

Probe(q, pc, h) == [q EXCEPT !.pc = pc, !.probe = h]

\* Mutants: two adjacent blocks yield the upper one; blocks with one more
\* between them count as adjacent; the block after the lower end is probed.
FromToUpper(q, a, b) ==
  LET from == Lower(a, b)
      to   == Higher(a, b)
  IN  IF from + 1 >= to
      THEN [q EXCEPT !.pc = "set", !.ans = to]
      ELSE [q EXCEPT !.pc = "bisect", !.from = from, !.to = to,
                     !.probe = (from + to + 1) \div 2]

FromToEarly(q, a, b) ==
  LET from == Lower(a, b)
      to   == Higher(a, b)
  IN  IF from = to
      THEN [q EXCEPT !.pc = "set", !.ans = to]
      ELSE IF from + 2 >= to
      THEN [q EXCEPT !.pc = "set", !.ans = from]
      ELSE [q EXCEPT !.pc = "bisect", !.from = from, !.to = to,
                     !.probe = (from + to + 1) \div 2]

FromToLinear(q, a, b) ==
  LET from == Lower(a, b)
      to   == Higher(a, b)
  IN  IF from = to
      THEN [q EXCEPT !.pc = "set", !.ans = to]
      ELSE IF from + 1 = to
      THEN [q EXCEPT !.pc = "set", !.ans = from]
      ELSE [q EXCEPT !.pc = "bisect", !.from = from, !.to = to,
                     !.probe = from + 1]

\* queryFinalizedBlockInBabylonFromTo up to its next probe.
FromTo(q, a, b) ==
  LET from == Lower(a, b)
      to   == Higher(a, b)
  IN  IF from = to
      THEN [q EXCEPT !.pc = "set", !.ans = to]
      ELSE IF from + 1 = to
      THEN [q EXCEPT !.pc = "set", !.ans = from]
      ELSE [q EXCEPT !.pc = "bisect", !.from = from, !.to = to,
                     !.probe = (from + to + 1) \div 2]

\* lines 176-209: the block after `from', then the bisection.
AfterFast(q) ==
  IF q.from + 1 = q.current
  THEN Probe(q, "next", q.current)
  ELSE IF q.from + 1 < q.current
  THEN Probe(q, "try", q.from + 1)
  ELSE FromTo(q, q.from, q.current)

\* lines 158-174: the block FastCheckNumberCount below the head.
AfterHead(q) ==
  IF /\ q.current > FastCheckNumberCount
     /\ q.current - FastCheckNumberCount > q.from
  THEN Probe(q, "fast", q.current - FastCheckNumberCount)
  ELSE AfterFast(q)

\* lines 135-156, from the value read under mu.
AfterStart(q, last) ==
  LET from == IF last = 0 THEN 1 ELSE last
      p    == [q EXCEPT !.from = from]
  IN  IF q.current = from THEN Done(p, q.current)
      ELSE IF q.current > 1 THEN Probe(p, "head", q.current - 1)
      ELSE AfterHead(p)

\* Mutants: the comparison is dropped; so is the zero value.
SetLastFinalizedAlways(height) == lastFinalizedHeight' = height

SetLastFinalizedBelow(height) == lastFinalizedHeight' = height - 1

\* SetLastFinalized: never lowers the shared height.
SetLastFinalized(height) ==
  lastFinalizedHeight' = IF lastFinalizedHeight < height THEN height
                                                         ELSE lastFinalizedHeight
-----------------------------------------------------------------------------
Local(r, q) == req' = [req EXCEPT ![r] = q]

\* The call, once BlockNumber has answered n.
Called(n) == [Idle EXCEPT !.pc = "start", !.current = n,
                          !.since = {h \in final : h < n},
                          !.floor = lastFinalizedHeight]

\* l2Client.BlockNumber answers, or fails.
Query(r) ==
  /\ req[r].pc = "idle"
  /\ \/ \E n \in 0..head : n + HeadLag >= head /\ Local(r, Called(n))
     \/ Local(r, Failed(Idle))
  /\ UNCHANGED <<head, final, lastFinalizedHeight>>

\* GetLastFinalized: one critical section of mu, after BlockNumber returned.
ReadLast(r) ==
  /\ req[r].pc = "start"
  /\ Local(r, AfterStart(req[r], lastFinalizedHeight))
  /\ UNCHANGED <<head, final, lastFinalizedHeight>>

\* What a probe of block h may answer: "yes" and "no" are the results of
\* queryFinalizedBlockInBabylonByNumber, "err" its error.
Answers(h) == {"err", "no"} \cup (IF h \in final THEN {"yes"} ELSE {})

\* The request after the answer: a denied block, and those above it, it is no
\* longer expected to find.
Heard(r, res) ==
  [req[r] EXCEPT !.since = IF res = "no" THEN {h \in @ : h < req[r].probe} ELSE @]

\* lines 149-155: an error here is dropped and the search goes on.
ProbeHead(r, res) ==
  LET q == Heard(r, res)
  IN  /\ q.pc = "head"
      /\ Local(r, IF res = "yes" THEN Done(q, q.probe)
                                 ELSE AfterHead(q))
      /\ UNCHANGED lastFinalizedHeight

\* Mutant: the answer is not looked at.
ProbeFastUnchecked(r, res) ==
  LET q == Heard(r, res)
  IN  /\ q.pc = "fast"
      /\ Local(r, IF res = "err" THEN Failed(q)
                  ELSE AfterFast([q EXCEPT !.from = q.probe]))
      /\ UNCHANGED lastFinalizedHeight

\* lines 165-173: a finalized block becomes the lower end.
ProbeFast(r, res) ==
  LET q == Heard(r, res)
  IN  /\ q.pc = "fast"
      /\ Local(r, IF res = "err" THEN Failed(q)
                  ELSE IF res = "yes"
                  THEN AfterFast([q EXCEPT !.from = q.probe])
                  ELSE AfterFast(q))
      /\ UNCHANGED lastFinalizedHeight

\* Mutant: the search starts over while the next block is not final.
ProbeNextAgain(r, res) ==
  LET q == Heard(r, res)
  IN  /\ q.pc = "next"
      /\ Local(r, IF res = "err" THEN Failed(q)
                  ELSE IF res = "yes" THEN Done(q, q.current)
                  ELSE [q EXCEPT !.pc = "start"])
      /\ UNCHANGED lastFinalizedHeight

ProbeNext(r, res) ==
  LET q == Heard(r, res)
  IN  /\ q.pc = "next"
      /\ Local(r, IF res = "err" THEN Failed(q)
                  ELSE IF res = "yes" THEN Done(q, q.current)
                  ELSE Done(q, q.from))
      /\ UNCHANGED lastFinalizedHeight

ProbeTry(r, res) ==
  LET q == Heard(r, res)
  IN  /\ q.pc = "try"
      /\ Local(r, IF res = "err" THEN Failed(q)
                  ELSE IF res = "yes"
                  THEN FromTo(q, q.probe, q.current)
                  ELSE FromTo(q, q.from, q.current))
      /\ UNCHANGED lastFinalizedHeight

\* Mutant: the midpoint is stored before the answer is looked at.
ProbeBisectEager(r, res) ==
  LET q == Heard(r, res)
  IN  /\ q.pc = "bisect"
      /\ SetLastFinalized(q.probe)
      /\ Local(r, IF res = "err" THEN Failed(q)
                  ELSE IF res = "yes" THEN FromTo(q, q.probe, q.to)
                  ELSE FromTo(q, q.from, q.probe))

\* One call of queryFinalizedBlockInBabylonFromTo.  A finalized midpoint
\* raises the shared height to the block below it before the recursion.
ProbeBisect(r, res) ==
  LET q == Heard(r, res)
  IN  /\ q.pc = "bisect"
      /\ \/ /\ res = "err"
            /\ Local(r, Failed(q))
            /\ UNCHANGED lastFinalizedHeight
         \/ /\ res = "yes"
            /\ SetLastFinalized(q.probe - 1)
            /\ Local(r, FromTo(q, q.probe, q.to))
         \/ /\ res = "no"
            /\ Local(r, FromTo(q, q.from, q.probe))
            /\ UNCHANGED lastFinalizedHeight

\* The continuation of request r once its probe has answered res.
Resume(r, res) ==
  \/ ProbeHead(r, res)
  \/ ProbeFast(r, res)
  \/ ProbeNext(r, res)
  \/ ProbeTry(r, res)
  \/ ProbeBisect(r, res)

Answered(r) ==
  /\ req[r].pc \in Probing
  /\ \E res \in Answers(req[r].probe) : Resume(r, res)
  /\ UNCHANGED <<head, final>>

\* lines 209-214: the trailing SetLastFinalized of the result.
SetResult(r) ==
  /\ req[r].pc = "set"
  /\ SetLastFinalized(req[r].ans)
  /\ Local(r, Done(req[r], req[r].ans))
  /\ UNCHANGED <<head, final>>

\* The caller takes the result.
Return(r) ==
  /\ req[r].pc \in {"done", "failed"}
  /\ Local(r, Idle)
  /\ UNCHANGED <<head, final, lastFinalizedHeight>>

Step(r) == ReadLast(r) \/ Answered(r) \/ SetResult(r)

Next ==
  \/ NewBlock
  \/ \E h \in 1..head : Finalize(h)
  \/ \E r \in Requests : Query(r) \/ Step(r) \/ Return(r)

\* A goroutine that is running a request keeps running: every external call
\* returns an answer or an error.
Fairness == \A r \in Requests : WF_vars(Step(r))

Spec == Init /\ [][Next]_vars

FairSpec == Spec /\ Fairness
-----------------------------------------------------------------------------
(***************************************************************************)
(* Properties.                                                             *)
(***************************************************************************)
\* What a height stands for when the search treats it as finalized: a block
\* finalized on Babylon, or the places 0 and 1 it starts from unchecked.
TrustedIn(F, h) == h \in F \cup {0, 1}

Trusted(h) == TrustedIn(final, h)

\* The height shared by all requests is finalized, although SetLastFinalized
\* is also called with the untested block below a finalized midpoint.  Needs
\* votes in order of height.
LastFinalizedSound == Trusted(lastFinalizedHeight)

\* A block number returned to a caller is finalized on Babylon, whatever the
\* other requests did to lastFinalizedHeight between this request's reads.
AnswerSound == \A r \in Requests : req[r].pc = "done" => Trusted(req[r].ans)

\* An answer misses nothing below the head it read that was already final when
\* the request began, unless a probe denied that block or one below it.
AnswerFresh ==
  \A r \in Requests : req[r].pc = "done" =>
    \A h \in req[r].since : h <= req[r].ans

\* Every recursion of queryFinalizedBlockInBabylonFromTo works on half of the
\* interval, rounded up: a search over n blocks costs about log2 n probes of
\* Bitcoin and Babylon, not n.
BisectHalves ==
  [][\A r \in Requests :
       req[r].pc = "bisect" /\ req'[r].pc = "bisect" /\ req'[r] # req[r]
         => 2 * (req'[r].to - req'[r].from) <= req[r].to - req[r].from + 1]_vars

\* A bound on the steps a running request has left: the probes that
\* QueryFinalizedBlockInBabylon may still make, each at most once, then those
\* of the bisection and the final SetLastFinalized.
Left(q) ==
  CASE q.pc = "start"  -> MaxHeight + 5
    [] q.pc = "head"   -> MaxHeight + 4
    [] q.pc = "fast"   -> MaxHeight + 3
    [] q.pc = "try"    -> MaxHeight + 2
    [] q.pc = "bisect" -> q.to - q.from + 1
    [] q.pc \in {"next", "set"} -> 1
    [] OTHER -> 0

\* A running request is changed by nobody else and goes back to no earlier
\* point, whatever its probes answer and the other requests store.
RequestAdvances ==
  [][\A r \in Requests :
       req[r].pc \notin {"idle", "done", "failed"} /\ req'[r] # req[r]
         => Left(req'[r]) < Left(req[r])]_vars

\* The finalized tag does not go back: a request answers no block below the one
\* all requests had reached when it began, whatever slower requests store
\* meanwhile and its own probes deny, unless it is next to the head it read.
NeverBack ==
  \A r \in Requests : req[r].pc = "done" =>
    req[r].ans >= req[r].floor \/ req[r].ans + 1 >= req[r].current

\* Every request ends, with a block number or an error.
RequestsEnd ==
  \A r \in Requests : req[r].pc = "start" ~> req[r].pc \in {"done", "failed"}
-----------------------------------------------------------------------------
(***************************************************************************)
(* The inductive invariant behind the properties (FinalizedSearchProofs).  *)
(***************************************************************************)
Ordered(F) == \A h \in F : 1..h \subseteq F

\* No probe is of block 0, and the bisection probes the middle of its interval,
\* which lies strictly inside it.
Interval(q) ==
  /\ q.pc \in Probing => q.probe # 0
  /\ q.pc = "bisect" => /\ q.from < q.probe /\ q.probe < q.to
                        /\ q.probe = (q.from + q.to + 1) \div 2

\* The lower end of the search, and an answer, are final.
SoundLocal(F, q) ==
  /\ q.pc \in Probing => TrustedIn(F, q.from)
  /\ q.pc = "next" => q.probe = q.current
  /\ q.pc \in {"set", "done"} => TrustedIn(F, q.ans)

\* What the request should find is final, without gaps, and below its head.
Expected(F, q) ==
  q.since \subseteq F /\ Ordered(q.since) /\ \A h \in q.since : h < q.current

\* Nothing that the request should find lies at or above the upper end.
FreshLocal(F, q) ==
  /\ q.pc \notin {"idle", "failed"} => Expected(F, q)
  /\ q.pc = "head" => q.probe = q.current - 1
  /\ q.pc = "next" => q.from + 1 = q.current
  /\ q.pc = "bisect" => \A h \in q.since : h < q.to
  /\ q.pc \in {"set", "done"} => \A h \in q.since : h <= q.ans

\* The search works at or above the shared height it began with, or next to
\* the head.
AtLeast(q, n) == n >= q.floor \/ n + 1 >= q.current

BackLocal(last, q) ==
  /\ q.pc = "start" => q.floor <= last
  /\ q.pc \in Probing => AtLeast(q, q.from)
  /\ q.pc \in {"set", "done"} => AtLeast(q, q.ans)
  /\ q.pc \in {"fast", "try"} => q.from < q.probe
  /\ q.pc = "head" => q.probe + 1 = q.current
  /\ q.pc = "next" => q.probe = q.current

LocalInv(F, q) ==
  /\ Interval(q)
  /\ VotesInOrder => SoundLocal(F, q)
  /\ VotesInOrder => FreshLocal(F, q)

\* What the shared height and the local state of each request promise to each
\* other, whichever request moves next.
SearchInv ==
  /\ TypeOK
  /\ VotesInOrder => Ordered(final) /\ LastFinalizedSound
  /\ \A r \in Requests : LocalInv(final, req[r])
  /\ \A r \in Requests : BackLocal(lastFinalizedHeight, req[r])
=============================================================================
