----------------------- MODULE FinalizedSearchProofs -----------------------
(***************************************************************************)
(* Proofs about FinalizedSearch, for every number of requests, every chain *)
(* length, every FastCheckNumberCount and every HeadLag.                   *)
(***************************************************************************)
EXTENDS FinalizedSearch, TLAPS

(***************************************************************************)
(* Type correctness.                                                       *)
(***************************************************************************)

\* queryFinalizedBlockInBabylonFromTo leaves a well-formed local state.
LEMMA FromToType ==
  ASSUME NEW q \in Request, NEW a \in 0..MaxHeight, NEW b \in 0..MaxHeight
  PROVE  FromTo(q, a, b) \in Request
  <1> DEFINE from == Lower(a, b)
             to   == Higher(a, b)
             mid  == (from + to + 1) \div 2
  <1>1. from \in 0..MaxHeight /\ to \in 0..MaxHeight /\ from <= to
    BY DEF Lower, Higher
  <1>2. from # to => mid \in 0..MaxHeight
    BY <1>1, SearchAssumption
  <1> HIDE DEF from, to, mid
  <1>3. /\ [q EXCEPT !.pc = "set", !.ans = to] \in Request
        /\ [q EXCEPT !.pc = "set", !.ans = from] \in Request
        /\ from # to => [q EXCEPT !.pc = "bisect", !.from = from, !.to = to,
                                  !.probe = mid] \in Request
    BY <1>1, <1>2 DEF Request, PCs, Probing
  <1> QED
    BY <1>3 DEF FromTo, from, to, mid

\* The next probe and the end of a call are well-formed local states.
LEMMA LocalTypes ==
  ASSUME NEW q \in Request, NEW n \in 0..MaxHeight
  PROVE  /\ Done(q, n) \in Request
         /\ Failed(q) \in Request
         /\ \A pc \in Probing : Probe(q, pc, n) \in Request
         /\ [q EXCEPT !.from = n] \in Request
  <1>1. MaxHeight \in Nat /\ 0 \in 0..MaxHeight
    BY SearchAssumption
  <1>2. Failed(q) \in Request
    BY <1>1 DEF Failed, Idle, Request, PCs
  <1>3. Done(q, n) \in Request
    BY <1>1 DEF Done, Request, PCs
  <1> QED
    BY <1>2, <1>3 DEF Probe, Request, PCs

\* So does the part of QueryFinalizedBlockInBabylon after the fast check.
LEMMA AfterFastType ==
  ASSUME NEW q \in Request
  PROVE  AfterFast(q) \in Request
  <1>1. /\ q.from \in 0..MaxHeight /\ q.current \in 0..MaxHeight
        /\ q.from + 1 < q.current => q.from + 1 \in 0..MaxHeight
    BY SearchAssumption DEF Request
  <1>2. FromTo(q, q.from, q.current) \in Request
    BY <1>1, FromToType
  <1>3. /\ Probe(q, "next", q.current) \in Request
        /\ q.from + 1 < q.current => Probe(q, "try", q.from + 1) \in Request
    BY <1>1, LocalTypes DEF Probing
  <1> QED
    BY <1>2, <1>3 DEF AfterFast

\* So does the part after the probe below the head.
LEMMA AfterHeadType ==
  ASSUME NEW q \in Request
  PROVE  AfterHead(q) \in Request
  <1>1. q.current \in 0..MaxHeight /\ FastCheckNumberCount \in Nat
    BY SearchAssumption DEF Request
  <1>2. CASE /\ q.current > FastCheckNumberCount
             /\ q.current - FastCheckNumberCount > q.from
    <2>1. q.current - FastCheckNumberCount \in 0..MaxHeight
      BY <1>1, <1>2, SearchAssumption
    <2>2. Probe(q, "fast", q.current - FastCheckNumberCount) \in Request
      BY <2>1, LocalTypes DEF Probing
    <2> QED
      BY <1>2, <2>2 DEF AfterHead
  <1>3. CASE ~ (/\ q.current > FastCheckNumberCount
                /\ q.current - FastCheckNumberCount > q.from)
    BY <1>3, AfterFastType DEF AfterHead
  <1> QED
    BY <1>2, <1>3

\* So does the start of the search.
LEMMA AfterStartType ==
  ASSUME NEW q \in Request, NEW last \in 0..MaxHeight
  PROVE  AfterStart(q, last) \in Request
  <1> DEFINE from == IF last = 0 THEN 1 ELSE last
             p    == [q EXCEPT !.from = from]
  <1>1. from \in 0..MaxHeight /\ q.current \in 0..MaxHeight
    BY SearchAssumption DEF Request
  <1> HIDE DEF from
  <1>2. p \in Request
    BY <1>1, LocalTypes
  <1> HIDE DEF p
  <1>3. AfterHead(p) \in Request /\ Done(p, q.current) \in Request
    BY <1>1, <1>2, AfterHeadType, LocalTypes
  <1>4. q.current > 1 => Probe(p, "head", q.current - 1) \in Request
    <2>1. q.current > 1 => q.current - 1 \in 0..MaxHeight
      BY <1>1, SearchAssumption
    <2> QED
      BY <1>2, <2>1, LocalTypes DEF Probing
  <1> QED
    BY <1>3, <1>4 DEF AfterStart, p, from

\* An answer changes nothing of a request but what it is still expected to
\* find.
LEMMA HeardType ==
  ASSUME TypeOK, NEW r \in Requests, NEW res
  PROVE  LET p == req[r]
             q == Heard(r, res)
         IN  /\ p \in Request /\ q \in Request
             /\ q.pc = p.pc /\ q.current = p.current /\ q.from = p.from /\ q.to = p.to
             /\ q.probe = p.probe /\ q.floor = p.floor
             /\ q.since = IF res = "no" THEN {h \in p.since : h < p.probe} ELSE p.since
  <1>1. req[r] \in Request
    BY DEF TypeOK
  <1>2. \A S \in SUBSET (1..MaxHeight) : [req[r] EXCEPT !.since = S] \in Request
    BY <1>1 DEF Request
  <1>3. {h \in req[r].since : h < req[r].probe} \in SUBSET (1..MaxHeight)
    BY <1>1 DEF Request
  <1>4. Heard(r, res) \in Request
    BY <1>1, <1>2, <1>3 DEF Heard, Request
  <1> QED
    BY <1>1, <1>4 DEF Heard, Request

\* A call starts with what BlockNumber answered.
LEMMA CalledType ==
  ASSUME TypeOK, NEW n \in 0..MaxHeight
  PROVE  /\ Called(n) \in Request /\ Called(n).pc = "start" /\ Called(n).current = n
         /\ Called(n).since = {h \in final : h < n}
         /\ Called(n).floor = lastFinalizedHeight
  <1>1. final \in SUBSET (1..MaxHeight)
    <2>1. head \in 0..MaxHeight /\ final \in SUBSET (1..head)
      BY DEF TypeOK
    <2> QED
      BY <2>1, SearchAssumption
  <1>2. {h \in final : h < n} \in SUBSET (1..MaxHeight)
    BY <1>1
  <1>3. Idle \in Request /\ lastFinalizedHeight \in 0..MaxHeight
    BY SearchAssumption DEF Idle, Request, PCs, TypeOK
  <1>4. \A F \in SUBSET (1..MaxHeight), last \in 0..MaxHeight :
          [Idle EXCEPT !.pc = "start", !.current = n, !.since = F, !.floor = last] \in Request
    BY <1>3 DEF Request, PCs
  <1>5. Called(n) \in Request
    BY <1>2, <1>3, <1>4 DEF Called
  <1> QED
    BY <1>3, <1>5 DEF Called, Idle

\* Every continuation of a probe keeps the type invariant.
LEMMA ResumeType ==
  ASSUME TypeOK, NEW r \in Requests, NEW res, Resume(r, res)
  PROVE  /\ lastFinalizedHeight' \in 0..MaxHeight
         /\ req' \in [Requests -> Request]
         /\ lastFinalizedHeight' >= lastFinalizedHeight
  <1> DEFINE q == Heard(r, res)
  <1>1. /\ q \in Request /\ lastFinalizedHeight \in 0..MaxHeight
        /\ req \in [Requests -> Request]
    BY HeardType DEF TypeOK
  <1>2. /\ q.from \in 0..MaxHeight /\ q.to \in 0..MaxHeight
        /\ q.probe \in 0..MaxHeight /\ q.current \in 0..MaxHeight
    BY <1>1 DEF Request
  <1>3. Failed(q) \in Request
    BY <1>1, <1>2, LocalTypes
  <1>4. \A n \in 0..MaxHeight : Done(q, n) \in Request
    BY <1>1, LocalTypes
  <1>5. CASE ProbeHead(r, res)
    <2>1. AfterHead(q) \in Request /\ Done(q, q.probe) \in Request
      BY <1>1, <1>2, <1>4, AfterHeadType
    <2> QED
      BY <1>1, <1>5, <2>1 DEF ProbeHead, Local
  <1>6. CASE ProbeFast(r, res)
    <2>1. [q EXCEPT !.from = q.probe] \in Request
      BY <1>1, <1>2, LocalTypes
    <2>2. AfterFast([q EXCEPT !.from = q.probe]) \in Request /\ AfterFast(q) \in Request
      BY <1>1, <2>1, AfterFastType
    <2> QED
      BY <1>1, <1>3, <1>6, <2>2 DEF ProbeFast, Local
  <1>7. CASE ProbeNext(r, res)
    BY <1>1, <1>2, <1>3, <1>4, <1>7 DEF ProbeNext, Local
  <1>8. CASE ProbeTry(r, res)
    <2>1. /\ FromTo(q, q.probe, q.current) \in Request
          /\ FromTo(q, q.from, q.current) \in Request
      BY <1>1, <1>2, FromToType
    <2> QED
      BY <1>1, <1>3, <1>8, <2>1 DEF ProbeTry, Local
  <1>9. CASE ProbeBisect(r, res)
    <2>1. /\ FromTo(q, q.probe, q.to) \in Request
          /\ FromTo(q, q.from, q.probe) \in Request
      BY <1>1, <1>2, FromToType
    <2>2. req' \in [Requests -> Request]
      BY <1>1, <1>3, <1>9, <2>1 DEF ProbeBisect, Local
    <2>3. lastFinalizedHeight' \in 0..MaxHeight /\ lastFinalizedHeight' >= lastFinalizedHeight
      BY <1>1, <1>2, <1>9, SearchAssumption DEF ProbeBisect, SetLastFinalized
    <2> QED
      BY <2>2, <2>3
  <1> QED
    BY <1>5, <1>6, <1>7, <1>8, <1>9 DEF Resume

\* A step keeps the type invariant and never lowers lastFinalizedHeight.
LEMMA StepType ==
  ASSUME TypeOK, [Next]_vars
  PROVE  TypeOK' /\ lastFinalizedHeight' >= lastFinalizedHeight
  <1> USE SearchAssumption
  <1>0. /\ head \in 0..MaxHeight /\ final \in SUBSET (1..head)
        /\ lastFinalizedHeight \in 0..MaxHeight /\ req \in [Requests -> Request]
    BY DEF TypeOK
  <1>1. CASE NewBlock
    <2>1. /\ head \in Nat /\ head' = head + 1 /\ head' \in 0..MaxHeight
          /\ final' \subseteq final \cup {head + 1}
          /\ UNCHANGED <<lastFinalizedHeight, req>>
      BY <1>0, <1>1 DEF NewBlock
    <2>2. final' \subseteq 1..head'
      BY <1>0, <2>1
    <2> QED
      BY <1>0, <2>1, <2>2 DEF TypeOK
  <1>2. ASSUME NEW h \in 1..head, Finalize(h)
        PROVE  TypeOK' /\ lastFinalizedHeight' >= lastFinalizedHeight
    BY <1>0, <1>2 DEF Finalize, TypeOK
  <1>3. ASSUME NEW r \in Requests, Query(r)
        PROVE  TypeOK' /\ lastFinalizedHeight' >= lastFinalizedHeight
    <2>1. Idle \in Request
      BY DEF Idle, Request, PCs
    <2>2. Failed(Idle) \in Request
      BY <2>1 DEF Failed, Request, PCs
    <2>3. \A n \in 0..head : Called(n) \in Request
      BY <1>0, CalledType
    <2>7. req' \in [Requests -> Request]
      BY <1>0, <1>3, <2>2, <2>3 DEF Query, Local
    <2>8. UNCHANGED <<head, final, lastFinalizedHeight>>
      BY <1>3 DEF Query
    <2> QED
      BY <1>0, <2>7, <2>8 DEF TypeOK
  <1>4. ASSUME NEW r \in Requests, ReadLast(r)
        PROVE  TypeOK' /\ lastFinalizedHeight' >= lastFinalizedHeight
    <2>1. AfterStart(req[r], lastFinalizedHeight) \in Request
      BY <1>0, AfterStartType
    <2> QED
      BY <1>0, <1>4, <2>1 DEF ReadLast, Local, TypeOK
  <1>5. ASSUME NEW r \in Requests, Answered(r)
        PROVE  TypeOK' /\ lastFinalizedHeight' >= lastFinalizedHeight
    <2>1. PICK res \in Answers(req[r].probe) : Resume(r, res)
      BY <1>5 DEF Answered
    <2> QED
      BY <1>0, <1>5, <2>1, ResumeType DEF Answered, TypeOK
  <1>6. ASSUME NEW r \in Requests, SetResult(r)
        PROVE  TypeOK' /\ lastFinalizedHeight' >= lastFinalizedHeight
    <2>1. req[r].ans \in 0..MaxHeight
      BY <1>0 DEF Request
    <2>2. Done(req[r], req[r].ans) \in Request
      BY <1>0, <2>1, LocalTypes
    <2> QED
      BY <1>0, <1>6, <2>1, <2>2 DEF SetResult, SetLastFinalized, Local, TypeOK
  <1>7. ASSUME NEW r \in Requests, Return(r)
        PROVE  TypeOK' /\ lastFinalizedHeight' >= lastFinalizedHeight
    <2>1. Idle \in Request
      BY DEF Idle, Request, PCs
    <2> QED
      BY <1>0, <1>7, <2>1 DEF Return, Local, TypeOK
  <1>8. CASE UNCHANGED vars
    BY <1>0, <1>8 DEF vars, TypeOK
  <1> QED
    BY <1>1, <1>2, <1>3, <1>4, <1>5, <1>6, <1>7, <1>8 DEF Next, Step

\* The initial states have their types.
LEMMA InitType == Init => TypeOK
  BY SearchAssumption DEF Init, TypeOK, Idle, Request, PCs

\* Every state of the search is well-formed: the blocks called final exist,
\* and every request is at a control point of QueryFinalizedBlockInBabylon.
THEOREM TypeCorrect == Spec => []TypeOK
  <1>1. TypeOK /\ [Next]_vars => TypeOK'
    BY StepType
  <1> QED
    BY InitType, <1>1, PTL DEF Spec

-----------------------------------------------------------------------------
(***************************************************************************)
(* The inductive invariant SearchInv.                                      *)
(***************************************************************************)

\* What queryFinalizedBlockInBabylonFromTo does, without its record: it ends
\* with the lower end of an interval that cannot shrink, or probes strictly
\* inside it.
LEMMA FromToShape ==
  ASSUME NEW q \in Request, NEW a \in Nat, NEW b \in Nat, NEW e,
         e = FromTo(q, a, b)
  PROVE  /\ e.current = q.current /\ e.since = q.since /\ e.floor = q.floor
         /\ \/ e.pc = "set" /\ e.ans = Lower(a, b)
                            /\ Higher(a, b) <= e.ans + 1
            \/ /\ e.pc = "bisect" /\ e.from = Lower(a, b) /\ e.to = Higher(a, b)
               /\ e.from < e.probe /\ e.probe < e.to
               /\ e.probe = (e.from + e.to + 1) \div 2
  <1> DEFINE from == Lower(a, b)
             to   == Higher(a, b)
             mid  == (from + to + 1) \div 2
  <1>1. from \in Nat /\ to \in Nat /\ from <= to
    BY DEF Lower, Higher
  <1>2. from # to /\ from + 1 # to => from < mid /\ mid < to
    BY <1>1
  <1>3. mid \in Nat
    BY <1>1
  <1> HIDE DEF from, to, mid
  <1>4. CASE from = to
    <2>1. e = [q EXCEPT !.pc = "set", !.ans = to]
      BY <1>4 DEF FromTo, from, to
    <2>2. /\ e.pc = "set" /\ e.ans = to
          /\ e.current = q.current /\ e.since = q.since /\ e.floor = q.floor
      BY <2>1 DEF Request
    <2> QED
      BY <1>1, <1>4, <2>2 DEF from, to
  <1>5. CASE from # to /\ from + 1 = to
    <2>1. e = [q EXCEPT !.pc = "set", !.ans = from]
      BY <1>5 DEF FromTo, from, to
    <2>2. /\ e.pc = "set" /\ e.ans = from
          /\ e.current = q.current /\ e.since = q.since /\ e.floor = q.floor
      BY <2>1 DEF Request
    <2> QED
      BY <1>1, <1>5, <2>2 DEF from, to
  <1>6. CASE from # to /\ from + 1 # to
    <2>1. e = [q EXCEPT !.pc = "bisect", !.from = from, !.to = to, !.probe = mid]
      BY <1>6 DEF FromTo, from, to, mid
    <2>2. /\ e.pc = "bisect" /\ e.from = from /\ e.to = to /\ e.probe = mid
          /\ e.current = q.current /\ e.since = q.since /\ e.floor = q.floor
      BY <2>1 DEF Request
    <2> QED
      BY <1>2, <1>6, <2>2 DEF from, to, mid
  <1> QED
    BY <1>4, <1>5, <1>6

\* In an ordered set of blocks, what lies below a trusted height is trusted.
LEMMA TrustedDown ==
  ASSUME NEW F \in SUBSET (Nat \ {0}), Ordered(F),
         NEW a \in Nat, NEW b \in Nat, b <= a, TrustedIn(F, a)
  PROVE  TrustedIn(F, b)
  <1>1. CASE a \in F
    <2>1. b # 0 => b \in 1..a
      OBVIOUS
    <2> QED
      BY <1>1, <2>1 DEF TrustedIn, Ordered
  <1>2. CASE a \in {0, 1}
    BY <1>2 DEF TrustedIn
  <1> QED
    BY <1>1, <1>2 DEF TrustedIn

\* A set of blocks the bisection may work with.
Blocks == SUBSET (Nat \ {0})

\* The bisection of an interval with a trusted end keeps the local invariant.
LEMMA FromToInv ==
  ASSUME NEW F \in Blocks, NEW q \in Request,
         NEW a \in 0..MaxHeight, NEW b \in 0..MaxHeight,
         VotesInOrder => Ordered(F) /\ TrustedIn(F, a),
         VotesInOrder => Expected(F, q) /\ \A h \in q.since : h < Higher(a, b)
  PROVE  LocalInv(F, FromTo(q, a, b))
  <1> DEFINE e == FromTo(q, a, b)
  <1>1. e \in Request
    BY FromToType
  <1>2. /\ e.current = q.current /\ e.since = q.since
        /\ \/ e.pc = "set" /\ e.ans = Lower(a, b)
                           /\ Higher(a, b) <= e.ans + 1
           \/ /\ e.pc = "bisect" /\ e.from = Lower(a, b) /\ e.to = Higher(a, b)
              /\ e.from < e.probe /\ e.probe < e.to
              /\ e.probe = (e.from + e.to + 1) \div 2
    BY FromToShape
  <1> HIDE DEF e
  <1>3. Lower(a, b) \in Nat /\ Higher(a, b) \in Nat /\ Lower(a, b) <= a
    BY DEF Lower, Higher
  <1>4. Interval(e)
    BY <1>2, <1>3 DEF Interval, Probing
  <1>5. VotesInOrder => TrustedIn(F, Lower(a, b))
    BY <1>3, TrustedDown DEF Blocks
  <1>6. VotesInOrder => SoundLocal(F, e)
    BY <1>2, <1>5 DEF SoundLocal, Probing
  <1>7. ASSUME VotesInOrder
        PROVE  FreshLocal(F, e)
    <2>1. \A h \in q.since : h \in Nat
      BY <1>7 DEF Blocks, Expected
    <2>2. CASE e.pc = "set"
      <3>1. \A h \in e.since : h <= e.ans
        BY <1>1, <1>2, <1>3, <1>7, <2>1, <2>2
      <3> QED
        BY <1>2, <1>7, <2>2, <3>1 DEF FreshLocal, Expected
    <2>3. CASE e.pc = "bisect"
      BY <1>2, <1>7, <2>3 DEF FreshLocal, Expected
    <2> QED
      BY <1>2, <2>2, <2>3
  <1> QED
    BY <1>4, <1>6, <1>7 DEF LocalInv, e

\* The fields of a local state at its next probe, or at its end.
LEMMA LocalShape ==
  ASSUME NEW q \in Request, NEW n
  PROVE  /\ \A pc : /\ Probe(q, pc, n).pc = pc /\ Probe(q, pc, n).probe = n
                    /\ Probe(q, pc, n).from = q.from
                    /\ Probe(q, pc, n).current = q.current
                    /\ Probe(q, pc, n).since = q.since
                    /\ Probe(q, pc, n).floor = q.floor
         /\ Done(q, n).pc = "done" /\ Done(q, n).ans = n
         /\ Done(q, n).current = q.current /\ Done(q, n).since = q.since
         /\ Done(q, n).floor = q.floor
         /\ Failed(q).pc = "failed"
         /\ [q EXCEPT !.from = n].from = n
         /\ [q EXCEPT !.from = n].current = q.current
         /\ [q EXCEPT !.from = n].since = q.since
         /\ [q EXCEPT !.from = n].floor = q.floor
  BY DEF Probe, Done, Failed, Idle, Request

\* The blocks a request remembers are heights.
LEMMA SinceType ==
  ASSUME NEW q \in Request
  PROVE  \A h \in q.since : h \in Nat
  <1>1. q.since \in SUBSET (1..MaxHeight)
    BY DEF Request
  <1> QED
    BY <1>1, SearchAssumption

\* What holds of a request between two probes of QueryFinalizedBlockInBabylon.
Base(F, q) ==
  VotesInOrder => Ordered(F) /\ TrustedIn(F, q.from) /\ Expected(F, q)

\* A failed request satisfies the local invariant.
LEMMA FailedInv ==
  ASSUME NEW F, NEW q \in Request
  PROVE  LocalInv(F, Failed(q))
  <1>1. Failed(q).pc = "failed"
    BY LocalShape
  <1> QED
    BY <1>1 DEF LocalInv, Interval, SoundLocal, FreshLocal, Probing

\* A request may return n when n is trusted and misses nothing.
LEMMA DoneInv ==
  ASSUME NEW F, NEW q \in Request, NEW n, Base(F, q),
         VotesInOrder => TrustedIn(F, n),
         VotesInOrder => \A h \in q.since : h <= n
  PROVE  LocalInv(F, Done(q, n))
  <1> DEFINE e == Done(q, n)
  <1>1. e.pc = "done" /\ e.ans = n /\ e.current = q.current /\ e.since = q.since
    BY LocalShape
  <1> HIDE DEF e
  <1>2. Interval(e)
    BY <1>1 DEF Interval, Probing
  <1>3. VotesInOrder => SoundLocal(F, e)
    BY <1>1 DEF SoundLocal, Probing
  <1>4. VotesInOrder => FreshLocal(F, e)
    BY <1>1 DEF FreshLocal, Base, Expected
  <1> QED
    BY <1>2, <1>3, <1>4 DEF LocalInv, e

\* The probes outside the bisection keep the local invariant.
LEMMA ProbeInv ==
  ASSUME NEW F, NEW q \in Request, Base(F, q), NEW pc, NEW n,
         pc \in {"head", "fast", "next", "try"}, n # 0,
         pc = "head" => n = q.current - 1,
         pc = "next" => n = q.current /\ q.from + 1 = q.current
  PROVE  LocalInv(F, Probe(q, pc, n))
  <1> DEFINE e == Probe(q, pc, n)
  <1>1. /\ e.pc = pc /\ e.probe = n /\ e.from = q.from
        /\ e.current = q.current /\ e.since = q.since
    BY LocalShape
  <1> HIDE DEF e
  <1>2. Interval(e)
    BY <1>1 DEF Interval
  <1>3. VotesInOrder => SoundLocal(F, e)
    BY <1>1 DEF SoundLocal, Base
  <1>4. VotesInOrder => FreshLocal(F, e)
    BY <1>1 DEF FreshLocal, Base, Expected
  <1> QED
    BY <1>2, <1>3, <1>4 DEF LocalInv, e

\* The last part of QueryFinalizedBlockInBabylon keeps the local invariant.
LEMMA AfterFastInv ==
  ASSUME NEW F \in Blocks, NEW q \in Request, Base(F, q)
  PROVE  LocalInv(F, AfterFast(q))
  <1>1. q.from \in 0..MaxHeight /\ q.current \in 0..MaxHeight /\ q.from + 1 # 0
    BY DEF Request
  <1>2. CASE q.from + 1 = q.current
    BY <1>1, <1>2, ProbeInv DEF AfterFast
  <1>3. CASE q.from + 1 < q.current
    <2>1. LocalInv(F, Probe(q, "try", q.from + 1))
      BY <1>1, ProbeInv
    <2> QED
      BY <1>1, <1>3, <2>1 DEF AfterFast
  <1>4. CASE q.from + 1 > q.current
    <2>1. q.current <= Higher(q.from, q.current)
      BY <1>1 DEF Higher
    <2>2. Higher(q.from, q.current) \in Nat
      BY <1>1 DEF Higher
    <2>3. VotesInOrder => \A h \in q.since : h < Higher(q.from, q.current)
      BY <1>1, <2>1, <2>2, SinceType DEF Base, Expected
    <2>4. LocalInv(F, FromTo(q, q.from, q.current))
      BY <1>1, <2>3, FromToInv DEF Base
    <2> QED
      BY <1>1, <1>4, <2>4 DEF AfterFast
  <1> QED
    BY <1>1, <1>2, <1>3, <1>4

\* So does the part after the probe below the head.
LEMMA AfterHeadInv ==
  ASSUME NEW F \in Blocks, NEW q \in Request, Base(F, q)
  PROVE  LocalInv(F, AfterHead(q))
  <1>1. q.current > FastCheckNumberCount =>
          LocalInv(F, Probe(q, "fast", q.current - FastCheckNumberCount))
    <2>1. q.current > FastCheckNumberCount => q.current - FastCheckNumberCount # 0
      BY SearchAssumption DEF Request
    <2> QED
      BY <2>1, ProbeInv
  <1>2. LocalInv(F, AfterFast(q))
    BY AfterFastInv
  <1> QED
    BY <1>1, <1>2 DEF AfterHead

\* So does the start of the search, from a trusted lastFinalizedHeight.
LEMMA AfterStartInv ==
  ASSUME NEW F \in Blocks, NEW q \in Request, NEW last \in 0..MaxHeight,
         VotesInOrder => Ordered(F) /\ TrustedIn(F, last),
         VotesInOrder => Expected(F, q)
  PROVE  LocalInv(F, AfterStart(q, last))
  <1> DEFINE from == IF last = 0 THEN 1 ELSE last
             p    == [q EXCEPT !.from = from]
  <1>1. from \in 0..MaxHeight /\ q.current \in 0..MaxHeight
    BY SearchAssumption DEF Request
  <1>2. VotesInOrder => TrustedIn(F, from)
    BY DEF TrustedIn
  <1> HIDE DEF from
  <1>3. p \in Request
    BY <1>1, LocalTypes
  <1>4. p.from = from /\ p.current = q.current /\ p.since = q.since
    BY LocalShape
  <1> HIDE DEF p
  <1>5. Base(F, p)
    BY <1>2, <1>4 DEF Base, Expected
  <1>6. CASE q.current = from
    <2>1. VotesInOrder => \A h \in p.since : h <= q.current
      BY <1>1, <1>4, <1>5, <1>3, SinceType DEF Base, Expected
    <2>2. LocalInv(F, Done(p, q.current))
      BY <1>2, <1>3, <1>5, <1>6, <2>1, DoneInv
    <2> QED
      BY <1>6, <2>2 DEF AfterStart, p, from
  <1>7. CASE q.current # from
    <2>1. q.current > 1 => LocalInv(F, Probe(p, "head", q.current - 1))
      BY <1>1, <1>3, <1>4, <1>5, ProbeInv
    <2>2. LocalInv(F, AfterHead(p))
      BY <1>3, <1>5, AfterHeadInv
    <2> QED
      BY <1>7, <2>1, <2>2 DEF AfterStart, p, from
  <1> QED
    BY <1>6, <1>7

\* A probe answers yes of final blocks only.
LEMMA AnswersTrue ==
  ASSUME NEW h, NEW res \in Answers(h)
  PROVE  res \in {"yes", "no", "err"} /\ (res = "yes" => h \in final)
  BY DEF Answers

\* A request that hears an answer keeps the local invariant, and expects
\* nothing at or above a block that is denied.
LEMMA HeardInv ==
  ASSUME SearchInv, NEW r \in Requests, NEW res
  PROVE  LET q == Heard(r, res)
         IN  /\ LocalInv(final, q)
             /\ res = "no" => \A h \in q.since : h < q.probe
  <1> DEFINE p == req[r]
             q == Heard(r, res)
  <1>1. TypeOK /\ LocalInv(final, p)
    BY DEF SearchInv
  <1>2. /\ p \in Request /\ q \in Request
        /\ q.pc = p.pc /\ q.current = p.current /\ q.from = p.from /\ q.to = p.to
        /\ q.probe = p.probe /\ q.ans = p.ans
        /\ q.since = IF res = "no" THEN {h \in p.since : h < p.probe} ELSE p.since
    <2>1. q.ans = p.ans
      BY <1>1 DEF Heard, TypeOK, Request
    <2> QED
      BY <1>1, <2>1, HeardType
  <1>3. \A h \in p.since : h \in Nat
    BY <1>2, SinceType
  <1>4. p.probe \in Nat
    BY <1>2 DEF Request
  <1> HIDE DEF p, q
  <1>5. ASSUME Ordered(p.since)
        PROVE  Ordered(q.since)
    <2>1. ASSUME NEW h \in q.since PROVE 1..h \subseteq q.since
      <3>1. h \in p.since /\ 1..h \subseteq p.since /\ h \in Nat
        BY <1>2, <1>3, <1>5, <2>1 DEF Ordered
      <3>2. res = "no" => h < p.probe
        BY <1>2, <2>1
      <3>3. \A g \in 1..h : res = "no" => g < p.probe
        BY <1>4, <3>1, <3>2
      <3> QED
        BY <1>2, <3>1, <3>3
    <2> QED
      BY <2>1 DEF Ordered
  <1>6. Expected(final, p) => Expected(final, q)
    BY <1>2, <1>5 DEF Expected
  <1>7. LocalInv(final, q)
    BY <1>1, <1>2, <1>6 DEF LocalInv, Interval, SoundLocal, FreshLocal
  <1> QED
    BY <1>2, <1>7 DEF q

\* Every continuation of a probe keeps the local invariant of its request,
\* and raises lastFinalizedHeight only to a trusted height.
LEMMA ResumeInv ==
  ASSUME SearchInv, NEW r \in Requests, NEW res \in Answers(req[r].probe),
         Resume(r, res)
  PROVE  /\ LocalInv(final, req'[r])
         /\ req' = [req EXCEPT ![r] = req'[r]]
         /\ VotesInOrder => TrustedIn(final, lastFinalizedHeight')
  <1> DEFINE q == Heard(r, res)
             L == /\ LocalInv(final, req'[r])
                  /\ req' = [req EXCEPT ![r] = req'[r]]
                  /\ VotesInOrder => TrustedIn(final, lastFinalizedHeight')
  <1>1. /\ q \in Request /\ req \in [Requests -> Request]
        /\ lastFinalizedHeight \in 0..MaxHeight
        /\ LocalInv(final, q)
        /\ VotesInOrder => Ordered(final) /\ TrustedIn(final, lastFinalizedHeight)
    BY HeardType, HeardInv DEF SearchInv, TypeOK, LastFinalizedSound, Trusted
  <1>2. /\ q.from \in 0..MaxHeight /\ q.to \in 0..MaxHeight
        /\ q.probe \in 0..MaxHeight /\ q.current \in 0..MaxHeight
    BY <1>1 DEF Request
  <1>3. final \in Blocks /\ \A h \in final : h \in Nat /\ h >= 1
    <2>1. head \in Nat /\ final \in SUBSET (1..head)
      BY SearchAssumption DEF SearchInv, TypeOK
    <2> QED
      BY <2>1 DEF Blocks
  <1>4. \A h \in q.since : h \in Nat
    BY <1>1, SinceType
  <1>5. /\ res \in {"yes", "no", "err"}
        /\ res = "yes" => q.probe \in final
        /\ res = "no" => \A h \in q.since : h < q.probe
    BY AnswersTrue, HeardType, HeardInv, ZenonT(40) DEF SearchInv
  <1>6. q.pc \in Probing => Base(final, q)
    BY <1>1 DEF LocalInv, SoundLocal, FreshLocal, Base, Probing
  <1>7. LocalInv(final, Failed(q))
    BY <1>1, FailedInv
  <1>8. res = "yes" => TrustedIn(final, q.probe)
    BY <1>5 DEF TrustedIn
  <1>9. ASSUME NEW e, Local(r, e), LocalInv(final, e)
        PROVE  LocalInv(final, req'[r]) /\ req' = [req EXCEPT ![r] = req'[r]]
    <2>1. req' = [req EXCEPT ![r] = e]
      BY <1>9 DEF Local
    <2>2. req'[r] = e
      BY <1>1, <2>1
    <2> QED
      BY <1>9, <2>1, <2>2
  <1> HIDE DEF L
  <1>10. CASE ProbeHead(r, res)
    <2>1. Base(final, q) /\ q.pc = "head"
      BY <1>6, <1>10 DEF ProbeHead, Probing
    <2>2. LocalInv(final, AfterHead(q))
      BY <1>1, <1>3, <2>1, AfterHeadInv
    <2>3. VotesInOrder => q.probe = q.current - 1
      BY <1>1, <2>1 DEF LocalInv, FreshLocal
    <2>4. VotesInOrder => \A h \in q.since : h <= q.probe
      BY <1>1, <1>2, <1>4, <2>1, <2>3 DEF Base, Expected
    <2>5. res = "yes" => LocalInv(final, Done(q, q.probe))
      BY <1>1, <1>8, <2>1, <2>4, DoneInv
    <2>6. Local(r, IF res = "yes" THEN Done(q, q.probe) ELSE AfterHead(q))
      BY <1>10 DEF ProbeHead
    <2> QED
      BY <1>1, <1>9, <1>10, <2>2, <2>5, <2>6 DEF ProbeHead, L
  <1>11. CASE ProbeFast(r, res)
    <2>1. Base(final, q)
      BY <1>6, <1>11 DEF ProbeFast, Probing
    <2>2. LocalInv(final, AfterFast(q))
      BY <1>1, <1>3, <2>1, AfterFastInv
    <2> DEFINE p == [q EXCEPT !.from = q.probe]
    <2>3. /\ p \in Request
          /\ p.from = q.probe /\ p.since = q.since /\ p.current = q.current
      BY <1>1, <1>2, LocalTypes, LocalShape
    <2> HIDE DEF p
    <2>4. res = "yes" => Base(final, p)
      BY <1>8, <2>1, <2>3 DEF Base, Expected
    <2>5. res = "yes" => LocalInv(final, AfterFast(p))
      BY <1>3, <2>3, <2>4, AfterFastInv
    <2>6. Local(r, IF res = "err" THEN Failed(q)
                   ELSE IF res = "yes" THEN AfterFast(p) ELSE AfterFast(q))
      BY <1>11 DEF ProbeFast, p
    <2> QED
      BY <1>1, <1>7, <1>9, <1>11, <2>2, <2>5, <2>6 DEF ProbeFast, L
  <1>12. CASE ProbeNext(r, res)
    <2>1. Base(final, q) /\ q.pc = "next"
      BY <1>6, <1>12 DEF ProbeNext, Probing
    <2>2. VotesInOrder => q.probe = q.current
      BY <1>1, <2>1 DEF LocalInv, SoundLocal
    <2>3. VotesInOrder => q.from + 1 = q.current
      BY <1>1, <2>1 DEF LocalInv, FreshLocal
    <2>4. VotesInOrder => \A h \in q.since : h <= q.from
      BY <1>2, <1>4, <2>1, <2>3 DEF Base, Expected
    <2>5. LocalInv(final, Done(q, q.from))
      BY <1>1, <2>1, <2>4, DoneInv DEF Base
    <2>6. VotesInOrder => \A h \in q.since : h <= q.current
      BY <1>2, <1>4, <2>1 DEF Base, Expected
    <2>7. res = "yes" => LocalInv(final, Done(q, q.current))
      BY <1>1, <1>8, <2>1, <2>2, <2>6, DoneInv
    <2>8. Local(r, IF res = "err" THEN Failed(q)
                   ELSE IF res = "yes" THEN Done(q, q.current) ELSE Done(q, q.from))
      BY <1>12 DEF ProbeNext
    <2> QED
      BY <1>1, <1>7, <1>9, <1>12, <2>5, <2>7, <2>8 DEF ProbeNext, L
  <1>13. CASE ProbeTry(r, res)
    <2>1. Base(final, q)
      BY <1>6, <1>13 DEF ProbeTry, Probing
    <2>2. VotesInOrder => \A a \in 0..MaxHeight : \A h \in q.since :
            h < Higher(a, q.current)
      BY <1>2, <1>4, <2>1 DEF Higher, Base, Expected
    <2>3. LocalInv(final, FromTo(q, q.from, q.current))
      BY <1>1, <1>2, <1>3, <2>1, <2>2, FromToInv DEF Base
    <2>4. res = "yes" => LocalInv(final, FromTo(q, q.probe, q.current))
      BY <1>1, <1>2, <1>3, <1>8, <2>1, <2>2, FromToInv DEF Base
    <2>5. Local(r, IF res = "err" THEN Failed(q)
                   ELSE IF res = "yes" THEN FromTo(q, q.probe, q.current)
                   ELSE FromTo(q, q.from, q.current))
      BY <1>13 DEF ProbeTry
    <2> QED
      BY <1>1, <1>7, <1>9, <1>13, <2>3, <2>4, <2>5 DEF ProbeTry, L
  <1>14. CASE ProbeBisect(r, res)
    <2>1. Base(final, q) /\ q.pc = "bisect" /\ q.from < q.probe /\ q.probe < q.to
      BY <1>1, <1>6, <1>14 DEF ProbeBisect, Probing, LocalInv, Interval
    <2>2. VotesInOrder =>
            Expected(final, q) /\ \A h \in q.since : h < q.to
      BY <1>1, <2>1 DEF LocalInv, FreshLocal
    <2>3. CASE res = "err"
      BY <1>1, <1>7, <1>9, <1>14, <2>3 DEF ProbeBisect, L
    <2>4. CASE res = "yes"
      <3>1. Higher(q.probe, q.to) = q.to
        BY <1>2, <2>1 DEF Higher
      <3>2. LocalInv(final, FromTo(q, q.probe, q.to))
        BY <1>1, <1>2, <1>3, <1>8, <2>2, <2>4, <3>1, FromToInv
      <3>3. q.probe - 1 \in Nat /\ q.probe - 1 <= q.probe
        BY <1>2, <1>3, <1>5, <2>4
      <3>4. VotesInOrder => TrustedIn(final, q.probe - 1)
        BY <1>1, <1>2, <1>3, <1>8, <2>4, <3>3, TrustedDown DEF Blocks
      <3>5. VotesInOrder => TrustedIn(final, lastFinalizedHeight')
        BY <1>1, <1>14, <2>4, <3>4 DEF ProbeBisect, SetLastFinalized
      <3> QED
        BY <1>9, <1>14, <2>4, <3>2, <3>5 DEF ProbeBisect, L
    <2>5. CASE res = "no"
      <3>1. Higher(q.from, q.probe) = q.probe /\ q.probe >= 1
        BY <1>2, <2>1 DEF Higher
      <3>2. \A h \in q.since : h < q.probe
        BY <1>5, <2>5
      <3>3. LocalInv(final, FromTo(q, q.from, q.probe))
        BY <1>1, <1>2, <1>3, <2>1, <2>2, <3>1, <3>2, FromToInv DEF Base
      <3> QED
        BY <1>1, <1>9, <1>14, <2>5, <3>3 DEF ProbeBisect, L
    <2> QED
      BY <1>5, <2>3, <2>4, <2>5
  <1> QED
    BY <1>10, <1>11, <1>12, <1>13, <1>14 DEF Resume, L

\* Local states survive the growth of the finalized set.
LEMMA LocalGrows ==
  ASSUME NEW F, NEW G, F \subseteq G, NEW q, LocalInv(F, q)
  PROVE  LocalInv(G, q)
  <1>1. \A h : TrustedIn(F, h) => TrustedIn(G, h)
    BY DEF TrustedIn
  <1>2. VotesInOrder => SoundLocal(G, q)
    BY <1>1 DEF LocalInv, SoundLocal
  <1>3. VotesInOrder => FreshLocal(G, q)
    BY DEF LocalInv, FreshLocal, Expected
  <1> QED
    BY <1>2, <1>3 DEF LocalInv

(***************************************************************************)
(* The search does not go back below the shared height it began with.      *)
(***************************************************************************)
\* The bisection stays above the ends of its interval.
LEMMA FromToBack ==
  ASSUME NEW q \in Request, NEW a \in 0..MaxHeight, NEW b \in 0..MaxHeight,
         AtLeast(q, a), AtLeast(q, b), NEW last
  PROVE  BackLocal(last, FromTo(q, a, b))
  <1> DEFINE e == FromTo(q, a, b)
  <1>1. /\ e.current = q.current /\ e.floor = q.floor
        /\ \/ e.pc = "set" /\ e.ans = Lower(a, b)
           \/ e.pc = "bisect" /\ e.from = Lower(a, b)
    BY FromToShape
  <1> HIDE DEF e
  <1>2. AtLeast(q, Lower(a, b))
    BY DEF Lower
  <1>3. BackLocal(last, e)
    BY <1>1, <1>2 DEF BackLocal, AtLeast, Probing
  <1> QED
    BY <1>3 DEF e

\* The other probes go on from the lower end.
LEMMA ProbeBack ==
  ASSUME NEW q \in Request, AtLeast(q, q.from), NEW pc, NEW n, NEW last,
         pc \in {"head", "fast", "next", "try"},
         pc \in {"fast", "try"} => q.from < n,
         pc = "head" => n + 1 = q.current,
         pc = "next" => n = q.current
  PROVE  BackLocal(last, Probe(q, pc, n))
  <1> DEFINE e == Probe(q, pc, n)
  <1>1. /\ e.pc = pc /\ e.probe = n /\ e.from = q.from
        /\ e.current = q.current /\ e.floor = q.floor
    BY LocalShape
  <1> HIDE DEF e
  <1>2. BackLocal(last, e)
    BY <1>1 DEF BackLocal, AtLeast, Probing
  <1> QED
    BY <1>2 DEF e

\* So do the probe after the fast check and what follows.
LEMMA AfterFastBack ==
  ASSUME NEW q \in Request, AtLeast(q, q.from), NEW last
  PROVE  BackLocal(last, AfterFast(q))
  <1>1. /\ q.from \in 0..MaxHeight /\ q.current \in 0..MaxHeight
        /\ AtLeast(q, q.current)
    BY DEF Request, AtLeast
  <1>2. BackLocal(last, FromTo(q, q.from, q.current))
    BY <1>1, FromToBack
  <1>3. BackLocal(last, Probe(q, "next", q.current))
    BY ProbeBack
  <1>4. BackLocal(last, Probe(q, "try", q.from + 1))
    BY <1>1, ProbeBack
  <1> QED
    BY <1>2, <1>3, <1>4 DEF AfterFast

\* So does the fast check.
LEMMA AfterHeadBack ==
  ASSUME NEW q \in Request, AtLeast(q, q.from), NEW last
  PROVE  BackLocal(last, AfterHead(q))
  <1> DEFINE n == q.current - FastCheckNumberCount
  <1>1. n > q.from => BackLocal(last, Probe(q, "fast", n))
    <2>1. n \in Int /\ q.from \in Int
      BY SearchAssumption DEF Request
    <2> QED
      BY <2>1, ProbeBack
  <1>2. BackLocal(last, AfterFast(q))
    BY AfterFastBack
  <1> QED
    BY <1>1, <1>2 DEF AfterHead

\* The search starts at the shared height, which is not below its old value.
LEMMA AfterStartBack ==
  ASSUME NEW q \in Request, NEW last \in 0..MaxHeight, q.floor <= last, NEW x
  PROVE  BackLocal(x, AfterStart(q, last))
  <1> DEFINE from == IF last = 0 THEN 1 ELSE last
             p    == [q EXCEPT !.from = from]
  <1>1. /\ from \in 0..MaxHeight /\ q.current \in 0..MaxHeight /\ q.floor \in 0..MaxHeight
        /\ q.floor <= from
    BY SearchAssumption DEF Request
  <1> HIDE DEF from
  <1>2. /\ p \in Request
        /\ p.from = from /\ p.current = q.current /\ p.floor = q.floor
    BY <1>1, LocalTypes, LocalShape
  <1> HIDE DEF p
  <1>3. AtLeast(p, p.from) /\ AtLeast(p, q.current)
    BY <1>1, <1>2 DEF AtLeast
  <1>4. BackLocal(x, Done(p, q.current))
    BY <1>2, <1>3, LocalShape DEF BackLocal, AtLeast, Probing
  <1>5. BackLocal(x, Probe(p, "head", q.current - 1))
    BY <1>1, <1>2, <1>3, ProbeBack
  <1>6. BackLocal(x, AfterHead(p))
    BY <1>2, <1>3, AfterHeadBack
  <1> QED
    BY <1>4, <1>5, <1>6 DEF AfterStart, p, from

\* Nor does it go back after a probe.
LEMMA ResumeBack ==
  ASSUME TypeOK, NEW r \in Requests, NEW res, Resume(r, res),
         Interval(req[r]), NEW last, BackLocal(last, req[r]), NEW x
  PROVE  BackLocal(x, req'[r])
  <1> DEFINE q == Heard(r, res)
             p == [q EXCEPT !.from = q.probe]
  <1>1. /\ q \in Request /\ req \in [Requests -> Request]
        /\ q.from \in 0..MaxHeight /\ q.to \in 0..MaxHeight
        /\ q.probe \in 0..MaxHeight /\ q.current \in 0..MaxHeight
        /\ q.floor \in 0..MaxHeight
    BY HeardType DEF TypeOK, Request
  <1>2. q.pc \in Probing /\ AtLeast(q, q.from)
    BY HeardType, ZenonT(40) DEF BackLocal, AtLeast, Probing, Resume, ProbeHead, ProbeFast,
                     ProbeNext, ProbeTry, ProbeBisect
  <1>3. /\ q.pc \in {"fast", "try"} => q.from < q.probe
        /\ q.pc = "head" => q.probe + 1 = q.current
        /\ q.pc = "next" => q.probe = q.current
        /\ q.pc = "bisect" => q.from < q.probe /\ q.probe < q.to
    BY HeardType, ZenonT(40) DEF BackLocal, Interval
  <1> HIDE DEF q
  <1>4. /\ q.from < q.probe => AtLeast(q, q.probe)
        /\ q.from < q.probe /\ q.probe < q.to => AtLeast(q, q.to)
        /\ AtLeast(q, q.current)
        /\ q.probe + 1 = q.current => AtLeast(q, q.probe)
    BY <1>1, <1>2 DEF AtLeast
  <1>5. BackLocal(x, Failed(q))
    BY <1>1, LocalShape DEF BackLocal, Probing
  <1>6. \A n : AtLeast(q, n) => BackLocal(x, Done(q, n))
    BY <1>1, LocalShape DEF BackLocal, AtLeast, Probing
  <1>7. \A e : Local(r, e) => req'[r] = e
    BY <1>1 DEF Local
  <1>8. CASE ProbeHead(r, res)
    <2>1. BackLocal(x, AfterHead(q))
      BY <1>1, <1>2, AfterHeadBack
    <2> QED
      BY <1>3, <1>4, <1>6, <1>7, <1>8, <2>1 DEF ProbeHead, q
  <1>9. CASE ProbeFast(r, res)
    <2>1. q.pc = "fast"
      BY <1>9 DEF ProbeFast, q
    <2>2. p \in Request /\ p.from = q.probe /\ p.current = q.current /\ p.floor = q.floor
      BY <1>1, LocalTypes, LocalShape
    <2>3. AtLeast(p, p.from)
      BY <1>3, <1>4, <2>1, <2>2 DEF AtLeast
    <2> HIDE DEF p
    <2>4. BackLocal(x, AfterFast(p)) /\ BackLocal(x, AfterFast(q))
      BY <1>1, <1>2, <2>2, <2>3, AfterFastBack
    <2> QED
      BY <1>5, <1>7, <1>9, <2>4 DEF ProbeFast, p, q
  <1>10. CASE ProbeNext(r, res)
    BY <1>2, <1>4, <1>5, <1>6, <1>7, <1>10 DEF ProbeNext, q
  <1>11. CASE ProbeTry(r, res)
    <2>1. q.pc = "try"
      BY <1>11 DEF ProbeTry, q
    <2>2. /\ BackLocal(x, FromTo(q, q.probe, q.current))
          /\ BackLocal(x, FromTo(q, q.from, q.current))
      BY <1>1, <1>2, <1>3, <1>4, <2>1, FromToBack
    <2> QED
      BY <1>5, <1>7, <1>11, <2>2 DEF ProbeTry, q
  <1>12. CASE ProbeBisect(r, res)
    <2>1. q.pc = "bisect"
      BY <1>12 DEF ProbeBisect, q
    <2>2. /\ BackLocal(x, FromTo(q, q.probe, q.to))
          /\ BackLocal(x, FromTo(q, q.from, q.probe))
      BY <1>1, <1>2, <1>3, <1>4, <2>1, FromToBack
    <2> QED
      BY <1>5, <1>7, <1>12, <2>2 DEF ProbeBisect, q
  <1> QED
    BY <1>8, <1>9, <1>10, <1>11, <1>12 DEF Resume

\* No step lets a request go back: nothing lowers the shared height, so what a
\* request that is about to read it has seen is still reached.
LEMMA BackStep ==
  ASSUME SearchInv, [Next]_vars
  PROVE  \A r \in Requests : BackLocal(lastFinalizedHeight', req'[r])
  <1> DEFINE last == lastFinalizedHeight
  <1>0. /\ TypeOK /\ last \in 0..MaxHeight /\ req \in [Requests -> Request]
        /\ \A r \in Requests : req[r] \in Request /\ Interval(req[r]) /\ BackLocal(last, req[r])
    BY DEF SearchInv, TypeOK, LocalInv
  <1>1. last' \in 0..MaxHeight /\ last' >= last
    BY <1>0, StepType DEF TypeOK
  <1>2. \A r \in Requests : BackLocal(last', req[r])
    BY <1>0, <1>1 DEF BackLocal, Request
  <1>3. ASSUME NEW r \in Requests, NEW e, Local(r, e), BackLocal(last', e)
        PROVE  \A s \in Requests : BackLocal(last', req'[s])
    <2>1. \A s \in Requests : req'[s] = IF s = r THEN e ELSE req[s]
      BY <1>0, <1>3 DEF Local
    <2> QED
      BY <1>2, <1>3, <2>1
  <1>4. CASE UNCHANGED req
    BY <1>2, <1>4
  <1>5. ASSUME NEW r \in Requests, Query(r) \/ Return(r)
        PROVE  \A s \in Requests : BackLocal(last', req'[s])
    <2>1. /\ Idle.pc = "idle" /\ Failed(Idle).pc = "failed"
          /\ \A n : Called(n).pc = "start" /\ Called(n).floor = last
      BY DEF Idle, Failed, Called
    <2>2. PICK e : Local(r, e) /\ (e.pc \in {"idle", "failed"} \/ (e.pc = "start" /\ e.floor = last))
      BY <1>5, <2>1 DEF Query, Return
    <2>3. BackLocal(last', e)
      BY <1>0, <1>1, <2>2 DEF BackLocal, Probing
    <2> QED
      BY <1>3, <2>2, <2>3
  <1>6. ASSUME NEW r \in Requests, Step(r)
        PROVE  \A s \in Requests : BackLocal(last', req'[s])
    <2>1. CASE ReadLast(r)
      <3>1. req[r].floor <= last
        BY <1>0, <2>1 DEF ReadLast, BackLocal
      <3>2. BackLocal(last', AfterStart(req[r], last))
        BY <1>0, <3>1, AfterStartBack
      <3> QED
        BY <1>3, <2>1, <3>2 DEF ReadLast
    <2>2. CASE Answered(r)
      <3>1. PICK res : Resume(r, res)
        BY <2>2 DEF Answered
      <3>2. BackLocal(last', req'[r])
        BY <1>0, <3>1, ResumeBack
      <3>3. \E e : Local(r, e)
        BY <3>1 DEF Resume, ProbeHead, ProbeFast, ProbeNext, ProbeTry, ProbeBisect
      <3>4. Local(r, req'[r])
        BY <1>0, <3>3 DEF Local
      <3> QED
        BY <1>3, <3>2, <3>4
    <2>3. CASE SetResult(r)
      <3>1. req[r].pc = "set" /\ Local(r, Done(req[r], req[r].ans))
        BY <2>3 DEF SetResult
      <3>2. BackLocal(last', Done(req[r], req[r].ans))
        BY <1>0, <3>1, LocalShape DEF BackLocal, AtLeast, Probing
      <3> QED
        BY <1>3, <3>1, <3>2
    <2> QED
      BY <1>6, <2>1, <2>2, <2>3 DEF Step
  <1> QED
    BY <1>4, <1>5, <1>6 DEF Next, NewBlock, Finalize, vars

\* Finalizing a block that may be finalized keeps the set ordered.
LEMMA FinalizeOrdered ==
  ASSUME NEW n \in Nat, VotesInOrder => Ordered(final), MayFinalize(n)
  PROVE  VotesInOrder => Ordered(final \cup {n})
  <1> SUFFICES ASSUME VotesInOrder, NEW h \in final \cup {n}
               PROVE  1..h \subseteq final \cup {n}
    BY DEF Ordered
  <1>1. CASE h \in final
    BY <1>1 DEF Ordered
  <1>2. CASE h = n
    <2>1. 1..n \subseteq (1..(n-1)) \cup {n}
      OBVIOUS
    <2> QED
      BY <1>2, <2>1 DEF MayFinalize
  <1> QED
    BY <1>1, <1>2

\* SearchInv is inductive.
LEMMA StepInv ==
  ASSUME SearchInv, [Next]_vars
  PROVE  SearchInv'
  <1>0. /\ TypeOK
        /\ req \in [Requests -> Request] /\ lastFinalizedHeight \in 0..MaxHeight
        /\ head \in Nat /\ final \in SUBSET (1..head)
        /\ VotesInOrder => Ordered(final) /\ TrustedIn(final, lastFinalizedHeight)
        /\ \A r \in Requests : LocalInv(final, req[r])
    BY SearchAssumption DEF SearchInv, TypeOK, LastFinalizedSound, Trusted
  <1>1. TypeOK' /\ \A r \in Requests : BackLocal(lastFinalizedHeight', req'[r])
    BY <1>0, StepType, BackStep
  <1>2. SUFFICES /\ VotesInOrder => Ordered(final') /\ TrustedIn(final', lastFinalizedHeight')
                 /\ \A r \in Requests : LocalInv(final', req'[r])
    BY <1>1 DEF SearchInv, LastFinalizedSound, Trusted
  <1>3. ASSUME NEW n \in Nat, MayFinalize(n), final' \in {final, final \cup {n}},
               UNCHANGED <<lastFinalizedHeight, req>>
        PROVE  /\ VotesInOrder => Ordered(final') /\ TrustedIn(final', lastFinalizedHeight')
               /\ \A r \in Requests : LocalInv(final', req'[r])
    <2>1. final \subseteq final'
      BY <1>3
    <2>2. VotesInOrder => Ordered(final')
      BY <1>0, <1>3, FinalizeOrdered
    <2>3. \A r \in Requests : LocalInv(final', req'[r])
      BY <1>0, <1>3, <2>1, LocalGrows
    <2> QED
      BY <1>0, <1>3, <2>1, <2>2, <2>3 DEF TrustedIn
  <1>4. ASSUME NEW r \in Requests, NEW e, req' = [req EXCEPT ![r] = e],
               LocalInv(final, e), final' = final,
               VotesInOrder => TrustedIn(final, lastFinalizedHeight')
        PROVE  /\ VotesInOrder => Ordered(final') /\ TrustedIn(final', lastFinalizedHeight')
               /\ \A s \in Requests : LocalInv(final', req'[s])
    <2>1. \A s \in Requests : req'[s] = IF s = r THEN e ELSE req[s]
      BY <1>0, <1>4
    <2> QED
      BY <1>0, <1>4, <2>1
  <1>5. CASE NewBlock
    <2>1. CASE final' = final
      <3>1. UNCHANGED <<lastFinalizedHeight, req>>
        BY <1>5 DEF NewBlock
      <3> QED
        BY <1>0, <2>1, <3>1
    <2>2. CASE MayFinalize(head + 1) /\ final' = final \cup {head + 1}
      <3>1. UNCHANGED <<lastFinalizedHeight, req>> /\ head + 1 \in Nat
        BY <1>0, <1>5 DEF NewBlock
      <3> QED
        BY <1>3, <2>2, <3>1
    <2> QED
      BY <1>5, <2>1, <2>2 DEF NewBlock
  <1>6. ASSUME NEW h \in 1..head, Finalize(h)
        PROVE  /\ VotesInOrder => Ordered(final') /\ TrustedIn(final', lastFinalizedHeight')
               /\ \A r \in Requests : LocalInv(final', req'[r])
    BY <1>0, <1>3, <1>6 DEF Finalize
  <1>7. ASSUME NEW r \in Requests, Query(r)
        PROVE  /\ VotesInOrder => Ordered(final') /\ TrustedIn(final', lastFinalizedHeight')
               /\ \A s \in Requests : LocalInv(final', req'[s])
    <2>1. Idle \in Request
      BY SearchAssumption DEF Idle, Request, PCs
    <2>2. CASE req' = [req EXCEPT ![r] = Failed(Idle)]
      BY <1>0, <1>4, <1>7, <2>1, <2>2, FailedInv DEF Query
    <2>3. ASSUME NEW n \in 0..head,
                 req' = [req EXCEPT ![r] = Called(n)]
          PROVE  /\ VotesInOrder => Ordered(final') /\ TrustedIn(final', lastFinalizedHeight')
                 /\ \A s \in Requests : LocalInv(final', req'[s])
      <3> DEFINE e == Called(n)
      <3>1. e.pc = "start" /\ e.current = n /\ e.since = {h \in final : h < n}
        <4>1. n \in 0..MaxHeight
          BY <1>0, SearchAssumption DEF TypeOK
        <4> QED
          BY <1>0, <4>1, CalledType
      <3>2. \A h \in final : h \in Nat
        BY <1>0
      <3> HIDE DEF e
      <3>3. Expected(final, e) \/ ~ VotesInOrder
        <4> SUFFICES ASSUME VotesInOrder PROVE Expected(final, e)
          OBVIOUS
        <4>1. ASSUME NEW h \in e.since PROVE 1..h \subseteq e.since
          <5>0. h \in final /\ h < n
            BY <3>1, <4>1
          <5>1. h \in final /\ h < n /\ h \in Nat
            BY <3>2, <5>0
          <5>2. 1..h \subseteq final
            BY <1>0, <5>1 DEF Ordered
          <5>3. n \in Nat
            BY <1>0 DEF TypeOK
          <5> QED
            BY <3>1, <5>1, <5>2, <5>3
        <4> QED
          BY <3>1, <4>1 DEF Expected, Ordered
      <3>4. LocalInv(final, e)
        BY <1>0, <3>1, <3>3 DEF LocalInv, Interval, SoundLocal, FreshLocal, Probing
      <3> QED
        BY <1>0, <1>4, <1>7, <2>3, <3>4 DEF Query, e
    <2> QED
      BY <1>7, <2>2, <2>3 DEF Query, Local
  <1>8. ASSUME NEW r \in Requests, ReadLast(r)
        PROVE  /\ VotesInOrder => Ordered(final') /\ TrustedIn(final', lastFinalizedHeight')
               /\ \A s \in Requests : LocalInv(final', req'[s])
    <2>1. final \in Blocks
      BY <1>0 DEF Blocks
    <2>2. VotesInOrder => Expected(final, req[r])
      BY <1>0, <1>8 DEF ReadLast, LocalInv, FreshLocal
    <2>3. LocalInv(final, AfterStart(req[r], lastFinalizedHeight))
      BY <1>0, <2>1, <2>2, AfterStartInv
    <2> QED
      BY <1>0, <1>4, <1>8, <2>3 DEF ReadLast, Local
  <1>9. ASSUME NEW r \in Requests, Answered(r)
        PROVE  /\ VotesInOrder => Ordered(final') /\ TrustedIn(final', lastFinalizedHeight')
               /\ \A s \in Requests : LocalInv(final', req'[s])
    <2>1. PICK res \in Answers(req[r].probe) : Resume(r, res)
      BY <1>9 DEF Answered
    <2>2. /\ LocalInv(final, req'[r])
          /\ req' = [req EXCEPT ![r] = req'[r]]
          /\ VotesInOrder => TrustedIn(final, lastFinalizedHeight')
      BY <2>1, ResumeInv
    <2>3. final' = final
      BY <1>9 DEF Answered
    <2> QED
      BY <1>4, <2>2, <2>3
  <1>10. ASSUME NEW r \in Requests, SetResult(r)
        PROVE  /\ VotesInOrder => Ordered(final') /\ TrustedIn(final', lastFinalizedHeight')
               /\ \A s \in Requests : LocalInv(final', req'[s])
    <2> DEFINE q == req[r]
    <2>1. q \in Request /\ LocalInv(final, q) /\ q.pc = "set"
      BY <1>0, <1>10 DEF SetResult
    <2>2. VotesInOrder => TrustedIn(final, q.ans)
      BY <2>1 DEF LocalInv, SoundLocal
    <2>3. VotesInOrder => TrustedIn(final, lastFinalizedHeight')
      BY <1>0, <1>10, <2>2 DEF SetResult, SetLastFinalized
    <2>4. /\ Done(q, q.ans).pc = "done" /\ Done(q, q.ans).ans = q.ans
          /\ Done(q, q.ans).current = q.current /\ Done(q, q.ans).since = q.since
      BY <2>1, LocalShape
    <2>5. LocalInv(final, Done(q, q.ans))
      BY <2>1, <2>4 DEF LocalInv, Interval, SoundLocal, FreshLocal, Expected, Probing
    <2> QED
      BY <1>4, <1>10, <2>3, <2>5 DEF SetResult, Local
  <1>11. ASSUME NEW r \in Requests, Return(r)
        PROVE  /\ VotesInOrder => Ordered(final') /\ TrustedIn(final', lastFinalizedHeight')
               /\ \A s \in Requests : LocalInv(final', req'[s])
    <2>1. LocalInv(final, Idle)
      BY DEF LocalInv, Interval, SoundLocal, FreshLocal, Probing, Idle
    <2> QED
      BY <1>0, <1>4, <1>11, <2>1 DEF Return, Local
  <1>12. CASE UNCHANGED vars
    BY <1>0, <1>12 DEF vars
  <1> QED
    BY <1>5, <1>6, <1>7, <1>8, <1>9, <1>10, <1>11, <1>12 DEF Next, Step

\* SearchInv holds initially.
LEMMA InitInv == Init => SearchInv
  <1> SUFFICES ASSUME Init PROVE SearchInv
    OBVIOUS
  <1>1. TypeOK
    BY InitType
  <1>2. VotesInOrder => Ordered(final) /\ LastFinalizedSound
    BY DEF Init, Ordered, LastFinalizedSound, Trusted, TrustedIn
  <1>3. LocalInv(final, Idle)
    BY DEF LocalInv, Interval, SoundLocal, FreshLocal, Probing, Idle
  <1>4. \A r \in Requests : LocalInv(final, req[r]) /\ BackLocal(lastFinalizedHeight, req[r])
    BY <1>3 DEF Init, BackLocal, Probing, Idle
  <1> QED
    BY <1>1, <1>2, <1>4 DEF SearchInv

\* The inductive invariant holds in every reachable state.
THEOREM SearchInvariant == Spec => []SearchInv
  <1>1. SearchInv /\ [Next]_vars => SearchInv'
    BY StepInv
  <1> QED
    BY InitInv, <1>1, PTL DEF Spec

\* When the finality providers vote in order of height, the height shared by
\* the requests is always finalized, although the bisection also stores the
\* untested block below a finalized midpoint.
THEOREM LastFinalizedSoundThm ==
  ASSUME VotesInOrder
  PROVE  Spec => []LastFinalizedSound
  <1>1. SearchInv => LastFinalizedSound
    BY DEF SearchInv
  <1> QED
    BY SearchInvariant, <1>1, PTL

\* When the finality providers vote in order of height, no request returns a
\* block that is not finalized, whatever the interleaving.
THEOREM AnswerSoundThm ==
  ASSUME VotesInOrder
  PROVE  Spec => []AnswerSound
  <1>1. SearchInv => AnswerSound
    BY DEF SearchInv, AnswerSound, LocalInv, SoundLocal, Trusted
  <1> QED
    BY SearchInvariant, <1>1, PTL

\* An answer misses no block below the head that was final when the request
\* began, but for those at and above a block that a probe denied.
THEOREM AnswerFreshThm ==
  ASSUME VotesInOrder
  PROVE  Spec => []AnswerFresh
  <1>1. SearchInv => AnswerFresh
    BY DEF SearchInv, AnswerFresh, LocalInv, FreshLocal
  <1> QED
    BY SearchInvariant, <1>1, PTL

\* The finalized tag does not go back between two requests, unless the head
\* does, in whatever order the votes arrive and however the requests race.
THEOREM NeverBackThm == Spec => []NeverBack
  <1>1. SearchInv => NeverBack
    BY DEF SearchInv, NeverBack, BackLocal, AtLeast
  <1> QED
    BY SearchInvariant, <1>1, PTL

-----------------------------------------------------------------------------
(***************************************************************************)
(* How long a request can run.                                             *)
(***************************************************************************)

\* The local state of a running request is changed by its own steps only.
LEMMA OwnStep ==
  ASSUME TypeOK, Next, NEW r \in Requests,
         req[r].pc \notin {"idle", "done", "failed"}, req'[r] # req[r]
  PROVE  Step(r)
  <1>0. req \in [Requests -> Request]
    BY DEF TypeOK
  <1>1. ~ NewBlock /\ \A h \in 1..head : ~ Finalize(h)
    BY DEF NewBlock, Finalize
  <1>2. ASSUME NEW s \in Requests, NEW e, Local(s, e)
        PROVE  s = r
    BY <1>0, <1>2 DEF Local
  <1>3. \A s \in Requests : ~ Query(s) /\ ~ Return(s)
    BY <1>2 DEF Query, Return
  <1>4. ASSUME NEW s \in Requests, Step(s)
        PROVE  s = r
    <2>1. CASE ReadLast(s)
      BY <1>2, <2>1 DEF ReadLast
    <2>2. CASE SetResult(s)
      BY <1>2, <2>2 DEF SetResult
    <2>3. CASE Answered(s)
      BY <1>2, <2>3 DEF Answered, Resume, ProbeHead, ProbeFast, ProbeNext, ProbeTry,
                        ProbeBisect
    <2> QED
      BY <1>4, <2>1, <2>2, <2>3 DEF Step
  <1> QED
    BY <1>1, <1>3, <1>4 DEF Next

\* What a step of a request does to its own local state.
LEMMA LocalChange ==
  ASSUME TypeOK, NEW r \in Requests, NEW e, Local(r, e)
  PROVE  req'[r] = e
  BY DEF TypeOK, Local

(***************************************************************************)
(* Where a request probes, whatever the network does: its next probe is of *)
(* a block, and the bisection probes the middle of its interval.           *)
(***************************************************************************)
\* The bisection probes the middle of its interval.
LEMMA FromToInterval ==
  ASSUME NEW q \in Request, NEW a \in 0..MaxHeight, NEW b \in 0..MaxHeight
  PROVE  Interval(FromTo(q, a, b))
  <1> DEFINE e == FromTo(q, a, b)
  <1>1. /\ Lower(a, b) \in Nat
        /\ \/ e.pc = "set"
           \/ /\ e.pc = "bisect" /\ e.from = Lower(a, b)
              /\ e.from < e.probe /\ e.probe < e.to
              /\ e.probe = (e.from + e.to + 1) \div 2
    BY FromToShape DEF Lower
  <1> HIDE DEF e
  <1>2. Interval(e)
    BY <1>1 DEF Interval, Probing
  <1> QED
    BY <1>2 DEF e

\* The other probes are of a block, and an ended request probes none.
LEMMA ProbeInterval ==
  ASSUME NEW q \in Request, NEW n
  PROVE  /\ Interval(Done(q, n)) /\ Interval(Failed(q))
         /\ \A pc : pc # "bisect" /\ n # 0 => Interval(Probe(q, pc, n))
  BY DEF Interval, Done, Failed, Probe, Request, Probing

\* The next probe after the fast check.
LEMMA AfterFastInterval ==
  ASSUME NEW q \in Request
  PROVE  Interval(AfterFast(q))
  <1>1. q.from \in 0..MaxHeight /\ q.current \in 0..MaxHeight /\ q.from + 1 # 0
    BY DEF Request
  <1>2. /\ q.from + 1 = q.current => Interval(Probe(q, "next", q.current))
        /\ Interval(Probe(q, "try", q.from + 1))
    BY <1>1, ProbeInterval
  <1> QED
    BY <1>1, <1>2, FromToInterval DEF AfterFast

\* The next probe after the one below the head.
LEMMA AfterHeadInterval ==
  ASSUME NEW q \in Request
  PROVE  Interval(AfterHead(q))
  <1>1. q.current > FastCheckNumberCount => q.current - FastCheckNumberCount # 0
    BY SearchAssumption DEF Request
  <1>2. q.current > FastCheckNumberCount =>
          Interval(Probe(q, "fast", q.current - FastCheckNumberCount))
    BY <1>1, ProbeInterval
  <1> QED
    BY <1>2, AfterFastInterval DEF AfterHead

\* The first probe.
LEMMA AfterStartInterval ==
  ASSUME NEW q \in Request, NEW last \in 0..MaxHeight
  PROVE  Interval(AfterStart(q, last))
  <1> DEFINE from == IF last = 0 THEN 1 ELSE last
             p    == [q EXCEPT !.from = from]
  <1>1. from \in 0..MaxHeight /\ q.current \in 0..MaxHeight
    BY SearchAssumption DEF Request
  <1> HIDE DEF from
  <1>2. p \in Request
    BY <1>1, LocalTypes
  <1> HIDE DEF p
  <1>3. q.current > 1 => q.current - 1 # 0
    BY <1>1
  <1>4. /\ Interval(Done(p, q.current)) /\ Interval(AfterHead(p))
        /\ q.current > 1 => Interval(Probe(p, "head", q.current - 1))
    BY <1>2, <1>3, ProbeInterval, AfterHeadInterval
  <1> QED
    BY <1>4 DEF AfterStart, p, from

\* The probe after a probe, whatever that one answered.
LEMMA ResumeInterval ==
  ASSUME TypeOK, NEW r \in Requests, NEW res, Resume(r, res)
  PROVE  Interval(req'[r])
  <1> DEFINE q == Heard(r, res)
             p == [q EXCEPT !.from = q.probe]
  <1>1. /\ q \in Request
        /\ q.from \in 0..MaxHeight /\ q.to \in 0..MaxHeight
        /\ q.probe \in 0..MaxHeight /\ q.current \in 0..MaxHeight
    BY HeardType DEF Request
  <1>2. p \in Request
    BY <1>1, LocalTypes
  <1> HIDE DEF p
  <1>3. /\ \A n : Interval(Done(q, n)) /\ Interval(Failed(q))
        /\ Interval(AfterHead(q)) /\ Interval(AfterFast(q)) /\ Interval(AfterFast(p))
        /\ Interval(FromTo(q, q.probe, q.current)) /\ Interval(FromTo(q, q.from, q.current))
        /\ Interval(FromTo(q, q.probe, q.to)) /\ Interval(FromTo(q, q.from, q.probe))
    BY <1>1, <1>2, ProbeInterval, AfterHeadInterval, AfterFastInterval, FromToInterval
  <1>4. \/ \E n : Local(r, Done(q, n))
        \/ Local(r, Failed(q)) \/ Local(r, AfterHead(q))
        \/ Local(r, AfterFast(q)) \/ Local(r, AfterFast(p))
        \/ Local(r, FromTo(q, q.probe, q.current)) \/ Local(r, FromTo(q, q.from, q.current))
        \/ Local(r, FromTo(q, q.probe, q.to)) \/ Local(r, FromTo(q, q.from, q.probe))
    BY DEF Resume, ProbeHead, ProbeFast, ProbeNext, ProbeTry, ProbeBisect, p
  <1> QED
    BY <1>3, <1>4, LocalChange

\* The bisection of an interval has as many steps left as the interval has
\* places, or the trailing SetLastFinalized only.
LEMMA FromToLeft ==
  ASSUME NEW q \in Request, NEW a \in 0..MaxHeight, NEW b \in 0..MaxHeight
  PROVE  LET e == FromTo(q, a, b)
         IN  /\ Left(e) <= MaxHeight + 1
             /\ \/ e.pc = "set" /\ Left(e) = 1
                \/ /\ e.pc = "bisect" /\ Left(e) = Higher(a, b) - Lower(a, b) + 1
                   /\ e.from = Lower(a, b) /\ e.to = Higher(a, b)
  <1> DEFINE e == FromTo(q, a, b)
  <1>1. \/ e.pc = "set"
        \/ e.pc = "bisect" /\ e.from = Lower(a, b) /\ e.to = Higher(a, b)
    BY FromToShape
  <1> HIDE DEF e
  <1>2. Lower(a, b) \in 0..MaxHeight /\ Higher(a, b) \in 0..MaxHeight
    BY DEF Lower, Higher
  <1>3. CASE e.pc = "set"
    <2>1. Left(e) = 1
      BY <1>3 DEF Left
    <2> QED
      BY <1>3, <2>1, SearchAssumption DEF e
  <1>4. CASE e.pc = "bisect" /\ e.from = Lower(a, b) /\ e.to = Higher(a, b)
    <2>1. Left(e) = Higher(a, b) - Lower(a, b) + 1
      BY <1>4 DEF Left
    <2> QED
      BY <1>2, <1>4, <2>1, SearchAssumption DEF e
  <1> QED
    BY <1>1, <1>3, <1>4

\* After the fast check: the block after `from', then the bisection.
LEMMA AfterFastLeft ==
  ASSUME NEW q \in Request
  PROVE  Left(AfterFast(q)) <= MaxHeight + 2
  <1>1. q.from \in 0..MaxHeight /\ q.current \in 0..MaxHeight
    BY DEF Request
  <1>2. Left(FromTo(q, q.from, q.current)) <= MaxHeight + 2
    <2>1. Left(FromTo(q, q.from, q.current)) <= MaxHeight + 1
      BY <1>1, FromToLeft
    <2>2. Left(FromTo(q, q.from, q.current)) \in Int
      BY <1>1, FromToLeft DEF Lower, Higher
    <2> QED
      BY <2>1, <2>2, SearchAssumption
  <1>3. Left(Probe(q, "next", q.current)) <= MaxHeight + 2
    <2>1. Probe(q, "next", q.current).pc = "next"
      BY DEF Probe, Request
    <2> QED
      BY <2>1, SearchAssumption DEF Left
  <1>4. Left(Probe(q, "try", q.from + 1)) <= MaxHeight + 2
    <2>1. Probe(q, "try", q.from + 1).pc = "try"
      BY DEF Probe, Request
    <2> QED
      BY <2>1, SearchAssumption DEF Left
  <1> QED
    BY <1>2, <1>3, <1>4 DEF AfterFast

\* A bound on the steps left is an integer.
LEMMA LeftInt ==
  ASSUME NEW q \in Request
  PROVE  Left(q) \in Int
  BY SearchAssumption DEF Left, Request

\* After the probe below the head: the fast check, then the rest.
LEMMA AfterHeadLeft ==
  ASSUME NEW q \in Request
  PROVE  Left(AfterHead(q)) <= MaxHeight + 3
  <1> DEFINE n == q.current - FastCheckNumberCount
  <1>1. Left(Probe(q, "fast", n)) <= MaxHeight + 3
    <2>1. Probe(q, "fast", n).pc = "fast"
      BY DEF Probe, Request
    <2> QED
      BY <2>1, SearchAssumption DEF Left
  <1>2. Left(AfterFast(q)) <= MaxHeight + 3
    BY AfterFastLeft, AfterFastType, LeftInt, SearchAssumption
  <1> QED
    BY <1>1, <1>2 DEF AfterHead

\* From the value of lastFinalizedHeight on: the probe below the head, then
\* the rest.
LEMMA AfterStartLeft ==
  ASSUME NEW q \in Request, NEW last \in 0..MaxHeight
  PROVE  Left(AfterStart(q, last)) <= MaxHeight + 4
  <1> DEFINE from == IF last = 0 THEN 1 ELSE last
             p    == [q EXCEPT !.from = from]
  <1>1. from \in 0..MaxHeight
    BY SearchAssumption
  <1> HIDE DEF from
  <1>2. p \in Request
    BY <1>1, LocalTypes
  <1> HIDE DEF p
  <1>3. Left(Done(p, q.current)) <= MaxHeight + 4
    <2>1. Done(p, q.current).pc = "done"
      BY <1>2, LocalShape
    <2> QED
      BY <2>1, SearchAssumption DEF Left
  <1>4. Left(Probe(p, "head", q.current - 1)) <= MaxHeight + 4
    <2>1. Probe(p, "head", q.current - 1).pc = "head"
      BY <1>2 DEF Probe, Request
    <2> QED
      BY <2>1, SearchAssumption DEF Left
  <1>5. Left(AfterHead(p)) <= MaxHeight + 4
    BY <1>2, AfterHeadLeft, AfterHeadType, LeftInt, SearchAssumption
  <1> QED
    BY <1>3, <1>4, <1>5 DEF AfterStart, p, from

\* An ended request has no steps left.
LEMMA EndedLeft ==
  ASSUME NEW q \in Request, NEW n
  PROVE  Left(Done(q, n)) = 0 /\ Left(Failed(q)) = 0
  <1>1. Done(q, n).pc = "done" /\ Failed(q).pc = "failed"
    BY LocalShape
  <1> QED
    BY <1>1 DEF Left

\* What a call of queryFinalizedBlockInBabylonFromTo that calls itself leaves
\* to do: the half above the midpoint, or the half below it.
LEMMA BisectStep ==
  ASSUME TypeOK, NEW r \in Requests, NEW res, ProbeBisect(r, res),
         Interval(req[r]), req'[r].pc # "failed"
  PROVE  /\ Left(req'[r]) < Left(req[r])
         /\ req'[r].pc = "bisect" =>
              2 * (req'[r].to - req'[r].from) <= req[r].to - req[r].from + 1
  <1> DEFINE q == Heard(r, res)
  <1>0. /\ q.from = req[r].from /\ q.to = req[r].to /\ q.probe = req[r].probe
        /\ q.pc = req[r].pc
    BY HeardType
  <1>1. q \in Request /\ q.pc = "bisect"
    BY HeardType DEF ProbeBisect
  <1>2. /\ q.from \in 0..MaxHeight /\ q.to \in 0..MaxHeight
        /\ q.probe \in 0..MaxHeight
        /\ q.from < q.probe /\ q.probe < q.to
        /\ q.probe = (q.from + q.to + 1) \div 2
    BY <1>0, <1>1 DEF Request, Interval
  <1>3. Failed(q).pc = "failed"
    BY <1>1, LocalShape
  <1>4. Left(req[r]) = q.to - q.from + 1
    BY <1>0, <1>1 DEF Left
  <1>5. CASE Local(r, FromTo(q, q.probe, q.to))
    <2> DEFINE e == FromTo(q, q.probe, q.to)
    <2>1. req'[r] = e
      BY <1>5, LocalChange
    <2>2. Lower(q.probe, q.to) = q.probe /\ Higher(q.probe, q.to) = q.to
      BY <1>2 DEF Lower, Higher
    <2>3. \/ e.pc = "set" /\ Left(e) = 1
          \/ e.pc = "bisect" /\ Left(e) = q.to - q.probe + 1 /\ e.from = q.probe /\ e.to = q.to
      BY <1>1, <1>2, <2>2, FromToLeft
    <2> HIDE DEF e
    <2> QED
      BY <1>0, <1>2, <1>4, <2>1, <2>3, SearchAssumption
  <1>6. CASE Local(r, FromTo(q, q.from, q.probe))
    <2> DEFINE e == FromTo(q, q.from, q.probe)
    <2>1. req'[r] = e
      BY <1>6, LocalChange
    <2>2. Lower(q.from, q.probe) = q.from /\ Higher(q.from, q.probe) = q.probe
      BY <1>2 DEF Lower, Higher
    <2>3. \/ e.pc = "set" /\ Left(e) = 1
          \/ e.pc = "bisect" /\ Left(e) = q.probe - q.from + 1 /\ e.from = q.from /\ e.to = q.probe
      BY <1>1, <1>2, <2>2, FromToLeft
    <2> HIDE DEF e
    <2> QED
      BY <1>0, <1>2, <1>4, <2>1, <2>3, SearchAssumption
  <1> QED
    BY <1>3, <1>5, <1>6, LocalChange DEF ProbeBisect

\* Every continuation of a probe leaves less to do.
LEMMA ResumeAdvances ==
  ASSUME TypeOK, NEW r \in Requests, NEW res, Resume(r, res), Interval(req[r])
  PROVE  Left(req'[r]) < Left(req[r])
  <1> DEFINE q == Heard(r, res)
  <1>0. /\ q.from = req[r].from /\ q.to = req[r].to /\ q.probe = req[r].probe
        /\ q.pc = req[r].pc /\ Left(req[r]) = Left(q)
    BY HeardType, ZenonT(40) DEF Left
  <1>1. q \in Request
    BY HeardType
  <1>2. /\ q.from \in 0..MaxHeight /\ q.to \in 0..MaxHeight
        /\ q.probe \in 0..MaxHeight /\ q.current \in 0..MaxHeight
    BY <1>1 DEF Request
  <1>3. \A n : Left(Done(q, n)) = 0 /\ Left(Failed(q)) = 0
    BY <1>1, EndedLeft
  <1>4. CASE ProbeHead(r, res)
    <2>1. Left(q) = MaxHeight + 4
      BY <1>4 DEF ProbeHead, Left
    <2>2. Left(AfterHead(q)) <= MaxHeight + 3 /\ Left(AfterHead(q)) \in Int
      BY <1>1, AfterHeadLeft, AfterHeadType, LeftInt
    <2>3. req'[r] = (IF res = "yes" THEN Done(q, q.probe) ELSE AfterHead(q))
      BY <1>4, LocalChange DEF ProbeHead
    <2> QED
      BY <1>0, <1>3, <2>1, <2>2, <2>3, SearchAssumption
  <1>5. CASE ProbeFast(r, res)
    <2> DEFINE p == [q EXCEPT !.from = q.probe]
    <2>1. Left(q) = MaxHeight + 3
      BY <1>5 DEF ProbeFast, Left
    <2>2. p \in Request
      BY <1>1, <1>2, LocalTypes
    <2>3. req'[r] = (IF res = "err" THEN Failed(q)
                     ELSE IF res = "yes" THEN AfterFast(p) ELSE AfterFast(q))
      BY <1>5, LocalChange DEF ProbeFast
    <2> HIDE DEF p
    <2>4. /\ Left(AfterFast(q)) <= MaxHeight + 2 /\ Left(AfterFast(q)) \in Int
          /\ Left(AfterFast(p)) <= MaxHeight + 2 /\ Left(AfterFast(p)) \in Int
      BY <1>1, <2>2, AfterFastLeft, AfterFastType, LeftInt
    <2> QED
      BY <1>0, <1>3, <2>1, <2>3, <2>4, SearchAssumption
  <1>6. CASE ProbeNext(r, res)
    <2>1. Left(q) = 1
      BY <1>6 DEF ProbeNext, Left
    <2>2. req'[r] = (IF res = "err" THEN Failed(q)
                     ELSE IF res = "yes" THEN Done(q, q.current) ELSE Done(q, q.from))
      BY <1>6, LocalChange DEF ProbeNext
    <2> QED
      BY <1>0, <1>3, <2>1, <2>2
  <1>7. CASE ProbeTry(r, res)
    <2>1. Left(q) = MaxHeight + 2
      BY <1>7 DEF ProbeTry, Left
    <2>2. /\ Left(FromTo(q, q.probe, q.current)) <= MaxHeight + 1
          /\ Left(FromTo(q, q.from, q.current)) <= MaxHeight + 1
      BY <1>1, <1>2, FromToLeft
    <2>3. /\ Left(FromTo(q, q.probe, q.current)) \in Int
          /\ Left(FromTo(q, q.from, q.current)) \in Int
      BY <1>1, <1>2, FromToType, LeftInt
    <2>4. req'[r] = (IF res = "err" THEN Failed(q)
                     ELSE IF res = "yes" THEN FromTo(q, q.probe, q.current)
                     ELSE FromTo(q, q.from, q.current))
      BY <1>7, LocalChange DEF ProbeTry
    <2> QED
      BY <1>0, <1>3, <2>1, <2>2, <2>3, <2>4, SearchAssumption
  <1>8. CASE ProbeBisect(r, res)
    <2>1. CASE req'[r].pc # "failed"
      BY <1>8, <2>1, BisectStep
    <2>2. CASE req'[r].pc = "failed"
      <3>1. Left(req'[r]) = 0
        BY <2>2 DEF Left
      <3>2. q.pc = "bisect" /\ q.from < q.to
        BY <1>0, <1>2, <1>8 DEF ProbeBisect, Interval
      <3> QED
        BY <1>0, <1>2, <3>1, <3>2 DEF Left
    <2> QED
      BY <2>1, <2>2
  <1> QED
    BY <1>4, <1>5, <1>6, <1>7, <1>8 DEF Resume

\* Every step of a request leaves less to do.
LEMMA StepAdvances ==
  ASSUME TypeOK, NEW r \in Requests, Step(r), Interval(req[r])
  PROVE  Left(req'[r]) < Left(req[r])
  <1>1. req[r] \in Request /\ lastFinalizedHeight \in 0..MaxHeight
    BY DEF TypeOK
  <1>2. CASE ReadLast(r)
    <2> DEFINE e == AfterStart(req[r], lastFinalizedHeight)
    <2>1. req'[r] = e /\ req[r].pc = "start"
      BY <1>2, LocalChange DEF ReadLast
    <2>2. Left(e) <= MaxHeight + 4 /\ Left(e) \in Int
      BY <1>1, AfterStartLeft, AfterStartType, LeftInt
    <2>3. Left(req[r]) = MaxHeight + 5
      BY <2>1 DEF Left
    <2> QED
      BY <2>1, <2>2, <2>3, SearchAssumption
  <1>3. CASE Answered(r)
    BY <1>3, ResumeAdvances DEF Answered
  <1>4. CASE SetResult(r)
    <2>1. req'[r] = Done(req[r], req[r].ans) /\ req[r].pc = "set"
      BY <1>4, LocalChange DEF SetResult
    <2>2. Left(req[r]) = 1 /\ Left(req'[r]) = 0
      BY <1>1, <2>1, EndedLeft DEF Left
    <2> QED
      BY <2>2
  <1> QED
    BY <1>2, <1>3, <1>4 DEF Step

\* Between its call and its end a request writes lastFinalizedHeight and its
\* own local state; it stays well-formed and has less to do.
LEMMA OwnEffect ==
  ASSUME TypeOK, NEW r \in Requests, Interval(req[r]),
         (\E res : Resume(r, res)) \/ ReadLast(r) \/ SetResult(r)
  PROVE  /\ lastFinalizedHeight' \in 0..MaxHeight
         /\ req' \in [Requests -> Request]
         /\ \A s \in Requests : s # r => req'[s] = req[s]
         /\ Interval(req'[r])
         /\ Left(req'[r]) < Left(req[r])
  <1>0. /\ req \in [Requests -> Request] /\ lastFinalizedHeight \in 0..MaxHeight
        /\ req[r] \in Request /\ req[r].ans \in 0..MaxHeight
    BY DEF TypeOK, Request
  <1>1. ASSUME NEW e \in Request, Local(r, e), lastFinalizedHeight' \in 0..MaxHeight,
               Interval(e), Left(e) < Left(req[r])
        PROVE  /\ lastFinalizedHeight' \in 0..MaxHeight
               /\ req' \in [Requests -> Request]
               /\ \A s \in Requests : s # r => req'[s] = req[s]
               /\ Interval(req'[r])
               /\ Left(req'[r]) < Left(req[r])
    BY <1>0, <1>1, LocalChange DEF Local
  <1>2. ASSUME NEW res, Resume(r, res)
        PROVE  /\ lastFinalizedHeight' \in 0..MaxHeight
               /\ req' \in [Requests -> Request]
               /\ \A s \in Requests : s # r => req'[s] = req[s]
               /\ Interval(req'[r])
               /\ Left(req'[r]) < Left(req[r])
    <2>1. \E e : Local(r, e)
      BY <1>2 DEF Resume, ProbeHead, ProbeFast, ProbeNext, ProbeTry, ProbeBisect
    <2>2. \A s \in Requests : s # r => req'[s] = req[s]
      BY <1>0, <2>1 DEF Local
    <2> QED
      BY <1>2, <2>2, ResumeType, ResumeInterval, ResumeAdvances
  <1>3. CASE ReadLast(r)
    <2> DEFINE e == AfterStart(req[r], lastFinalizedHeight)
    <2>1. e \in Request /\ Interval(e)
      BY <1>0, AfterStartType, AfterStartInterval
    <2>2. Local(r, e) /\ UNCHANGED lastFinalizedHeight
      BY <1>3 DEF ReadLast
    <2>3. Left(e) < Left(req[r])
      BY <1>3, <2>2, StepAdvances, LocalChange DEF Step
    <2> HIDE DEF e
    <2> QED
      BY <1>0, <1>1, <2>1, <2>2, <2>3
  <1>4. CASE SetResult(r)
    <2> DEFINE e == Done(req[r], req[r].ans)
    <2>1. e \in Request /\ Interval(e)
      BY <1>0, LocalTypes, ProbeInterval
    <2>2. Local(r, e) /\ lastFinalizedHeight' \in 0..MaxHeight
      BY <1>0, <1>4 DEF SetResult, SetLastFinalized
    <2>3. Left(e) < Left(req[r])
      BY <1>4, <2>2, StepAdvances, LocalChange DEF Step
    <2> HIDE DEF e
    <2> QED
      BY <1>1, <2>1, <2>2, <2>3
  <1> QED
    BY <1>2, <1>3, <1>4

\* A call begins, or its caller takes the result.
LEMMA CallEffect ==
  ASSUME TypeOK, NEW r \in Requests, Query(r) \/ Return(r)
  PROVE  /\ UNCHANGED lastFinalizedHeight
         /\ req' \in [Requests -> Request]
         /\ \A s \in Requests : s # r => req'[s] = req[s]
         /\ Interval(req'[r])
         /\ req[r].pc \in {"idle", "done", "failed"}
  <1>0. req \in [Requests -> Request]
    BY DEF TypeOK
  <1>1. TypeOK' /\ UNCHANGED lastFinalizedHeight
    BY StepType DEF Next, Query, Return
  <1>2. Idle.pc = "idle" /\ Failed(Idle).pc = "failed"
    BY DEF Idle, Failed
  <1>3. \A n : Called(n).pc = "start"
    BY DEF Idle, Called
  <1>4. \E e : Local(r, e) /\ e.pc \in {"idle", "failed", "start"}
    BY <1>2, <1>3 DEF Query, Return
  <1>5. Interval(req'[r])
    BY <1>4, LocalChange DEF Interval, Probing
  <1> QED
    BY <1>0, <1>1, <1>4, <1>5 DEF TypeOK, Local, Query, Return

\* A request makes at most MaxHeight + 5 steps, whatever its probes answer, in
\* whatever order the votes arrive, and whatever the other requests store in
\* lastFinalizedHeight meanwhile: it can neither loop nor start over.
THEOREM RequestAdvancesThm == Spec => RequestAdvances
  <1> DEFINE Advances(r) ==
        req[r].pc \notin {"idle", "done", "failed"} /\ req'[r] # req[r]
          => Left(req'[r]) < Left(req[r])
  <1>1. ASSUME SearchInv, Next, NEW r \in Requests
        PROVE  Advances(r)
    <2>1. TypeOK /\ Interval(req[r])
      BY <1>1 DEF SearchInv, LocalInv
    <2> QED
      BY <1>1, <2>1, OwnStep, StepAdvances
  <1>2. SearchInv /\ [Next]_vars => [\A r \in Requests : Advances(r)]_vars
    BY <1>1
  <1> QED
    BY SearchInvariant, <1>2, PTL DEF Spec, RequestAdvances

\* Every recursion of queryFinalizedBlockInBabylonFromTo works on half of the
\* interval of its caller, rounded up.
THEOREM BisectHalvesThm == Spec => BisectHalves
  <1> DEFINE Halves(r) ==
        req[r].pc = "bisect" /\ req'[r].pc = "bisect" /\ req'[r] # req[r]
          => 2 * (req'[r].to - req'[r].from) <= req[r].to - req[r].from + 1
  <1>1. ASSUME SearchInv, Next, NEW r \in Requests
        PROVE  Halves(r)
    <2>1. TypeOK /\ Interval(req[r])
      BY <1>1 DEF SearchInv, LocalInv
    <2> SUFFICES ASSUME req[r].pc = "bisect", req'[r].pc = "bisect", req'[r] # req[r]
                 PROVE  2 * (req'[r].to - req'[r].from) <= req[r].to - req[r].from + 1
      OBVIOUS
    <2>2. Step(r)
      BY <1>1, <2>1, OwnStep
    <2>3. PICK res : ProbeBisect(r, res)
      BY <2>1, <2>2, HeardType DEF Step, ReadLast, SetResult, Answered, Resume,
                                   ProbeHead, ProbeFast, ProbeNext, ProbeTry
    <2> QED
      BY <2>1, <2>3, BisectStep
  <1>2. SearchInv /\ [Next]_vars => [\A r \in Requests : Halves(r)]_vars
    BY <1>1
  <1> QED
    BY SearchInvariant, <1>2, PTL DEF Spec, BisectHalves
=============================================================================
