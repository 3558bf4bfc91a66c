-------------------------- MODULE RestoreFpProofs --------------------------
(***************************************************************************)
(* Proofs about RestoreFp, for any number of votes and edits.              *)
(***************************************************************************)
EXTENDS RestoreFp, TLAPS

\* The command works with a response.
Working == pc \in {"lookup", "create", "info", "voted", "power", "status",
                   "verify", "ok"}

\* Slashing takes the voting power away, on Babylon and in a response.
SlashedHasNoPower ==
  /\ bbn.slashed => ~bbn.hasPower
  /\ resp.slashed => ~resp.hasPower

\* A response is what Babylon once said.
ResponseIsPast ==
  /\ resp.highestVoted <= bbn.highestVoted
  /\ resp.slashed => bbn.slashed

\* The store does not claim more than Babylon, nor more than the response the
\* command works with: nobody else writes to it meanwhile.
StoreIsPast ==
  /\ NeverAhead
  /\ store.status = "SLASHED" => bbn.slashed
  /\ Working => /\ store.lastVoted <= resp.highestVoted
                /\ store.status = "SLASHED" => resp.slashed

\* A record that does not exist has its first values; the command creates or
\* updates it according to what it looked up.
NoRecord ==
  /\ ~store.found => store.lastVoted = 0 /\ store.status = "REGISTERED"
  /\ pc = "create" => ~store.found
  /\ pc \in {"info", "voted", "power", "status"} => store.found

\* What the command has written so far agrees with the response.
Progress ==
  /\ pc \in {"voted", "power", "status"} => store.info = resp.info
  /\ pc \in {"power", "status"} => store.lastVoted = resp.highestVoted
  /\ pc \in {"verify", "ok"} /\ store.status # "REGISTERED" =>
       /\ store.info = resp.info
       /\ store.lastVoted = resp.highestVoted
       /\ store.status = StatusOf(resp)

\* The inductive invariant.
RestoreInv ==
  /\ TypeOK
  /\ SlashedHasNoPower
  /\ ResponseIsPast
  /\ StoreIsPast
  /\ NoRecord
  /\ Progress

\* The store is empty and the command has not run.
LEMMA InitInv == Init => RestoreInv
  BY RestoreAssumption
  DEF Init, RestoreInv, TypeOK, Provider, Record, Statuses, Unknown,
      SlashedHasNoPower, ResponseIsPast, StoreIsPast, NeverAhead, Working,
      NoRecord, Progress

\* Babylon only adds votes and slashes, so what is past stays past.
LEMMA BabylonInv ==
  ASSUME RestoreInv, Babylon
  PROVE  RestoreInv'
  <1> USE RestoreAssumption DEF RestoreInv
  <1>1. /\ UNCHANGED <<store, pc, resp>>
        /\ bbn' \in Provider
        /\ bbn'.highestVoted >= bbn.highestVoted
        /\ bbn.slashed => bbn'.slashed
        /\ bbn'.slashed => ~bbn'.hasPower
    <2> USE DEF TypeOK, Provider, SlashedHasNoPower, Changed
    <2>1. CASE Register
      <3>1. bbn' = [bbn EXCEPT !.registered = TRUE] /\ UNCHANGED <<store, pc, resp>>
        BY <2>1 DEF Register
      <3>2. bbn' \in Provider
        BY <3>1
      <3> QED
        BY <3>1, <3>2
    <2>2. CASE Edit
      BY <2>2 DEF Edit
    <2>3. CASE VoteElsewhere
      BY <2>3 DEF VoteElsewhere
    <2>4. CASE Power
      BY <2>4 DEF Power
    <2>5. CASE Slash
      <3>1. bbn' = [bbn EXCEPT !.slashed = TRUE, !.hasPower = FALSE] /\ UNCHANGED <<store, pc, resp>>
        BY <2>5 DEF Slash
      <3>2. bbn' \in Provider
        BY <3>1
      <3> QED
        BY <3>1, <3>2
    <2>6. CASE Jail
      <3>1. bbn' = [bbn EXCEPT !.jailed = ~@, !.hasPower = FALSE] /\ UNCHANGED <<store, pc, resp>>
        BY <2>6 DEF Jail
      <3>2. bbn' \in Provider
        BY <3>1
      <3> QED
        BY <3>1, <3>2
    <2> QED
      BY <2>1, <2>2, <2>3, <2>4, <2>5, <2>6 DEF Babylon
  <1>2. TypeOK' /\ SlashedHasNoPower'
    BY <1>1 DEF TypeOK, SlashedHasNoPower
  <1>3. ResponseIsPast' /\ StoreIsPast'
    BY <1>1 DEF TypeOK, Provider, Record, ResponseIsPast, StoreIsPast, NeverAhead,
                Working
  <1>4. NoRecord' /\ Progress'
    BY <1>1 DEF NoRecord, Progress, StatusOf
  <1> QED
    BY <1>2, <1>3, <1>4

\* The local daemon records a vote it has cast, while no command runs.
LEMMA VoteHereInv ==
  ASSUME RestoreInv, VoteHere
  PROVE  RestoreInv'
  <1> USE RestoreAssumption DEF RestoreInv, VoteHere
  <1>1. TypeOK'
    BY DEF TypeOK, Provider, Record
  <1>2. SlashedHasNoPower' /\ ResponseIsPast' /\ StoreIsPast'
    BY DEF TypeOK, Provider, Record, SlashedHasNoPower, ResponseIsPast, StoreIsPast,
           NeverAhead, Working
  <1>3. NoRecord' /\ Progress'
    BY DEF TypeOK, Provider, Record, NoRecord, Progress
  <1> QED
    BY <1>1, <1>2, <1>3

\* Each query and each write of the command.
LEMMA CommandInv ==
  ASSUME RestoreInv, Command
  PROVE  RestoreInv'
  <1> USE RestoreAssumption
      DEF RestoreInv, TypeOK, Provider, Record, Statuses, SlashedHasNoPower,
          ResponseIsPast, StoreIsPast, NeverAhead, Working, NoRecord, Progress, Goto
  <1>1. CASE QueryFinalityProvider
    BY <1>1 DEF QueryFinalityProvider
  <1>2. CASE GetFinalityProvider
    BY <1>2 DEF GetFinalityProvider
  <1>3. CASE CreateFinalityProvider
    BY <1>3 DEF CreateFinalityProvider
  <1>4. CASE SetFpDescription
    BY <1>4 DEF SetFpDescription
  <1>5. CASE SetFpLastVotedHeight
    BY <1>5 DEF SetFpLastVotedHeight
  <1>6. CASE QueryFinalityProviderHasPower
    BY <1>6 DEF QueryFinalityProviderHasPower
  <1>7. CASE SetFpStatus
    <2>1. /\ StatusOf(resp) \in Statuses
          /\ StatusOf(resp) = "SLASHED" => resp.slashed
      BY DEF StatusOf
    <2>2. StatusOf(resp)' = StatusOf(resp)
      BY <1>7 DEF SetFpStatus, StatusOf
    <2> QED
      BY <1>7, <2>1, <2>2 DEF SetFpStatus
  <1>8. CASE Verify
    BY <1>8 DEF Verify, StatusOf
  <1> QED
    BY <1>1, <1>2, <1>3, <1>4, <1>5, <1>6, <1>7, <1>8 DEF Command

\* The command begins, fails or ends.
LEMMA ProcessInv ==
  ASSUME RestoreInv, Run \/ Fail \/ Exit
  PROVE  RestoreInv'
  <1> USE RestoreAssumption
      DEF RestoreInv, TypeOK, Provider, Record, SlashedHasNoPower,
          ResponseIsPast, StoreIsPast, NeverAhead, Working, NoRecord, Progress
  <1>1. CASE Run
    BY <1>1 DEF Run, Goto
  <1>2. CASE Fail
    BY <1>2 DEF Fail
  <1>3. CASE Exit
    BY <1>3 DEF Exit, Unknown
  <1> QED
    BY <1>1, <1>2, <1>3

\* Every step, and every stutter.
LEMMA NextInv == RestoreInv /\ [Next]_vars => RestoreInv'
  <1> SUFFICES ASSUME RestoreInv, [Next]_vars
               PROVE  RestoreInv'
    OBVIOUS
  <1>1. CASE UNCHANGED vars
    BY <1>1 DEF vars, RestoreInv, TypeOK, SlashedHasNoPower, ResponseIsPast,
                StoreIsPast, NeverAhead, Working, NoRecord, Progress, StatusOf
  <1> QED
    BY <1>1, BabylonInv, VoteHereInv, CommandInv, ProcessInv DEF Next

\* The record, the response and the provider on Babylon stay in step through
\* every failure, kill and repetition of the command.
THEOREM RestoreInvariant == Spec => []RestoreInv
  <1>1. QED
    BY InitInv, NextInv, PTL DEF Spec

\* Babylon's data, the record and the command keep their types.
THEOREM RestoreTypeCorrect == Spec => []TypeOK
  <1>1. RestoreInv => TypeOK
    BY DEF RestoreInv
  <1> QED
    BY <1>1, RestoreInvariant, PTL

\* The store never claims a vote that Babylon has not seen, whatever writes of
\* putFpFromResponse failed before.
THEOREM NeverAheadThm == Spec => []NeverAhead
  <1>1. RestoreInv => NeverAhead
    BY DEF RestoreInv, StoreIsPast
  <1> QED
    BY <1>1, RestoreInvariant, PTL

\* A successful update by RestoreFP has written the whole response.
THEOREM UpdatedAgreesThm == Spec => []UpdatedAgrees
  <1>1. RestoreInv => UpdatedAgrees
    BY DEF RestoreInv, Progress, UpdatedAgrees
  <1> QED
    BY <1>1, RestoreInvariant, PTL

\* SetFpLastVotedHeight never takes back a height the provider has voted at.
THEOREM VotesNeverForgottenThm == Spec => VotesNeverForgotten
  <1>1. RestoreInv /\ [Next]_vars => [store.lastVoted' >= store.lastVoted]_vars
    <2> SUFFICES ASSUME RestoreInv, Next
                 PROVE  store.lastVoted' >= store.lastVoted
      OBVIOUS
    <2> USE DEF RestoreInv, TypeOK, Provider, Record
    <2>1. CASE UNCHANGED store
      BY <2>1, RestoreAssumption
    <2>2. CASE VoteHere
      BY <2>2, RestoreAssumption DEF VoteHere, StoreIsPast, NeverAhead
    <2>3. CASE CreateFinalityProvider
      BY <2>3 DEF CreateFinalityProvider, NoRecord, Goto
    <2>4. CASE SetFpDescription
      BY <2>4, RestoreAssumption DEF SetFpDescription
    <2>5. CASE SetFpLastVotedHeight
      BY <2>5 DEF SetFpLastVotedHeight, StoreIsPast, Working, Goto
    <2>6. CASE SetFpStatus
      BY <2>6, RestoreAssumption DEF SetFpStatus
    <2> QED
      BY <2>1, <2>2, <2>3, <2>4, <2>5, <2>6
      DEF Next, Babylon, Register, Edit, VoteElsewhere, Power, Slash, Jail, Changed,
          Run, Fail, Exit, Command, QueryFinalityProvider, GetFinalityProvider,
          QueryFinalityProviderHasPower, Verify
  <1> QED
    BY <1>1, RestoreInvariant, PTL DEF Spec, VotesNeverForgotten

\* SetFpStatus never stores another status over SLASHED.
THEOREM SlashedForGoodThm == Spec => SlashedForGood
  <1>1. RestoreInv /\ [Next]_vars
          => [store.status = "SLASHED" => store.status' = "SLASHED"]_vars
    <2> SUFFICES ASSUME RestoreInv, Next, store.status = "SLASHED"
                 PROVE  store.status' = "SLASHED"
      OBVIOUS
    <2> USE DEF RestoreInv, TypeOK, Provider, Record
    <2>1. CASE UNCHANGED store
      BY <2>1
    <2>2. CASE VoteHere
      BY <2>2 DEF VoteHere
    <2>3. CASE CreateFinalityProvider
      BY <2>3 DEF CreateFinalityProvider, NoRecord, Goto
    <2>4. CASE SetFpDescription
      BY <2>4 DEF SetFpDescription
    <2>5. CASE SetFpLastVotedHeight
      BY <2>5 DEF SetFpLastVotedHeight
    <2>6. CASE SetFpStatus
      BY <2>6 DEF SetFpStatus, StatusOf, StoreIsPast, Working, SlashedHasNoPower, Goto
    <2> QED
      BY <2>1, <2>2, <2>3, <2>4, <2>5, <2>6
      DEF Next, Babylon, Register, Edit, VoteElsewhere, Power, Slash, Jail, Changed,
          Run, Fail, Exit, Command, QueryFinalityProvider, GetFinalityProvider,
          QueryFinalityProviderHasPower, Verify
  <1> QED
    BY <1>1, RestoreInvariant, PTL DEF Spec, SlashedForGood
=============================================================================
