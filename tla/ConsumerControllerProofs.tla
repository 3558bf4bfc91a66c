---------------------- MODULE ConsumerControllerProofs ----------------------
(***************************************************************************)
(* Proofs about ConsumerController, for any number of goroutines and any   *)
(* history of the account.                                                 *)
(***************************************************************************)
EXTENDS ConsumerController, TLAPS

\* Nothing knows of a balance that the account has not had.
Known ==
  /\ shown <= balance /\ submitted <= balance
  /\ \A m \in Methods : call[m].left <= balance
  /\ \A g \in Recorders : rec[g].since <= balance /\ rec[g].read <= balance

\* An answer that is about to be recorded is not older than the one recorded
\* last.
Younger ==
  \A g \in Recorders : rec[g].pc = "record" => rec[g].read = 0 \/ rec[g].read >= shown

\* The inductive invariant.
CtlInv == CtlTypeOK /\ MutexHeld /\ Known /\ Younger /\ GaugeFollows

\* The larger of two numbers.
LEMMA LargerFact ==
  ASSUME NEW a \in Nat, NEW b \in Nat
  PROVE  /\ Larger(a, b) \in Nat /\ Larger(a, b) \in {a, b}
         /\ Larger(a, b) >= a /\ Larger(a, b) >= b
  BY DEF Larger

\* The process starts without goroutines.
LEMMA CtlInitInv == CtlInit => CtlInv
  <1> SUFFICES ASSUME CtlInit
               PROVE  CtlInv
    OBVIOUS
  <1> USE ControllerAssumption DEF ControllerAssumption
  <1>1. Off \in Recorder /\ Off.pc = "off" /\ Off.since = 0 /\ Off.read = 0
    BY DEF Off, Recorder
  <1>2. NoCall \in [sent : BOOLEAN, left : 0..MaxBalance] /\ NoCall.left = 0
    BY DEF NoCall
  <1>3. CtlTypeOK
    <2>1. rec \in [Recorders -> Recorder]
      BY <1>1, Zenon DEF CtlInit
    <2>2. call \in [Methods -> [sent : BOOLEAN, left : 0..MaxBalance]]
      BY <1>2, Zenon DEF CtlInit
    <2>3. balance \in Balances /\ gauge \in {Unset} \cup 0..MaxBalance /\ mu \subseteq Recorders
      BY DEF CtlInit, Balances
    <2>4. shown \in 0..MaxBalance /\ submitted \in 0..MaxBalance /\ missed \in 0..MaxBalance
      BY DEF CtlInit
    <2>5. cancelled \in BOOLEAN /\ loop \in {"off", "first", "wait", "ended"}
      BY DEF CtlInit
    <2> QED
      BY <2>1, <2>2, <2>3, <2>4, <2>5, Zenon DEF CtlTypeOK
  <1>4. MutexHeld
    BY <1>1 DEF CtlInit, MutexHeld
  <1>5. Known
    BY <1>1, <1>2 DEF CtlInit, Known
  <1>6. Younger
    BY <1>1 DEF CtlInit, Younger
  <1>7. GaugeFollows
    BY DEF CtlInit, GaugeFollows, Larger
  <1> QED
    BY <1>3, <1>4, <1>5, <1>6, <1>7 DEF CtlInv


\* What the invariant says of a state, in the form the steps need.
LEMMA Facts ==
  ASSUME CtlInv
  PROVE  /\ balance \in Nat /\ balance <= MaxBalance /\ MaxBalance \in Nat
         /\ shown \in Nat /\ submitted \in Nat /\ missed \in Nat
         /\ rec \in [Recorders -> Recorder]
         /\ \A g \in Recorders : rec[g].since \in Nat /\ rec[g].read \in Nat
         /\ \A m \in Methods : call[m].left \in Nat
  BY ControllerAssumption DEF CtlInv, CtlTypeOK, Balances, Recorder

\* A goroutine that has just been started.
LEMMA StartedInv ==
  ASSUME CtlInv, NEW g \in Recorders, NEW since \in 0..MaxBalance,
         recordFpBalance(g, since)
  PROVE  /\ rec' \in [Recorders -> Recorder]
         /\ rec'[g].since = since /\ rec'[g].read = 0
         /\ rec'[g].pc = "lock" /\ rec[g].pc = "off"
         /\ \A h \in Recorders : h # g => rec'[h] = rec[h]
  <1> DEFINE q == [pc |-> "lock", since |-> since, read |-> 0]
  <1>1. q \in Recorder
    BY ControllerAssumption DEF ControllerAssumption, Recorder
  <1>2. rec \in [Recorders -> Recorder] /\ rec[g].pc = "off" /\ rec' = [rec EXCEPT ![g] = q]
    BY DEF CtlInv, CtlTypeOK, recordFpBalance, Goroutine
  <1> QED
    BY <1>1, <1>2

\* A goroutine that is due stays due while it is not the one that moves.
LEMMA StillRecording ==
  ASSUME NEW g \in Recorders, NEW b, Recording(b), rec[g].pc = "off",
         \A h \in Recorders : h # g => rec'[h] = rec[h]
  PROVE  \E h \in Recorders :
           /\ rec'[h].pc # "off" /\ rec'[h].since >= b
           /\ rec'[h].pc = "record" => rec'[h].read = 0 \/ rec'[h].read >= b
  BY DEF Recording

\* The steps that start a goroutine or none, and leave the gauge alone.
LEMMA LoopInv ==
  ASSUME CtlInv, MetricsLoop
  PROVE  CtlInv'
  <1> USE ControllerAssumption, Facts
  <1>1. CASE \E g \in Recorders : loop \in {"first", "wait"} /\ recordFpBalance(g, 0) /\ loop' = "wait"
    <2>1. PICK g \in Recorders : recordFpBalance(g, 0)
      BY <1>1
    <2>2. /\ rec' \in [Recorders -> Recorder]
          /\ rec'[g].since = 0 /\ rec'[g].read = 0
          /\ rec'[g].pc = "lock" /\ rec[g].pc = "off"
          /\ \A h \in Recorders : h # g => rec'[h] = rec[h]
      BY <2>1, StartedInv
    <2>3. CtlTypeOK'
      BY <1>1, <2>2 DEF CtlInv, CtlTypeOK, MetricsLoop, gaugeVars
    <2>4. MutexHeld'
      BY <2>2 DEF CtlInv, MutexHeld, MetricsLoop, gaugeVars
    <2>5. Known' /\ Younger'
      BY <2>2 DEF CtlInv, Known, Younger, MetricsLoop, gaugeVars
    <2>6. GaugeFollows'
      BY <2>2, StillRecording DEF CtlInv, GaugeFollows, Recording, MetricsLoop, gaugeVars
    <2> QED
      BY <2>3, <2>4, <2>5, <2>6 DEF CtlInv
  <1>2. CASE rec' = rec /\ loop' = "ended"
    <2>1. CtlTypeOK'
      BY <1>2 DEF CtlInv, CtlTypeOK, MetricsLoop, gaugeVars
    <2> QED
      BY <1>2, <2>1 DEF CtlInv, MutexHeld, Known, Younger, GaugeFollows, Recording, MetricsLoop, gaugeVars
  <1> QED
    BY <1>1, <1>2 DEF MetricsLoop


\* Lock: the only goroutine inside is the one that gets the mutex.
LEMMA LockInv ==
  ASSUME CtlInv, NEW g \in Recorders, Lock(g)
  PROVE  CtlInv'
  <1> USE ControllerAssumption, Facts DEF ControllerAssumption
  <1>1. rec[g].since \in 0..MaxBalance /\ 0 \in 0..MaxBalance
    BY DEF CtlInv, CtlTypeOK, Recorder
  <1>2. /\ rec' \in [Recorders -> Recorder]
        /\ rec'[g].pc = "addr" /\ rec'[g].since = rec[g].since /\ rec'[g].read = 0
        /\ \A h \in Recorders : h # g => rec'[h] = rec[h]
    BY <1>1 DEF Lock, CtlInv, CtlTypeOK, Goroutine, Recorder
  <1>3. CtlTypeOK'
    BY <1>2 DEF CtlInv, CtlTypeOK, Lock, gaugeVars
  <1>4. MutexHeld'
    BY <1>2 DEF CtlInv, MutexHeld, Lock
  <1>5. Known' /\ Younger'
    BY <1>2 DEF CtlInv, Known, Younger, Lock, gaugeVars
  <1>6. GaugeFollows'
    BY <1>2 DEF CtlInv, GaugeFollows, Recording, Lock, gaugeVars
  <1> QED
    BY <1>3, <1>4, <1>5, <1>6 DEF CtlInv

\* GetAddr: a goroutine that gives up has its submission missed.
LEMMA GetAddrInv ==
  ASSUME CtlInv, NEW g \in Recorders, GetAddr(g)
  PROVE  CtlInv'
  <1> USE ControllerAssumption, Facts DEF ControllerAssumption
  <1>1. rec[g].since \in 0..MaxBalance /\ 0 \in 0..MaxBalance
    BY DEF CtlInv, CtlTypeOK, Recorder
  <1>2. CASE Goroutine(g, "query", rec[g].since, 0) /\ UNCHANGED <<mu, gaugeVars>>
    <2>1. /\ rec' \in [Recorders -> Recorder]
          /\ rec'[g].pc = "query" /\ rec'[g].since = rec[g].since /\ rec'[g].read = 0
          /\ \A h \in Recorders : h # g => rec'[h] = rec[h]
      BY <1>1, <1>2 DEF CtlInv, CtlTypeOK, Goroutine, Recorder
    <2>2. CtlTypeOK'
      BY <1>2, <2>1 DEF CtlInv, CtlTypeOK, GetAddr, gaugeVars
    <2>3. MutexHeld'
      BY <1>2, <2>1 DEF CtlInv, MutexHeld, GetAddr
    <2>4. Known' /\ Younger'
      BY <1>2, <2>1 DEF CtlInv, Known, Younger, GetAddr, gaugeVars
    <2>5. GaugeFollows'
      BY <1>2, <2>1 DEF CtlInv, GaugeFollows, Recording, GetAddr, gaugeVars
    <2> QED
      BY <2>2, <2>3, <2>4, <2>5 DEF CtlInv
  <1>3. CASE /\ Ends(g) /\ mu' = mu \ {g}
             /\ missed' = Larger(missed, rec[g].since) /\ UNCHANGED <<gauge, shown>>
    <2>1. /\ rec' \in [Recorders -> Recorder]
          /\ rec'[g].pc = "off" /\ rec'[g].since = 0 /\ rec'[g].read = 0
          /\ \A h \in Recorders : h # g => rec'[h] = rec[h]
      BY <1>1, <1>3 DEF Ends, CtlInv, CtlTypeOK, Goroutine, Recorder
    <2>2. /\ missed' \in Nat /\ missed' >= missed /\ missed' >= rec[g].since
          /\ missed' \in 0..MaxBalance
      BY <1>1, <1>3, LargerFact DEF CtlInv, CtlTypeOK
    <2>3. CtlTypeOK'
      BY <1>3, <2>1, <2>2 DEF CtlInv, CtlTypeOK, GetAddr
    <2>4. MutexHeld'
      BY <1>3, <2>1 DEF CtlInv, MutexHeld, GetAddr
    <2>5. Known' /\ Younger'
      BY <1>3, <2>1 DEF CtlInv, Known, Younger, GetAddr
    <2>6. GaugeFollows'
      BY <1>3, <2>1, <2>2 DEF CtlInv, GaugeFollows, Recording, GetAddr, Larger
    <2> QED
      BY <2>3, <2>4, <2>5, <2>6 DEF CtlInv
  <1> QED
    BY <1>2, <1>3 DEF GetAddr

\* queryBalance: the answer is the balance of now, and no balance is younger.
LEMMA QueryInv ==
  ASSUME CtlInv, NEW g \in Recorders, queryBalance(g)
  PROVE  CtlInv'
  <1> USE ControllerAssumption, Facts DEF ControllerAssumption
  <1>1. PICK read \in {0, balance} : Goroutine(g, "record", rec[g].since, read)
    BY DEF queryBalance
  <1>2. rec[g].since \in 0..MaxBalance /\ read \in 0..MaxBalance
    BY DEF CtlInv, CtlTypeOK, Recorder
  <1>3. /\ rec' \in [Recorders -> Recorder]
        /\ rec'[g].pc = "record" /\ rec'[g].since = rec[g].since /\ rec'[g].read = read
        /\ \A h \in Recorders : h # g => rec'[h] = rec[h]
    BY <1>1, <1>2 DEF CtlInv, CtlTypeOK, Goroutine, Recorder
  <1>4. CtlTypeOK'
    BY <1>3 DEF CtlInv, CtlTypeOK, queryBalance, gaugeVars
  <1>5. MutexHeld'
    BY <1>3 DEF CtlInv, MutexHeld, queryBalance
  <1>6. Known' /\ Younger'
    BY <1>3 DEF CtlInv, Known, Younger, queryBalance, gaugeVars
  <1>7. GaugeFollows'
    BY <1>3 DEF CtlInv, Known, GaugeFollows, Recording, queryBalance, gaugeVars
  <1> QED
    BY <1>4, <1>5, <1>6, <1>7 DEF CtlInv

\* RecordFpBalance: the answer of the goroutine inside is shown, or missed.
LEMMA RecordInv ==
  ASSUME CtlInv, NEW g \in Recorders, RecordFpBalance(g)
  PROVE  CtlInv' /\ shown' >= shown
  <1> USE ControllerAssumption, Facts DEF ControllerAssumption
  <1>1. rec[g] \in Recorder /\ 0 \in 0..MaxBalance
    BY DEF CtlInv, CtlTypeOK
  <1>2. /\ rec' \in [Recorders -> Recorder]
        /\ rec'[g].pc = "off" /\ rec'[g].since = 0 /\ rec'[g].read = 0
        /\ \A h \in Recorders : h # g => rec'[h] = rec[h]
    BY <1>1 DEF RecordFpBalance, Ends, CtlInv, CtlTypeOK, Goroutine, Recorder
  <1>3. /\ missed' \in 0..MaxBalance /\ missed' >= missed
        /\ rec[g].read = 0 => missed' >= rec[g].since /\ shown' = shown
        /\ rec[g].read # 0 => shown' = rec[g].read /\ rec[g].read >= shown
        /\ rec[g].read \in 0..MaxBalance
    BY <1>1 DEF RecordFpBalance, CtlInv, CtlTypeOK, Younger, Recorder, Larger
  <1>4. \A h \in Recorders : h # g => rec[h].pc # "record"
    BY DEF CtlInv, MutexHeld, RecordFpBalance
  <1>5. rec[g].read <= balance
    BY DEF CtlInv, Known
  <1>6. CtlTypeOK'
    BY <1>2, <1>3 DEF CtlInv, CtlTypeOK, RecordFpBalance
  <1>7. MutexHeld'
    BY <1>2 DEF CtlInv, MutexHeld, RecordFpBalance
  <1>8. Known' /\ Younger'
    BY <1>2, <1>3, <1>4, <1>5 DEF CtlInv, Known, Younger, RecordFpBalance
  <1>9. GaugeFollows'
    BY <1>2, <1>3 DEF CtlInv, GaugeFollows, Recording, RecordFpBalance, Larger, CtlTypeOK
  <1> QED
    BY <1>3, <1>6, <1>7, <1>8, <1>9 DEF CtlInv


\* A submission that has returned: the youngest one has a goroutine.
LEMMA ReturnedInv ==
  ASSUME CtlInv, NEW m \in Methods, Returned(m)
  PROVE  CtlInv'
  <1> USE ControllerAssumption, Facts DEF ControllerAssumption
  <1>1. /\ call \in [Methods -> [sent : BOOLEAN, left : 0..MaxBalance]]
        /\ call' = [call EXCEPT ![m] = NoCall]
    BY DEF Returned, CtlInv, CtlTypeOK
  <1>2. /\ call' \in [Methods -> [sent : BOOLEAN, left : 0..MaxBalance]]
        /\ \A n \in Methods : call'[n].left <= balance
        /\ call[m].left \in 0..MaxBalance /\ call[m].left <= balance
    <2>1. NoCall \in [sent : BOOLEAN, left : 0..MaxBalance] /\ NoCall.left = 0
      BY DEF NoCall
    <2> QED
      BY <1>1, <2>1 DEF CtlInv, Known
  <1>3. CASE UNCHANGED <<rec, submitted>>
    <2>1. CtlTypeOK'
      BY <1>2, <1>3 DEF CtlInv, CtlTypeOK, Returned, gaugeVars
    <2> QED
      BY <1>2, <1>3, <2>1
      DEF CtlInv, MutexHeld, Known, Younger, GaugeFollows, Recording, Returned, gaugeVars
  <1>4. CASE /\ \E g \in Recorders : recordFpBalance(g, call[m].left)
             /\ submitted' = Larger(submitted, call[m].left)
    <2>1. PICK g \in Recorders : recordFpBalance(g, call[m].left)
      BY <1>4
    <2>2. /\ rec' \in [Recorders -> Recorder]
          /\ rec'[g].since = call[m].left /\ rec'[g].read = 0
          /\ rec'[g].pc = "lock" /\ rec[g].pc = "off"
          /\ \A h \in Recorders : h # g => rec'[h] = rec[h]
      BY <1>2, <2>1, StartedInv
    <2>3. submitted' \in 0..MaxBalance /\ submitted' <= balance
      BY <1>2, <1>4 DEF CtlInv, CtlTypeOK, Known, Larger
    <2>4. CtlTypeOK'
      BY <1>2, <2>2, <2>3 DEF CtlInv, CtlTypeOK, Returned, gaugeVars
    <2>5. MutexHeld'
      BY <2>2 DEF CtlInv, MutexHeld, Returned, gaugeVars
    <2>6. Known' /\ Younger'
      BY <1>2, <2>2, <2>3 DEF CtlInv, Known, Younger, Returned, gaugeVars
    <2>7. GaugeFollows'
      <3>1. CASE call[m].left >= submitted
        <4>1. submitted' = call[m].left
          BY <1>2, <1>4, <3>1 DEF Larger
        <4> QED
          BY <1>2, <2>2, <4>1 DEF GaugeFollows, Recording
      <3>2. CASE ~ (call[m].left >= submitted)
        <4>1. submitted' = submitted
          BY <1>2, <1>4, <3>2 DEF Larger
        <4> QED
          BY <2>2, <4>1, StillRecording
          DEF CtlInv, GaugeFollows, Recording, Returned, gaugeVars
      <3> QED
        BY <3>1, <3>2
    <2> QED
      BY <2>4, <2>5, <2>6, <2>7 DEF CtlInv
  <1> QED
    BY <1>3, <1>4 DEF Returned

\* The steps that only touch a call, the account or ctx.
LEMMA OutsideInv ==
  ASSUME CtlInv,
         \/ NewOrbitConsumerController \/ Transfer \/ Cancel
         \/ \E m \in Methods : Call(m) \/ Included(m)
  PROVE  CtlInv'
  <1> USE ControllerAssumption, Facts DEF ControllerAssumption
  <1>1. /\ balance' \in Nat /\ balance' >= balance /\ balance' <= MaxBalance
        /\ UNCHANGED <<rec, mu, submitted, shown, missed, gauge>>
    BY DEF NewOrbitConsumerController, Transfer, Cancel, Call, Included, gaugeVars
  <1>2. /\ call' \in [Methods -> [sent : BOOLEAN, left : 0..MaxBalance]]
        /\ \A m \in Methods : call'[m].left <= balance'
    <2>1. CASE NewOrbitConsumerController \/ Transfer \/ Cancel
      BY <1>1, <2>1
      DEF CtlInv, CtlTypeOK, Known, NewOrbitConsumerController, Transfer, Cancel
    <2>2. CASE \E m \in Methods : Call(m)
      <3>1. PICK m \in Methods : Call(m)
        BY <2>2
      <3> QED
        BY <1>1, <3>1 DEF CtlInv, CtlTypeOK, Known, Call
    <2>3. CASE \E m \in Methods : Included(m)
      <3>1. PICK m \in Methods : Included(m)
        BY <2>3
      <3> QED
        BY <1>1, <3>1 DEF CtlInv, CtlTypeOK, Known, Included
    <2> QED
      BY <2>1, <2>2, <2>3
  <1>3. cancelled' \in BOOLEAN /\ loop' \in {"off", "first", "wait", "ended"}
    BY DEF CtlInv, CtlTypeOK, NewOrbitConsumerController, Transfer, Cancel, Call, Included
  <1>4. CtlTypeOK'
    BY <1>1, <1>2, <1>3 DEF CtlInv, CtlTypeOK, Balances
  <1> QED
    BY <1>1, <1>2, <1>4 DEF CtlInv, MutexHeld, Known, Younger, GaugeFollows, Recording

\* Every step, and every stutter, with the gauge it leaves.
LEMMA CtlNextInv == CtlInv /\ [CtlNext]_ctlVars => CtlInv' /\ shown' >= shown
  <1> SUFFICES ASSUME CtlInv, [CtlNext]_ctlVars
               PROVE  CtlInv' /\ shown' >= shown
    OBVIOUS
  <1>0. shown' = shown => shown' >= shown
    BY Facts
  <1>1. CASE NewOrbitConsumerController \/ Transfer \/ Cancel
    <2>1. shown' = shown
      BY <1>1 DEF NewOrbitConsumerController, Transfer, Cancel, gaugeVars
    <2>2. CtlInv'
      BY <1>1, OutsideInv, Zenon
    <2> QED
      BY <1>0, <2>1, <2>2
  <1>2. CASE MetricsLoop
    BY <1>0, <1>2, LoopInv DEF MetricsLoop, gaugeVars
  <1>3. CASE \E m \in Methods : Call(m) \/ Included(m)
    BY <1>0, <1>3, OutsideInv DEF Call, Included, gaugeVars
  <1>4. ASSUME NEW m \in Methods, Returned(m)
        PROVE  CtlInv' /\ shown' >= shown
    <2>1. shown' = shown
      BY <1>4 DEF Returned, gaugeVars
    <2>2. CtlInv'
      BY <1>4, ReturnedInv, Zenon
    <2> QED
      BY <1>0, <2>1, <2>2
  <1>5. ASSUME NEW g \in Recorders, RecorderStep(g)
        PROVE  CtlInv' /\ shown' >= shown
    <2>1. CASE Lock(g)
      BY <1>0, <2>1, LockInv DEF Lock, gaugeVars
    <2>2. CASE GetAddr(g)
      BY <1>0, <2>2, GetAddrInv DEF GetAddr, gaugeVars
    <2>3. CASE queryBalance(g)
      BY <1>0, <2>3, QueryInv DEF queryBalance, gaugeVars
    <2>4. CASE RecordFpBalance(g)
      BY <2>4, RecordInv
    <2> QED
      BY <1>5, <2>1, <2>2, <2>3, <2>4 DEF RecorderStep
  <1>6. CASE UNCHANGED ctlVars
    BY <1>0, <1>6
    DEF ctlVars, gaugeVars, CtlInv, CtlTypeOK, MutexHeld, Known, Younger, GaugeFollows, Recording
  <1> QED
    BY <1>1, <1>2, <1>3, <1>4, <1>5, <1>6
    DEF CtlNext, CommitPubRandList, SubmitBatchFinalitySigs, Methods

\* The goroutines take turns, whatever starts them and however they fail.
THEOREM ControllerInvariant == CtlSpec => []CtlInv
  <1> QED
    BY CtlInitInv, CtlNextInv, PTL DEF CtlSpec

\* Every goroutine of recordFpBalance brings the gauge forward: no answer that
\* is late puts an older balance in the place of a younger one.
THEOREM GaugeInOrderThm == CtlSpec => GaugeInOrder
  <1>1. CtlInv /\ [CtlNext]_ctlVars => [shown' >= shown]_ctlVars
    BY CtlNextInv
  <1> QED
    BY <1>1, ControllerInvariant, PTL DEF CtlSpec, GaugeInOrder

\* The mutex is held by the goroutine between Lock and Unlock and by nobody
\* else, on every path through recordFpBalance.
THEOREM MutexHeldThm == CtlSpec => []MutexHeld
  <1>1. CtlInv => MutexHeld
    BY DEF CtlInv
  <1> QED
    BY <1>1, ControllerInvariant, PTL

\* A balance that a submission has left is shown, or about to be, or has
\* failed to be recorded.
THEOREM GaugeFollowsThm == CtlSpec => []GaugeFollows
  <1>1. CtlInv => GaugeFollows
    BY DEF CtlInv
  <1> QED
    BY <1>1, ControllerInvariant, PTL
=============================================================================
