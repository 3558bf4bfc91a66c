------------------------- MODULE OperatorAppProofs -------------------------
(***************************************************************************)
(* Proofs about OperatorApp, for every set of chains, any number of        *)
(* goroutines of the controller and any number of requests in flight.      *)
(***************************************************************************)
EXTENDS OperatorApp, ConsumerControllerProofs

\* Every step of the process is a step of the controller in it, or none.
LEMMA ControllerSteps == Next => [CtlNext]_ctlVars
  <1> SUFFICES ASSUME Next
               PROVE  [CtlNext]_ctlVars
    OBVIOUS
  <1>1. CASE \/ Main \/ Server \/ RequestArrives \/ RequestEnds \/ ListenAndServe
             \/ \E g \in Recorders : AnswerPanics(g)
    <2>1. CASE NewControllers
      BY <2>1 DEF NewControllers, CtlNext
    <2>2. CASE Main /\ ~NewControllers
      BY <2>2
      DEF Main, Boot, StartMetrics, newAppParams, NewEOTSManagerClient, NewJsonRpcServer,
          NewFinalizedStateProvider, StartDaemon, StartFp, BeginStop, WaitRpc,
          StopDaemon, CloseEots, Served, StopMetrics
    <2>3. CASE Server \/ RequestArrives \/ RequestEnds \/ ListenAndServe
      BY <2>3
      DEF Server, Listen, Shutdown, ServerReturns, RequestArrives, RequestEnds, ListenAndServe
    <2>4. CASE \E g \in Recorders : AnswerPanics(g)
      BY <2>4 DEF AnswerPanics
    <2> QED
      BY <1>1, <2>1, <2>2, <2>3, <2>4
  <1>2. CASE \E m \in Methods : Submits(m) \/ SubmissionEnds(m)
    BY <1>2, Zenon
    DEF Submits, SubmissionEnds, CtlNext, CommitPubRandList, SubmitBatchFinalitySigs, Methods
  <1>3. CASE (\E g \in Recorders : Records(g)) \/ Ticks \/ Environment
    BY <1>3, Zenon DEF Records, Ticks, Environment, CtlNext
  <1> QED
    BY <1>1, <1>2, <1>3 DEF Next

\* The operator implements the specification of its controller: what is proved
\* of the controller alone holds for it in the process, from any boot to any
\* end.
THEOREM ControllerThm == Spec => CtlSpec
  <1>1. Init => CtlInit
    BY DEF Init
  <1>2. [Next]_vars => [CtlNext]_ctlVars
    BY ControllerSteps DEF vars
  <1> QED
    BY <1>1, <1>2, PTL DEF Spec, CtlSpec

\* In the process too, no late answer brings an older balance back.
THEOREM OperatorGaugeInOrder == Spec => GaugeInOrder
  <1> QED
    BY ControllerThm, GaugeInOrderThm, PTL

\* In the process too, no goroutine that has returned keeps the mutex.
THEOREM OperatorMutexHeld == Spec => []MutexHeld
  <1> QED
    BY ControllerThm, MutexHeldThm, PTL

\* In the process too, no submission that succeeded is forgotten.
THEOREM OperatorGaugeFollows == Spec => []GaugeFollows
  <1> QED
    BY ControllerThm, GaugeFollowsThm, PTL
-----------------------------------------------------------------------------
\* What the process adds to the type of the controller.
AppTypeOK ==
  /\ program \in {"operator", "rpcService"}
  /\ main \in {"boot", "params", "eots", "controller", "rpcClient", "provider",
               "start", "startFp", "loop", "waitRpc", "stopDaemon", "closeEots",
               "serve", "stopMetrics", "exited"}
  /\ eots \in {"off", "open", "closed"}
  /\ chainId \in Configured \cup ChainIds
  /\ ethId \in {0} \cup ChainIds /\ providerId \in {0} \cup ChainIds
  /\ daemon \in {"off", "running", "stopped"}
  /\ instance \in BOOLEAN
  /\ server \in {"off", "starting", "serving", "shutdown", "returned"}
  /\ inFlight \in 0..MaxInFlight

\* No goroutine of the server is left.
ServerGone == server \in {"off", "returned"}

\* Before the two clients of the L2 are there.
Unserved == {"boot", "params", "eots", "controller", "rpcClient"}

\* The clients are created one after the other, the second for the chain of
\* the first; the server comes after them.
ChainStages ==
  /\ main \in Unserved => ethId = 0 /\ providerId = 0 /\ server = "off"
  /\ main = "provider" =>
       ethId = chainId /\ ethId # 0 /\ providerId = 0 /\ server = "off"
  /\ providerId # 0 => ethId = providerId
  /\ server # "off" => providerId # 0

\* Only a server that listens has requests.
RequestsNeedServer == server \in {"off", "starting", "returned"} => inFlight = 0

\* Only an instance submits.
CallsNeedInstance == ~instance => \A m \in Methods : ~call[m].sent

\* The stages of stopImpl: the server, the daemon, the EOTS manager.
StopStages ==
  /\ main \in Unserved \cup {"provider", "start"} => ~instance
  /\ main = "start" => server = "off"
  /\ main = "stopDaemon" => ServerGone
  /\ main = "closeEots" => daemon = "stopped"
  /\ daemon = "stopped" =>
       main \in {"closeEots", "stopMetrics", "exited"} /\ ServerGone /\ ~instance
  /\ eots = "closed" => daemon = "stopped"

\* The inductive invariant.
AppInv ==
  AppTypeOK /\ ChainStages /\ RequestsNeedServer /\ CallsNeedInstance /\ StopStages


\* The process begins with nothing running.
LEMMA InitInv == Init => AppInv
  <1> SUFFICES ASSUME Init
               PROVE  AppInv
    OBVIOUS
  <1>1. AppTypeOK
    <2>1. 0 \in 0..MaxInFlight
      BY AppAssumption DEF AppAssumption
    <2> QED
      BY <2>1, Zenon DEF Init, AppTypeOK
  <1>2. \A m \in Methods : ~call[m].sent
    BY DEF Init, CtlInit, NoCall
  <1> QED
    BY <1>1, <1>2
    DEF Init, AppInv, ChainStages, Unserved, RequestsNeedServer, CallsNeedInstance, StopStages

\* The steps of main until the clients are there.
LEMMA BootInv ==
  ASSUME AppInv, Boot
  PROVE  AppInv'
  <1> USE AppAssumption
      DEF AppAssumption, AppInv, AppTypeOK, ChainStages, Unserved, RequestsNeedServer,
          CallsNeedInstance, StopStages, ServerGone, Returns, Dies, bootVars, runVars
  <1>1. CASE StartMetrics
    BY <1>1 DEF StartMetrics, ctlVars
  <1>2. CASE newAppParams
    BY <1>2 DEF newAppParams, ctlVars
  <1>3. CASE NewEOTSManagerClient
    BY <1>3 DEF NewEOTSManagerClient, ctlVars
  <1>4. CASE NewControllers
    BY <1>4 DEF NewControllers, NewOrbitConsumerController, ctlVars
  <1>5. CASE NewJsonRpcServer
    BY <1>5 DEF NewJsonRpcServer, NewL2EthClient, ctlVars
  <1>6. ASSUME NEW id \in ChainIds, NewFinalizedStateProvider,
               NewL2EthClient(id), providerId' = id,
               \/ program = "operator" /\ main' = "start" /\ server' = server
               \/ program = "rpcService" /\ main' = "serve" /\ server' = "starting"
        PROVE  AppInv'
    <2>1. id = ethId /\ id # 0 /\ chainId' = id /\ main = "provider"
      BY <1>6 DEF NewFinalizedStateProvider, NewL2EthClient
    <2>2. AppTypeOK'
      BY <1>6, <2>1 DEF NewFinalizedStateProvider
    <2> QED
      BY <1>6, <2>1, <2>2 DEF NewFinalizedStateProvider, ctlVars
  <1>7. CASE /\ NewFinalizedStateProvider
             /\ UNCHANGED <<chainId, providerId, server>> /\ Returns
    BY <1>7 DEF NewFinalizedStateProvider, ctlVars
  <1> QED
    BY <1>1, <1>2, <1>3, <1>4, <1>5, <1>6, <1>7 DEF Boot, NewFinalizedStateProvider

\* The steps of Start and stopImpl.
LEMMA MainInv ==
  ASSUME AppInv, Main
  PROVE  AppInv'
  <1> USE DEF AppInv, AppTypeOK, ChainStages, Unserved, RequestsNeedServer,
          CallsNeedInstance, StopStages, ServerGone, Returns, bootVars, runVars, ctlVars
  <1>1. CASE StartDaemon
    BY <1>1 DEF StartDaemon
  <1>2. CASE StartFp
    <2>1. /\ main = "startFp" /\ main' \in {"loop", "stopMetrics"}
          /\ instance' \in BOOLEAN
          /\ ~instance' => ~instance
      <3>1. \/ instance' = TRUE /\ main' = "loop"
            \/ instance' = instance /\ main' \in {"loop", "stopMetrics"}
        BY <1>2, Zenon DEF StartFp
      <3>2. main = "startFp" /\ instance \in BOOLEAN
        BY <1>2, Zenon DEF StartFp
      <3>3. CASE instance' = TRUE /\ main' = "loop"
        BY <3>2, <3>3
      <3>4. CASE instance' = instance /\ main' \in {"loop", "stopMetrics"}
        BY <3>2, <3>4
      <3> QED
        BY <3>1, <3>3, <3>4
    <2>2. UNCHANGED <<ctlVars, bootVars, daemon, server, inFlight>>
      BY <1>2, Zenon DEF StartFp
    <2>3. AppTypeOK'
      BY <2>1, <2>2
    <2>4. CallsNeedInstance'
      BY <2>1, <2>2
    <2>5. ChainStages' /\ RequestsNeedServer'
      BY <2>1, <2>2
    <2>6. StopStages'
      BY <2>1, <2>2
    <2> QED
      BY <2>3, <2>4, <2>5, <2>6
  <1>3. CASE BeginStop
    BY <1>3 DEF BeginStop
  <1>4. CASE WaitRpc
    BY <1>4 DEF WaitRpc
  <1>5. CASE StopDaemon
    BY <1>5, ZenonT(40) DEF StopDaemon
  <1>6. CASE CloseEots
    BY <1>6 DEF CloseEots
  <1>7. CASE Served
    BY <1>7 DEF Served
  <1>8. CASE StopMetrics
    BY <1>8 DEF StopMetrics
  <1> QED
    BY <1>1, <1>2, <1>3, <1>4, <1>5, <1>6, <1>7, <1>8, BootInv DEF Main

\* The steps of the two servers, of the requests that are served, and the panic.
LEMMA ServerInv ==
  ASSUME AppInv,
         \/ Server \/ RequestArrives \/ RequestEnds \/ ListenAndServe
         \/ \E g \in Recorders : AnswerPanics(g)
  PROVE  AppInv'
  <1> USE AppAssumption
      DEF AppAssumption, AppInv, AppTypeOK, ChainStages, Unserved, RequestsNeedServer,
          CallsNeedInstance, StopStages, ServerGone, Dies, Alive, bootVars, runVars, ctlVars
  <1>1. CASE Listen
    BY <1>1 DEF Listen
  <1>2. CASE Shutdown
    BY <1>2 DEF Shutdown
  <1>3. CASE ServerReturns
    BY <1>3 DEF ServerReturns
  <1>4. CASE RequestArrives
    BY <1>4 DEF RequestArrives
  <1>5. CASE RequestEnds
    BY <1>5 DEF RequestEnds
  <1>6. CASE ListenAndServe
    BY <1>6 DEF ListenAndServe
  <1>7. CASE \E g \in Recorders : AnswerPanics(g)
    BY <1>7 DEF AnswerPanics
  <1> QED
    BY <1>1, <1>2, <1>3, <1>4, <1>5, <1>6, <1>7 DEF Server

\* The steps of the controller leave the process alone; only an instance
\* makes a call.
LEMMA ControllerInv ==
  ASSUME AppInv, CtlInv,
         \/ \E m \in Methods : Submits(m) \/ SubmissionEnds(m)
         \/ \E g \in Recorders : Records(g)
         \/ Ticks \/ Environment
  PROVE  AppInv'
  <1>1. UNCHANGED appVars
    BY DEF Submits, SubmissionEnds, Records, Ticks, Environment
  <1>2. CallsNeedInstance'
    <2>1. call \in [Methods -> [sent : BOOLEAN, left : 0..MaxBalance]]
      BY DEF CtlInv, CtlTypeOK
    <2>2. CASE \E m \in Methods : Submits(m)
      BY <1>1, <2>2 DEF Submits, CallsNeedInstance, appVars, runVars
    <2>3. CASE \E m \in Methods : SubmissionEnds(m)
      BY <1>1, <2>1, <2>3
      DEF SubmissionEnds, Returned, NoCall, AppInv, CallsNeedInstance, appVars, runVars
    <2>4. CASE \E m \in Methods : Included(m)
      BY <1>1, <2>1, <2>4 DEF Included, AppInv, CallsNeedInstance, appVars, runVars
    <2>5. CASE call' = call
      BY <1>1, <2>5 DEF AppInv, CallsNeedInstance, appVars, runVars
    <2>6. CASE (\E g \in Recorders : Records(g)) \/ Ticks \/ Transfer \/ Cancel
      <3>1. call' = call
        BY <2>6
        DEF Records, RecorderStep, Lock, GetAddr, queryBalance, RecordFpBalance, Ticks,
            MetricsLoop, Transfer, Cancel
      <3> QED
        BY <2>5, <3>1
    <2> QED
      BY <2>2, <2>3, <2>4, <2>6 DEF Environment
  <1> QED
    BY <1>1, <1>2
    DEF AppInv, AppTypeOK, ChainStages, RequestsNeedServer, StopStages, ServerGone,
        appVars, bootVars, runVars

\* Every step, and every stutter.
LEMMA NextInv == AppInv /\ CtlInv /\ [Next]_vars => AppInv'
  <1> SUFFICES ASSUME AppInv, CtlInv, [Next]_vars
               PROVE  AppInv'
    OBVIOUS
  <1>1. CASE UNCHANGED vars
    BY <1>1
    DEF vars, appVars, bootVars, runVars, ctlVars, AppInv, AppTypeOK, ChainStages,
        RequestsNeedServer, CallsNeedInstance, StopStages, ServerGone
  <1> QED
    BY <1>1, MainInv, ServerInv, ControllerInv DEF Next

\* The stages of boot and of stopImpl, the life of the server and the
\* submissions stay in step.
THEOREM AppInvariant == Spec => [](AppInv /\ CtlInv)
  <1>1. Spec => []CtlInv
    BY ControllerThm, ControllerInvariant, PTL
  <1> QED
    BY <1>1, InitInv, NextInv, PTL DEF Spec

\* The variables of the process and of its controller keep their types.
THEOREM OperatorTypeCorrect == Spec => []TypeOK
  <1>1. AppInv /\ CtlInv => TypeOK
    BY DEF AppInv, AppTypeOK, CtlInv, TypeOK
  <1> QED
    BY <1>1, AppInvariant, PTL

\* stopImpl stops the daemon after the last request and closes the EOTS
\* manager after the last submission, however the signal, the boot, the server
\* and the submissions interleave.
THEOREM OrderlyStopThm == Spec => []OrderlyStop
  <1>1. AppInv => OrderlyStop
    BY DEF AppInv, RequestsNeedServer, CallsNeedInstance, StopStages, ServerGone, OrderlyStop
  <1> QED
    BY <1>1, AppInvariant, PTL

\* Whatever chains the endpoint answers for, a server that has been started
\* asks one chain for the finalized height and for the block.
THEOREM SameChainThm == Spec => []SameChain
  <1>1. AppInv => SameChain
    BY DEF AppInv, ChainStages, SameChain
  <1> QED
    BY <1>1, AppInvariant, PTL
=============================================================================
