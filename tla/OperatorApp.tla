---------------------------- MODULE OperatorApp ----------------------------
(***************************************************************************)
(* The life of the two processes that serve the JSON-RPC: the operator and *)
(* the stand-alone RPC service.  main brings up the metrics server, the    *)
(* clients, and, in the operator, the consumer controller, the             *)
(* finality-provider daemon and at most one provider instance, then waits  *)
(* for the signal that cancels ctx; stopImpl takes everything down again.  *)
(* The servers, the clients they serve, the instance's submissions and the *)
(* goroutines of the controller run concurrently with all of this.         *)
(***************************************************************************)
EXTENDS ConsumerController

CONSTANTS
  Configured,   \* Layer2.ChainId of the configuration, 0 for none
  ChainIds,     \* the chains the endpoint of the L2 may answer for
  MaxInFlight   \* bound: requests served at once

ASSUME AppAssumption ==
  /\ Configured \subseteq Nat /\ ChainIds \subseteq Nat \ {0}
  /\ MaxInFlight \in Nat

VARIABLES
  program,    \* "operator" or "rpcService"
  main,       \* the main goroutine
  eots,       \* the EOTS manager client
  chainId,    \* Layer2.ChainId, configured or learned, or 0
  ethId,      \* the chain of the handler's L2 client, 0 without one
  providerId, \* the chain of the FinalizedStateProvider's L2 client
  daemon,     \* service.FinalityProviderApp
  instance,   \* a provider instance runs in the daemon
  server,     \* the goroutine in JsonRpcServer.StartServer
  inFlight    \* its requests

bootVars == <<program, eots, chainId, ethId, providerId>>
runVars  == <<daemon, instance, server, inFlight>>
appVars  == <<main, bootVars, runVars>>
vars     == <<ctlVars, appVars>>

TypeOK ==
  /\ CtlTypeOK
  /\ program \in {"operator", "rpcService"}
  /\ main \in {"boot", "params", "eots", "controller", "rpcClient", "provider",
               "start", "startFp", "loop", "waitRpc", "stopDaemon", "closeEots",
               "serve", "stopMetrics", "exited"}
  /\ eots \in {"off", "open", "closed"}
  /\ chainId \in Configured \cup ChainIds
  /\ ethId \in {0} \cup ChainIds /\ providerId \in {0} \cup ChainIds
  /\ daemon \in {"off", "running", "stopped"}
  /\ instance \in BOOLEAN
  /\ server \in {"off", "starting", "serving", "shutdown", "returned"}
  /\ inFlight \in 0..MaxInFlight

Init ==
  /\ CtlInit
  /\ program \in {"operator", "rpcService"} /\ main = "boot"
  /\ eots = "off"
  /\ chainId \in Configured /\ ethId = 0 /\ providerId = 0
  /\ daemon = "off" /\ instance = FALSE /\ server = "off" /\ inFlight = 0

\* The process is alive.
Alive == main # "exited"

\* logger.Fatal, or a panic in a goroutine: no deferred function of main runs.
Dies == main' = "exited"

\* main returns, or panics, and its deferred metricsServer.Stop runs.
Returns == main' = "stopMetrics"
-----------------------------------------------------------------------------
(***************************************************************************)
(* The metrics server.                                                     *)
(***************************************************************************)
\* The configuration is read, names an address and has the server started, or
\* the process ends.
StartMetrics ==
  /\ main = "boot"
  /\ main' = "params" \/ Dies
  /\ UNCHANGED <<ctlVars, bootVars, runVars>>

\* The goroutine of the server: an error is fatal, at any time and whatever
\* the rest of the process does.
ListenAndServe ==
  /\ main \notin {"boot", "exited"}
  /\ Dies
  /\ UNCHANGED <<ctlVars, bootVars, runVars>>

\* Shutdown waits, without a deadline, for the scrapes being served.
StopMetrics ==
  /\ main = "stopMetrics"
  /\ main' = "exited"
  /\ UNCHANGED <<ctlVars, bootVars, runVars>>
-----------------------------------------------------------------------------
(***************************************************************************)
(* The main goroutine until it has everything it needs.                    *)
(***************************************************************************)
newAppParams ==
  /\ main = "params"
  /\ \/ main' = IF program = "operator" THEN "eots" ELSE "rpcClient"
     \/ Returns
  /\ UNCHANGED <<ctlVars, bootVars, runVars>>

NewEOTSManagerClient ==
  /\ main = "eots"
  /\ \/ eots' = "open" /\ main' = "controller"
     \/ eots' = eots /\ Returns
  /\ UNCHANGED <<ctlVars, program, chainId, ethId, providerId, runVars>>

\* The Babylon controller, then the consumer controller.  The server is built
\* when the configuration has an address for it.
NewControllers ==
  /\ main = "controller"
  /\ \/ NewOrbitConsumerController /\ main' \in {"rpcClient", "start"}
     \/ UNCHANGED ctlVars /\ Returns
  /\ UNCHANGED <<bootVars, runVars>>

\* Mutant: an endpoint is taken for the configured chain unasked.
NewL2EthClientNot(id) ==
  /\ ~cancelled
  /\ chainId' = IF chainId = 0 THEN id ELSE chainId

\* A client of an endpoint that answers for chain id: it has to be the one of
\* the configuration, which learns it when it has none.
NewL2EthClient(id) ==
  /\ ~cancelled
  /\ chainId \in {0, id}
  /\ chainId' = id

NewJsonRpcServer ==
  /\ main = "rpcClient"
  /\ \/ \E id \in ChainIds : NewL2EthClient(id) /\ ethId' = id /\ main' = "provider"
     \/ UNCHANGED <<chainId, ethId>> /\ Returns
  /\ UNCHANGED <<ctlVars, program, eots, providerId, runVars>>

\* Of a Babylon client that could not be created the query client is read before
\* the error is looked at, which panics.
NewFinalizedStateProvider ==
  /\ main = "provider"
  /\ \/ \E id \in ChainIds :
          /\ NewL2EthClient(id) /\ providerId' = id
          /\ \/ program = "operator" /\ main' = "start" /\ server' = server
             \/ program = "rpcService" /\ main' = "serve" /\ server' = "starting"
     \/ UNCHANGED <<chainId, providerId, server>> /\ Returns
  /\ UNCHANGED <<ctlVars, program, eots, ethId, daemon, instance, inFlight>>

Boot == StartMetrics \/ newAppParams \/ NewEOTSManagerClient \/ NewControllers
          \/ NewJsonRpcServer \/ NewFinalizedStateProvider
-----------------------------------------------------------------------------
(***************************************************************************)
(* FinalityProviderApp.Start and stopImpl.  When main returns, with or     *)
(* without an error, the process exits and takes the other goroutines with *)
(* it.                                                                     *)
(***************************************************************************)
\* NewFinalityProviderApp; then the daemon is started, and the goroutine of the
\* server when there is one.
StartDaemon ==
  /\ main = "start"
  /\ \/ /\ daemon' = "running"
        /\ server' = IF providerId # 0 THEN "starting" ELSE server
        /\ main' = "startFp"
     \/ UNCHANGED <<daemon, server>> /\ Returns
  /\ UNCHANGED <<ctlVars, bootVars, instance, inFlight>>

\* The provider of the key in the configuration is started, or without a key
\* the only one in the store.
StartFp ==
  /\ main = "startFp"
  /\ \E key \in BOOLEAN, stored \in 0..2 :
       \/ /\ key \/ stored = 1
          /\ instance' = TRUE /\ main' = "loop"
       \/ /\ ~key /\ stored = 0
          /\ instance' = instance /\ main' = "loop"
       \/ instance' = instance /\ Returns
  /\ UNCHANGED <<ctlVars, bootVars, daemon, server, inFlight>>

\* ctx.Done in the loop of Start: stopImpl begins by closing quit.
BeginStop ==
  /\ main = "loop" /\ cancelled
  /\ main' = "waitRpc"
  /\ UNCHANGED <<ctlVars, bootVars, runVars>>

\* Mutant: stopImpl does not wait.
WaitRpcNot ==
  /\ main = "waitRpc"
  /\ main' = "stopDaemon"
  /\ UNCHANGED <<ctlVars, bootVars, runVars>>

\* wg.Wait: the goroutine of the server has returned, or was never started.
WaitRpc ==
  /\ main = "waitRpc" /\ server \in {"off", "returned"}
  /\ main' = "stopDaemon"
  /\ UNCHANGED <<ctlVars, bootVars, runVars>>

\* fpApp.Stop stops the instance too, after its last submission has returned.
\* An error ends stopImpl.
StopDaemon ==
  /\ main = "stopDaemon"
  /\ \A m \in Methods : ~call[m].sent
  /\ \/ daemon' = "stopped" /\ instance' = FALSE /\ main' = "closeEots"
     \/ UNCHANGED <<daemon, instance>> /\ Returns
  /\ UNCHANGED <<ctlVars, bootVars, server, inFlight>>

CloseEots ==
  /\ main = "closeEots"
  /\ eots' \in {eots, "closed"} /\ Returns
  /\ UNCHANGED <<ctlVars, program, chainId, ethId, providerId, runVars>>

\* The stand-alone service runs StartServer in its main goroutine.
Served ==
  /\ main = "serve" /\ server = "returned"
  /\ Returns
  /\ UNCHANGED <<ctlVars, bootVars, runVars>>

Main == Boot \/ StartDaemon \/ StartFp \/ BeginStop \/ WaitRpc
          \/ StopDaemon \/ CloseEots \/ Served \/ StopMetrics
-----------------------------------------------------------------------------
(***************************************************************************)
(* JsonRpcServer.StartServer and its clients.                              *)
(***************************************************************************)
\* handler.init, whose error is only logged, and StartHTTPEndpoint, whose error
\* is logged with Fatalf: the process exits.
Listen ==
  /\ Alive /\ server = "starting"
  /\ \/ server' = "serving" /\ main' = main
     \/ server' = server /\ Dies
  /\ UNCHANGED <<ctlVars, bootVars, daemon, instance, inFlight>>

\* Mutant: requests are accepted until none is being served.
ShutdownWhenIdle ==
  /\ Alive /\ server = "serving" /\ cancelled /\ inFlight = 0
  /\ server' = "shutdown"
  /\ UNCHANGED <<ctlVars, main, bootVars, daemon, instance, inFlight>>

\* ctx.Done in StartServer: Shutdown accepts nothing new and waits, without a
\* deadline, for the requests being served.
Shutdown ==
  /\ Alive /\ server = "serving" /\ cancelled
  /\ server' = "shutdown"
  /\ UNCHANGED <<ctlVars, main, bootVars, daemon, instance, inFlight>>

\* Mutant: a request is released twice.
ServerReturnsReleases ==
  /\ Alive /\ server = "shutdown" /\ inFlight = 0
  /\ server' = "returned"
  /\ inFlight' = inFlight - 1
  /\ UNCHANGED <<ctlVars, main, bootVars, daemon, instance>>

ServerReturns ==
  /\ Alive /\ server = "shutdown" /\ inFlight = 0
  /\ server' = "returned"
  /\ UNCHANGED <<ctlVars, main, bootVars, daemon, instance, inFlight>>

RequestArrives ==
  /\ Alive /\ server = "serving" /\ inFlight < MaxInFlight
  /\ inFlight' = inFlight + 1
  /\ UNCHANGED <<ctlVars, main, bootVars, daemon, instance, server>>

RequestEnds ==
  /\ Alive /\ inFlight > 0
  /\ inFlight' = inFlight - 1
  /\ UNCHANGED <<ctlVars, main, bootVars, daemon, instance, server>>

Server == Listen \/ Shutdown \/ ServerReturns
-----------------------------------------------------------------------------
(***************************************************************************)
(* The controller in the process.                                          *)
(***************************************************************************)
\* The instance submits until fpApp.Stop closes its quit channel.
Submits(m) ==
  /\ instance /\ main # "stopDaemon" /\ Alive
  /\ Call(m)
  /\ UNCHANGED appVars

SubmissionEnds(m) == Alive /\ Returned(m) /\ UNCHANGED appVars

Records(g) == Alive /\ RecorderStep(g) /\ UNCHANGED appVars

\* An error that Babylon puts into its response leaves the response without a
\* balance, and the goroutine reads its amount: a panic ends the process.
AnswerPanics(g) ==
  /\ Alive
  /\ rec[g].pc = "query" /\ ~(cancelled /\ rec[g].since = 0)
  /\ Dies
  /\ UNCHANGED <<ctlVars, bootVars, runVars>>

Ticks == Alive /\ MetricsLoop /\ UNCHANGED appVars

Environment ==
  /\ Alive
  /\ (\E m \in Methods : Included(m)) \/ Transfer \/ Cancel
  /\ UNCHANGED appVars

Next ==
  \/ Main \/ Server \/ RequestArrives \/ RequestEnds
  \/ ListenAndServe
  \/ \E m \in Methods : Submits(m) \/ SubmissionEnds(m)
  \/ \E g \in Recorders : Records(g) \/ AnswerPanics(g)
  \/ Ticks \/ Environment

Spec == Init /\ [][Next]_vars

\* The goroutines run, and every request and every submission ends.
FairSpec ==
  /\ Spec
  /\ WF_vars(Main) /\ WF_vars(Server)
  /\ WF_vars(RequestEnds)
  /\ \A m \in Methods : WF_vars(SubmissionEnds(m))
  /\ WF_vars(\E g \in Recorders : Records(g))
-----------------------------------------------------------------------------
(***************************************************************************)
(* Properties.                                                             *)
(***************************************************************************)
\* While a request is served or a provider instance may vote, what they work
\* with is there: the EOTS manager is closed last, after the last submission,
\* and the daemon is stopped only after the server has returned.
OrderlyStop ==
  /\ eots = "closed" =>
       daemon = "stopped" /\ ~instance /\ \A m \in Methods : ~call[m].sent
  /\ daemon = "stopped" => inFlight = 0 /\ server \in {"off", "returned"}

\* The handler passes the number of a block that the provider has found final
\* to a client of its own: both clients are on the same chain, also when the
\* configuration names none.
SameChain == server # "off" => ethId = providerId /\ ethId # 0

\* A signal ends the process: no goroutine of the shutdown waits for another
\* for ever.
SignalStops == cancelled ~> ~Alive

\* metricsMu is given back on every path of recordFpBalance, or all later
\* goroutines would wait for it for ever.
MutexFreed == mu # {} ~> mu = {} \/ ~Alive
=============================================================================
