------------------------- MODULE ConsumerController -------------------------
(***************************************************************************)
(* OrbitConsumerController: the submissions of a provider instance to the  *)
(* finality contract, and the goroutines that bring the gauge of the       *)
(* operator's balance on Babylon up to date after each of them.            *)
(*                                                                         *)
(* A balance is named by its place in the history of the account, so that  *)
(* of two balances the younger one is greater.  The account always holds   *)
(* something: 0 is none of its balances.                                   *)
(***************************************************************************)
EXTENDS Integers

CONSTANTS
  Recorders,    \* bound: goroutines of recordFpBalance at one time
  MaxBalance    \* bound: changes of the balance

ASSUME ControllerAssumption == MaxBalance \in Nat \ {0}

VARIABLES
  cancelled,  \* ctx is done
  balance,    \* Babylon: the balance of the account now
  gauge,      \* fpBabylonAddressBalances
  loop,       \* the goroutine that NewOrbitConsumerController starts
  call,       \* the submission each method is in
  rec,        \* the goroutines of recordFpBalance
  mu,         \* metricsMu: the goroutines inside, at most one
  shown,      \* history: the last balance the gauge was set to by an answer
  submitted,  \* history: the balance left by the last submission that returned
  missed      \* history: the last such balance whose recording failed

gaugeVars == <<gauge, shown, missed>>
ctlVars == <<cancelled, balance, gauge, loop, call, rec, mu, shown, submitted, missed>>

Methods == {"CommitPubRandList", "SubmitBatchFinalitySigs"}

Balances == 1..MaxBalance

Unset == -1

\* `left' is the balance after the transaction, 0 before there is one.
NoCall == [sent |-> FALSE, left |-> 0]

\* `since' is the submission a goroutine was started for, `read' the balance
\* it was answered, 0 without an answer.
Off == [pc |-> "off", since |-> 0, read |-> 0]

Recorder == [pc : {"off", "lock", "addr", "query", "record"},
             since : 0..MaxBalance, read : 0..MaxBalance]

CtlTypeOK ==
  /\ cancelled \in BOOLEAN
  /\ balance \in Balances
  /\ gauge \in {Unset} \cup 0..MaxBalance
  /\ loop \in {"off", "first", "wait", "ended"}
  /\ call \in [Methods -> [sent : BOOLEAN, left : 0..MaxBalance]]
  /\ rec \in [Recorders -> Recorder]
  /\ mu \subseteq Recorders
  /\ shown \in 0..MaxBalance /\ submitted \in 0..MaxBalance /\ missed \in 0..MaxBalance

CtlInit ==
  /\ cancelled = FALSE
  /\ balance = 1
  /\ gauge = Unset
  /\ loop = "off"
  /\ call = [m \in Methods |-> NoCall]
  /\ rec = [g \in Recorders |-> Off]
  /\ mu = {}
  /\ shown = 0 /\ submitted = 0 /\ missed = 0

Larger(a, b) == IF a < b THEN b ELSE a
-----------------------------------------------------------------------------
(***************************************************************************)
(* recordFpBalance: the goroutine.                                         *)
(***************************************************************************)
Goroutine(g, pc, since, read) ==
  rec' = [rec EXCEPT ![g] = [pc |-> pc, since |-> since, read |-> read]]

Ends(g) == Goroutine(g, "off", 0, 0)

recordFpBalance(g, since) ==
  /\ rec[g].pc = "off"
  /\ Goroutine(g, "lock", since, 0)

\* Mutant: the goroutines are not serialised.
LockNot(g) ==
  /\ rec[g].pc = "lock"
  /\ Goroutine(g, "addr", rec[g].since, 0)
  /\ UNCHANGED <<cancelled, balance, loop, call, mu, submitted, gaugeVars>>

Lock(g) ==
  /\ rec[g].pc = "lock" /\ mu = {}
  /\ mu' = {g}
  /\ Goroutine(g, "addr", rec[g].since, 0)
  /\ UNCHANGED <<cancelled, balance, loop, call, submitted, gaugeVars>>

\* Mutant: the early return leaves the mutex locked.
GetAddrKeeps(g) ==
  /\ rec[g].pc = "addr"
  /\ \/ Goroutine(g, "query", rec[g].since, 0) /\ missed' = missed
     \/ Ends(g) /\ missed' = Larger(missed, rec[g].since)
  /\ UNCHANGED <<cancelled, balance, loop, call, mu, submitted, gauge, shown>>

\* Without an address the goroutine returns, and the deferred Unlock runs.
GetAddr(g) ==
  /\ rec[g].pc = "addr"
  /\ \/ /\ Goroutine(g, "query", rec[g].since, 0)
        /\ UNCHANGED <<mu, gaugeVars>>
     \/ /\ Ends(g)
        /\ mu' = mu \ {g}
        /\ missed' = Larger(missed, rec[g].since)
        /\ UNCHANGED <<gauge, shown>>
  /\ UNCHANGED <<cancelled, balance, loop, call, submitted>>

\* The query fails when it takes 8 s, when ctx is done (the ctx of the process
\* in the loop, the daemon's in a submission), or by itself.
queryBalance(g) ==
  /\ rec[g].pc = "query"
  /\ \E read \in {0, balance} :
       /\ cancelled /\ rec[g].since = 0 => read = 0
       /\ Goroutine(g, "record", rec[g].since, read)
  /\ UNCHANGED <<cancelled, balance, loop, call, mu, submitted, gaugeVars>>

\* The error of the query is logged, and the gauge is set all the same.
RecordFpBalance(g) ==
  /\ rec[g].pc = "record"
  /\ gauge' = rec[g].read
  /\ IF rec[g].read = 0
     THEN missed' = Larger(missed, rec[g].since) /\ shown' = shown
     ELSE shown' = rec[g].read /\ missed' = missed
  /\ Ends(g)
  /\ mu' = mu \ {g}
  /\ UNCHANGED <<cancelled, balance, loop, call, submitted>>

RecorderStep(g) == Lock(g) \/ GetAddr(g) \/ queryBalance(g) \/ RecordFpBalance(g)
-----------------------------------------------------------------------------
(***************************************************************************)
(* The controller.                                                         *)
(***************************************************************************)
\* The constructor opens the database of the finality gadget, creates its
\* schema, closes it again and starts the loop; or fails, and starts nothing.
NewOrbitConsumerController ==
  /\ loop = "off"
  /\ loop' = "first"
  /\ UNCHANGED <<cancelled, balance, call, rec, mu, submitted, gaugeVars>>

\* One goroutine at once, then one every 5 minutes until ctx is done.
MetricsLoop ==
  /\ \/ /\ loop \in {"first", "wait"}
        /\ \E g \in Recorders : recordFpBalance(g, 0)
        /\ loop' = "wait"
     \/ /\ loop = "wait" /\ cancelled
        /\ loop' = "ended"
        /\ rec' = rec
  /\ UNCHANGED <<cancelled, balance, call, mu, submitted, gaugeVars>>

Call(m) ==
  /\ loop # "off" /\ ~call[m].sent
  /\ call' = [call EXCEPT ![m] = [sent |-> TRUE, left |-> 0]]
  /\ UNCHANGED <<cancelled, balance, loop, rec, mu, submitted, gaugeVars>>

\* Babylon includes the transaction and takes its fee.
Included(m) ==
  /\ call[m].sent /\ call[m].left = 0 /\ balance < MaxBalance
  /\ balance' = balance + 1
  /\ call' = [call EXCEPT ![m].left = balance + 1]
  /\ UNCHANGED <<cancelled, loop, rec, mu, submitted, gaugeVars>>

\* Mutant: a method that only forwards the call.
ReturnedOnly(m) ==
  /\ call[m].sent
  /\ \/ /\ call[m].left # 0
        /\ rec' = rec
        /\ submitted' = Larger(submitted, call[m].left)
     \/ UNCHANGED <<rec, submitted>>
  /\ call' = [call EXCEPT ![m] = NoCall]
  /\ UNCHANGED <<cancelled, balance, loop, mu, gaugeVars>>

\* The embedded RollupBSNController returns a response, after which a
\* goroutine is started, or an error, which is passed on.
Returned(m) ==
  /\ call[m].sent
  /\ \/ /\ call[m].left # 0
        /\ \E g \in Recorders : recordFpBalance(g, call[m].left)
        /\ submitted' = Larger(submitted, call[m].left)
     \/ UNCHANGED <<rec, submitted>>
  /\ call' = [call EXCEPT ![m] = NoCall]
  /\ UNCHANGED <<cancelled, balance, loop, mu, gaugeVars>>

CommitPubRandList == Call("CommitPubRandList") \/ Returned("CommitPubRandList")

SubmitBatchFinalitySigs ==
  Call("SubmitBatchFinalitySigs") \/ Returned("SubmitBatchFinalitySigs")

\* Somebody else pays into the account.
Transfer ==
  /\ balance < MaxBalance
  /\ balance' = balance + 1
  /\ UNCHANGED <<cancelled, loop, call, rec, mu, submitted, gaugeVars>>

\* SIGINT or SIGTERM.
Cancel ==
  /\ ~cancelled
  /\ cancelled' = TRUE
  /\ UNCHANGED <<balance, loop, call, rec, mu, submitted, gaugeVars>>

CtlNext ==
  \/ NewOrbitConsumerController
  \/ MetricsLoop
  \/ CommitPubRandList
  \/ SubmitBatchFinalitySigs
  \/ \E m \in Methods : Included(m)
  \/ \E g \in Recorders : RecorderStep(g)
  \/ Transfer
  \/ Cancel

CtlSpec == CtlInit /\ [][CtlNext]_ctlVars
-----------------------------------------------------------------------------
(***************************************************************************)
(* Properties.                                                             *)
(***************************************************************************)
\* "Current Balance of a finality provider 's babylon address": the gauge shows
\* a balance that the account has had.
BalanceGauge == gauge \in {Unset} \cup 1..balance

\* The gauge never goes back to an older balance, although every submission
\* starts a goroutine of its own: metricsMu is held from before the question
\* until the answer is recorded.
GaugeInOrder == [][shown' >= shown]_ctlVars

\* metricsMu: the goroutines between Lock and Unlock are those that hold it, one
\* at most, and one that has returned, early or not, holds it no more.
MutexHeld ==
  /\ \A g \in Recorders : g \in mu <=> rec[g].pc \in {"addr", "query", "record"}
  /\ \A g, h \in mu : g = h

\* A goroutine has been started for balance b, or a younger one, and has yet
\* to record it.
Recording(b) ==
  \E g \in Recorders :
    /\ rec[g].pc # "off"
    /\ rec[g].since >= b
    /\ rec[g].pc = "record" => rec[g].read = 0 \/ rec[g].read >= b

\* No submission that succeeded is forgotten: the gauge has shown the balance
\* it left or a younger one, or is about to, or the recording failed.
GaugeFollows ==
  \/ submitted <= Larger(shown, missed)
  \/ Recording(submitted)
=============================================================================
