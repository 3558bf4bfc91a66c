----------------------------- MODULE RestoreFp -----------------------------
(***************************************************************************)
(* The command `fps restore': RestoreFP copies a finality provider that is *)
(* registered on Babylon into the local store, one write transaction after *)
(* another, while the provider keeps changing on Babylon.  Every query and *)
(* write may fail, and the process may be killed between any two of them;  *)
(* the operator may then run the command again.  The store is locked while *)
(* a process has it open, so no provider daemon runs during the command.   *)
(***************************************************************************)
EXTENDS Integers

CONSTANTS
  MaxVotes,  \* bound: votes of the provider
  MaxEdits   \* bound: changes of its description and commission

ASSUME RestoreAssumption == MaxVotes \in Nat /\ MaxEdits \in Nat

VARIABLES
  bbn,    \* the provider on Babylon
  store,  \* its record in the local store
  pc,     \* the command
  resp    \* the FinalityProviderResponse it works with

vars == <<bbn, store, pc, resp>>

Provider == [registered : BOOLEAN, info : 0..MaxEdits, highestVoted : 0..MaxVotes,
             slashed : BOOLEAN, jailed : BOOLEAN, hasPower : BOOLEAN]

Statuses == {"REGISTERED", "ACTIVE", "INACTIVE", "JAILED", "SLASHED"}

Record == [found : BOOLEAN, info : 0..MaxEdits, lastVoted : 0..MaxVotes,
           status : Statuses]

Unknown == [registered |-> FALSE, info |-> 0, highestVoted |-> 0,
            slashed |-> FALSE, jailed |-> FALSE, hasPower |-> FALSE]

TypeOK ==
  /\ bbn \in Provider /\ resp \in Provider
  /\ store \in Record
  /\ pc \in {"idle", "query", "lookup", "create", "info", "voted", "power",
             "status", "verify", "ok", "failed"}

Init ==
  /\ bbn = Unknown /\ resp = Unknown
  /\ store = [found |-> FALSE, info |-> 0, lastVoted |-> 0, status |-> "REGISTERED"]
  /\ pc = "idle"
-----------------------------------------------------------------------------
(***************************************************************************)
(* The provider on Babylon.  Slashing is for ever; a provider that is      *)
(* slashed or jailed has no voting power.                                  *)
(***************************************************************************)
Changed(b) == bbn' = b /\ UNCHANGED <<store, pc, resp>>

Register == ~bbn.registered /\ Changed([bbn EXCEPT !.registered = TRUE])

Edit == /\ bbn.registered /\ bbn.info < MaxEdits
        /\ Changed([bbn EXCEPT !.info = @ + 1])

\* A vote that was cast elsewhere with the provider's key.
VoteElsewhere == /\ bbn.hasPower /\ bbn.highestVoted < MaxVotes
                 /\ Changed([bbn EXCEPT !.highestVoted = @ + 1])

Power == /\ bbn.registered /\ ~bbn.slashed /\ ~bbn.jailed
         /\ Changed([bbn EXCEPT !.hasPower = ~@])

Slash == /\ bbn.registered /\ ~bbn.slashed
         /\ Changed([bbn EXCEPT !.slashed = TRUE, !.hasPower = FALSE])

Jail == /\ bbn.registered /\ ~bbn.slashed
        /\ Changed([bbn EXCEPT !.jailed = ~@, !.hasPower = FALSE])

Babylon == Register \/ Edit \/ VoteElsewhere \/ Power \/ Slash \/ Jail

\* The local daemon votes and records the vote, when no command has the store.
VoteHere ==
  /\ pc = "idle" /\ store.found
  /\ bbn.hasPower /\ bbn.highestVoted < MaxVotes
  /\ bbn' = [bbn EXCEPT !.highestVoted = @ + 1]
  /\ store' = [store EXCEPT !.lastVoted = bbn.highestVoted + 1]
  /\ UNCHANGED <<pc, resp>>
-----------------------------------------------------------------------------
(***************************************************************************)
(* The command.                                                            *)
(***************************************************************************)
Goto(from, to) == pc = from /\ pc' = to

\* A query or a write of the command fails, or the process is killed.
Fail == /\ pc \notin {"idle", "ok", "failed"}
        /\ pc' = "failed"
        /\ UNCHANGED <<bbn, store, resp>>

Run == Goto("idle", "query") /\ UNCHANGED <<bbn, store, resp>>

\* QueryFinalityProvider.  A provider Babylon does not know is an error.
QueryFinalityProvider ==
  /\ Goto("query", IF bbn.registered THEN "lookup" ELSE "failed")
  /\ resp' = IF bbn.registered THEN bbn ELSE resp
  /\ UNCHANGED <<bbn, store>>

\* Mutant: the record is created whatever the lookup says.
GetFinalityProviderCreates ==
  /\ Goto("lookup", "create")
  /\ UNCHANGED <<bbn, store, resp>>

\* putFpFromResponse: an unknown provider is created, a known one updated.
GetFinalityProvider ==
  /\ Goto("lookup", IF store.found THEN "info" ELSE "create")
  /\ UNCHANGED <<bbn, store, resp>>

\* The new record has the description and commission of the response, and
\* nothing else of it.
CreateFinalityProvider ==
  /\ Goto("create", "verify")
  /\ store' = [found |-> TRUE, info |-> resp.info, lastVoted |-> 0,
               status |-> "REGISTERED"]
  /\ UNCHANGED <<bbn, resp>>

\* Mutant: the update writes a new record.
SetFpDescriptionRenews ==
  /\ Goto("info", "voted")
  /\ store' = [store EXCEPT !.info = resp.info, !.status = "REGISTERED"]
  /\ UNCHANGED <<bbn, resp>>

SetFpDescription ==
  /\ Goto("info", "voted")
  /\ store' = [store EXCEPT !.info = resp.info]
  /\ UNCHANGED <<bbn, resp>>

\* Mutant: the next height to vote on is stored.
SetFpNextHeight ==
  /\ Goto("voted", "power")
  /\ store' = [store EXCEPT !.lastVoted = resp.highestVoted + 1]
  /\ UNCHANGED <<bbn, resp>>

SetFpLastVotedHeight ==
  /\ Goto("voted", "power")
  /\ store' = [store EXCEPT !.lastVoted = resp.highestVoted]
  /\ UNCHANGED <<bbn, resp>>

\* The voting power is asked for at the height of the response, so the answer
\* agrees with it however late it comes.
QueryFinalityProviderHasPower ==
  /\ Goto("power", "status")
  /\ UNCHANGED <<bbn, store, resp>>

StatusOf(fp) ==
  CASE fp.hasPower -> "ACTIVE"
    [] ~fp.hasPower /\ fp.slashed -> "SLASHED"
    [] ~fp.hasPower /\ ~fp.slashed /\ fp.jailed -> "JAILED"
    [] OTHER -> "INACTIVE"

\* Mutant: the status is computed from what Babylon says by now.
SetFpStatusLate ==
  /\ Goto("status", "verify")
  /\ store' = [store EXCEPT !.status = StatusOf(bbn)]
  /\ UNCHANGED <<bbn, resp>>

SetFpStatus ==
  /\ Goto("status", "verify")
  /\ store' = [store EXCEPT !.status = StatusOf(resp)]
  /\ UNCHANGED <<bbn, resp>>

\* RestoreFP reads the record back.
Verify == Goto("verify", IF store.found THEN "ok" ELSE "failed")
          /\ UNCHANGED <<bbn, store, resp>>

Exit == /\ pc \in {"ok", "failed"}
        /\ pc' = "idle" /\ resp' = Unknown
        /\ UNCHANGED <<bbn, store>>

Command ==
  \/ QueryFinalityProvider \/ GetFinalityProvider \/ CreateFinalityProvider
  \/ SetFpDescription \/ SetFpLastVotedHeight \/ QueryFinalityProviderHasPower
  \/ SetFpStatus \/ Verify

Next == Babylon \/ VoteHere \/ Run \/ Command \/ Fail \/ Exit

Spec == Init /\ [][Next]_vars
-----------------------------------------------------------------------------
(***************************************************************************)
(* Properties.                                                             *)
(***************************************************************************)
\* No sequence of commands, failures and votes makes the store claim a vote
\* that Babylon has not seen.
NeverAhead == store.lastVoted <= bbn.highestVoted

\* The height the provider has voted up to is never taken back, although
\* SetFpLastVotedHeight overwrites it with a response that may be old.
VotesNeverForgotten == [][store.lastVoted' >= store.lastVoted]_vars

\* A provider stored as slashed is never stored as anything else again.
SlashedForGood == [][store.status = "SLASHED" => store.status' = "SLASHED"]_vars

\* The command that does not create the record does what the comment says,
\* after any number of failed ones.
UpdatedAgrees ==
  pc = "ok" /\ store.status # "REGISTERED" =>
    /\ store.info = resp.info
    /\ store.lastVoted = resp.highestVoted
    /\ store.status = StatusOf(resp)
=============================================================================
