---------------------------- MODULE StakeQuorum ----------------------------
(***************************************************************************)
(* The arithmetic of QueryIsBlockBabylonFinalizedFromBabylon: from the map *)
(* of voting powers at a BTC height and the finality providers that voted  *)
(* for a block to the verdict.                                             *)
(*                                                                         *)
(* A map from provider to power is a function on Fps that is 0 for the     *)
(* providers missing from the map: they add nothing to either sum.  A sum  *)
(* of powers is the number of units of stake behind a set of providers, a  *)
(* form that can be reasoned about for every Fps.                          *)
(***************************************************************************)
EXTENDS Integers, FiniteSets

CONSTANTS
  Fps,       \* finality providers of the consumer chain
  MaxPower   \* bound on the voting power of one provider

ASSUME StakeAssumption == IsFiniteSet(Fps) /\ MaxPower \in Nat

Powers == [Fps -> 0..MaxPower]

\* The units of stake behind the providers in S.
Units(power, S) == {u \in Fps \X (1..MaxPower) : u[1] \in S /\ u[2] <= power[u[1]]}

Stake(power, S) == Cardinality(Units(power, S))

totalPower(power) == Stake(power, Fps)

votedPower(power, voted) == Stake(power, voted)

\* Mutant: half of the stake is enough.
QuorumHalf(power, voted) ==
  \/ totalPower(power) = 0
  \/ ~ (votedPower(power, voted) * 2 < totalPower(power))

\* The verdict: a consumer chain without stake finalizes everything.
QuorumReached(power, voted) ==
  \/ totalPower(power) = 0
  \/ ~ (votedPower(power, voted) * 3 < totalPower(power) * 2)

\* The map QueryMultiFpPower returns when it is asked about the providers in S.
PowerOf(power, S) == [f \in Fps |-> IF f \in S THEN power[f] ELSE 0]

\* The power a provider keeps from one map of powers to the other.
Common(p, q) == [f \in Fps |-> IF p[f] <= q[f] THEN p[f] ELSE q[f]]
=============================================================================
