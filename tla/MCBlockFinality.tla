-------------------------- MODULE MCBlockFinality --------------------------
(***************************************************************************)
(* Model-checking instances of BlockFinality.                              *)
(***************************************************************************)
EXTENDS BlockFinality, Functions, TLC

CONSTANTS f1, f2, f3

\* Every L2 block in the same BTC block.
OneBtcBlock == [b \in Blocks |-> 1]

\* A reorganised block is younger: it is in the next BTC block.
NextBtcBlock == [b \in Blocks |-> b[2] + 1]

Even == [x \in BtcHeights |-> [f \in Fps |-> 1]]

\* Of six units of stake f1 holds four, a quorum; from BTC height 2 on, when f2
\* has gained one, f1 needs another provider.
Shifting ==
  [x \in BtcHeights |-> (f1 :> 4) @@ (f2 :> x + 1) @@ [f \in Fps |-> 1]]

\* Of four units of stake f1 holds two.
Heavy == [x \in BtcHeights |-> (f1 :> 2) @@ [f \in Fps |-> 1]]

\* Agreement is to be expected.
ASSUME WeakEnough == ByzantineWeak

\* Counting units of stake is adding powers.
ASSUME StakeIsSum ==
  \A power \in Powers : \A S \in SUBSET Fps :
    Stake(power, S) = SumFunctionOnSet(power, S)

Symmetry == Permutations(Checks)
=============================================================================
