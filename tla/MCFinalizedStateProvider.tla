---------------------- MODULE MCFinalizedStateProvider ----------------------
(***************************************************************************)
(* Model-checking instances of FinalizedStateProvider: every provider has  *)
(* the same stake at every BTC height.                                     *)
(***************************************************************************)
EXTENDS FinalizedStateProvider, TLC

\* Two L2 blocks to a BTC block.
TwoToOne == [b \in Blocks |-> (b[1] + 1) \div 2]

Even == [b \in BtcHeights |-> [f \in Fps |-> 1]]

Symmetry == Permutations(Requests)

\* What the next steps and the shared height depend on: not the replies given,
\* the blocks found, nor what a request should find.
WithoutHistory ==
  LET searching(q) == [pc |-> q.pc, current |-> q.current, from |-> q.from,
                       to |-> q.to, probe |-> q.probe, ans |-> q.ans]
  IN  <<env, caches, fps, chk, lastFinalizedHeight,
        [r \in Requests |-> searching(req[r])]>>
=============================================================================
