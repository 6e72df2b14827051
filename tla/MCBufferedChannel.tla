-------------------------- MODULE MCBufferedChannel --------------------------
(* Small instances of BufferedChannel.  Which thread is which and what a    *)
(* value is does not matter to the safety properties.                       *)
EXTENDS BufferedChannel, TLC

Symmetry == Permutations(Threads) \union Permutations(Values)
=============================================================================
