-------------------------- MODULE MCWriteDurability --------------------------
(* Model-checking instance of WriteDurability: three writes, two keys.       *)
EXTENDS WriteDurability, TLC

CONSTANTS t1, t2, t3, k1, k2

MCTx  == {t1, t2, t3}
MCKey == {k1, k2}

(* Writes and keys are only ever compared for equality.                      *)
MCSymmetry == Permutations(MCTx) \cup Permutations(MCKey)
=============================================================================
