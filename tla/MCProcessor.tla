---------------------------- MODULE MCProcessor ----------------------------
(* Model-checking instance of Processor: two thread ids, so that a thread *)
(* list can hold the dump thread, the crashing thread and a duplicate id.  *)
EXTENDS Processor, TLC

CONSTANTS t1, t2

MCThreadIds == {t1, t2}

MCSymmetry == Permutations(MCThreadIds)
=============================================================================
