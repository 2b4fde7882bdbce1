---------------------------- MODULE MCEvaluation -----------------------------
(* Evaluation for TLC: one of two bids is examined, by one evaluator and the DG. *)
EXTENDS Evaluation, TLC

Symmetry == Permutations(Criterion)
=============================================================================
