----------------------------- MODULE MCContract -----------------------------
(* Contract for TLC.  Requests and certificates are interchangeable. *)
EXTENDS Contract, TLC

CONSTANTS v1, v2, v3

\* Two extensions of the same amount, and a reduction.
Amounts == (v1 :> 6) @@ (v2 :> 6) @@ (v3 :> -2)

Symmetry == Permutations(Proc) \cup Permutations(Ref)
=============================================================================
