------------------------------ MODULE MCTender ------------------------------
(* Tender and its register for TLC.  Suppliers are interchangeable, and so are requests. *)
EXTENDS Register, TLC

Symmetry == Permutations(Supplier) \cup Permutations(Proc)
=============================================================================
