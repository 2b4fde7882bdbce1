------------------------------ MODULE MCAward -------------------------------
(* Award and its register for TLC: two bids of the same amount, interchangeable rows. *)
EXTENDS AwardRegister, TLC

Amounts == [b \in Bid |-> 5]

Symmetry == Permutations(Proc) \cup Permutations(Award) \cup Permutations(Ref)
              \cup Permutations(Objection)
=============================================================================
