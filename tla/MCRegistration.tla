--------------------------- MODULE MCRegistration ---------------------------
(* Registration for TLC. *)
EXTENDS Registration, TLC

CONSTANTS d1, d2, cac1, cac2, pencom1

\* An old CAC certificate and its renewal, and a pension certificate as old.
Kinds == [f \in File |-> IF f = pencom1 THEN "PENCOM" ELSE "CAC"]
Expiry == [f \in File |-> IF f = cac2 THEN MaxDay ELSE 0]

\* The second registration is that of a firm that has shrunk.
SmallDrafts == {d2}

=============================================================================
