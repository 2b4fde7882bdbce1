--------------------------- MODULE AppendOnlyLog ---------------------------
(***************************************************************************)
(* What apps/ledger promises its readers: a list that only grows at its    *)
(* end, by whole batches.  A batch is what one transaction logs.           *)
(***************************************************************************)
EXTENDS Naturals, Sequences

CONSTANTS Entry,     \* what is logged
          MaxBatch   \* the most entries one transaction logs

VARIABLE log

Batches == UNION {[1 .. n -> Entry] : n \in 1 .. MaxBatch}

Init == log = <<>>

Extend == \E b \in Batches : log' = log \o b

Spec == Init /\ [][Extend]_log
=============================================================================
