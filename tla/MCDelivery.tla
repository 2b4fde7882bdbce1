----------------------------- MODULE MCDelivery ------------------------------
(***************************************************************************)
(* Two members of staff and four items of two SKUs, the last two of one    *)
(* supplier: the cheapest item last and the only one of its SKU, or one    *)
(* supplier twice among the three invited.                                 *)
(***************************************************************************)
EXTENDS Delivery, TLC

MCItem == 1..4
MCSupplier == <<1, 2, 3, 3>>
MCSku == <<1, 1, 1, 2>>
MCCatalogues == {<<2, 3, 2, 1>>, <<NoPrice, 2, 1, 1>>}

MCSymmetry == Permutations(Proc)
=============================================================================
