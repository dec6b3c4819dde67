--------------------------- MODULE MCInvoicePage ---------------------------
(* Instances of InvoicePage for TLC: the originator in two tabs and the    *)
(* lender, one offer made and one to be made, two handlers at a time.      *)
EXTENDS InvoicePage, TLC

CONSTANTS tab1, tab2, lender, off1, off2, slot1, slot2

MCPage == {tab1, tab2, lender}
MCOriginator == {tab1, tab2}
MCOffer == {off1, off2}
MCOpen == {off1}
MCTask == {slot1, slot2}

(* The tabs of one wallet, and the slots, are interchangeable.             *)
MCSymmetry == Permutations(MCOriginator) \union Permutations(MCTask)
=============================================================================
