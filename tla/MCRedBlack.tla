------------------------------ MODULE MCRedBlack ------------------------------
(* An instance of RedBlack for TLC. *)
EXTENDS RedBlack

\* Two items for one key, to see that rb_replace replaces; elsewhere keys matter alone.
MCChoice == [key \in Keys |-> IF key = 5 THEN Items ELSE {CHOOSE i \in Items : TRUE}]
=============================================================================
