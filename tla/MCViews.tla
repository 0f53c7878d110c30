------------------------------- MODULE MCViews -------------------------------
(* Instances of Views for TLC: one view, which asks for changes or hears of them. *)
EXTENDS Views

=============================================================================
