------------------------------ MODULE MCMapIndex ------------------------------
(* Instances of MapIndex for TLC. *)
EXTENDS MapIndex

\* The maps on disk.
OnDisk == <<4, 2>>
=============================================================================
