------------------------------- MODULE MCStore -------------------------------
(* Instances of Store for TLC. *)
EXTENDS Store

\* Two spellings of one name.
MCTexts == {"a", "A"}
MCfold == [txt \in MCTexts |-> "a"]
MCfold1 == [txt \in {"a"} |-> "a"]

=============================================================================
