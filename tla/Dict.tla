-------------------------------- MODULE Dict --------------------------------
(***************************************************************************)
(* What an index promises: a function from ids to items.  Each operation    *)
(* returns the item that the id had before it, or None.                     *)
(***************************************************************************)
EXTENDS TLC

CONSTANTS Keys, Items, None

VARIABLES
  dict,    \* the items by id
  out      \* what the last operation returned

vars == <<dict, out>>

Got(key) == IF key \in DOMAIN dict THEN dict[key] ELSE None

Init == dict = [k \in {} |-> None] /\ out = None

Get(key) == out' = Got(key) /\ UNCHANGED dict

Replace(key, item) == out' = Got(key) /\ dict' = (key :> item) @@ dict

Remove(key) ==
  /\ out' = Got(key)
  /\ dict' = [k \in DOMAIN dict \ {key} |-> dict[k]]

Next == \E key \in Keys : Get(key) \/ Remove(key) \/ \E item \in Items : Replace(key, item)

Spec == Init /\ [][Next]_vars

=============================================================================
