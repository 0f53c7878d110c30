----------------------------- MODULE DurableTree -----------------------------
(***************************************************************************)
(* What the bhead file promises, whatever happens to the process: it holds  *)
(* a tree of ids, and that tree changes by one edge at a time.  Positions   *)
(* and child counts, which take several writes, are not part of it.         *)
(***************************************************************************)
EXTENDS Integers, Sequences, SequencesExt

CONSTANT Ids     \* 0 stands for "no branch"

VARIABLE edges   \* the parent of every id in the file, 0 for the root's

Drop(id) == [i \in DOMAIN edges \ {id} |-> edges[i]]
Put(id, parent) ==
  [i \in DOMAIN edges \cup {id} |-> IF i = id THEN parent ELSE edges[i]]

\* The ids above id, and id itself.
Above(id) ==
  CHOOSE S \in SUBSET DOMAIN edges :
    /\ id \in S
    /\ \A i \in S : edges[i] \in S \cup {0}
    /\ \A T \in SUBSET S : id \in T /\ (\A i \in T : edges[i] \in T \cup {0}) => T = S

Init == edges = <<>>

CreateRoot(id) ==
  /\ DOMAIN edges = {}
  /\ edges' = Put(id, 0)

AddLeaf(id, parent) ==
  /\ id \notin DOMAIN edges /\ parent \in DOMAIN edges
  /\ edges' = Put(id, parent)

\* Never below itself, and never a second root.
Reparent(id, parent) ==
  /\ id \in DOMAIN edges /\ edges[id] # 0
  /\ parent \in DOMAIN edges /\ id \notin Above(parent)
  /\ edges' = Put(id, parent)

RemoveLeaf(id) ==
  /\ id \in DOMAIN edges /\ edges[id] # 0
  /\ \A i \in DOMAIN edges : edges[i] # id
  /\ edges' = Drop(id)

Next ==
  \E id \in Ids \ {0} :
    \/ CreateRoot(id) \/ RemoveLeaf(id)
    \/ \E parent \in Ids \ {0} : AddLeaf(id, parent) \/ Reparent(id, parent)

Spec == Init /\ [][Next]_edges

=============================================================================
