------------------------------ MODULE MCSession ------------------------------
(* An instance of Session for TLC.  Branches and views differ only in name. *)
EXTENDS Session, TLC

\* A short text and one that is cut.
MCTexts == {<<1>>, <<4, 4, 2>>}

Who(movers, updaters, deleters, asks, all) ==
  [movers |-> movers, updaters |-> updaters, deleters |-> deleters, asks |-> asks, all |-> all]

\* Both browsers move every branch once, or one of them makes all kinds of changes, or
\* one moves and the other writes.
MCSessions ==
  {Who(Views, {}, {}, 1, 3)}
    \cup UNION {{Who({v}, {v}, {v}, 2, 5), Who({v}, Views \ {v}, {}, 2, 3)} : v \in Views}

Alike == Permutations(Branches) \cup Permutations(Views)
=============================================================================
