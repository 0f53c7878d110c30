------------------------------- MODULE Session -------------------------------
(***************************************************************************)
(* Browsers that change the tree at the same time.  A browser shows its own *)
(* change at once and sends it; all requests pass through the queue of the  *)
(* map's thread; move, update and delete (map.c) tell the other browsers.   *)
(* Until a message arrives its receiver goes on from what it shows: then    *)
(* requests and messages cross.                                             *)
(*                                                                          *)
(* Every view sees every branch here (folding is in Views), and the order   *)
(* of siblings is left out.  External: the browser, modelled by what the    *)
(* messages say, and in-order delivery.                                     *)
(***************************************************************************)
EXTENDS Helpers, Functions

CONSTANTS
  Views, Branches,
  Texts,      \* what users write, as sequences of characters
  Limit,      \* characters that a branch keeps: 5000
  Sessions    \* the sessions that Init chooses from: who asks for what, and how often

ASSUME TextsAssumption == Texts \subseteq Seq(1 .. 4)
ASSUME LimitAssumption == Limit \in Nat \ {0}
ASSUME SessionsAssumption ==
  \A s \in Sessions :
    /\ s.movers \cup s.updaters \cup s.deleters \subseteq Views
    /\ s.asks \in Nat    \* how often a browser asks for something for one branch
    /\ s.all \in Nat     \* bound: requests of one browser

VARIABLES
  session,   \* what is asked for in this session; never changes
  index,     \* the branches in branch_index, but for the root
  parent,    \* branch->parent
  text,      \* branch->data->text, in bytes
  in_q,      \* the requests on their way to the map's thread and in map->in_q
  out,       \* the messages on their way to each view's browser
  browser,   \* what every browser shows
  asked      \* how often it asked for something for a branch

server == <<index, parent, text>>
vars == <<session, server, in_q, out, browser, asked>>

Root == "root"
Absent == "absent"
Nobody == "nobody"
Nodes == Branches \cup {Root}

\* The branches at and above p.
Above(par, p) ==
  LET up[n \in 0 .. Cardinality(Branches)] ==
        IF n = 0 THEN {p}
        ELSE up[n - 1] \cup {par[f] : f \in up[n - 1] \cap Branches}
  IN  up[Cardinality(Branches)]

mapMove(f, p) == [name |-> "mapMove", branch |-> f, to |-> p]
mapUpdate(f, t) == [name |-> "mapUpdate", branch |-> f, to |-> t]
mapDelete(f) == [name |-> "mapDelete", branch |-> f]

-----------------------------------------------------------------------------
(* A browser. *)

Receive(b, msg) ==
  CASE b.parent[msg.branch] = Absent -> b
    [] b.parent[msg.branch] # Absent /\ msg.name = "mapMove" ->
         [b EXCEPT !.parent[msg.branch] = msg.to]
    [] b.parent[msg.branch] # Absent /\ msg.name = "mapUpdate" ->
         [b EXCEPT !.text[msg.branch] = msg.to]
    [] b.parent[msg.branch] # Absent /\ msg.name = "mapDelete" ->
         [b EXCEPT !.parent = [f \in Branches |->
            IF msg.branch \in Above(b.parent, f) THEN Absent ELSE b.parent[f]]]

\* Browser v makes the change msg; old is where the branch was.
Ask(v, msg, old) ==
  /\ asked[v][msg.branch] < session.asks
  /\ SumFunction(asked[v]) < session.all
  /\ asked' = [asked EXCEPT ![v][msg.branch] = @ + 1]
  /\ browser' = [browser EXCEPT ![v] = Receive(@, msg)]
  /\ in_q' = Append(in_q, [view |-> v, msg |-> msg, old |-> old])
  /\ UNCHANGED <<session, server, out>>

Shown(v) == {Root} \cup {f \in Branches : browser[v].parent[f] # Absent}

AskMove(v, f, p) ==
  /\ v \in session.movers
  /\ {f, p} \subseteq Shown(v)
  /\ f \notin Above(browser[v].parent, p) /\ p # browser[v].parent[f]
  /\ Ask(v, mapMove(f, p), browser[v].parent[f])

AskUpdate(v, f, t) ==
  /\ v \in session.updaters
  /\ f \in Shown(v) /\ Encode(t) # browser[v].text[f]
  /\ Ask(v, mapUpdate(f, Encode(t)), Absent)

AskDelete(v, f) ==
  /\ v \in session.deleters
  /\ f \in Shown(v) /\ \A g \in Branches : browser[v].parent[g] # f
  /\ Ask(v, mapDelete(f), Absent)

Deliver(v) ==
  /\ out[v] # <<>>
  /\ browser' = [browser EXCEPT ![v] = Receive(@, Head(out[v]))]
  /\ out' = [out EXCEPT ![v] = Tail(@)]
  /\ UNCHANGED <<session, server, in_q, asked>>

-----------------------------------------------------------------------------
(* The map's thread. *)

Request == Head(in_q)
Taken(name) == in_q # <<>> /\ Request.msg.name = name /\ in_q' = Tail(in_q)

\* The queues after msgs were sent to all browsers but v.
\* Mutant of Tell: to v.
Tell_asker(v, msgs) == [out EXCEPT ![v] = @ \o msgs]
Tell(v, msgs) == [w \in Views |-> IF w = v THEN out[w] ELSE out[w] \o msgs]

\* Mutant of CanMove: where the browser believes the branch to be is not looked at.
CanMove_anywhere(f, p, old) == f \notin Above(parent, p)
CanMove(f, p, old) == parent[f] = old /\ f \notin Above(parent, p)

\* move: a request that comes too late is answered with the place of the branch, unless
\* the branch or its new parent is gone.
move ==
  /\ Taken("mapMove")
  /\ LET v == Request.view
         f == Request.msg.branch
         p == Request.msg.to
     IN  IF f \notin index \/ p \notin index \cup {Root}
         THEN UNCHANGED <<parent, out>>
         ELSE IF CanMove(f, p, Request.old)
         THEN parent' = [parent EXCEPT ![f] = p] /\ out' = Tell(v, <<mapMove(f, p)>>)
         ELSE UNCHANGED parent /\ out' = [out EXCEPT ![v] = Append(@, mapMove(f, parent[f]))]
  /\ UNCHANGED <<session, index, text, browser, asked>>

update ==
  /\ Taken("mapUpdate")
  /\ LET v == Request.view
         f == Request.msg.branch
     IN  IF f \notin index THEN UNCHANGED <<text, out>>
         ELSE /\ text' = [text EXCEPT ![f] = utf8slice(Request.msg.to, Limit)]
              /\ out' = Tell(v, <<mapUpdate(f, text'[f])>>)
  /\ UNCHANGED <<session, index, parent, browser, asked>>

\* delete: children are moved to the root on nobody's behalf, every second one of them.
delete ==
  /\ Taken("mapDelete")
  /\ LET v == Request.view
         f == Request.msg.branch
         kids == {g \in index : parent[g] = f}
     IN  IF f \notin index THEN UNCHANGED <<index, parent, out>>
         ELSE \E up \in SUBSET kids :
                LET moves == SetToSeq({mapMove(g, Root) : g \in up})
                IN  /\ Cardinality(up) = (Cardinality(kids) + 1) \div 2
                    /\ parent' = [g \in Branches |-> IF g \in up THEN Root ELSE parent[g]]
                    /\ index' = index \ {f}
                    /\ out' = [w \in Views |-> out[w] \o moves
                                               \o (IF w = v THEN <<>> ELSE <<mapDelete(f)>>)]
  /\ UNCHANGED <<session, text, browser, asked>>

-----------------------------------------------------------------------------
Init ==
  /\ session \in Sessions
  /\ index = Branches
  /\ parent = [f \in Branches |-> Root]
  /\ text = [f \in Branches |-> <<>>]
  /\ in_q = <<>> /\ out = [v \in Views |-> <<>>]
  /\ browser = [v \in Views |-> [parent |-> parent, text |-> text]]
  /\ asked = [v \in Views |-> [f \in Branches |-> 0]]

Next ==
  \/ \E v \in Views, f \in Branches :
       \/ \E p \in Nodes : AskMove(v, f, p)
       \/ \E t \in Texts : AskUpdate(v, f, t)
       \/ AskDelete(v, f)
  \/ \E v \in Views : Deliver(v)
  \/ move \/ update \/ delete

Spec == Init /\ [][Next]_vars

-----------------------------------------------------------------------------
(* Properties. *)

\* The text that a browser shows is the one kept, or one whose first characters are.
Same(shown, kept) ==
  shown = kept \/ \E t \in Texts : /\ shown = Encode(t)
                                 /\ Len(t) > Limit
                                 /\ kept = Encode(SubSeq(t, 1, Limit))

\* "What a user sees in a browser is an identical copy of a view in a server": when
\* every request and every message has arrived, each browser shows the tree, and texts
\* are cut between characters.
Converged ==
  in_q = <<>> /\ (\A v \in Views : out[v] = <<>>) =>
    \A v \in Views, f \in Branches :
      IF f \in index THEN browser[v].parent[f] = parent[f] /\ Same(browser[v].text[f], text[f])
      ELSE browser[v].parent[f] = Absent

=============================================================================
