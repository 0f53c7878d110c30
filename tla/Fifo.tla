-------------------------------- MODULE Fifo --------------------------------
(***************************************************************************)
(* What a queue promises to one thread that pushes and one that pops, and   *)
(* what Channel takes it for: a call takes effect in one instant between    *)
(* its start and its return, on a sequence.  pop returns the oldest value,  *)
(* or NULL, here Empty, only if at that instant there was none.             *)
(***************************************************************************)
EXTENDS Sequences

CONSTANTS
  Values,     \* what is pushed
  Empty,      \* what pop returns for an empty queue
  Idle,       \* a thread that is in no call
  Undecided   \* a call of pop that has not taken effect

VARIABLES
  items,      \* the queue
  pushing,    \* the call of push under way: its value and whether it took effect
  popping,    \* the call of pop under way: what it will return, once that is decided
  last        \* what pop returned last

vars == <<items, pushing, popping, last>>

Call(v) == [value |-> v, done |-> FALSE]

Init ==
  /\ items = <<>>
  /\ pushing = Idle /\ popping = Idle
  /\ last = Empty

PushCall ==
  /\ pushing = Idle
  /\ \E v \in Values : pushing' = Call(v)
  /\ UNCHANGED <<items, popping, last>>

PushEffect ==
  /\ pushing # Idle
  /\ ~pushing.done
  /\ items' = Append(items, pushing.value)
  /\ pushing' = [pushing EXCEPT !.done = TRUE]
  /\ UNCHANGED <<popping, last>>

PushReturn ==
  /\ pushing # Idle
  /\ pushing.done
  /\ pushing' = Idle
  /\ UNCHANGED <<items, popping, last>>

PopCall ==
  /\ popping = Idle
  /\ popping' = Undecided
  /\ UNCHANGED <<items, pushing, last>>

PopEffect ==
  /\ popping = Undecided
  /\ \/ items = <<>> /\ popping' = Empty /\ UNCHANGED items
     \/ items # <<>> /\ popping' = Head(items) /\ items' = Tail(items)
  /\ UNCHANGED <<pushing, last>>

PopReturn ==
  /\ popping \notin {Idle, Undecided}
  /\ last' = popping
  /\ popping' = Idle
  /\ UNCHANGED <<items, pushing>>

Next == PushCall \/ PushEffect \/ PushReturn \/ PopCall \/ PopEffect \/ PopReturn

Spec == Init /\ [][Next]_vars

=============================================================================
