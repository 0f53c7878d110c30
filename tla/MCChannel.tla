------------------------------ MODULE MCChannel ------------------------------
(* Instances of Channel for TLC. *)
EXTENDS Channel

\* A second request, which may come while the first is worked on, for a map that is
\* there; for the other map the request that creates it.
MCRequests == [m \in Maps |-> IF m \in Loaded THEN 2 ELSE 1]
=============================================================================
