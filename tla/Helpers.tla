------------------------------- MODULE Helpers -------------------------------
(***************************************************************************)
(* utf8slice of helpers.c: the text of a branch is cut to a number of       *)
(* characters.  A byte is the first one of a character of 1 to 4 bytes, and *)
(* then stands for that number, or a further one.                           *)
(***************************************************************************)
EXTENDS Integers, Sequences, FiniteSets, SequencesExt

Further == 0

\* The UTF-8 bytes of a text, a sequence of characters given by their lengths.
Encode(chars) ==
  FoldLeft(LAMBDA s, c : s \o <<c>> \o [i \in 1 .. c - 1 |-> Further], <<>>, chars)

\* Where the loop stops: before the character that would be one too many.
Stop(s, max) ==
  LET begun(i) == Cardinality({j \in 1 .. i : s[j] # Further})
  IN  Cardinality({i \in DOMAIN s : begun(i) <= max})

\* Mutant of utf8slice: three bytes per character.
utf8slice_three(s, max) ==
  SubSeq(s, 1, IF Stop(s, max) > 3 * max THEN 3 * max ELSE Stop(s, max))
utf8slice(s, max) ==
  SubSeq(s, 1, IF Stop(s, max) > 4 * max THEN 4 * max ELSE Stop(s, max))

=============================================================================
