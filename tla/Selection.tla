------------------------------- MODULE Selection -------------------------------
(***************************************************************************)
(* Lists from which a loop takes what it needs, and loops in general.      *)
(***************************************************************************)
EXTENDS Naturals, Sequences

\* The elements of a list that are in T, in their order.
Only(list, T) ==
  LET kept[i \in 0..Len(list)] ==
        IF i = 0 THEN <<>>
        ELSE IF list[i] \in T THEN Append(kept[i - 1], list[i]) ELSE kept[i - 1]
  IN  kept[Len(list)]

\* What n rounds of a loop make of what it begins with.
Rounds(n, first, Round(_, _)) ==
  LET after[i \in 0..n] == IF i = 0 THEN first ELSE Round(after[i - 1], i)
  IN  after[n]
=============================================================================
