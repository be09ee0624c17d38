------------------------------ MODULE Timeline ------------------------------
(***************************************************************************)
(* What an undo facility promises its user: there is a present, the states *)
(* undo leads back to and the states redo leads on to.  A new edit makes   *)
(* the present the newest past state and discards the future; an amending  *)
(* edit replaces the present; only the oldest states are ever forgotten,   *)
(* and only as far as the chosen depth demands.                            *)
(***************************************************************************)
EXTENDS Integers, SequencesExt

CONSTANT State

VARIABLES past, now, future,
          depth     \* how many states, the present included, are kept

vars == <<past, now, future, depth>>

Init == past = <<>> /\ future = <<>> /\ now \in State /\ depth \in Nat \ {0}

\* The newest d - 1 of the states s.
Newest(s, d) == SubSeq(s, IF Len(s) < d THEN 1 ELSE Len(s) - d + 2, Len(s))

Edit ==
  /\ now' \in State
  /\ past' = Newest(Append(past, now), depth)
  /\ future' = <<>>
  /\ UNCHANGED depth

Amend ==
  /\ now' \in State
  /\ past' = Newest(past, depth)
  /\ future' = <<>>
  /\ UNCHANGED depth

Back ==
  /\ past # <<>>
  /\ now' = Last(past)
  /\ past' = Front(past)
  /\ future' = <<now>> \o future
  /\ UNCHANGED depth

Forward ==
  /\ future # <<>>
  /\ now' = Head(future)
  /\ future' = Tail(future)
  /\ past' = Append(past, now)
  /\ UNCHANGED depth

\* A smaller depth is respected from the next edit on.
ChangeDepth == depth' \in Nat \ {0} /\ UNCHANGED <<past, now, future>>

Next == Edit \/ Amend \/ Back \/ Forward \/ ChangeDepth

Spec == Init /\ [][Next]_vars
=============================================================================
