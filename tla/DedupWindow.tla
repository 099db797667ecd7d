----------------------------- MODULE DedupWindow -----------------------------
(***************************************************************************)
(* RecentIds: the ids seen recently, at most maxlen of them, oldest first. *)
(* A duplicate leaves the window as it is; a new id pushes the oldest out. *)
(***************************************************************************)
EXTENDS Integers, Sequences

Holds(window, id) == \E i \in 1..Len(window) : window[i] = id

\* Mutant of Remember: nothing is ever evicted.
RememberForever(window, id, maxlen) ==
    IF Holds(window, id) THEN window ELSE Append(window, id)

\* RecentIds.add
Remember(window, id, maxlen) ==
    IF Holds(window, id) THEN window
    ELSE LET longer == Append(window, id)
         IN  IF Len(longer) > maxlen THEN Tail(longer) ELSE longer
=============================================================================
