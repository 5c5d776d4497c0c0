----------------------------- MODULE SimEvents -----------------------------
(***************************************************************************)
(* The list of future job completions that the simulated slurmd keeps      *)
(* (src/slurmd/slurmd/req.c, simulator_add_future_event).  A list entry is *)
(* a record with the job and the simulated second its script ends.         *)
(***************************************************************************)
EXTENDS Integers, Sequences, FiniteSetsExt

Event(J) == [job : J, when : Nat]

\* The entry goes in front of the head only when the head is strictly
\* later.  Otherwise the walk starts at the head and stops before the first
\* FOLLOWING entry that is not earlier, so among equals a new entry lands
\* right behind the head.
InsertPosition(list, when) ==
    IF list # <<>> /\ Head(list).when > when
    THEN 1
    ELSE Min({i \in 2..Len(list) : list[i].when >= when} \cup {Len(list) + 1})

\* The entry is linked in at position i.
LinkAt(list, i, event) == SubSeq(list, 1, i - 1) \o <<event>> \o SubSeq(list, i, Len(list))

simulator_add_future_event(list, event) ==
    LinkAt(list, InsertPosition(list, event.when), event)

\* The helper takes completions off the head while they are due, so the
\* list has to be ordered by time.
IsOrdered(list) ==
    \A i, j \in 1..Len(list) : i < j => list[i].when =< list[j].when
=============================================================================
