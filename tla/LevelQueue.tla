------------------------------ MODULE LevelQueue ------------------------------
(***************************************************************************)
(* What SlidingQueue (src/src/sliding_queue.h) promises to a search that     *)
(* works level by level: the items pushed during one level, and no others,   *)
(* are the window of the next, whoever pushed them and in whatever order.    *)
(***************************************************************************)

CONSTANT Items

VARIABLES
  current,      \* the items of the window
  next          \* the items pushed since the window last slid

vars == <<current, next>>

(* A search begins with its sources.                                         *)
Init == current \subseteq Items /\ next = {}

Push(x) == next' = next \cup {x} /\ UNCHANGED current

Slide == current' = next /\ next' = {}

Next == Slide \/ \E x \in Items : Push(x)

Spec == Init /\ [][Next]_vars

================================================================================
