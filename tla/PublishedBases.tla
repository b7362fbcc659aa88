---------------------------- MODULE PublishedBases ----------------------------
(***************************************************************************)
(* What the directory of bases promises to those who read it: a base is    *)
(* there as a whole or not at all, from the moment it appears until its    *)
(* removal begins, and a directory whose removal has begun never becomes   *)
(* a base again before it has been removed to the end.                     *)
(***************************************************************************)
CONSTANT Locks
VARIABLE bases

Init == bases = [l \in Locks |-> "none"]

Publish(l) == bases[l] = "none" /\ bases' = [bases EXCEPT ![l] = "whole"]

Remove(l) ==
  /\ bases[l] # "none"
  /\ \E b \in {"going", "none"} : bases' = [bases EXCEPT ![l] = b]

Next == \E l \in Locks : Publish(l) \/ Remove(l)

Spec == Init /\ [][Next]_bases

=============================================================================
