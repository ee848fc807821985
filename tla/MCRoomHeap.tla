----------------------------- MODULE MCRoomHeap -----------------------------
(* Values of the constants of RoomHeap for the runs of TLC.                *)
EXTENDS RoomHeap, TLC

\* The bytes behind a name make it a longer one.
MCLongerName == [r \in Rooms |-> IF r = "CBA" THEN "CBA?" ELSE "XYZ?"]

Symmetry == Permutations(Fds) \cup Permutations(Blocks)
=============================================================================
