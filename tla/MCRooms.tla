------------------------------- MODULE MCRooms -------------------------------
(* Two daemons; agent a is on the home daemon, the others are not.         *)
EXTENDS Rooms, TLC

CONSTANTS n1, n2, a, c

MCNodeOf == [h \in Handles |-> IF h = a THEN n1 ELSE n2]

Symmetry == Permutations(Commands) \union Permutations(Workers)

=============================================================================
