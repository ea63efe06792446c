---------------------------- MODULE MCDirectory ----------------------------
(* Small instances of Directory for TLC. *)
EXTENDS Directory, TLC

CONSTANTS ada, bob, cy

\* Tasks, ids and names are interchangeable.
Symmetry == Permutations(Tasks) \cup Permutations(ChannelIds) \cup Permutations(Names)

\* So are bob and cy where nobody is followed.
UserSymmetry == Symmetry \cup Permutations({bob, cy})
=============================================================================
