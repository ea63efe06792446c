----------------------------- MODULE MCSessions -----------------------------
(* Small instances of Sessions for TLC. *)
EXTENDS Sessions, TLC

CONSTANTS ada, bob, cy

\* Only bob changes his password and is banned; cy is there to be a mod, or
\* the target of one.
MCChanges == [u \in Users |-> IF u = bob THEN 1 ELSE 0]
MCBans == [u \in Users |-> IF u = bob THEN 1 ELSE 0]

\* Tasks and session ids are interchangeable.
Symmetry == Permutations(Tasks) \cup Permutations(SessionIds)
=============================================================================
