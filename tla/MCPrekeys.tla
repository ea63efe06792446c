------------------------------ MODULE MCPrekeys ------------------------------
(* Small instances of Prekeys for TLC. *)
EXTENDS Prekeys, TLC

\* Users, tasks and accounts are interchangeable; prekey ids are ordered.
Symmetry == Permutations(Users) \cup Permutations(Tasks) \cup Permutations(Accounts)
=============================================================================
