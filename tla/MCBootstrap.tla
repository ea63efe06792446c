---------------------------- MODULE MCBootstrap ----------------------------
(* Small instances of Bootstrap for TLC. *)
EXTENDS Bootstrap, TLC

\* No line for the admin, or a blank one, which load_admin_from_env allows.
AnyEnv == {<<>>, <<Key, NewLine>>}
NoLine == {<<>>}

Symmetry == Permutations(Users) \cup Permutations(Tasks)
            \cup Permutations(Keys) \cup Permutations(Names)
=============================================================================
