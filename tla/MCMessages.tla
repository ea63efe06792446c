----------------------------- MODULE MCMessages -----------------------------
(* Small instances of Messages for TLC. *)
EXTENDS Messages, TLC

CONSTANTS ada, bob, cy, town, dm

\* One DM, between bob and cy; ada is the admin and not a part of it.
MCMembers == [d \in DmChannels |-> {bob, cy}]

\* Tasks and message ids are interchangeable.
Symmetry == Permutations(Tasks) \cup Permutations(MsgIds)
=============================================================================
