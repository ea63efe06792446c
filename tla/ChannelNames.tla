---------------------------- MODULE ChannelNames ----------------------------
(***************************************************************************)
(* What the channel directory promises: every channel has one label, a     *)
(* name or the pair of users of a DM, no two channels share one, and only  *)
(* channels with a name are ever renamed or closed.                        *)
(***************************************************************************)
CONSTANTS ChannelIds, Names, Pairs, Absent

VARIABLES
    label,   \* the label of each open channel
    issued   \* the ids given out so far

vars == <<label, issued>>

Free(l) == \A i \in ChannelIds : label[i] # l

Init == /\ label = [i \in ChannelIds |-> Absent]
        /\ issued = {}

Open(i, l) == /\ i \notin issued
              /\ Free(l)
              /\ label' = [label EXCEPT ![i] = l]
              /\ issued' = issued \cup {i}

Rename(i, n) == /\ label[i] \in Names
                /\ Free(n)
                /\ label' = [label EXCEPT ![i] = n]
                /\ UNCHANGED issued

Close(i) == /\ label[i] \in Names
            /\ label' = [label EXCEPT ![i] = Absent]
            /\ UNCHANGED issued

Next == \E i \in ChannelIds : \/ \E l \in Names \cup Pairs : Open(i, l)
                              \/ \E n \in Names : Rename(i, n)
                              \/ Close(i)

Spec == Init /\ [][Next]_vars
=============================================================================
