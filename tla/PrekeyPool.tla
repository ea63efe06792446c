----------------------------- MODULE PrekeyPool -----------------------------
(***************************************************************************)
(* What the key namespace promises: each user publishes the bundle of one  *)
(* client account with a pool of one-time prekeys, each of which is taken  *)
(* at most once, the lowest id first.  Prekeys.tla is shown to implement it.*)
(***************************************************************************)
EXTENDS Integers, TLAPS

CONSTANTS Users, Accounts, PrekeyIds, NoAccount

VARIABLES bundle,   \* the account each user has published
          pool,     \* the one-time prekeys that are left
          spent     \* every one-time prekey ever taken

vars == <<bundle, pool, spent>>

KeysOf(a, ids) == {[account |-> a, id |-> i] : i \in ids}

Init == /\ bundle = [u \in Users |-> NoAccount]
        /\ pool = [u \in Users |-> {}]
        /\ spent = {}

\* A fresh account replaces the bundle and the whole pool.
Replace == \E u \in Users, a \in Accounts, ids \in SUBSET PrekeyIds :
             /\ \A v \in Users : bundle[v] # a
             /\ \A k \in spent : k.account # a
             /\ bundle' = [bundle EXCEPT ![u] = a]
             /\ pool' = [pool EXCEPT ![u] = KeysOf(a, ids)]
             /\ UNCHANGED spent

Take == \E u \in Users : \E k \in pool[u] :
          /\ \A l \in pool[u] : k.id <= l.id
          /\ k.account = bundle[u]
          /\ k \notin spent
          /\ pool' = [pool EXCEPT ![u] = @ \ {k}]
          /\ spent' = spent \cup {k}
          /\ UNCHANGED bundle

Next == Replace \/ Take

Spec == Init /\ [][Next]_vars
-----------------------------------------------------------------------------
(* What follows for whoever implements the pool *)

\* The prekeys that are left are of the published account and were not taken, and
\* no two users have one in common.
PoolInv ==
    /\ bundle \in [Users -> Accounts \cup {NoAccount}]
    /\ DOMAIN pool = Users
    /\ \A u \in Users : \A k \in pool[u] : k.account = bundle[u] /\ k \notin spent
    /\ \A u, v \in Users : bundle[u] = bundle[v] /\ pool[u] # {} => u = v

\* A prekey that was taken is in no pool again, whatever is uploaded later.
TakenForGood == [][\A k \in spent : \A u \in Users : k \notin pool'[u]]_vars

\* A prekey goes to one taker: while it is in a pool, it is in no other.
PoolsApart == \A u, v \in Users : u # v => pool[u] \cap pool[v] = {}

\* Replacing a bundle and taking the lowest prekey keep the pools apart.
LEMMA PoolInvStep == ASSUME PoolInv, [Next]_vars PROVE PoolInv'
<1> USE DEF PoolInv
<1>1. CASE Replace
  <2> PICK u \in Users, a \in Accounts, ids \in SUBSET PrekeyIds :
             /\ \A v \in Users : bundle[v] # a
             /\ \A k \in spent : k.account # a
             /\ bundle' = [bundle EXCEPT ![u] = a]
             /\ pool' = [pool EXCEPT ![u] = KeysOf(a, ids)]
             /\ spent' = spent
    BY <1>1 DEF Replace
  <2>1. \A k \in KeysOf(a, ids) : k.account = a
    BY DEF KeysOf
  <2> QED BY <2>1
<1>2. CASE Take
  BY <1>2 DEF Take
<1>3. CASE UNCHANGED vars
  BY <1>3 DEF vars
<1> QED BY <1>1, <1>2, <1>3 DEF Next

\* Every pool is of its user's account alone.
THEOREM PoolsKept == Spec => []PoolInv
<1>1. Init => PoolInv
  BY DEF Init, PoolInv
<1> QED BY <1>1, PoolInvStep, PTL DEF Spec

\* No two users hand out the same prekey.
THEOREM PoolsDisjoint == Spec => []PoolsApart
<1>1. PoolInv => PoolsApart
  BY DEF PoolInv, PoolsApart
<1> QED BY <1>1, PoolsKept, PTL

\* What was spent stays out of every pool: it was in none, and a replacement is
\* of an account with nothing spent.
THEOREM NeverTakenAgain == Spec => TakenForGood
<1>1. ASSUME PoolInv, [Next]_vars PROVE [\A k \in spent : \A u \in Users : k \notin pool'[u]]_vars
  <2>1. spent \subseteq spent'
    BY <1>1 DEF Next, Replace, Take, vars
  <2>2. PoolInv'
    BY <1>1, PoolInvStep
  <2> QED BY <2>1, <2>2 DEF PoolInv
<1> QED BY <1>1, PoolsKept, PTL DEF Spec, TakenForGood
=============================================================================
