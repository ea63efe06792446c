------------------------------- MODULE Prekeys -------------------------------
(***************************************************************************)
(* The key namespace (keys.rs): a client uploads its bundle with a pool of *)
(* one-time prekeys, others fetch the bundle and one prekey each.  The     *)
(* requests are tasks over one database, as in Messages.tla.               *)
(*                                                                         *)
(* The key material of a client's account is one value, the account: its   *)
(* identity, signing and signed keys come and go together.  An upload      *)
(* brings a fresh account, as the comment in handle_upload_bundle says.    *)
(***************************************************************************)
EXTENDS Integers, Database

CONSTANTS Users, Accounts, PrekeyIds, NoAccount, NoKey, NoRequest

ASSUME KeysAssumption ==
    /\ PrekeyIds \subseteq Int
    /\ NoAccount \notin Accounts
    /\ NoKey \notin [account: Accounts, id: PrekeyIds]

VARIABLES
    bundle,    \* table key_bundles: the account each user has published
    pool,      \* table one_time_prekeys
    pc,        \* what each task does next
    req,       \* the request it serves
    seen,      \* the bundle its fetch has read
    picked,    \* the one-time prekey its transaction has read
    used,      \* history: the accounts clients have tried to upload
    uploaded,  \* history: every one-time prekey ever committed
    spent,     \* history: every one-time prekey whose deletion was committed
    given      \* history: how often each one-time prekey was put in a reply

store == <<bundle, pool>>
tasks == <<pc, req, seen, picked>>
history == <<used, uploaded, spent, given>>
vars == <<store, locks, tasks, history>>

Key == [account: Accounts, id: PrekeyIds]
Request == [user: Users, account: Accounts \cup {NoAccount},
            ids: SUBSET PrekeyIds, repeated: BOOLEAN]

DbSteps == {"stage", "fill", "commit_upload", "pick", "consume", "commit_fetch"}
-----------------------------------------------------------------------------
KeysOf(a, ids) == {[account |-> a, id |-> i] : i \in ids}

Idle(t) == pc[t] = "idle"
Goto(t, step) == pc' = [pc EXCEPT ![t] = step]

Finish(t) == /\ Goto(t, "idle")
             /\ req' = [req EXCEPT ![t] = NoRequest]
             /\ seen' = [seen EXCEPT ![t] = NoAccount]
             /\ picked' = [picked EXCEPT ![t] = NoKey]

Init == /\ bundle = [u \in Users |-> NoAccount]
        /\ pool = [u \in Users |-> {}]
        /\ LocksInit
        /\ pc = [t \in Tasks |-> "idle"]
        /\ req = [t \in Tasks |-> NoRequest]
        /\ seen = [t \in Tasks |-> NoAccount]
        /\ picked = [t \in Tasks |-> NoKey]
        /\ used = {}
        /\ uploaded = {}
        /\ spent = {}
        /\ given = [k \in Key |-> 0]
-----------------------------------------------------------------------------
(* upload_bundle *)

\* A bundle of the right key lengths; any other is refused and changes
\* nothing.  "repeated": the list names some prekey_id twice.
UploadBundle(t, u, a, ids, repeated) ==
    /\ Idle(t)
    /\ a \notin used
    /\ used' = used \cup {a}
    /\ req' = [req EXCEPT ![t] = [user |-> u, account |-> a, ids |-> ids,
                                  repeated |-> repeated]]
    /\ Goto(t, "stage")
    /\ UNCHANGED <<store, locks, seen, picked, uploaded, spent, given>>

\* INSERT OR REPLACE INTO key_bundles, the first statement of the transaction.
StageBundle(t) ==
    /\ pc[t] = "stage"
    /\ writer = NoTask
    /\ Lock(t)
    /\ Goto(t, "fill")
    /\ UNCHANGED <<store, req, seen, picked, history>>

\* The wipe of the pool and the INSERT of each new prekey; the second of two
\* equal ids violates the primary key.
StagePrekeys(t) ==
    /\ pc[t] = "fill"
    /\ ~req[t].repeated
    /\ Goto(t, "commit_upload")
    /\ UNCHANGED <<store, locks, req, seen, picked, history>>

\* Slip: the old pool is not wiped, and a new key takes the place of an old one
\* of the same id.
ReplacePoolKeeping(u, new) ==
    pool' = [pool EXCEPT ![u] =
               {k \in @ : \A n \in new : n.id # k.id} \cup new]

ReplacePool(u, new) == pool' = [pool EXCEPT ![u] = new]

CommitUpload(t) ==
    LET u == req[t].user
        new == KeysOf(req[t].account, req[t].ids) IN
    /\ pc[t] = "commit_upload"
    /\ bundle' = [bundle EXCEPT ![u] = req[t].account]
    /\ ReplacePool(u, new)
    /\ uploaded' = uploaded \cup new
    /\ CommitWrites
    /\ Finish(t)
    /\ UNCHANGED <<used, spent, given>>
-----------------------------------------------------------------------------
(* fetch_bundle *)

\* Slip: a missing bundle is not noticed.
FetchBundleUnchecked(t, u) ==
    /\ Idle(t)
    /\ seen' = [seen EXCEPT ![t] = bundle[u]]
    /\ req' = [req EXCEPT ![t] = [user |-> u, account |-> NoAccount, ids |-> {},
                                  repeated |-> FALSE]]
    /\ Goto(t, "pick")
    /\ UNCHANGED <<store, locks, picked, history>>

\* The request and the SELECT of the bundle, outside any transaction.  Without
\* a bundle the answer is an error and nothing changes.
FetchBundle(t, u) ==
    /\ Idle(t)
    /\ bundle[u] # NoAccount
    /\ seen' = [seen EXCEPT ![t] = bundle[u]]
    /\ req' = [req EXCEPT ![t] = [user |-> u, account |-> NoAccount, ids |-> {},
                                  repeated |-> FALSE]]
    /\ Goto(t, "pick")
    /\ UNCHANGED <<store, locks, picked, history>>

\* Slip: ORDER BY prekey_id DESC.
IsFirstDesc(k, keys) == \A l \in keys : l.id <= k.id

\* ORDER BY prekey_id ASC LIMIT 1
IsFirst(k, keys) == \A l \in keys : k.id <= l.id

\* BEGIN and the SELECT of the lowest prekey.
PickPrekey(t) ==
    /\ pc[t] = "pick"
    /\ \E k \in pool[req[t].user] :
         /\ IsFirst(k, pool[req[t].user])
         /\ picked' = [picked EXCEPT ![t] = k]
    /\ OpenSnapshot(t)
    /\ Goto(t, "consume")
    /\ UNCHANGED <<store, req, seen, history>>

\* The pool is empty: the transaction commits having read only.
PickNothing(t) ==
    /\ pc[t] = "pick"
    /\ pool[req[t].user] = {}
    /\ Goto(t, "reply")
    /\ UNCHANGED <<store, locks, req, seen, picked, history>>

\* The DELETE of the prekey.
ConsumePrekey(t) ==
    /\ pc[t] = "consume"
    /\ CanUpgrade(t)
    /\ Lock(t)
    /\ Goto(t, "commit_fetch")
    /\ UNCHANGED <<store, req, seen, picked, history>>

\* Slip: DELETE without AND prekey_id.
WithoutAny(keys, k) == {}

\* WHERE user_id AND prekey_id
Without(keys, k) == {l \in keys : l.id # k.id}

CommitFetch(t) ==
    /\ pc[t] = "commit_fetch"
    /\ pool' = [pool EXCEPT ![req[t].user] = Without(@, picked[t])]
    /\ spent' = spent \cup {picked[t]}
    /\ CommitWrites
    /\ Goto(t, "reply")
    /\ UNCHANGED <<bundle, req, seen, picked, used, uploaded, given>>

\* The ack, with the bundle read first and the prekey, if there was one.
FetchReply(t) ==
    /\ pc[t] = "reply"
    /\ given' = [k \in Key |-> IF k = picked[t] THEN given[k] + 1 ELSE given[k]]
    /\ Finish(t)
    /\ UNCHANGED <<store, locks, used, uploaded, spent>>
-----------------------------------------------------------------------------
\* Any other handler commits.
OtherCommit == /\ snapshots # {}
               /\ Autocommit(TRUE)
               /\ UNCHANGED <<store, tasks, history>>

\* A statement fails and the transaction is rolled back.
Fail(t) == /\ pc[t] \in DbSteps
           /\ Rollback(t)
           /\ Finish(t)
           /\ UNCHANGED <<store, history>>

Crash == /\ \E t \in Tasks : ~Idle(t)
         /\ pc' = [t \in Tasks |-> "idle"]
         /\ req' = [t \in Tasks |-> NoRequest]
         /\ seen' = [t \in Tasks |-> NoAccount]
         /\ picked' = [t \in Tasks |-> NoKey]
         /\ RollbackAll
         /\ UNCHANGED <<store, history>>

Receive(t) ==
    \E u \in Users :
      \/ \E a \in Accounts, ids \in SUBSET PrekeyIds, repeated \in BOOLEAN :
           /\ repeated => ids # {}
           /\ UploadBundle(t, u, a, ids, repeated)
      \/ FetchBundle(t, u)

Step(t) == \/ StageBundle(t)
           \/ StagePrekeys(t)
           \/ CommitUpload(t)
           \/ PickPrekey(t)
           \/ PickNothing(t)
           \/ ConsumePrekey(t)
           \/ CommitFetch(t)
           \/ FetchReply(t)

Next == \/ \E t \in Tasks : Receive(t) \/ Step(t) \/ Fail(t)
        \/ OtherCommit
        \/ Crash

Spec == Init /\ [][Next]_vars
-----------------------------------------------------------------------------
(* Properties *)

\* Every variable has its type, and a reply has the bundle of some account.
TypeOK ==
    /\ bundle \in [Users -> Accounts \cup {NoAccount}]
    /\ pool \in [Users -> SUBSET Key]
    /\ LocksTypeOK
    /\ pc \in [Tasks -> DbSteps \cup {"idle", "reply"}]
    /\ req \in [Tasks -> Request \cup {NoRequest}]
    /\ \A t \in Tasks : ~Idle(t) => req[t] \in Request
    /\ seen \in [Tasks -> Accounts \cup {NoAccount}]
    /\ \A t \in Tasks : pc[t] \in {"pick", "consume", "commit_fetch", "reply"}
                          => seen[t] \in Accounts
    /\ picked \in [Tasks -> Key \cup {NoKey}]
    /\ used \subseteq Accounts
    /\ uploaded \subseteq Key
    /\ spent \subseteq Key
    /\ given \in [Key -> Nat]

\* However many fetches race, fail or are cut off by a crash, no one-time
\* prekey is put in two replies.
NoKeyGivenTwice == \A k \in Key : given[k] <= 1

\* The pool holds prekeys of the published account only, one per id, although
\* a fetch may be under way while the account is replaced.
PoolIsOfBundle ==
    \A u \in Users : \A k, l \in pool[u] : /\ k.account = bundle[u]
                                           /\ k.id = l.id => k = l

\* Every prekey uploaded for the published account is either still in the pool
\* or was taken by a committed fetch: failed and interrupted fetches lose none.
KeysConserved ==
    \A u \in Users :
        LET ofBundle(keys) == {k \in keys : k.account = bundle[u]} IN
        /\ ofBundle(uploaded) = pool[u] \cup ofBundle(spent)
        /\ pool[u] \cap spent = {}

\* A reply pairs a bundle with a one-time prekey of another account only when that
\* bundle was replaced while the fetch was under way: the pool itself mixes nothing.
MixedOnlyByReplacement ==
    \A t \in Tasks :
        pc[t] = "reply" /\ picked[t] # NoKey /\ picked[t].account # seen[t]
            => bundle[req[t].user] # seen[t]

\* The transactions implement a pool whose keys are taken one at a time.
Pool == INSTANCE PrekeyPool
ImplementsPool == Pool!Spec

\* A reply pairs the bundle with a one-time prekey of the same account: a
\* re-upload leaves no old key valid beside the new ones.
ReplyIsOfOneAccount ==
    \A t \in Tasks : pc[t] = "reply" /\ picked[t] # NoKey
                       => picked[t].account = seen[t]
=============================================================================
