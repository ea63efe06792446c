---------------------------- MODULE PrekeysProofs ----------------------------
(***************************************************************************)
(* Theorems about Prekeys, for every number of users, accounts, prekey ids *)
(* and tasks.                                                              *)
(***************************************************************************)
EXTENDS Prekeys, TLAPS

Uploading == {"stage", "fill", "commit_upload"}

\* The lock is held by the one task inside a transaction that has written.
LockHolder ==
    \A t \in Tasks : pc[t] \in {"fill", "commit_upload", "commit_fetch"} <=> writer = t

\* What is published, uploaded or about to be uploaded was used by a client.
AccountsUsed ==
    /\ \A u \in Users : bundle[u] # NoAccount => bundle[u] \in used
    /\ \A k \in uploaded : k.account \in used
    /\ \A t \in Tasks : pc[t] \in Uploading => req[t].account \in used

\* An upload under way has its account to itself.
UploadsFresh ==
    \A t \in Tasks : pc[t] \in Uploading =>
        /\ \A u \in Users : bundle[u] # req[t].account
        /\ \A k \in uploaded : k.account # req[t].account
        /\ \A o \in Tasks \ {t} : pc[o] \in Uploading
                                    => req[o].account # req[t].account

\* No two users publish the same account.
BundlesDiffer ==
    \A u, v \in Users : bundle[u] # NoAccount /\ bundle[u] = bundle[v] => u = v

SpentUploaded == spent \subseteq uploaded

\* A prekey read in a snapshot that is still current, or by the transaction
\* that holds the lock, is the first one of the pool.
PicksCurrent ==
    \A t \in Tasks :
        pc[t] = "commit_fetch" \/ (pc[t] = "consume" /\ t \in snapshots) =>
            /\ picked[t] \in pool[req[t].user]
            /\ IsFirst(picked[t], pool[req[t].user])

\* A task that has picked nothing yet holds nothing.
HandsEmpty == \A t \in Tasks : pc[t] \in {"idle", "pick"} \cup Uploading => picked[t] = NoKey

\* A prekey in a reply, sent or about to be sent, was spent for that reply.
RepliesSpent ==
    /\ \A k \in Key : given[k] # 0 => k \in spent
    /\ \A t \in Tasks : pc[t] = "reply" /\ picked[t] # NoKey =>
         /\ picked[t] \in spent
         /\ given[picked[t]] = 0
         /\ \A o \in Tasks \ {t} : pc[o] = "reply" => picked[o] # picked[t]

IInv == /\ TypeOK
        /\ LockHolder
        /\ AccountsUsed
        /\ UploadsFresh
        /\ BundlesDiffer
        /\ SpentUploaded
        /\ PoolIsOfBundle
        /\ KeysConserved
        /\ PicksCurrent
        /\ HandsEmpty
        /\ RepliesSpent
        /\ NoKeyGivenTwice
-----------------------------------------------------------------------------
\* A request that begins is an upload of an account no client has used, or a
\* fetch of a bundle that is there.
LEMMA ReceiveFact ==
  ASSUME NEW t \in Tasks, Receive(t)
  PROVE  \/ \E u \in Users, a \in Accounts, ids \in SUBSET PrekeyIds, repeated \in BOOLEAN :
              UploadBundle(t, u, a, ids, repeated)
         \/ \E u \in Users : FetchBundle(t, u)
BY DEF Receive

\* Every step keeps the types; a fetch goes on with a bundle only.
LEMMA TypeStep ==
  ASSUME TypeOK, AccountsUsed, PicksCurrent, [Next]_vars
  PROVE  TypeOK'
<1> USE KeysAssumption, NoTaskAssumption
    DEF TypeOK, LocksTypeOK, Idle, Goto, Finish, DbSteps, store, tasks, history, locks,
        Lock, OpenSnapshot, CommitWrites, Autocommit, Rollback, RollbackAll
<1>1. ASSUME NEW t \in Tasks, NEW u \in Users, NEW a \in Accounts,
             NEW ids \in SUBSET PrekeyIds, NEW repeated \in BOOLEAN,
             UploadBundle(t, u, a, ids, repeated)
      PROVE  TypeOK'
  BY <1>1 DEF UploadBundle, Request
<1>2. ASSUME NEW t \in Tasks, NEW u \in Users, FetchBundle(t, u)
      PROVE  TypeOK'
  BY <1>2 DEF FetchBundle, Request
<1>3. ASSUME NEW t \in Tasks, StageBundle(t) \/ StagePrekeys(t) \/ ConsumePrekey(t)
      PROVE  TypeOK'
  BY <1>3 DEF StageBundle, StagePrekeys, ConsumePrekey
<1>4. ASSUME NEW t \in Tasks, CommitUpload(t)
      PROVE  TypeOK'
  <2>1. /\ req[t].user \in Users /\ req[t].account \in Accounts
        /\ req[t].ids \in SUBSET PrekeyIds
    BY <1>4 DEF CommitUpload, AccountsUsed, Uploading, Request
  <2>2. KeysOf(req[t].account, req[t].ids) \subseteq Key
    BY <2>1 DEF KeysOf, Key
  <2> QED BY <1>4, <2>1, <2>2 DEF CommitUpload, ReplacePool
<1>5. ASSUME NEW t \in Tasks, PickPrekey(t) \/ PickNothing(t)
      PROVE  TypeOK'
  BY <1>5 DEF PickPrekey, PickNothing, Request
<1>6. ASSUME NEW t \in Tasks, CommitFetch(t)
      PROVE  TypeOK'
  <2>1. req[t].user \in Users /\ picked[t] \in Key
    BY <1>6 DEF CommitFetch, PicksCurrent, Request
  <2> QED BY <1>6, <2>1 DEF CommitFetch, Without
<1>7. ASSUME NEW t \in Tasks, FetchReply(t)
      PROVE  TypeOK'
  BY <1>7 DEF FetchReply
<1>8. ASSUME NEW t \in Tasks, Fail(t)
      PROVE  TypeOK'
  BY <1>8 DEF Fail
<1>9. CASE OtherCommit
  BY <1>9 DEF OtherCommit
<1>10. CASE Crash
  BY <1>10 DEF Crash
<1>11. CASE UNCHANGED vars
  BY <1>11 DEF vars
<1> HIDE DEF TypeOK
<1>12. ASSUME NEW t \in Tasks, Receive(t) PROVE TypeOK'
  BY <1>12, ReceiveFact, <1>1, <1>2
<1>13. ASSUME NEW t \in Tasks, Step(t) PROVE TypeOK'
  BY <1>13, <1>3, <1>4, <1>5, <1>6, <1>7 DEF Step
<1> QED BY <1>8, <1>9, <1>10, <1>11, <1>12, <1>13 DEF Next
-----------------------------------------------------------------------------
(* The inductive invariant *)

\* No bundle, no prekey and no request satisfy the invariant.
LEMMA InitInv == ASSUME Init PROVE IInv
<1> USE KeysAssumption, NoTaskAssumption
    DEF Init, TypeOK, LocksInit, LocksTypeOK, Uploading, Idle
<1>1. TypeOK
  OBVIOUS
<1>2. LockHolder /\ PicksCurrent /\ HandsEmpty /\ RepliesSpent /\ NoKeyGivenTwice
  BY DEF LockHolder, PicksCurrent, HandsEmpty, RepliesSpent, NoKeyGivenTwice
<1>3. AccountsUsed /\ UploadsFresh /\ BundlesDiffer /\ SpentUploaded
  BY DEF AccountsUsed, UploadsFresh, BundlesDiffer, SpentUploaded
<1>4. PoolIsOfBundle /\ KeysConserved
  BY DEF PoolIsOfBundle, KeysConserved
<1> QED BY <1>1, <1>2, <1>3, <1>4 DEF IInv

\* A transaction takes the lock with its first write; its commit, its failure
\* or a crash gives it back.
LEMMA LockStep ==
  ASSUME TypeOK, LockHolder, [Next]_vars
  PROVE  LockHolder'
<1> USE NoTaskAssumption
    DEF LockHolder, TypeOK, LocksTypeOK, Idle, Goto, Finish, locks, OpenSnapshot, CanUpgrade,
        Lock, CommitWrites, Autocommit, Rollback, RollbackAll
<1>1. ASSUME NEW t \in Tasks, Receive(t) PROVE LockHolder'
  BY <1>1, ReceiveFact DEF UploadBundle, FetchBundle
<1>2. ASSUME NEW t \in Tasks, Step(t) PROVE LockHolder'
  BY <1>2 DEF Step, StageBundle, StagePrekeys, CommitUpload, PickPrekey, PickNothing,
              ConsumePrekey, CommitFetch, FetchReply
<1>3. ASSUME NEW t \in Tasks, Fail(t) PROVE LockHolder'
  BY <1>3 DEF Fail
<1>4. CASE Crash
  BY <1>4 DEF Crash
<1>5. CASE UNCHANGED <<pc, writer>>
  BY <1>5
<1> QED BY <1>1, <1>2, <1>3, <1>4, <1>5 DEF Next, OtherCommit, vars, tasks

\* The tables and the uploaded and spent prekeys change with the two commits.
LEMMA StoreStep ==
  ASSUME [Next]_vars
  PROVE  \/ \E t \in Tasks : CommitUpload(t) \/ CommitFetch(t)
         \/ UNCHANGED <<store, uploaded, spent>>
BY ReceiveFact DEF Next, Step, UploadBundle, FetchBundle, StageBundle, StagePrekeys, PickPrekey,
   PickNothing, ConsumePrekey, FetchReply, Fail, OtherCommit, Crash, vars, store, history

\* The commit of a fetch takes one prekey of the pool, and it was there.
LEMMA TakeFact ==
  ASSUME IInv, NEW t \in Tasks, CommitFetch(t)
  PROVE  LET u == req[t].user IN
         /\ u \in Users
         /\ picked[t] \in Key /\ picked[t] \in pool[u] /\ picked[t] \notin spent
         /\ pool' = [pool EXCEPT ![u] = @ \ {picked[t]}]
         /\ spent' = spent \cup {picked[t]}
         /\ UNCHANGED <<bundle, uploaded>>
<1> DEFINE u == req[t].user
<1>1. u \in Users
  BY DEF IInv, TypeOK, CommitFetch, Idle, Request
<1>2. picked[t] \in pool[u]
  BY DEF IInv, PicksCurrent, CommitFetch
<1>3. picked[t] \in Key /\ picked[t] \notin spent
  BY <1>1, <1>2 DEF IInv, TypeOK, KeysConserved
<1>4. Without(pool[u], picked[t]) = pool[u] \ {picked[t]}
  BY <1>1, <1>2 DEF IInv, PoolIsOfBundle, Without
<1> QED BY <1>1, <1>2, <1>3, <1>4 DEF CommitFetch

\* The commit of an upload publishes an account with a pool of its own.
LEMMA ReplaceFact ==
  ASSUME IInv, NEW t \in Tasks, CommitUpload(t)
  PROVE  LET u == req[t].user
             a == req[t].account
             new == KeysOf(a, req[t].ids) IN
         /\ u \in Users /\ a \in Accounts /\ req[t].ids \in SUBSET PrekeyIds
         /\ \A v \in Users : bundle[v] # a
         /\ \A k \in uploaded : k.account # a
         /\ bundle' = [bundle EXCEPT ![u] = a]
         /\ pool' = [pool EXCEPT ![u] = new]
         /\ uploaded' = uploaded \cup new
         /\ UNCHANGED spent
<1>1. pc[t] = "commit_upload" /\ req[t] \in Request
  BY DEF IInv, TypeOK, CommitUpload, Idle
<1>2. req[t].account \in used /\ used \subseteq Accounts
  BY <1>1 DEF IInv, TypeOK, AccountsUsed, Uploading
<1>3. /\ \A v \in Users : bundle[v] # req[t].account
      /\ \A k \in uploaded : k.account # req[t].account
  BY <1>1 DEF IInv, UploadsFresh, Uploading
<1> QED BY <1>1, <1>2, <1>3 DEF CommitUpload, ReplacePool, Request

\* An upload registers its account with its client before it begins.
LEMMA UsedStep ==
  ASSUME IInv, [Next]_vars
  PROVE  AccountsUsed'
<1> USE DEF IInv, AccountsUsed, TypeOK, Idle, Goto, Finish, Uploading, store, history
<1>1. ASSUME NEW t \in Tasks, Receive(t) PROVE AccountsUsed'
  BY <1>1, ReceiveFact DEF UploadBundle, FetchBundle
<1>2. ASSUME NEW t \in Tasks, CommitUpload(t) PROVE AccountsUsed'
  <2>1. UNCHANGED used /\ req[t].account \in used
    BY <1>2 DEF CommitUpload
  <2>2. \A k \in uploaded' : k.account \in used
    BY <1>2, <2>1, ReplaceFact DEF KeysOf
  <2>3. \A u \in Users : bundle'[u] # NoAccount => bundle'[u] \in used
    BY <1>2, <2>1, ReplaceFact
  <2>4. \A o \in Tasks : pc'[o] \in Uploading => req'[o].account \in used
    BY <1>2 DEF CommitUpload
  <2> QED BY <2>1, <2>2, <2>3, <2>4
<1>3. ASSUME NEW t \in Tasks, CommitFetch(t) PROVE AccountsUsed'
  BY <1>3 DEF CommitFetch
<1>4. ASSUME NEW t \in Tasks, Step(t), ~CommitUpload(t), ~CommitFetch(t)
      PROVE  AccountsUsed'
  BY <1>4 DEF Step, StageBundle, StagePrekeys, PickPrekey, PickNothing, ConsumePrekey, FetchReply
<1>5. ASSUME NEW t \in Tasks, Fail(t) PROVE AccountsUsed'
  BY <1>5 DEF Fail
<1>6. CASE Crash
  BY <1>6 DEF Crash
<1>7. CASE UNCHANGED <<bundle, uploaded, used, pc, req>>
  BY <1>7
<1> QED BY <1>1, <1>2, <1>3, <1>4, <1>5, <1>6, <1>7 DEF Next, OtherCommit, vars, tasks

\* Nobody else publishes or uploads the account of an upload under way.
LEMMA FreshStep ==
  ASSUME IInv, [Next]_vars
  PROVE  UploadsFresh'
<1> USE DEF IInv, UploadsFresh, TypeOK, Idle, Goto, Finish, Uploading, store, history
<1>1. ASSUME NEW t \in Tasks, Receive(t) PROVE UploadsFresh'
  <2>1. ASSUME NEW u \in Users, NEW a \in Accounts, NEW ids \in SUBSET PrekeyIds,
               NEW repeated \in BOOLEAN, UploadBundle(t, u, a, ids, repeated)
        PROVE  UploadsFresh'
    <3>1. /\ a \notin used /\ bundle' = bundle /\ uploaded' = uploaded
          /\ req'[t].account = a
          /\ \A o \in Tasks \ {t} : pc'[o] = pc[o] /\ req'[o] = req[o]
      BY <2>1 DEF UploadBundle
    <3>2. /\ \A v \in Users : bundle[v] # a
          /\ \A k \in uploaded : k.account # a
          /\ \A o \in Tasks : pc[o] \in Uploading => req[o].account # a
      BY <3>1, KeysAssumption DEF AccountsUsed
    <3> QED BY <3>1, <3>2
  <2>2. ASSUME NEW u \in Users, FetchBundle(t, u) PROVE UploadsFresh'
    BY <2>2 DEF FetchBundle
  <2> QED BY <1>1, <2>1, <2>2, ReceiveFact
<1>2. ASSUME NEW t \in Tasks, CommitUpload(t) PROVE UploadsFresh'
  <2> SUFFICES ASSUME NEW o \in Tasks, pc'[o] \in Uploading
               PROVE  /\ \A u \in Users : bundle'[u] # req'[o].account
                      /\ \A k \in uploaded' : k.account # req'[o].account
                      /\ \A p \in Tasks \ {o} : pc'[p] \in Uploading
                                                  => req'[p].account # req'[o].account
    OBVIOUS
  <2>1. /\ o # t /\ pc[o] \in Uploading /\ req'[o] = req[o]
        /\ \A p \in Tasks : pc'[p] \in Uploading => pc[p] \in Uploading /\ req'[p] = req[p]
        /\ req[o].account # req[t].account
    BY <1>2 DEF CommitUpload
  <2>2. \A k \in uploaded' : k.account # req[o].account
    BY <1>2, <2>1, ReplaceFact DEF KeysOf
  <2>3. \A u \in Users : bundle'[u] # req[o].account
    BY <1>2, <2>1, ReplaceFact
  <2> QED BY <2>1, <2>2, <2>3
<1>3. ASSUME NEW t \in Tasks, CommitFetch(t) PROVE UploadsFresh'
  BY <1>3 DEF CommitFetch
<1>4. ASSUME NEW t \in Tasks, Step(t), ~CommitUpload(t), ~CommitFetch(t)
      PROVE  UploadsFresh'
  BY <1>4 DEF Step, StageBundle, StagePrekeys, PickPrekey, PickNothing, ConsumePrekey, FetchReply
<1>5. ASSUME NEW t \in Tasks, Fail(t) PROVE UploadsFresh'
  BY <1>5 DEF Fail
<1>6. CASE Crash
  BY <1>6 DEF Crash
<1>7. CASE UNCHANGED <<bundle, uploaded, used, pc, req>>
  BY <1>7
<1> QED BY <1>1, <1>2, <1>3, <1>4, <1>5, <1>6, <1>7 DEF Next, OtherCommit, vars, tasks

\* A replaced pool is of the new account, a taken prekey leaves the rest: what
\* each user has published stays apart from what the others have.
LEMMA PoolStep ==
  ASSUME IInv, [Next]_vars
  PROVE  /\ BundlesDiffer' /\ SpentUploaded'
         /\ PoolIsOfBundle' /\ KeysConserved'
<1> USE DEF IInv
<1>1. ASSUME NEW t \in Tasks, CommitUpload(t)
      PROVE  BundlesDiffer' /\ SpentUploaded' /\ PoolIsOfBundle' /\ KeysConserved'
  <2> DEFINE u == req[t].user
             a == req[t].account
             new == KeysOf(a, req[t].ids)
  <2>1. /\ u \in Users /\ a \in Accounts
        /\ \A v \in Users : bundle[v] # a
        /\ \A k \in uploaded : k.account # a
        /\ bundle' = [bundle EXCEPT ![u] = a]
        /\ pool' = [pool EXCEPT ![u] = new]
        /\ uploaded' = uploaded \cup new
        /\ spent' = spent
    BY <1>1, ReplaceFact
  <2>2. \A k \in new : k.account = a
    BY DEF KeysOf
  <2>3. \A k, l \in new : k.id = l.id => k = l
    BY DEF KeysOf
  <2>4. \A v \in Users : /\ bundle'[v] = IF v = u THEN a ELSE bundle[v]
                         /\ pool'[v] = IF v = u THEN new ELSE pool[v]
    BY <2>1 DEF TypeOK
  <2> HIDE DEF u, a, new
  <2>5. BundlesDiffer'
    BY <2>1, <2>4 DEF BundlesDiffer
  <2>6. SpentUploaded'
    BY <2>1 DEF SpentUploaded
  <2>7. PoolIsOfBundle'
    BY <2>2, <2>3, <2>4 DEF PoolIsOfBundle
  <2>8. KeysConserved'
    BY <2>1, <2>2, <2>4 DEF KeysConserved, SpentUploaded
  <2> QED BY <2>5, <2>6, <2>7, <2>8
<1>2. ASSUME NEW t \in Tasks, CommitFetch(t)
      PROVE  BundlesDiffer' /\ SpentUploaded' /\ PoolIsOfBundle' /\ KeysConserved'
  <2> DEFINE u == req[t].user
             k == picked[t]
  <2>1. /\ u \in Users /\ k \in Key /\ k \in pool[u] /\ k \notin spent
        /\ pool' = [pool EXCEPT ![u] = @ \ {k}]
        /\ spent' = spent \cup {k} /\ bundle' = bundle /\ uploaded' = uploaded
    BY <1>2, TakeFact
  <2> HIDE DEF u, k
  <2>2. \A v \in Users : pool'[v] = IF v = u THEN pool[u] \ {k} ELSE pool[v]
    BY <2>1 DEF TypeOK
  <2>3. k.account = bundle[u] /\ k \in uploaded /\ bundle[u] # NoAccount
    BY <2>1, KeysAssumption DEF PoolIsOfBundle, KeysConserved, Key
  <2>4. \A v \in Users \ {u} : k.account # bundle[v]
    BY <2>1, <2>3 DEF BundlesDiffer
  <2>5. BundlesDiffer' /\ SpentUploaded'
    BY <2>1, <2>3 DEF BundlesDiffer, SpentUploaded
  <2>6. PoolIsOfBundle'
    BY <2>1, <2>2 DEF PoolIsOfBundle
  <2>7. KeysConserved'
    BY <2>1, <2>2, <2>3, <2>4 DEF KeysConserved, PoolIsOfBundle
  <2> QED BY <2>5, <2>6, <2>7
<1>3. CASE UNCHANGED <<store, uploaded, spent>>
  BY <1>3 DEF store, BundlesDiffer, SpentUploaded, PoolIsOfBundle, KeysConserved
<1> QED BY <1>1, <1>2, <1>3, StoreStep

\* Whoever changes a pool makes every other snapshot stale, so that a prekey
\* read in a current snapshot is still the first.
LEMMA PicksStep ==
  ASSUME IInv, [Next]_vars
  PROVE  PicksCurrent'
<1> USE NoTaskAssumption
    DEF IInv, PicksCurrent, TypeOK, LocksTypeOK, Idle, Goto, Finish, store, locks, OpenSnapshot,
        CanUpgrade, Lock, CommitWrites, Autocommit, Rollback, RollbackAll
<1>1. ASSUME NEW t \in Tasks, Receive(t) PROVE PicksCurrent'
  BY <1>1, ReceiveFact DEF UploadBundle, FetchBundle
<1>2. ASSUME NEW t \in Tasks, PickPrekey(t) PROVE PicksCurrent'
  BY <1>2 DEF PickPrekey
<1>3. ASSUME NEW t \in Tasks, CommitUpload(t) PROVE PicksCurrent'
  BY <1>3 DEF CommitUpload, LockHolder
<1>4. ASSUME NEW t \in Tasks, CommitFetch(t) PROVE PicksCurrent'
  BY <1>4 DEF CommitFetch, LockHolder
<1>5. ASSUME NEW t \in Tasks, Step(t), ~PickPrekey(t), ~CommitUpload(t), ~CommitFetch(t)
      PROVE  PicksCurrent'
  BY <1>5 DEF Step, StageBundle, StagePrekeys, PickNothing, ConsumePrekey, FetchReply
<1>6. ASSUME NEW t \in Tasks, Fail(t) PROVE PicksCurrent'
  BY <1>6 DEF Fail
<1>7. CASE Crash
  BY <1>7 DEF Crash
<1>8. CASE OtherCommit
  BY <1>8 DEF OtherCommit, tasks
<1>9. CASE UNCHANGED vars
  BY <1>9 DEF vars, tasks
<1> QED BY <1>1, <1>2, <1>3, <1>4, <1>5, <1>6, <1>7, <1>8, <1>9 DEF Next

\* A task lets go of its prekey when it ends.
LEMMA HandsStep ==
  ASSUME TypeOK, HandsEmpty, [Next]_vars
  PROVE  HandsEmpty'
<1> USE DEF HandsEmpty, TypeOK, Uploading, Idle, Goto, Finish
<1>1. ASSUME NEW t \in Tasks, Receive(t) PROVE HandsEmpty'
  BY <1>1, ReceiveFact DEF UploadBundle, FetchBundle
<1>2. ASSUME NEW t \in Tasks, Step(t) PROVE HandsEmpty'
  BY <1>2 DEF Step, StageBundle, StagePrekeys, CommitUpload, PickPrekey, PickNothing,
              ConsumePrekey, CommitFetch, FetchReply
<1>3. ASSUME NEW t \in Tasks, Fail(t) PROVE HandsEmpty'
  BY <1>3 DEF Fail
<1>4. CASE Crash
  BY <1>4 DEF Crash
<1>5. CASE UNCHANGED <<pc, picked>>
  BY <1>5
<1> QED BY <1>1, <1>2, <1>3, <1>4, <1>5 DEF Next, OtherCommit, vars, tasks

\* A prekey goes into the reply of the fetch that spent it, and into no other.
LEMMA RepliesStep ==
  ASSUME IInv, [Next]_vars
  PROVE  RepliesSpent'
<1> USE KeysAssumption
    DEF IInv, RepliesSpent, TypeOK, Idle, Goto, Finish, store, history
<1>1. ASSUME NEW t \in Tasks, Receive(t) PROVE RepliesSpent'
  BY <1>1, ReceiveFact DEF UploadBundle, FetchBundle
<1>2. ASSUME NEW t \in Tasks, CommitFetch(t) PROVE RepliesSpent'
  <2>1. picked[t] \in Key /\ picked[t] \notin spent /\ spent' = spent \cup {picked[t]}
    BY <1>2, TakeFact
  <2>2. given' = given /\ picked' = picked /\ pc' = [pc EXCEPT ![t] = "reply"]
    BY <1>2 DEF CommitFetch
  <2> QED BY <2>1, <2>2
<1>3. ASSUME NEW t \in Tasks, PickNothing(t) PROVE RepliesSpent'
  BY <1>3 DEF PickNothing, HandsEmpty
<1>4. ASSUME NEW t \in Tasks, FetchReply(t) PROVE RepliesSpent'
  <2>1. /\ \A k \in Key : given'[k] = IF k = picked[t] THEN given[k] + 1 ELSE given[k]
        /\ pc[t] = "reply" /\ pc' = [pc EXCEPT ![t] = "idle"]
        /\ picked' = [picked EXCEPT ![t] = NoKey] /\ spent' = spent
    BY <1>4 DEF FetchReply
  <2>2. NoKey \notin Key
    BY DEF Key
  <2>3. \A k \in Key : given'[k] # 0 => k \in spent'
    BY <2>1, <2>2
  <2>4. ASSUME NEW o \in Tasks, pc'[o] = "reply", picked'[o] # NoKey
        PROVE  /\ picked'[o] \in spent'
               /\ given'[picked'[o]] = 0
               /\ \A p \in Tasks \ {o} : pc'[p] = "reply" => picked'[p] # picked'[o]
    <3>1. /\ o # t /\ pc[o] = "reply" /\ picked'[o] = picked[o] /\ picked[o] # picked[t]
          /\ \A p \in Tasks : pc'[p] = "reply" => pc[p] = "reply" /\ picked'[p] = picked[p]
          /\ picked[o] \in Key
      BY <2>1, <2>4
    <3> QED BY <2>1, <2>4, <3>1
  <2> QED BY <2>3, <2>4
<1>5. ASSUME NEW t \in Tasks, Step(t), ~CommitFetch(t), ~PickNothing(t), ~FetchReply(t)
      PROVE  RepliesSpent'
  BY <1>5 DEF Step, StageBundle, StagePrekeys, CommitUpload, PickPrekey, ConsumePrekey
<1>6. ASSUME NEW t \in Tasks, Fail(t) PROVE RepliesSpent'
  BY <1>6 DEF Fail
<1>7. CASE Crash
  BY <1>7 DEF Crash
<1>8. CASE UNCHANGED <<pc, picked, spent, given>>
  BY <1>8
<1> QED BY <1>1, <1>2, <1>3, <1>4, <1>5, <1>6, <1>7, <1>8 DEF Next, OtherCommit, vars, tasks

\* A reply counts a prekey that was in no reply before.
LEMMA GivenStep ==
  ASSUME IInv, [Next]_vars
  PROVE  NoKeyGivenTwice'
<1> USE DEF IInv, NoKeyGivenTwice, TypeOK, history
<1>1. ASSUME NEW t \in Tasks, FetchReply(t) PROVE NoKeyGivenTwice'
  <2>1. NoKey \notin Key
    BY KeysAssumption DEF Key
  <2>2. \A k \in Key : given'[k] = IF k = picked[t] THEN given[k] + 1 ELSE given[k]
    BY <1>1 DEF FetchReply
  <2>3. picked[t] # NoKey => given[picked[t]] = 0
    BY <1>1 DEF FetchReply, RepliesSpent
  <2> QED BY <2>1, <2>2, <2>3
<1>2. CASE UNCHANGED given
  BY <1>2
<1> QED BY <1>1, <1>2, ReceiveFact DEF Next, Step, UploadBundle, FetchBundle, StageBundle,
           StagePrekeys, CommitUpload, PickPrekey, PickNothing, ConsumePrekey, CommitFetch,
           Fail, OtherCommit, Crash, vars

\* The invariant the theorems below follow from.
THEOREM Invariance == Spec => []IInv
<1>1. Init => IInv
  BY InitInv
<1>2. IInv /\ [Next]_vars => IInv'
  <2> SUFFICES ASSUME IInv, [Next]_vars PROVE IInv'
    OBVIOUS
  <2> QED BY TypeStep, LockStep, UsedStep, FreshStep, PoolStep, PicksStep, HandsStep,
             RepliesStep, GivenStep DEF IInv
<1> QED BY <1>1, <1>2, PTL DEF Spec
-----------------------------------------------------------------------------
(* Theorems *)

\* Every variable of the key namespace keeps its type; in particular a reply
\* has the bundle of an account.
THEOREM TypeCorrect == Spec => []TypeOK
<1>1. IInv => TypeOK
  BY DEF IInv
<1> QED BY <1>1, Invariance, PTL

\* handle_fetch_bundle puts no one-time prekey in two replies.
THEOREM GivenOnce == Spec => []NoKeyGivenTwice
<1>1. IInv => NoKeyGivenTwice
  BY DEF IInv
<1> QED BY <1>1, Invariance, PTL

\* handle_upload_bundle leaves no prekey of an older account in the pool.
THEOREM PoolPublished == Spec => []PoolIsOfBundle
<1>1. IInv => PoolIsOfBundle
  BY DEF IInv
<1> QED BY <1>1, Invariance, PTL

\* No prekey of a published account is lost but by the commit of a fetch.
THEOREM NoneLost == Spec => []KeysConserved
<1>1. IInv => KeysConserved
  BY DEF IInv
<1> QED BY <1>1, Invariance, PTL
-----------------------------------------------------------------------------
(* Replies that mix two accounts *)

Fetching == {"pick", "consume", "commit_fetch", "reply"}

\* The bundle a fetch has read is of an account that is not to be uploaded again.
SeenUsed ==
    \A t \in Tasks : pc[t] \in Fetching =>
        /\ seen[t] \in used
        /\ \A o \in Tasks : pc[o] \in Uploading => req[o].account # seen[t]

\* A prekey picked beside the bundle of another account says that the bundle is gone.
MixedIsReplaced ==
    \A t \in Tasks : pc[t] \in Fetching /\ picked[t] # NoKey /\ picked[t].account # seen[t]
                       => bundle[req[t].user] # seen[t]

\* Uploads draw their accounts from those no client has used, so a bundle that was
\* read is never the account of an upload that starts later.
LEMMA SeenStep ==
  ASSUME IInv, SeenUsed, [Next]_vars
  PROVE  SeenUsed'
<1> USE DEF IInv, SeenUsed, TypeOK, Idle, Goto, Finish, Uploading, Fetching, store, history
<1>1. ASSUME NEW t \in Tasks, NEW u \in Users, NEW a \in Accounts, NEW ids \in SUBSET PrekeyIds,
             NEW repeated \in BOOLEAN, UploadBundle(t, u, a, ids, repeated)
      PROVE  SeenUsed'
  BY <1>1 DEF UploadBundle
<1>2. ASSUME NEW t \in Tasks, NEW u \in Users, FetchBundle(t, u) PROVE SeenUsed'
  <2>1. bundle[u] \in used /\ \A o \in Tasks : pc[o] \in Uploading => req[o].account # bundle[u]
    BY <1>2 DEF FetchBundle, AccountsUsed, UploadsFresh
  <2> QED BY <1>2, <2>1 DEF FetchBundle
<1>3. ASSUME NEW t \in Tasks, Step(t) PROVE SeenUsed'
  BY <1>3 DEF Step, StageBundle, StagePrekeys, CommitUpload, PickPrekey, PickNothing,
              ConsumePrekey, CommitFetch, FetchReply
<1>4. ASSUME NEW t \in Tasks, Fail(t) PROVE SeenUsed'
  BY <1>4 DEF Fail
<1>5. CASE Crash
  BY <1>5 DEF Crash
<1>6. CASE UNCHANGED <<pc, req, seen, used>>
  BY <1>6
<1>7. ASSUME NEW t \in Tasks, Receive(t) PROVE SeenUsed'
  <2> HIDE DEF SeenUsed
  <2> QED BY <1>7, <1>1, <1>2, ReceiveFact
<1> QED BY <1>3, <1>4, <1>5, <1>6, <1>7 DEF Next, OtherCommit, vars, tasks

\* A fetch picks from the pool of the bundle that is published at that moment, and
\* a bundle that was replaced never comes back.
LEMMA MixedStep ==
  ASSUME IInv, SeenUsed, MixedIsReplaced, [Next]_vars
  PROVE  MixedIsReplaced'
<1> USE KeysAssumption
    DEF IInv, MixedIsReplaced, TypeOK, Idle, Goto, Finish, Fetching, store, history
<1>1. ASSUME NEW t \in Tasks, Receive(t) PROVE MixedIsReplaced'
  BY <1>1, ReceiveFact DEF UploadBundle, FetchBundle, HandsEmpty, Uploading
<1>2. ASSUME NEW t \in Tasks, CommitUpload(t) PROVE MixedIsReplaced'
  <2>1. /\ \A u \in Users : bundle'[u] = bundle[u] \/ bundle'[u] = req[t].account
        /\ \A o \in Tasks : pc'[o] \in Fetching =>
              /\ pc[o] \in Fetching /\ picked'[o] = picked[o] /\ seen'[o] = seen[o]
              /\ req'[o] = req[o] /\ req[o].user \in Users
    BY <1>2 DEF CommitUpload, Request
  <2>2. \A o \in Tasks : pc[o] \in Fetching => req[t].account # seen[o]
    BY <1>2 DEF CommitUpload, SeenUsed, Uploading
  <2> QED BY <2>1, <2>2
<1>3. ASSUME NEW t \in Tasks, PickPrekey(t) PROVE MixedIsReplaced'
  <2>1. picked'[t].account = bundle[req[t].user] /\ bundle' = bundle /\ req' = req /\ seen' = seen
    BY <1>3 DEF PickPrekey, PoolIsOfBundle, Request
  <2>2. \A o \in Tasks \ {t} : pc'[o] = pc[o] /\ picked'[o] = picked[o]
    BY <1>3 DEF PickPrekey
  <2> QED BY <2>1, <2>2
<1>4. ASSUME NEW t \in Tasks, Step(t), ~CommitUpload(t), ~PickPrekey(t) PROVE MixedIsReplaced'
  BY <1>4 DEF Step, StageBundle, StagePrekeys, PickNothing, ConsumePrekey, CommitFetch, FetchReply
<1>5. ASSUME NEW t \in Tasks, Fail(t) PROVE MixedIsReplaced'
  BY <1>5 DEF Fail
<1>6. CASE Crash
  BY <1>6 DEF Crash
<1>7. CASE UNCHANGED <<bundle, tasks>>
  BY <1>7 DEF tasks
<1> QED BY <1>1, <1>2, <1>3, <1>4, <1>5, <1>6, <1>7 DEF Next, OtherCommit, vars

\* handle_fetch_bundle answers with the prekey of another account than its bundle's
\* only if that bundle was replaced before the reply.
THEOREM MixedByRace == Spec => []MixedOnlyByReplacement
<1>1. Init => SeenUsed /\ MixedIsReplaced
  BY DEF Init, SeenUsed, MixedIsReplaced, Fetching
<1>2. IInv /\ SeenUsed /\ MixedIsReplaced /\ [Next]_vars => SeenUsed' /\ MixedIsReplaced'
  BY SeenStep, MixedStep
<1>3. MixedIsReplaced => MixedOnlyByReplacement
  BY DEF MixedIsReplaced, MixedOnlyByReplacement, Fetching
<1> QED BY <1>1, <1>2, <1>3, Invariance, PTL DEF Spec
-----------------------------------------------------------------------------
(* Refinement *)

\* The key namespace starts as the empty pool.
LEMMA PoolInit == ASSUME Init PROVE Pool!Init
BY DEF Init, Pool!Init

\* The commit of an upload is the replacement, the commit of a fetch that
\* found a prekey the taking of it; every other step leaves the pool alone.
LEMMA PoolRefined == ASSUME IInv, [Next]_vars PROVE [Pool!Next]_(Pool!vars)
<1>1. ASSUME NEW t \in Tasks, CommitUpload(t) PROVE Pool!Next
  <2> DEFINE u == req[t].user
             a == req[t].account
             ids == req[t].ids
  <2>1. /\ u \in Users /\ a \in Accounts /\ ids \in SUBSET PrekeyIds
        /\ \A v \in Users : bundle[v] # a
        /\ \A k \in uploaded : k.account # a
        /\ bundle' = [bundle EXCEPT ![u] = a]
        /\ pool' = [pool EXCEPT ![u] = KeysOf(a, ids)]
        /\ UNCHANGED spent
    BY <1>1, ReplaceFact
  <2>2. \A k \in spent : k.account # a
    BY <2>1 DEF IInv, SpentUploaded
  <2>3. KeysOf(a, ids) = Pool!KeysOf(a, ids)
    BY DEF KeysOf, Pool!KeysOf
  <2> HIDE DEF u, a, ids
  <2> QED BY <2>1, <2>2, <2>3 DEF Pool!Next, Pool!Replace
<1>2. ASSUME NEW t \in Tasks, CommitFetch(t) PROVE Pool!Next
  <2> DEFINE u == req[t].user
             k == picked[t]
  <2>1. /\ u \in Users /\ k \in pool[u] /\ k \notin spent
        /\ pool' = [pool EXCEPT ![u] = @ \ {k}]
        /\ spent' = spent \cup {k} /\ UNCHANGED bundle
    BY <1>2, TakeFact
  <2>2. \A l \in pool[u] : k.id <= l.id
    BY <1>2 DEF IInv, PicksCurrent, IsFirst, CommitFetch
  <2>3. k.account = bundle[u]
    BY <2>1 DEF IInv, PoolIsOfBundle
  <2> HIDE DEF u, k
  <2> QED BY <2>1, <2>2, <2>3 DEF Pool!Next, Pool!Take
<1>3. CASE UNCHANGED <<store, uploaded, spent>>
  BY <1>3 DEF store, Pool!vars
<1> QED BY <1>1, <1>2, <1>3, StoreStep

\* The handlers of the key namespace, with their transactions, failures and
\* crashes, implement the pool of PrekeyPool.
THEOREM PoolRefinement == Spec => ImplementsPool
<1> QED BY PoolInit, InitInv, PoolRefined, Invariance, PTL DEF Spec, Pool!Spec, ImplementsPool

\* The one_time_prekeys of two users have no prekey in common, whatever uploads
\* and fetches interleave.
THEOREM PrekeysApart == Spec => []Pool!PoolsApart
<1> QED BY PoolRefinement, Pool!PoolsDisjoint, PTL DEF ImplementsPool

\* A one-time prekey whose deletion was committed is in no pool again: neither an
\* upload under way nor a fetch that fails puts it back.
THEOREM PrekeysSpentForGood == Spec => Pool!TakenForGood
<1> QED BY PoolRefinement, Pool!NeverTakenAgain, PTL DEF ImplementsPool
=============================================================================
