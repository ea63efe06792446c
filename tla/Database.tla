------------------------------ MODULE Database ------------------------------
(***************************************************************************)
(* The locking of the one SQLite database as the handlers meet it through  *)
(* sqlx: db.begin() is BEGIN DEFERRED, so the first SELECT of a            *)
(* transaction fixes its snapshot and its first write takes the single     *)
(* write lock, which SQLite refuses at once when another transaction has   *)
(* it or when a commit has made the snapshot stale (SQLITE_BUSY_SNAPSHOT). *)
(* A statement outside a transaction, or a transaction that begins with a  *)
(* write, has no snapshot to lose and waits for the lock.  Only the        *)
(* transactions are here; the tables are in the modules that extend this.  *)
(***************************************************************************)
CONSTANTS Tasks, NoTask

ASSUME NoTaskAssumption == NoTask \notin Tasks

VARIABLES
    writer,     \* the transaction that holds the write lock
    snapshots   \* the transactions whose read snapshot is still current

locks == <<writer, snapshots>>

LocksTypeOK == /\ writer \in Tasks \cup {NoTask}
               /\ snapshots \subseteq Tasks

LocksInit == /\ writer = NoTask
             /\ snapshots = {}

\* The first SELECT of a transaction.
OpenSnapshot(t) == /\ snapshots' = snapshots \cup {t}
                   /\ UNCHANGED writer

\* Slip: the value is read outside the transaction that writes it.
CanUpgradeStale(t) == writer = NoTask

\* May a transaction that has read write as well?
CanUpgrade(t) == writer = NoTask /\ t \in snapshots

Lock(t) == /\ writer' = t
           /\ UNCHANGED snapshots

\* COMMIT of a transaction that wrote: every other open snapshot is now old.
CommitWrites == /\ writer' = NoTask
                /\ snapshots' = {}

\* A writing statement outside a transaction: it waits for the lock, and a
\* statement that changes no row leaves the snapshots as they are.
Autocommit(changes) == /\ writer = NoTask
                       /\ snapshots' = IF changes THEN {} ELSE snapshots
                       /\ UNCHANGED writer

\* Slip: the error path keeps the transaction open.
RollbackForgotten(t) == UNCHANGED locks

\* Dropping a sqlx transaction rolls it back.
Rollback(t) == /\ writer' = IF writer = t THEN NoTask ELSE writer
               /\ snapshots' = snapshots \ {t}

\* The process dies and every open transaction with it.
RollbackAll == /\ writer' = NoTask
               /\ snapshots' = {}
=============================================================================
