--------------------------- MODULE MessagesProofs ---------------------------
(***************************************************************************)
(* Theorems about Messages, for every number of users, channels, tasks     *)
(* and messages.                                                           *)
(***************************************************************************)
EXTENDS Messages, FiniteSetTheorems, WellFoundedInduction, TLAPS

Sending == {"reserve", "insert", "commit", "announce"}

\* A send carries its message id, a deletion of a channel a text channel, and
\* every task a channel its user may use.
RequestsWellFormed ==
    \A t \in Tasks :
        /\ pc[t] \in Sending => req[t].id \in MsgIds
        /\ pc[t] \in {"drop_role", "drop"} => req[t].channel \in TextChannels
        /\ ~Idle(t) /\ req[t].channel \in DmChannels
             => req[t].user \in Members[req[t].channel]

\* The lock is held by the one task that is about to commit.
LockHolder == \A t \in Tasks : pc[t] = "commit" <=> writer = t

\* A number read in a snapshot that is still current is the next one, and
\* so is one whose transaction holds the lock.
NumbersCurrent ==
    \A t \in Tasks :
        pc[t] = "commit" \/ (pc[t] = "insert" /\ t \in snapshots)
            => held[t] = Top(req[t].channel) + 1

\* While a transaction holds the lock its channel cannot go.
ChannelsHeld == \A t \in Tasks : pc[t] = "commit" => req[t].channel \in channels

\* Live rows were committed, and an id names one committed row.
LedgerComplete == /\ messages \subseteq ledger
                  /\ \A r, q \in ledger : r.id = q.id => r = q

\* The id of a send in flight is its own and, until it commits, nobody's.
IdsInFlight ==
    \A t \in Tasks : pc[t] \in {"reserve", "insert", "commit"} =>
        /\ req[t].id \notin IdsOf(ledger)
        /\ \A o \in Tasks \ {t} : pc[o] \in Sending => req[o].id # req[t].id

\* What a task is about to tell has been committed, in the channel it tells
\* it of.
OnlyCommittedIsTold ==
    \A t \in Tasks :
        /\ pc[t] = "announce" => NewRow(t) \in ledger
        /\ pc[t] = "reply"
             => \A m \in page[t] : m \in ledger /\ m.channel = req[t].channel

\* A deletion under way names a committed message, in a DM one of its own.
RemovalEntitled ==
    \A t \in Tasks : pc[t] \in {"role", "remove"} =>
        \E r \in ledger : /\ r.id = req[t].id
                          /\ r.channel \in DmChannels => r.author = req[t].user

IInv == /\ TypeOK
        /\ RequestsWellFormed
        /\ LockHolder
        /\ NumbersCurrent
        /\ ChannelsHeld
        /\ NoOrphanRows
        /\ LedgerComplete
        /\ IdsInFlight
        /\ OnlyCommittedIsTold
        /\ RemovalEntitled
        /\ NoNumberSkipped
        /\ NothingInvented
        /\ DmStaysPrivate
-----------------------------------------------------------------------------
(* Greatest and least numbers exist. *)

\* The natural numbers are well-founded by a relation that contains <.
LEMMA NatLess ==
  \E R : /\ IsWellFoundedOn(R, Nat)
         /\ \A i, j \in Nat : i < j => <<i, j>> \in R
<1> DEFINE R == OpToRel(<, Nat)
<1>1. IsWellFoundedOn(R, Nat)
  BY NatLessThanWellFounded, Zenon
<1>2. \A i, j \in Nat : i < j => <<i, j>> \in R
  BY Zenon DEF OpToRel
<1> QED BY <1>1, <1>2, Zenon

\* A non-empty set of naturals has a least element.
LEMMA LeastExists ==
  ASSUME NEW U, U \subseteq Nat, U # {}
  PROVE  \E b \in U : \A y \in U : b <= y
<1>1. PICK R : /\ IsWellFoundedOn(R, Nat)
               /\ \A i, j \in Nat : i < j => <<i, j>> \in R
  BY NatLess
<1>2. \E b \in U : \A y \in U : ~ (<<y, b>> \in R)
  <2>1. IsWellFoundedOn(R, Nat) /\ U \subseteq Nat
    BY <1>1
  <2> QED BY <2>1, WFMin, Zenon
<1>3. \A b, y \in U : ~ (<<y, b>> \in R) => ~ (y < b)
  BY <1>1
<1>4. \A b, y \in U : ~ (y < b) => b <= y
  OBVIOUS
<1> QED BY <1>2, <1>3, <1>4

\* HighestSeq of a non-empty set of bounded naturals is its maximum: the
\* least of its upper bounds, which is one of its elements.
LEMMA HighestSeqFact ==
  ASSUME NEW N \in Nat, NEW S, S \subseteq 0..N, S # {}
  PROVE  HighestSeq(S) \in S /\ \A n \in S : n <= HighestSeq(S)
<1> DEFINE U == {x \in Nat : \A n \in S : n <= x}
<1>1. N \in U
  OBVIOUS
<1>2. PICK b \in U : \A y \in U : b <= y
  <2>1. U \subseteq Nat /\ U # {}
    BY <1>1
  <2> HIDE DEF U
  <2> QED BY <2>1, LeastExists
<1>3. b \in S
  <2>1. SUFFICES ASSUME b \notin S PROVE FALSE
    OBVIOUS
  <2>2. b \in Nat /\ \A n \in S : n <= b /\ n # b /\ n \in Nat
    BY <2>1
  <2>3. b > 0
    <3>1. PICK n \in S : TRUE
      OBVIOUS
    <3> QED BY <3>1, <2>2
  <2>4. \A n \in S : n <= b - 1
    BY <2>2
  <2>5. b - 1 \in U
    BY <2>2, <2>3, <2>4
  <2> QED BY <2>2, <2>5, <1>2
<1> QED BY <1>2, <1>3 DEF HighestSeq

\* LowestSeq of a non-empty set of naturals is its minimum.
LEMMA LowestSeqFact ==
  ASSUME NEW S, S \subseteq Nat, S # {}
  PROVE  LowestSeq(S) \in S /\ \A n \in S : LowestSeq(S) <= n
BY LeastExists DEF LowestSeq

\* COALESCE(MAX(seq), 0) is 0 or a live number, and no live number is above it.
LEMMA TopFact ==
  ASSUME messages \subseteq Row, NEW c
  PROVE  /\ Top(c) \in SeqsOf(c, messages) \cup {0}
         /\ \A n \in SeqsOf(c, messages) : n <= Top(c)
         /\ Top(c) \in Seqs
<1>1. SeqsOf(c, messages) \cup {0} \subseteq 0..MaxSeq
  BY ConstantsAssumption DEF SeqsOf, RowsOf, Row
<1>2. MaxSeq \in Nat
  BY ConstantsAssumption
<1> HIDE DEF SeqsOf
<1> QED BY <1>1, <1>2, HighestSeqFact DEF Top, Seqs
-----------------------------------------------------------------------------
(* Type correctness *)

\* A sync asks for a page of 1 to MaxLimit rows whatever limit it names.
LEMMA ClampFact ==
  ASSUME NEW l \in Limits
  PROVE  Clamp(l) \in 1..MaxLimit
BY ConstantsAssumption DEF Clamp

\* The range a sync covers lies within the numbers there are.
LEMMA CoveredFact ==
  ASSUME NEW r \in Request, NEW rows \in SUBSET Row,
         NEW w \in Window
  PROVE  Covered(r, rows, w) \in Window
<1> DEFINE seqs == {m.seq : m \in rows}
<1>1. MaxSeq \in Nat /\ seqs \subseteq 1..MaxSeq
  BY ConstantsAssumption DEF Row
<1>2. CASE r.since = Newest
  <2>1. HighestSeq(seqs \cup {0}) \in Seqs
    <3>1. seqs \cup {0} \subseteq 0..MaxSeq
      BY <1>1
    <3> HIDE DEF seqs
    <3> QED BY <3>1, <1>1, HighestSeqFact DEF Seqs
  <2>2. ASSUME ~(Cardinality(rows) < r.size) PROVE LowestSeq(seqs) - 1 \in Seqs
    <3>1. rows # {}
      <4>1. 0 < r.size
        BY ConstantsAssumption DEF Request
      <4>2. Cardinality({}) = 0
        BY FS_EmptySet
      <4> QED BY <4>1, <4>2, <2>2
    <3>2. seqs # {} /\ seqs \subseteq Nat
      BY <3>1, <1>1
    <3>3. LowestSeq(seqs) \in seqs
      <4> HIDE DEF seqs
      <4> QED BY <3>2, LowestSeqFact
    <3> QED BY <3>3, <1>1 DEF Seqs
  <2>3. (IF Cardinality(rows) < r.size THEN 0 ELSE LowestSeq(seqs) - 1) \in Seqs
    BY <2>2, <1>1 DEF Seqs
  <2> QED BY <2>1, <2>3, <1>2 DEF Covered, Window
<1>3. CASE r.since # Newest
  <2>1. r.since \in Seqs
    BY <1>3 DEF Request
  <2>2. HighestSeq(seqs \cup {r.since}) \in Seqs
    <3>1. seqs \cup {r.since} \subseteq 0..MaxSeq
      BY <1>1, <2>1 DEF Seqs
    <3> HIDE DEF seqs
    <3> QED BY <3>1, <1>1, HighestSeqFact DEF Seqs
  <2> QED BY <2>2, <1>3 DEF Covered, Window
<1> QED BY <1>2, <1>3

\* A request a client makes has the fields of one.
LEMMA AskFact ==
  ASSUME NEW u \in Users, NEW c \in Channels
  PROVE  /\ Ask(u, c) \in Request
         /\ \A i \in MsgIds : [Ask(u, c) EXCEPT !.id = i] \in Request
         /\ \A s \in Seqs \cup {Newest}, l \in Limits :
              [Ask(u, c) EXCEPT !.since = s, !.size = Clamp(l)] \in Request
<1>1. 1 \in 1..MaxLimit
  BY ConstantsAssumption
<1>2. Ask(u, c) \in Request
  BY <1>1 DEF Ask, Request
<1>3. ASSUME NEW i \in MsgIds PROVE [Ask(u, c) EXCEPT !.id = i] \in Request
  BY <1>1 DEF Ask, Request
<1>4. ASSUME NEW s \in Seqs \cup {Newest}, NEW l \in Limits
      PROVE  [Ask(u, c) EXCEPT !.since = s, !.size = Clamp(l)] \in Request
  <2>1. Clamp(l) \in 1..MaxLimit
    BY ClampFact
  <2> HIDE DEF Clamp
  <2> QED BY <2>1 DEF Ask, Request
<1> QED BY <1>2, <1>3, <1>4

\* Every request names its user and channel, and a deletion of a channel a
\* text channel its user may delete from.
LEMMA ReceiveFact ==
  ASSUME TypeOK, NEW t \in Tasks, Receive(t)
  PROVE  \E r \in Request :
           \E step \in {"reserve", "author", "read", "drop", "drop_role"} :
              /\ Accept(t, step, r)
              /\ step = "reserve" => r.id \in MsgIds /\ FreshId(r.id)
              /\ step \in {"drop", "drop_role"} => r.channel \in TextChannels
<1> PICK u \in Users, c \in Channels :
      \/ \E i \in MsgIds : ChannelSend(t, u, c, i)
      \/ \E i \in MsgIds : DeleteMessage(t, u, c, i)
      \/ \E l \in Limits : ChannelSync(t, u, c, l)
      \/ DeleteChannel(t, u, c)
  BY DEF Receive
<1>1. CASE \E i \in MsgIds : ChannelSend(t, u, c, i)
  <2> PICK i \in MsgIds : ChannelSend(t, u, c, i)
    BY <1>1
  <2>1. /\ [Ask(u, c) EXCEPT !.id = i] \in Request
        /\ [Ask(u, c) EXCEPT !.id = i].id = i
    BY AskFact DEF Ask
  <2> QED BY <2>1 DEF ChannelSend
<1>2. CASE \E i \in MsgIds : DeleteMessage(t, u, c, i)
  <2> PICK i \in MsgIds : DeleteMessage(t, u, c, i)
    BY <1>2
  <2> QED BY AskFact DEF DeleteMessage
<1>3. CASE \E l \in Limits : ChannelSync(t, u, c, l)
  <2> PICK l \in Limits, s \in {Newest, window[u][c].upto} :
         Accept(t, "read", [Ask(u, c) EXCEPT !.since = s, !.size = Clamp(l)])
    BY <1>3 DEF ChannelSync
  <2> s \in Seqs \cup {Newest}
    BY DEF TypeOK, Window
  <2> QED BY AskFact
<1>4. CASE DeleteChannel(t, u, c)
  <2> Ask(u, c) \in Request /\ Ask(u, c).channel = c
    BY AskFact DEF Ask
  <2> QED BY <1>4 DEF DeleteChannel
<1> QED BY <1>1, <1>2, <1>3, <1>4

\* Every step keeps the types: the guard of ReserveSeq keeps the number in range,
\* the clamp the size of a page.
LEMMA TypeStep ==
  ASSUME TypeOK, RequestsWellFormed, NumbersCurrent, [Next]_vars
  PROVE  TypeOK'
<1> USE DEF TypeOK, LocksTypeOK, store, tasks, clients, Idle, Goto, DbSteps, locks,
            OpenSnapshot, Lock, CommitWrites, Autocommit, Rollback, RollbackAll
<1>1. ASSUME NEW t \in Tasks, Receive(t) PROVE TypeOK'
  BY <1>1, ReceiveFact DEF Accept
<1>2. ASSUME NEW t \in Tasks, ReserveSeq(t) PROVE TypeOK'
  <2>1. Top(req[t].channel) \in Nat /\ Top(req[t].channel) + 1 \in Seqs
    BY <1>2, TopFact, ConstantsAssumption DEF ReserveSeq, Seqs
  <2> QED BY <1>2, <2>1 DEF ReserveSeq
<1>3. ASSUME NEW t \in Tasks, InsertMessage(t) PROVE TypeOK'
  BY <1>3 DEF InsertMessage
<1>4. ASSUME NEW t \in Tasks, CommitMessage(t) PROVE TypeOK'
  <2>1. held[t] \in 1..MaxSeq
    BY <1>4, TopFact, ConstantsAssumption DEF CommitMessage, NumbersCurrent, Seqs
  <2>2. NewRow(t) \in Row
    BY <1>4, <2>1 DEF CommitMessage, NewRow, Row, Request, RequestsWellFormed, Sending
  <2> QED BY <1>4, <2>2 DEF CommitMessage
<1>5. ASSUME NEW t \in Tasks, Announce(t) PROVE TypeOK'
  <2>1. req[t].id \in MsgIds
    BY <1>5 DEF Announce, RequestsWellFormed, Sending
  <2>2. delivered' \in [Users -> SUBSET MsgIds]
    BY <1>5, <2>1 DEF Announce
  <2> QED BY <1>5, <2>2, ConstantsAssumption DEF Announce, Finish, Seqs
<1>6. ASSUME NEW t \in Tasks, ReadPage(t) PROVE TypeOK'
  <2>1. Select(req[t]) \in SUBSET Row
    BY DEF Select, Highest, Lowest, RowsOf
  <2> QED BY <1>6, <2>1 DEF ReadPage
<1>7. ASSUME NEW t \in Tasks, SyncReply(t) PROVE TypeOK'
  <2>1. req[t] \in Request /\ req[t].user \in Users /\ req[t].channel \in Channels
    BY <1>7 DEF SyncReply, Request
  <2>2. Covered(req[t], page[t], window[req[t].user][req[t].channel]) \in Window
    BY <2>1, CoveredFact
  <2>3. window' \in [Users -> [Channels -> Window]]
    BY <1>7, <2>1, <2>2 DEF SyncReply
  <2>4. delivered' \in [Users -> SUBSET MsgIds]
    BY <1>7, <2>1 DEF SyncReply, IdsOf, Row
  <2> QED BY <1>7, <2>3, <2>4, ConstantsAssumption DEF SyncReply, Finish, Seqs
<1>8. ASSUME NEW t \in Tasks, CheckAuthor(t) PROVE TypeOK'
  <2>1. /\ pc[t] = "author" /\ UNCHANGED <<store, mods, locks, clients>>
        /\ \/ Finish(t)
           \/ Goto(t, "remove") /\ UNCHANGED <<req, held, page>>
           \/ Goto(t, "role") /\ UNCHANGED <<req, held, page>>
    BY <1>8 DEF CheckAuthor
  <2> QED BY <2>1, ConstantsAssumption DEF Finish, Seqs
<1>9. ASSUME NEW t \in Tasks, MessageRole(t) \/ ChannelRole(t) PROVE TypeOK'
  <2>1. ~Idle(t) /\ (CheckRole(t, "remove") \/ CheckRole(t, "drop"))
    BY <1>9 DEF MessageRole, ChannelRole
  <2>2. 0 \in Seqs
    BY ConstantsAssumption DEF Seqs
  <2>3. CASE CheckRole(t, "remove")
    BY <2>1, <2>2, <2>3 DEF CheckRole, Finish
  <2>4. CASE CheckRole(t, "drop")
    BY <2>1, <2>2, <2>4 DEF CheckRole, Finish
  <2> QED BY <2>1, <2>3, <2>4
<1>10. ASSUME NEW t \in Tasks, RemoveMessage(t) PROVE TypeOK'
  BY <1>10, ConstantsAssumption DEF RemoveMessage, Finish, Seqs
<1>11. ASSUME NEW t \in Tasks, DropChannel(t) PROVE TypeOK'
  BY <1>11, ConstantsAssumption DEF DropChannel, Finish, Seqs
<1>12. ASSUME NEW t \in Tasks, Fail(t) PROVE TypeOK'
  BY <1>12, ConstantsAssumption DEF Fail, Finish, Seqs
<1>13. ASSUME NEW u \in Users, SetMod(u) PROVE TypeOK'
  BY <1>13 DEF SetMod
<1>14. CASE OtherCommit
  BY <1>14 DEF OtherCommit
<1>15. CASE Crash
  BY <1>15, ConstantsAssumption DEF Crash, Seqs
<1>16. CASE UNCHANGED vars
  BY <1>16 DEF vars
<1> QED BY <1>1, <1>2, <1>3, <1>4, <1>5, <1>6, <1>7, <1>8, <1>9, <1>10, <1>11,
           <1>12, <1>13, <1>14, <1>15, <1>16 DEF Next, Step
-----------------------------------------------------------------------------
(* The inductive invariant *)

\* The empty store with no request under way satisfies the invariant.
LEMMA InitInv == ASSUME Init PROVE IInv
<1>1. TypeOK
  BY ConstantsAssumption DEF Init, TypeOK, LocksInit, LocksTypeOK, Idle, Seqs, Window
<1> QED BY <1>1, ConstantsAssumption, NoTaskAssumption
        DEF Init, LocksInit, IInv, RequestsWellFormed, LockHolder, NumbersCurrent, ChannelsHeld,
            NoOrphanRows, LedgerComplete, IdsInFlight, OnlyCommittedIsTold,
            RemovalEntitled, NoNumberSkipped, NothingInvented, DmStaysPrivate, Sending, Idle, IdsOf

\* A request keeps the user, channel and id it was accepted with until it ends.
LEMMA RequestsStep ==
  ASSUME TypeOK, RequestsWellFormed, [Next]_vars
  PROVE  RequestsWellFormed'
<1> USE DEF RequestsWellFormed, TypeOK, Idle, Goto, Sending, Finish, DbSteps
<1>1. ASSUME NEW t \in Tasks, Receive(t) PROVE RequestsWellFormed'
  BY <1>1, ReceiveFact DEF Accept, CanAccess
<1>2. ASSUME NEW t \in Tasks, Step(t) PROVE RequestsWellFormed'
  BY <1>2 DEF Step, ReserveSeq, InsertMessage, CommitMessage, Announce, ReadPage,
              SyncReply, CheckAuthor, MessageRole, RemoveMessage, ChannelRole,
              CheckRole, DropChannel
<1>3. ASSUME NEW t \in Tasks, Fail(t) PROVE RequestsWellFormed'
  BY <1>3 DEF Fail
<1>4. CASE Crash
  BY <1>4 DEF Crash
<1>5. CASE UNCHANGED tasks
  BY <1>5 DEF tasks
<1> QED BY <1>1, <1>2, <1>3, <1>4, <1>5 DEF Next, SetMod, OtherCommit, vars

\* An insert takes the lock, its commit, its failure or a crash gives it back,
\* and no statement of another task writes while it is held.
LEMMA LockStep ==
  ASSUME TypeOK, LockHolder, [Next]_vars
  PROVE  LockHolder'
<1> USE NoTaskAssumption
    DEF LockHolder, TypeOK, LocksTypeOK, Idle, Goto, Finish, locks, OpenSnapshot, CanUpgrade,
        Lock, CommitWrites, Autocommit, Rollback, RollbackAll
<1>1. ASSUME NEW t \in Tasks, Receive(t) PROVE LockHolder'
  BY <1>1, ReceiveFact DEF Accept
<1>2. ASSUME NEW t \in Tasks, Step(t) PROVE LockHolder'
  BY <1>2 DEF Step, ReserveSeq, InsertMessage, CommitMessage, Announce, ReadPage,
              SyncReply, CheckAuthor, MessageRole, RemoveMessage, ChannelRole,
              CheckRole, DropChannel
<1>3. ASSUME NEW t \in Tasks, Fail(t) PROVE LockHolder'
  BY <1>3 DEF Fail
<1>4. CASE Crash
  BY <1>4 DEF Crash
<1>5. CASE UNCHANGED <<pc, writer>>
  BY <1>5
<1> QED BY <1>1, <1>2, <1>3, <1>4, <1>5 DEF Next, SetMod, OtherCommit, vars, tasks

\* A send starts with an id no row and no other send has, and commits it once.
LEMMA IdsStep ==
  ASSUME TypeOK, IdsInFlight, [Next]_vars
  PROVE  IdsInFlight'
<1> USE DEF IdsInFlight, TypeOK, Idle, Goto, Finish, Sending, store
<1>1. ASSUME NEW t \in Tasks, Receive(t) PROVE IdsInFlight'
  BY <1>1, ReceiveFact DEF Accept, FreshId
<1>2. ASSUME NEW t \in Tasks, CommitMessage(t) PROVE IdsInFlight'
  <2>1. IdsOf(ledger') = IdsOf(ledger) \cup {req[t].id}
    <3>1. ledger' = ledger \cup {NewRow(t)} /\ NewRow(t).id = req[t].id
      BY <1>2 DEF CommitMessage, NewRow
    <3> HIDE DEF NewRow
    <3> QED BY <3>1 DEF IdsOf
  <2> HIDE DEF TypeOK
  <2>2. pc \in [Tasks -> DbSteps \cup {"idle", "reply"}]
    BY DEF TypeOK
  <2> QED BY <1>2, <2>1, <2>2 DEF CommitMessage, IdsOf
<1>3. ASSUME NEW t \in Tasks, Step(t), ~CommitMessage(t) PROVE IdsInFlight'
  BY <1>3 DEF Step, ReserveSeq, InsertMessage, Announce, ReadPage, SyncReply, CheckAuthor,
              MessageRole, RemoveMessage, ChannelRole, CheckRole, DropChannel
<1>4. ASSUME NEW t \in Tasks, Fail(t) PROVE IdsInFlight'
  BY <1>4 DEF Fail
<1>5. CASE Crash
  BY <1>5 DEF Crash
<1>6. CASE UNCHANGED <<pc, req, ledger>>
  BY <1>6
<1> QED BY <1>1, <1>2, <1>3, <1>4, <1>5, <1>6 DEF Next, SetMod, OtherCommit, vars, tasks

\* The ledger changes in a commit only, and the live rows then grow with it.
LEMMA LedgerStep ==
  ASSUME TypeOK, LedgerComplete, IdsInFlight, [Next]_vars
  PROVE  LedgerComplete' /\ ledger \subseteq ledger'
<1> USE DEF LedgerComplete, store
<1>1. ASSUME NEW t \in Tasks, CommitMessage(t) PROVE LedgerComplete'
  <2>1. \A r \in ledger : r.id # NewRow(t).id
    BY <1>1 DEF CommitMessage, IdsInFlight, IdsOf, NewRow
  <2> QED BY <1>1, <2>1 DEF CommitMessage
<1>2. ASSUME NEW t \in Tasks, RemoveMessage(t) \/ DropChannel(t) PROVE LedgerComplete'
  BY <1>2 DEF RemoveMessage, DropChannel
<1>3. CASE UNCHANGED <<messages, ledger>>
  BY <1>3
<1>4. \/ \E t \in Tasks : CommitMessage(t)
      \/ \E t \in Tasks : RemoveMessage(t) \/ DropChannel(t)
      \/ UNCHANGED <<messages, ledger>>
  BY ReceiveFact DEF Next, Accept, Step, ReserveSeq, InsertMessage, Announce, ReadPage,
     SyncReply, CheckAuthor, MessageRole, ChannelRole, CheckRole, Fail, SetMod,
     OtherCommit, Crash, vars
<1> QED BY <1>1, <1>2, <1>3, <1>4 DEF CommitMessage, RemoveMessage, DropChannel

\* A send announces the row it has committed, a sync replies with rows it has read.
LEMMA ToldStep ==
  ASSUME TypeOK, LedgerComplete, IdsInFlight, OnlyCommittedIsTold, [Next]_vars
  PROVE  OnlyCommittedIsTold'
<1> USE LedgerStep DEF OnlyCommittedIsTold, TypeOK, Idle, Goto, Finish, NewRow, store
<1>1. ASSUME NEW t \in Tasks, Receive(t) PROVE OnlyCommittedIsTold'
  BY <1>1, ReceiveFact DEF Accept
<1>2. ASSUME NEW t \in Tasks, ReadPage(t) PROVE OnlyCommittedIsTold'
  <2>1. \A m \in Select(req[t]) : m \in ledger /\ m.channel = req[t].channel
    BY DEF Select, Lowest, Highest, RowsOf, LedgerComplete
  <2> HIDE DEF Select
  <2> QED BY <1>2, <2>1 DEF ReadPage
<1>3. ASSUME NEW t \in Tasks, Step(t), ~ReadPage(t) PROVE OnlyCommittedIsTold'
  BY <1>3 DEF Step, ReserveSeq, InsertMessage, CommitMessage, Announce, SyncReply,
              CheckAuthor, MessageRole, RemoveMessage, ChannelRole, CheckRole, DropChannel
<1>4. ASSUME NEW t \in Tasks, Fail(t) PROVE OnlyCommittedIsTold'
  BY <1>4 DEF Fail
<1>5. CASE Crash
  BY <1>5 DEF Crash
<1>6. CASE UNCHANGED <<store, tasks>>
  BY <1>6 DEF tasks
<1> QED BY <1>1, <1>2, <1>3, <1>4, <1>5, <1>6 DEF Next, SetMod, OtherCommit, vars

\* A deletion goes on only from a row its user wrote or a row of a text channel.
LEMMA RemovalStep ==
  ASSUME TypeOK, LedgerComplete, IdsInFlight, RemovalEntitled, [Next]_vars
  PROVE  RemovalEntitled'
<1> USE LedgerStep DEF RemovalEntitled, TypeOK, Idle, Goto, Finish, store
<1>1. ASSUME NEW t \in Tasks, Receive(t) PROVE RemovalEntitled'
  BY <1>1, ReceiveFact DEF Accept
<1>2. ASSUME NEW t \in Tasks, CheckAuthor(t) PROVE RemovalEntitled'
  <2>1. ASSUME pc'[t] \in {"role", "remove"}
        PROVE  \E r \in ledger : /\ r.id = req[t].id
                                 /\ r.channel \in DmChannels => r.author = req[t].user
    <3>1. Author(t) # {} /\ (req[t].user \in Author(t) \/ req[t].channel \in TextChannels)
      BY <1>2, <2>1 DEF CheckAuthor
    <3>2. PICK r \in messages : /\ r.id = req[t].id /\ r.channel = req[t].channel
                                /\ r.author = req[t].user \/ r.channel \in TextChannels
      BY <3>1 DEF Author
    <3> QED BY <3>2 DEF LedgerComplete, TextChannels
  <2>2. \A o \in Tasks : pc'[o] \in {"role", "remove"} => req'[o] = req[o]
    BY <1>2 DEF CheckAuthor
  <2>3. \A o \in Tasks \ {t} : pc'[o] = pc[o]
    BY <1>2 DEF CheckAuthor
  <2> QED BY <2>1, <2>2, <2>3
<1>3. ASSUME NEW t \in Tasks, Step(t), ~CheckAuthor(t) PROVE RemovalEntitled'
  BY <1>3 DEF Step, ReserveSeq, InsertMessage, CommitMessage, Announce, ReadPage, SyncReply,
              MessageRole, RemoveMessage, ChannelRole, CheckRole, DropChannel
<1>4. ASSUME NEW t \in Tasks, Fail(t) PROVE RemovalEntitled'
  BY <1>4 DEF Fail
<1>5. CASE Crash
  BY <1>5 DEF Crash
<1>6. CASE UNCHANGED <<pc, req, ledger>>
  BY <1>6
<1> QED BY <1>1, <1>2, <1>3, <1>4, <1>5, <1>6 DEF Next, SetMod, OtherCommit, vars, tasks

\* The numbers of a channel change with its messages only.
LEMMA TopStable ==
  ASSUME messages' = messages
  PROVE  \A c : Top(c)' = Top(c)
BY DEF Top, SeqsOf, RowsOf

\* A number read from the snapshot stays the next one: whoever changes the rows of
\* a channel makes every other snapshot stale.
LEMMA NumbersStep ==
  ASSUME TypeOK, LockHolder, NumbersCurrent, NoOrphanRows, [Next]_vars
  PROVE  NumbersCurrent'
<1> USE NoTaskAssumption
    DEF NumbersCurrent, LockHolder, TypeOK, LocksTypeOK, Idle, Goto, Finish, store, locks,
        OpenSnapshot, CanUpgrade, Lock, CommitWrites, Autocommit, Rollback, RollbackAll
<1>1. ASSUME NEW t \in Tasks, Receive(t) PROVE NumbersCurrent'
  BY <1>1, ReceiveFact, TopStable DEF Accept
<1>2. ASSUME NEW t \in Tasks, CommitMessage(t) PROVE NumbersCurrent'
  BY <1>2 DEF CommitMessage
<1>3. ASSUME NEW t \in Tasks, RemoveMessage(t) PROVE NumbersCurrent'
  <2>1. CASE req[t].id \in IdsOf(messages)
    BY <1>3, <2>1 DEF RemoveMessage
  <2>2. CASE req[t].id \notin IdsOf(messages)
    <3>1. messages' = messages
      BY <1>3, <2>2 DEF RemoveMessage, IdsOf
    <3> QED BY <1>3, <2>2, <3>1, TopStable DEF RemoveMessage
  <2> QED BY <2>1, <2>2
<1>4. ASSUME NEW t \in Tasks, DropChannel(t) PROVE NumbersCurrent'
  <2>1. CASE req[t].channel \in channels
    BY <1>4, <2>1 DEF DropChannel
  <2>2. CASE req[t].channel \notin channels
    <3>1. messages' = messages
      BY <1>4, <2>2 DEF DropChannel, NoOrphanRows
    <3> QED BY <1>4, <2>2, <3>1, TopStable DEF DropChannel
  <2> QED BY <2>1, <2>2
<1>5. ASSUME NEW t \in Tasks, ReserveSeq(t) PROVE NumbersCurrent'
  BY <1>5, TopStable DEF ReserveSeq
<1>6. ASSUME NEW t \in Tasks, InsertMessage(t) PROVE NumbersCurrent'
  BY <1>6, TopStable DEF InsertMessage
<1>7. ASSUME NEW t \in Tasks, Announce(t) \/ ReadPage(t) \/ SyncReply(t)
      PROVE  NumbersCurrent'
  BY <1>7, TopStable DEF Announce, ReadPage, SyncReply
<1>8. ASSUME NEW t \in Tasks, CheckAuthor(t) \/ MessageRole(t) \/ ChannelRole(t)
      PROVE  NumbersCurrent'
  BY <1>8, TopStable DEF CheckAuthor, MessageRole, ChannelRole, CheckRole
<1>9. ASSUME NEW t \in Tasks, Fail(t) PROVE NumbersCurrent'
  BY <1>9, TopStable DEF Fail
<1>10. CASE Crash
  BY <1>10 DEF Crash
<1>11. CASE (\E u \in Users : SetMod(u)) \/ OtherCommit
  BY <1>11, TopStable DEF SetMod, OtherCommit, tasks
<1>12. CASE UNCHANGED vars
  BY <1>12, TopStable DEF vars, tasks
<1> QED BY <1>1, <1>2, <1>3, <1>4, <1>5, <1>6, <1>7, <1>8, <1>9, <1>10, <1>11, <1>12
        DEF Next, Step

\* The foreign key check of an insert outlasts its transaction, because
\* nobody else can write before the commit.
LEMMA ChannelsStep ==
  ASSUME TypeOK, LockHolder, ChannelsHeld, NoOrphanRows, [Next]_vars
  PROVE  ChannelsHeld' /\ NoOrphanRows'
<1> USE NoTaskAssumption
    DEF ChannelsHeld, NoOrphanRows, LockHolder, TypeOK, Idle, Goto, Finish, store, locks,
        Autocommit, Lock
<1>1. ASSUME NEW t \in Tasks, Receive(t) PROVE ChannelsHeld' /\ NoOrphanRows'
  BY <1>1, ReceiveFact DEF Accept
<1>2. ASSUME NEW t \in Tasks, CommitMessage(t) PROVE ChannelsHeld' /\ NoOrphanRows'
  BY <1>2 DEF CommitMessage, NewRow
<1>3. ASSUME NEW t \in Tasks, Step(t), ~CommitMessage(t)
      PROVE  ChannelsHeld' /\ NoOrphanRows'
  BY <1>3 DEF Step, ReserveSeq, InsertMessage, RowFits, Announce, ReadPage, SyncReply,
              CheckAuthor, MessageRole, RemoveMessage, ChannelRole, CheckRole,
              DropChannel
<1>4. ASSUME NEW t \in Tasks, Fail(t) PROVE ChannelsHeld' /\ NoOrphanRows'
  BY <1>4 DEF Fail
<1>5. CASE Crash
  BY <1>5 DEF Crash
<1>6. CASE UNCHANGED <<channels, messages, pc, req>>
  BY <1>6
<1> QED BY <1>1, <1>2, <1>3, <1>4, <1>5, <1>6 DEF Next, SetMod, OtherCommit, vars, tasks

\* A commit takes the number after one that was issued, or the first.
LEMMA SkipStep ==
  ASSUME TypeOK, NumbersCurrent, LedgerComplete, NoNumberSkipped, [Next]_vars
  PROVE  NoNumberSkipped'
<1>1. ASSUME NEW t \in Tasks, CommitMessage(t) PROVE NoNumberSkipped'
  <2> DEFINE c == req[t].channel
  <2>1. ledger' = ledger \cup {NewRow(t)} /\ NewRow(t).channel = c
                                          /\ NewRow(t).seq = Top(c) + 1
    BY <1>1 DEF CommitMessage, NewRow, NumbersCurrent
  <2>2. Top(c) \in Nat /\ (Top(c) = 0 \/ \E r \in ledger : r.channel = c /\ r.seq = Top(c))
    BY TopFact, ConstantsAssumption DEF TypeOK, LedgerComplete, SeqsOf, RowsOf, Seqs
  <2>3. \A d : SeqsOf(d, ledger) \subseteq SeqsOf(d, ledger')
    BY <2>1 DEF SeqsOf, RowsOf
  <2>4. ASSUME NEW s \in 1..Top(c) PROVE s \in SeqsOf(c, ledger)
    <3>1. PICK r \in ledger : r.channel = c /\ r.seq = Top(c)
      BY <2>2, <2>4
    <3>2. s = r.seq \/ s \in 1..(r.seq - 1)
      BY <3>1, <2>2
    <3> QED BY <3>1, <3>2 DEF NoNumberSkipped, SeqsOf, RowsOf
  <2>5. ASSUME NEW r \in ledger', NEW s \in 1..(r.seq - 1)
        PROVE  s \in SeqsOf(r.channel, ledger')
    <3>1. CASE r \in ledger
      BY <3>1, <2>3 DEF NoNumberSkipped
    <3>2. CASE r = NewRow(t)
      <4>1. s \in 1..Top(c)
        BY <3>2, <2>1, <2>2
      <4> QED BY <4>1, <3>2, <2>1, <2>3, <2>4
    <3> QED BY <3>1, <3>2, <2>1
  <2> QED BY <2>5 DEF NoNumberSkipped, SeqsOf, RowsOf
<1>2. CASE UNCHANGED ledger
  BY <1>2 DEF NoNumberSkipped, SeqsOf, RowsOf
<1> QED BY <1>1, <1>2, ReceiveFact
        DEF Next, Accept, Step, ReserveSeq, InsertMessage, Announce, ReadPage, SyncReply,
            CheckAuthor, MessageRole, RemoveMessage, ChannelRole, CheckRole, DropChannel,
            Fail, SetMod, OtherCommit, Crash, vars, store

\* An announcement and a sync tell of committed rows of one channel, which
\* the user may use.
LEMMA ToldRowsStep ==
  ASSUME IInv, [Next]_vars, NEW u \in Users, NEW i \in delivered'[u], i \notin delivered[u]
  PROVE  \E r \in ledger : /\ r.id = i
                           /\ r.channel \in DmChannels => u \in Members[r.channel]
<1> USE DEF IInv, TypeOK
<1>1. ASSUME NEW t \in Tasks, Announce(t)
      PROVE  \E r \in ledger : r.id = i /\ (r.channel \in DmChannels => u \in Members[r.channel])
  <2>1. NewRow(t) \in ledger
    BY <1>1 DEF Announce, OnlyCommittedIsTold
  <2>2. NewRow(t).id = i
    BY <1>1 DEF Announce, NewRow
  <2>3. u \in Audience(req[t].channel)
    BY <1>1 DEF Announce
  <2>4. NewRow(t).channel \in DmChannels => u \in Members[NewRow(t).channel]
    BY <2>3 DEF Audience, NewRow
  <2> QED BY <2>1, <2>2, <2>4
<1>2. ASSUME NEW t \in Tasks, SyncReply(t)
      PROVE  \E r \in ledger : r.id = i /\ (r.channel \in DmChannels => u \in Members[r.channel])
  <2>1. u = req[t].user /\ i \in IdsOf(page[t])
    BY <1>2 DEF SyncReply
  <2>2. PICK m \in page[t] : m.id = i
    BY <2>1 DEF IdsOf
  <2>3. m \in ledger /\ m.channel = req[t].channel
    BY <1>2 DEF SyncReply, OnlyCommittedIsTold
  <2>4. m.channel \in DmChannels => u \in Members[m.channel]
    BY <1>2, <2>1, <2>3 DEF SyncReply, RequestsWellFormed, Idle
  <2> QED BY <2>2, <2>3, <2>4
<1>3. CASE UNCHANGED delivered
  BY <1>3
<1> QED BY <1>1, <1>2, <1>3, ReceiveFact
        DEF Next, Accept, Step, ReserveSeq, InsertMessage, CommitMessage, ReadPage,
            CheckAuthor, MessageRole, RemoveMessage, ChannelRole, CheckRole, DropChannel,
            Fail, SetMod, OtherCommit, Crash, vars, clients

\* Nobody is told of an id that is not committed.
LEMMA InventedStep ==
  ASSUME IInv, [Next]_vars
  PROVE  NothingInvented'
<1> SUFFICES ASSUME NEW u \in Users, NEW i \in delivered'[u]
             PROVE  \E r \in ledger' : r.id = i
  BY DEF NothingInvented, IdsOf
<1>1. \E r \in ledger : r.id = i
  BY ToldRowsStep DEF IInv, NothingInvented, IdsOf
<1> QED BY <1>1, LedgerStep DEF IInv

\* A user who is told of an id is told of the one row it names.
LEMMA PrivateStep ==
  ASSUME IInv, [Next]_vars
  PROVE  DmStaysPrivate'
<1> SUFFICES ASSUME NEW u \in Users, NEW r \in ledger',
                    r.channel \in DmChannels, r.id \in delivered'[u]
             PROVE  u \in Members[r.channel]
  BY DEF DmStaysPrivate
<1>1. LedgerComplete' /\ ledger \subseteq ledger'
  BY LedgerStep DEF IInv
<1>2. PICK q \in ledger : /\ q.id = r.id
                          /\ q.channel \in DmChannels => u \in Members[q.channel]
  <2>1. CASE r.id \in delivered[u]
    BY <2>1 DEF IInv, NothingInvented, DmStaysPrivate, IdsOf
  <2>2. CASE r.id \notin delivered[u]
    BY <2>2, ToldRowsStep
  <2> QED BY <2>1, <2>2
<1>3. q = r
  BY <1>1, <1>2 DEF LedgerComplete
<1> QED BY <1>2, <1>3

\* The invariant the theorems below follow from.
THEOREM Invariance == Spec => []IInv
<1>1. Init => IInv
  BY InitInv
<1>2. IInv /\ [Next]_vars => IInv'
  <2> SUFFICES ASSUME IInv, [Next]_vars PROVE IInv'
    OBVIOUS
  <2> QED BY TypeStep, RequestsStep, LockStep, NumbersStep, ChannelsStep, LedgerStep,
             IdsStep, ToldStep, RemovalStep, SkipStep, InventedStep, PrivateStep DEF IInv
<1> QED BY <1>1, <1>2, PTL DEF Spec
-----------------------------------------------------------------------------
(* Theorems *)

\* Every variable of the message path keeps its type: no number leaves the
\* range of an i64, no page holds anything but rows.
THEOREM TypeCorrect == Spec => []TypeOK
<1>1. IInv => TypeOK
  BY DEF IInv
<1> QED BY <1>1, Invariance, PTL

\* handle_channel_send commits the number SELECT MAX(seq) + 1 would give at
\* that moment, in a channel that exists.
THEOREM NumberReserved == Spec => []ReservedSeqIsNext
<1>1. IInv => ReservedSeqIsNext
  BY DEF IInv, ReservedSeqIsNext, LockHolder, NumbersCurrent, ChannelsHeld
<1> QED BY <1>1, Invariance, PTL

\* No number of a channel is left out when messages are numbered.
THEOREM NumbersDense == Spec => []NoNumberSkipped
<1>1. IInv => NoNumberSkipped
  BY DEF IInv
<1> QED BY <1>1, Invariance, PTL

\* No message is left in a channel that handle_channel_delete removed.
THEOREM NoOrphans == Spec => []NoOrphanRows
<1>1. IInv => NoOrphanRows
  BY DEF IInv
<1> QED BY <1>1, Invariance, PTL

\* Broadcasts and syncs tell of committed messages only.
THEOREM OnlyCommitted == Spec => []NothingInvented
<1>1. IInv => NothingInvented
  BY DEF IInv
<1> QED BY <1>1, Invariance, PTL

\* A message of a DM reaches its two participants only.
THEOREM DmPrivacy == Spec => []DmStaysPrivate
<1>1. IInv => DmStaysPrivate
  BY DEF IInv
<1> QED BY <1>1, Invariance, PTL

\* A message of a DM is removed at its author's request only: a deletion finds
\* the author within the channel it was asked for, and the id it removes is
\* the id of that message.
THEOREM DmRemoval == Spec => DmRemovedByAuthorOnly
<1> DEFINE Authored == \A m \in messages \ messages' : m.channel \in DmChannels =>
                \E t \in Tasks : pc[t] = "remove" /\ req[t].id = m.id /\ req[t].user = m.author
<1>1. ASSUME IInv, [Next]_vars PROVE [Authored]_vars
  <2> SUFFICES ASSUME NEW m \in messages \ messages', m.channel \in DmChannels
               PROVE  \E t \in Tasks : /\ pc[t] = "remove" /\ req[t].id = m.id
                                       /\ req[t].user = m.author
    OBVIOUS
  <2>1. ASSUME NEW t \in Tasks, RemoveMessage(t)
        PROVE  pc[t] = "remove" /\ req[t].id = m.id /\ req[t].user = m.author
    <3>1. pc[t] = "remove" /\ req[t].id = m.id
      BY <2>1 DEF RemoveMessage
    <3>2. PICK r \in ledger : /\ r.id = req[t].id
                              /\ r.channel \in DmChannels => r.author = req[t].user
      BY <3>1, <1>1 DEF IInv, RemovalEntitled
    <3>3. r = m
      BY <3>1, <3>2, <1>1 DEF IInv, LedgerComplete
    <3> QED BY <3>1, <3>2, <3>3
  <2>2. ASSUME NEW t \in Tasks, DropChannel(t) PROVE FALSE
    BY <2>2, <1>1 DEF DropChannel, IInv, RequestsWellFormed, TextChannels
  <2>3. \/ \E t \in Tasks : RemoveMessage(t) \/ DropChannel(t)
        \/ messages \subseteq messages'
    BY <1>1, ReceiveFact
       DEF IInv, Next, Accept, Step, ReserveSeq, InsertMessage, CommitMessage, Announce,
           ReadPage, SyncReply, CheckAuthor, MessageRole, ChannelRole, CheckRole, Fail,
           SetMod, OtherCommit, Crash, vars, store
  <2> QED BY <2>1, <2>2, <2>3
<1> QED BY <1>1, Invariance, PTL DEF Spec, DmRemovedByAuthorOnly
-----------------------------------------------------------------------------
(* What EveryRequestEnds and LockIsReleased rest on *)

\* How many statements a task has before it at most.
Rank(step) ==
    IF step = "idle" THEN 0
    ELSE IF step \in {"announce", "reply", "remove", "drop"} THEN 1
    ELSE IF step \in {"commit", "read", "role", "drop_role"} THEN 2
    ELSE IF step \in {"insert", "author"} THEN 3 ELSE 4

\* Whatever runs, a request comes closer to its end or stays where it is, and its
\* own steps bring it closer.
Descends ==
    \A t \in Tasks :
        /\ ~Idle(t) => pc'[t] = pc[t] \/ Rank(pc'[t]) < Rank(pc[t])
        /\ Step(t) \/ Fail(t) => Rank(pc'[t]) < Rank(pc[t])

\* A step of one task leaves the program counter of every other where it was.
LEMMA DescentFact ==
  ASSUME TypeOK, NEW t \in Tasks, Step(t) \/ Fail(t)
  PROVE  /\ ~Idle(t) /\ Rank(pc'[t]) < Rank(pc[t])
         /\ \A o \in Tasks \ {t} : pc'[o] = pc[o]
<1> USE DEF TypeOK, Idle, Goto, Finish
<1>1. CASE Step(t)
  <2>1. \E next \in {"insert", "commit", "announce", "reply", "role", "remove", "drop", "idle"} :
          /\ pc' = [pc EXCEPT ![t] = next]
          /\ pc[t] # "idle" /\ Rank(next) < Rank(pc[t])
    BY <1>1 DEF Step, ReserveSeq, InsertMessage, CommitMessage, Announce, ReadPage, SyncReply,
                CheckAuthor, MessageRole, RemoveMessage, ChannelRole, CheckRole, DropChannel, Rank
  <2> QED BY <2>1
<1>2. CASE Fail(t)
  BY <1>2 DEF Fail, DbSteps, Rank
<1> QED BY <1>1, <1>2

\* No request runs in circles: every step of a handler is one of at most four it
\* has left, so a task that is answered again and again ends.
THEOREM RequestsDescend == Spec => [][Descends]_vars
<1>1. ASSUME IInv, [Next]_vars PROVE [Descends]_vars
  <2> SUFFICES ASSUME Next PROVE Descends
    BY <1>1
  <2>1. ASSUME NEW t \in Tasks, Step(t) \/ Fail(t) PROVE Rank(pc'[t]) < Rank(pc[t])
    BY <1>1, <2>1, DescentFact DEF IInv
  <2>2. ASSUME NEW t \in Tasks, ~Idle(t) PROVE pc'[t] = pc[t] \/ Rank(pc'[t]) < Rank(pc[t])
    <3>1. ASSUME NEW o \in Tasks, Receive(o) PROVE pc'[t] = pc[t]
      BY <1>1, <2>2, <3>1, ReceiveFact DEF IInv, TypeOK, Accept, Goto, Idle
    <3>2. ASSUME NEW o \in Tasks, Step(o) \/ Fail(o)
          PROVE  pc'[t] = pc[t] \/ Rank(pc'[t]) < Rank(pc[t])
      BY <1>1, <3>2, DescentFact DEF IInv
    <3>3. CASE Crash
      BY <1>1, <2>2, <3>3 DEF Crash, IInv, TypeOK, Idle, DbSteps, Rank
    <3>4. CASE UNCHANGED pc
      BY <3>4
    <3> QED BY <3>1, <3>2, <3>3, <3>4 DEF Next, SetMod, OtherCommit, tasks
  <2> QED BY <2>1, <2>2 DEF Descends
<1> QED BY <1>1, Invariance, PTL DEF Spec

\* Whoever waits for the write lock waits for a transaction about to commit, which
\* itself waits for nobody: no two handlers ever wait for each other, and no
\* failure or crash leaves the lock with a task that is gone.
THEOREM LockAtCommit == Spec => [](\A t \in Tasks : writer = t <=> pc[t] = "commit")
<1>1. IInv => \A t \in Tasks : writer = t <=> pc[t] = "commit"
  BY DEF IInv, LockHolder
<1> QED BY <1>1, Invariance, PTL
-----------------------------------------------------------------------------
(* Refinement *)

\* The message path starts as the empty log with every channel open.
LEMMA LogInit == ASSUME Init PROVE Log!Init
BY DEF Init, Log!Init, IdsOf

\* The commit of a send is the append, a deletion of a live message its
\* removal, the deletion of a channel that still exists the drop; every other
\* step leaves the log alone.
LEMMA LogStep == ASSUME IInv, [Next]_vars PROVE [Log!Next]_(Log!vars)
<1> USE DEF IInv, Log!vars, store
<1>1. ASSUME NEW t \in Tasks, CommitMessage(t) PROVE Log!Next
  <2> DEFINE r == NewRow(t)
             c == req[t].channel
  <2>1. /\ messages' = messages \cup {r} /\ ledger' = ledger \cup {r}
        /\ channels' = channels
    BY <1>1 DEF CommitMessage
  <2>2. r.id = req[t].id /\ r.channel = c /\ r.seq = Top(c) + 1
    BY <1>1 DEF CommitMessage, NewRow, NumbersCurrent
  <2>3. r \in messages'
    BY <2>1
  <2>4. r \in Log!Row
    <3>1. messages' \subseteq Row
      BY TypeStep DEF TypeOK
    <3> QED BY <2>3, <3>1 DEF Row, Log!Row
  <2>5. r.channel \in channels
    BY <1>1, <2>2 DEF CommitMessage, ChannelsHeld
  <2>6. r.id \notin IdsOf(ledger)
    BY <1>1, <2>2 DEF CommitMessage, IdsInFlight
  <2>7. Log!IsNext(r.seq, r.channel)
    <3>1. SeqsOf(c, messages) = Log!SeqsOf(c)
      BY DEF SeqsOf, RowsOf, Log!SeqsOf
    <3>2. /\ Top(c) \in SeqsOf(c, messages) \cup {0}
          /\ \A n \in SeqsOf(c, messages) : n <= Top(c)
          /\ Top(c) \in Nat
      BY TopFact DEF TypeOK, Seqs
    <3>3. SeqsOf(c, messages) \subseteq Nat
      BY DEF TypeOK, SeqsOf, RowsOf, Row
    <3>4. Top(c) + 1 - 1 = Top(c) /\ \A n \in SeqsOf(c, messages) : n < Top(c) + 1
      BY <3>2, <3>3
    <3> QED BY <2>2, <3>1, <3>2, <3>4 DEF Log!IsNext
  <2>8. IdsOf(ledger') = IdsOf(ledger) \cup {r.id}
    <3> HIDE DEF r
    <3> QED BY <2>1 DEF IdsOf
  <2>9. Log!Append
    <3> HIDE DEF r
    <3> QED BY <2>1, <2>4, <2>5, <2>6, <2>7, <2>8 DEF Log!Append, IdsOf
  <2> QED BY <2>9 DEF Log!Next
<1>2. ASSUME NEW t \in Tasks, RemoveMessage(t) PROVE [Log!Next]_(Log!vars)
  <2>1. /\ messages' = {m \in messages : m.id # req[t].id}
        /\ channels' = channels /\ ledger' = ledger
    BY <1>2 DEF RemoveMessage
  <2>2. CASE \E m \in messages : m.id = req[t].id
    <3>1. PICK m \in messages : m.id = req[t].id
      BY <2>2
    <3>2. messages' = messages \ {m}
      BY <2>1, <3>1 DEF LedgerComplete
    <3> QED BY <2>1, <3>2 DEF Log!Next, Log!Remove, IdsOf
  <2>3. CASE \A m \in messages : m.id # req[t].id
    BY <2>1, <2>3 DEF IdsOf
  <2> QED BY <2>2, <2>3
<1>3. ASSUME NEW t \in Tasks, DropChannel(t) PROVE [Log!Next]_(Log!vars)
  <2> DEFINE c == req[t].channel
  <2>1. /\ messages' = {m \in messages : m.channel # c} /\ ledger' = ledger
        /\ channels' = channels \ {c} /\ c \in TextChannels
    BY <1>3 DEF DropChannel, RequestsWellFormed
  <2>2. CASE c \in channels
    BY <2>1, <2>2 DEF Log!Next, Log!Drop, TextChannels, IdsOf
  <2>3. CASE c \notin channels
    BY <2>1, <2>3 DEF NoOrphanRows, IdsOf
  <2> QED BY <2>2, <2>3
<1>4. CASE UNCHANGED store
  BY <1>4 DEF IdsOf
<1>5. \/ \E t \in Tasks : CommitMessage(t) \/ RemoveMessage(t) \/ DropChannel(t)
      \/ UNCHANGED store
  BY ReceiveFact DEF Next, Accept, Step, ReserveSeq, InsertMessage, Announce,
     ReadPage, SyncReply, CheckAuthor, MessageRole, ChannelRole, CheckRole, Fail,
     SetMod, OtherCommit, Crash, vars
<1> QED BY <1>1, <1>2, <1>3, <1>4, <1>5

\* The handlers, with their tasks, snapshots, locks, failures and crashes,
\* implement the atomic log of MessageLog.
THEOREM LogRefinement == Spec => ImplementsLog
<1> QED BY LogInit, InitInv, LogStep, Invariance, PTL DEF Spec, Log!Spec, ImplementsLog

\* Whatever the tasks interleave, no two rows of the messages table have one id or,
\* within a channel, one number.
THEOREM MessagesDistinct == Spec => []Log!LogInv
<1> QED BY LogRefinement, Log!LogDistinct, PTL DEF ImplementsLog

\* No send that was under way brings a message back that handle_channel_delete_message
\* or handle_channel_delete removed.
THEOREM MessagesRemovedForGood == Spec => Log!RemovedForGood
<1> QED BY LogRefinement, Log!LogNeverRestores, PTL DEF ImplementsLog

\* A message appears above every live message of its channel, as handle_channel_sync
\* needs for its since_seq.
THEOREM MessagesOnTop == Spec => Log!NewestOnTop
<1> QED BY LogRefinement, Log!LogAppendsOnTop, PTL DEF ImplementsLog
=============================================================================
