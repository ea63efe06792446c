------------------------------ MODULE Messages ------------------------------
(***************************************************************************)
(* The message path of the channel namespace (channels.rs): sending,      *)
(* syncing and deleting messages and deleting text channels, as requests  *)
(* of independent tokio tasks over one SQLite database.  Every database   *)
(* statement of a handler is a step of its own, so that the steps of two  *)
(* requests interleave as the code lets them; Database.tla has the locks  *)
(* they meet there.                                                       *)
(***************************************************************************)
EXTENDS Integers, FiniteSets, Database

CONSTANTS
    Users, Admin,          \* the accounts and the one AdminId holds
    Channels, DmChannels,  \* all channels; the others are text channels
    Members,               \* the two participants of each DM channel
    MsgIds,
    Limits, MaxLimit,      \* the limits clients send; the clamp's upper end
    MaxSeq,                \* the greatest sequence number an i64 holds
    NoId, NoRequest, Newest   \* Newest: a sync without since_seq

ASSUME ConstantsAssumption ==
    /\ Admin \in Users
    /\ DmChannels \subseteq Channels
    /\ Members \in [DmChannels -> SUBSET Users]
    /\ Limits \subseteq Int
    /\ MaxLimit \in Nat \ {0}
    /\ MaxSeq \in Nat
    /\ NoId \notin MsgIds
    /\ Newest \notin 0..MaxSeq

VARIABLES
    channels,   \* table channels: the rows that exist
    messages,   \* table messages: the committed rows
    mods,       \* users.is_mod
    pc,         \* what each task does next
    req,        \* the request it serves
    held,       \* the sequence number its transaction has read
    page,       \* the rows its sync has read
    ledger,     \* history: every row ever committed
    delivered,  \* history: the message ids each user was ever told
    window      \* history: the range (from, upto] each user's syncs covered

store == <<channels, messages, ledger>>
tasks == <<pc, req, held, page>>
clients == <<delivered, window>>
vars == <<store, mods, locks, tasks, clients>>

Seqs == 0..MaxSeq
TextChannels == Channels \ DmChannels
Row == [id: MsgIds, channel: Channels, author: Users, seq: 1..MaxSeq]
Request == [user: Users, channel: Channels, id: MsgIds \cup {NoId},
            since: Seqs \cup {Newest}, size: 1..MaxLimit]
Window == [from: Seqs, upto: Seqs]

\* The steps at which a task waits for the database.
DbSteps == {"reserve", "insert", "commit", "announce", "read",
            "author", "role", "remove", "drop_role", "drop"}
-----------------------------------------------------------------------------
RowsOf(c, rows) == {m \in rows : m.channel = c}
SeqsOf(c, rows) == {m.seq : m \in RowsOf(c, rows)}
IdsOf(rows) == {m.id : m \in rows}

LowestSeq(S) == CHOOSE s \in S : \A n \in S : s <= n
HighestSeq(S) == CHOOSE s \in S : \A n \in S : n <= s

\* Slip: COALESCE(MAX(seq), 1).
TopFromOne(c) == HighestSeq(SeqsOf(c, messages) \cup {1})

\* COALESCE(MAX(seq), 0)
Top(c) == HighestSeq(SeqsOf(c, messages) \cup {0})

\* Slip: a DM is open to whoever knows its id.
CanAccessAny(u, c) == c \in channels

\* access_channel: any user may use a text channel, a DM is its members'.
CanAccess(u, c) == /\ c \in channels
                   /\ c \in DmChannels => u \in Members[c]

\* The rooms a broadcast reaches: everyone, or the two members of the DM.
Audience(c) == IF c \in DmChannels THEN Members[c] ELSE Users

\* Slip: limit.min(200)
ClampAbove(l) == IF l > MaxLimit THEN MaxLimit ELSE l

\* limit.clamp(1, 200)
Clamp(l) == IF l < 1 THEN 1 ELSE IF l > MaxLimit THEN MaxLimit ELSE l

\* The k lowest, or the k highest, of a set of rows of one channel.
Lowest(rows, k) == {m \in rows : Cardinality({n \in rows : n.seq < m.seq}) < k}
Highest(rows, k) == {m \in rows : Cardinality({n \in rows : n.seq > m.seq}) < k}

\* Slip: newest rows first whether or not there is a since.
SelectNewest(r) ==
    Highest({m \in RowsOf(r.channel, messages) : r.since = Newest \/ m.seq > r.since},
            r.size)

\* What the SELECT of a sync returns: the first rows after since, or the
\* newest rows when there is no since.
Select(r) ==
    IF r.since = Newest
    THEN Highest(RowsOf(r.channel, messages), r.size)
    ELSE Lowest({m \in RowsOf(r.channel, messages) : m.seq > r.since}, r.size)

Ask(u, c) == [user |-> u, channel |-> c, id |-> NoId, since |-> Newest, size |-> 1]
Idle(t) == pc[t] = "idle"
Goto(t, step) == pc' = [pc EXCEPT ![t] = step]

\* The task ends: its future is dropped and its registers with it.
Finish(t) == /\ Goto(t, "idle")
             /\ req' = [req EXCEPT ![t] = NoRequest]
             /\ held' = [held EXCEPT ![t] = 0]
             /\ page' = [page EXCEPT ![t] = {}]

\* A request that access_channel lets through begins; one it refuses changes
\* nothing, as do channel_list and lookup_user, which only read.
Accept(t, step, r) == /\ Idle(t)
                      /\ CanAccess(r.user, r.channel)
                      /\ Goto(t, step)
                      /\ req' = [req EXCEPT ![t] = r]
                      /\ UNCHANGED <<store, mods, locks, held, page, clients>>
-----------------------------------------------------------------------------
Init == /\ channels = Channels
        /\ messages = {}
        /\ mods = {}
        /\ LocksInit
        /\ pc = [t \in Tasks |-> "idle"]
        /\ req = [t \in Tasks |-> NoRequest]
        /\ held = [t \in Tasks |-> 0]
        /\ page = [t \in Tasks |-> {}]
        /\ ledger = {}
        /\ delivered = [u \in Users |-> {}]
        /\ window = [u \in Users |-> [c \in Channels |-> [from |-> 0, upto |-> 0]]]
-----------------------------------------------------------------------------
(* channel_send *)

\* Uuid::new_v4 is taken to be new: neither stored before nor held by a task.
FreshId(i) == /\ i \notin IdsOf(ledger)
              /\ \A t \in Tasks : ~Idle(t) => req[t].id # i

ChannelSend(t, u, c, i) ==
    /\ FreshId(i)
    /\ Accept(t, "reserve", [Ask(u, c) EXCEPT !.id = i])

\* BEGIN and SELECT MAX(seq) + 1: the snapshot the insert must still match.  The code
\* has no guard at MaxSeq, the greatest i64: there the sum is no integer, and the
\* decoding or the unique index refuses it, with no row written either way.
ReserveSeq(t) ==
    /\ pc[t] = "reserve"
    /\ Top(req[t].channel) < MaxSeq
    /\ held' = [held EXCEPT ![t] = Top(req[t].channel) + 1]
    /\ OpenSnapshot(t)
    /\ Goto(t, "insert")
    /\ UNCHANGED <<store, mods, req, page, clients>>

\* Slip: foreign keys not enforced.
RowFitsAnywhere(t) == held[t] \notin SeqsOf(req[t].channel, messages)

\* What the schema asks of the row: its channel exists, its number is free.
RowFits(t) == /\ req[t].channel \in channels
              /\ held[t] \notin SeqsOf(req[t].channel, messages)

InsertMessage(t) ==
    /\ pc[t] = "insert"
    /\ CanUpgrade(t)
    /\ RowFits(t)
    /\ Lock(t)
    /\ Goto(t, "commit")
    /\ UNCHANGED <<store, mods, req, held, page, clients>>

NewRow(t) == [id |-> req[t].id, channel |-> req[t].channel,
              author |-> req[t].user, seq |-> held[t]]

CommitMessage(t) ==
    /\ pc[t] = "commit"
    /\ messages' = messages \cup {NewRow(t)}
    /\ ledger' = ledger \cup {NewRow(t)}
    /\ CommitWrites
    /\ Goto(t, "announce")
    /\ UNCHANGED <<channels, mods, req, held, page, clients>>

\* Slip: the broadcast does not wait for the commit.
AnnounceEarly(t) ==
    /\ pc[t] \in {"insert", "announce"}
    /\ \E heard \in SUBSET Audience(req[t].channel) :
         delivered' = [u \in Users |->
             IF u \in heard THEN delivered[u] \cup {req[t].id} ELSE delivered[u]]
    /\ Finish(t)
    /\ UNCHANGED <<store, mods, locks, window>>

\* username_of, the broadcast and the ack.  Each socket of the audience gets
\* the message or misses it (offline, full buffer), the sender's too.
Announce(t) ==
    /\ pc[t] = "announce"
    /\ \E heard \in SUBSET Audience(req[t].channel) :
         delivered' = [u \in Users |->
             IF u \in heard THEN delivered[u] \cup {req[t].id} ELSE delivered[u]]
    /\ Finish(t)
    /\ UNCHANGED <<store, mods, locks, window>>
-----------------------------------------------------------------------------
(* channel_sync.  A client follows one cursor per channel: it asks for what *)
(* comes after its cursor, or for the newest page and starts over from it.  *)

Syncing(u, c) == \E t \in Tasks : /\ pc[t] \in {"read", "reply"}
                                  /\ req[t].user = u
                                  /\ req[t].channel = c

ChannelSync(t, u, c, l) ==
    /\ ~Syncing(u, c)
    /\ \E s \in {Newest, window[u][c].upto} :
         Accept(t, "read", [Ask(u, c) EXCEPT !.since = s, !.size = Clamp(l)])

ReadPage(t) ==
    /\ pc[t] = "read"
    /\ page' = [page EXCEPT ![t] = Select(req[t])]
    /\ Goto(t, "reply")
    /\ UNCHANGED <<store, mods, locks, req, held, clients>>

\* The range a reply has covered: a newest page shorter than its limit goes
\* back to the first message, a page after since starts there.
Covered(r, rows, w) ==
    LET seqs == {m.seq : m \in rows} IN
    IF r.since = Newest
    THEN [from |-> IF Cardinality(rows) < r.size THEN 0 ELSE LowestSeq(seqs) - 1,
          upto |-> HighestSeq(seqs \cup {0})]
    ELSE [from |-> w.from, upto |-> HighestSeq(seqs \cup {r.since})]

SyncReply(t) ==
    LET u == req[t].user  c == req[t].channel IN
    /\ pc[t] = "reply"
    /\ delivered' = [delivered EXCEPT ![u] = @ \cup IdsOf(page[t])]
    /\ window' = [window EXCEPT ![u][c] = Covered(req[t], page[t], @)]
    /\ Finish(t)
    /\ UNCHANGED <<store, mods, locks>>
-----------------------------------------------------------------------------
(* channel_delete_message *)

DeleteMessage(t, u, c, i) == Accept(t, "author", [Ask(u, c) EXCEPT !.id = i])

\* Slip: the author looked up by message_id alone.
AuthorAnywhere(t) == {m.author : m \in {r \in messages : r.id = req[t].id}}

\* SELECT author_id WHERE message_id AND channel_id, then the decision: the
\* author and, in a text channel, the admin go on; others need is_mod.
Author(t) == {m.author : m \in {r \in messages : /\ r.id = req[t].id
                                                 /\ r.channel = req[t].channel}}

CheckAuthor(t) ==
    LET c == req[t].channel
        u == req[t].user
        mayRemove == u \in Author(t) \/ (c \in TextChannels /\ u = Admin)
        askRole == ~mayRemove /\ c \in TextChannels IN
    /\ pc[t] = "author"
    /\ \/ /\ Author(t) = {} \/ (~mayRemove /\ ~askRole)
          /\ Finish(t)
       \/ /\ Author(t) # {}
          /\ mayRemove
          /\ Goto(t, "remove")
          /\ UNCHANGED <<req, held, page>>
       \/ /\ Author(t) # {}
          /\ askRole
          /\ Goto(t, "role")
          /\ UNCHANGED <<req, held, page>>
    /\ UNCHANGED <<store, mods, locks, clients>>

\* Slip: no answer for a user who is not a mod.
CheckRoleModOnly(t, step) ==
    /\ req[t].user \in mods
    /\ Goto(t, step)
    /\ UNCHANGED <<req, held, page, store, mods, locks, clients>>

\* is_mod, which sends a mod on to the step and refuses anyone else.
CheckRole(t, step) ==
    /\ \/ /\ req[t].user \in mods
          /\ Goto(t, step)
          /\ UNCHANGED <<req, held, page>>
       \/ /\ req[t].user \notin mods
          /\ Finish(t)
    /\ UNCHANGED <<store, mods, locks, clients>>

MessageRole(t) == pc[t] = "role" /\ CheckRole(t, "remove")

\* DELETE FROM messages WHERE message_id
RemoveMessage(t) ==
    /\ pc[t] = "remove"
    /\ messages' = {m \in messages : m.id # req[t].id}
    /\ Autocommit(req[t].id \in IdsOf(messages))
    /\ Finish(t)
    /\ UNCHANGED <<channels, ledger, mods, clients>>
-----------------------------------------------------------------------------
(* channel_delete: text channels only, by the admin or a mod *)

DeleteChannel(t, u, c) ==
    /\ c \in TextChannels
    /\ Accept(t, IF u = Admin THEN "drop" ELSE "drop_role", Ask(u, c))

ChannelRole(t) == pc[t] = "drop_role" /\ CheckRole(t, "drop")

\* Slip: no cascade.
DropChannelOnly(t) ==
    /\ pc[t] = "drop"
    /\ channels' = channels \ {req[t].channel}
    /\ Autocommit(req[t].channel \in channels)
    /\ Finish(t)
    /\ UNCHANGED <<messages, ledger, mods, clients>>

\* The DELETE and its cascade to messages.
DropChannel(t) ==
    /\ pc[t] = "drop"
    /\ channels' = channels \ {req[t].channel}
    /\ messages' = {m \in messages : m.channel # req[t].channel}
    /\ Autocommit(req[t].channel \in channels)
    /\ Finish(t)
    /\ UNCHANGED <<ledger, mods, clients>>
-----------------------------------------------------------------------------
(* The rest of the server *)

\* set_mod (admin.rs): the admin changes the role of someone else.
SetMod(u) ==
    /\ u # Admin
    /\ mods' = IF u \in mods THEN mods \ {u} ELSE mods \cup {u}
    /\ Autocommit(TRUE)
    /\ UNCHANGED <<store, tasks, clients>>

\* Any other handler commits to tables this module leaves out.
OtherCommit == /\ snapshots # {}
               /\ Autocommit(TRUE)
               /\ UNCHANGED <<store, mods, tasks, clients>>

\* A statement fails (busy, I/O, pool timeout): `?` leaves the handler, and
\* dropping its transaction rolls it back.
Fail(t) ==
    /\ pc[t] \in DbSteps
    /\ Rollback(t)
    /\ Finish(t)
    /\ UNCHANGED <<store, mods, clients>>

\* The process dies: SQLite keeps what was committed, and only that.
Crash == /\ \E t \in Tasks : ~Idle(t)
         /\ pc' = [t \in Tasks |-> "idle"]
         /\ req' = [t \in Tasks |-> NoRequest]
         /\ held' = [t \in Tasks |-> 0]
         /\ page' = [t \in Tasks |-> {}]
         /\ RollbackAll
         /\ UNCHANGED <<store, mods, clients>>
-----------------------------------------------------------------------------
Receive(t) ==
    \E u \in Users, c \in Channels :
      \/ \E i \in MsgIds : ChannelSend(t, u, c, i)
      \/ \E i \in MsgIds : DeleteMessage(t, u, c, i)
      \/ \E l \in Limits : ChannelSync(t, u, c, l)
      \/ DeleteChannel(t, u, c)

Step(t) == \/ ReserveSeq(t)
           \/ InsertMessage(t)
           \/ CommitMessage(t)
           \/ Announce(t)
           \/ ReadPage(t)
           \/ SyncReply(t)
           \/ CheckAuthor(t)
           \/ MessageRole(t)
           \/ RemoveMessage(t)
           \/ ChannelRole(t)
           \/ DropChannel(t)

Next == \/ \E t \in Tasks : Receive(t) \/ Step(t) \/ Fail(t)
        \/ \E u \in Users : SetMod(u)
        \/ OtherCommit
        \/ Crash

Spec == Init /\ [][Next]_vars

\* The failures the database does not leave to chance: an insert it must
\* refuse at once, the busy timeout of a statement waiting for the lock, a
\* number beyond i64.
MustFail(t) == \/ pc[t] = "insert" /\ ~(CanUpgrade(t) /\ RowFits(t))
               \/ pc[t] \in {"remove", "drop"} /\ writer # NoTask
               \/ pc[t] = "reserve" /\ Top(req[t].channel) = MaxSeq

\* tokio polls every ready task again, and SQLite answers every statement.
Answered(t) == Step(t) \/ (MustFail(t) /\ Fail(t))
Fairness == \A t \in Tasks : WF_vars(Answered(t))
FairSpec == Spec /\ Fairness
-----------------------------------------------------------------------------
(* Properties *)

\* Every variable has its type.
TypeOK ==
    /\ channels \subseteq Channels
    /\ messages \subseteq Row
    /\ ledger \subseteq Row
    /\ mods \subseteq Users
    /\ LocksTypeOK
    /\ pc \in [Tasks -> DbSteps \cup {"idle", "reply"}]
    /\ req \in [Tasks -> Request \cup {NoRequest}]
    /\ \A t \in Tasks : ~Idle(t) => req[t] \in Request
    /\ held \in [Tasks -> Seqs]
    /\ page \in [Tasks -> SUBSET Row]
    /\ delivered \in [Users -> SUBSET MsgIds]
    /\ window \in [Users -> [Channels -> Window]]

\* A transaction about to commit holds the lock and a number that is still
\* one more than the highest live one: whatever other sends, deletions and
\* role changes ran since it read MAX(seq), it commits the number it would
\* read now, and the UNIQUE index never has to decide.
ReservedSeqIsNext ==
    \A t \in Tasks : pc[t] = "commit" =>
        /\ writer = t
        /\ req[t].channel \in channels
        /\ held[t] = Top(req[t].channel) + 1

\* Numbers are handed out from 1 up without a gap: deletions free a number
\* again but none was ever skipped, so a client may read a gap as a deletion.
NoNumberSkipped ==
    \A r \in ledger : \A s \in 1..(r.seq - 1) : s \in SeqsOf(r.channel, ledger)

\* A message never outlives its channel, although a send checks the channel
\* long before it inserts and the channel can be deleted in between.
NoOrphanRows == \A m \in messages : m.channel \in channels

\* A client that follows its cursor has been told of every live message at or
\* below it, except one whose number was given to an earlier, deleted message.
\* A page that left out or reordered rows would lose messages for good.
HiddenOnlyByReuse ==
    \A u \in Users : \A m \in messages :
        LET w == window[u][m.channel] IN
        (w.from < m.seq /\ m.seq <= w.upto /\ m.id \notin delivered[u])
            => \E r \in ledger \ messages : r.channel = m.channel /\ r.seq = m.seq

\* Only the two participants of a DM are ever told of a message in it, by a
\* broadcast or by a sync.
DmStaysPrivate ==
    \A u \in Users : \A r \in ledger :
        r.channel \in DmChannels /\ r.id \in delivered[u] => u \in Members[r.channel]

\* Nobody is told of a message that was not committed: neither a send that
\* failed nor one a crash undid was announced before.
NothingInvented == \A u \in Users : delivered[u] \subseteq IdsOf(ledger)

\* A message of a DM disappears only at its author's own request: the staff's
\* right to delete in text channels does not reach it by way of another channel.
DmRemovedByAuthorOnly ==
    [][\A m \in messages \ messages' : m.channel \in DmChannels =>
         \E t \in Tasks : pc[t] = "remove" /\ req[t].id = m.id /\ req[t].user = m.author
      ]_vars

\* The tasks with their snapshots and locks implement one atomic log.
Log == INSTANCE MessageLog
         WITH open <- channels, log <- messages, issued <- IdsOf(ledger)
ImplementsLog == Log!Spec

\* Every request ends: no wait for a lock, stale snapshot, refused row or
\* missing role leaves its task without a next step.
EveryRequestEnds == \A t \in Tasks : pc[t] # "idle" ~> pc[t] = "idle"

\* The single write lock of the database is never kept.
LockIsReleased == \A t \in Tasks : writer = t ~> writer # t
=============================================================================
