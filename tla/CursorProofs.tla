---------------------------- MODULE CursorProofs ----------------------------
(***************************************************************************)
(* A client that follows its cursor loses no message: the theorem about    *)
(* channel_sync in Messages, and the invariant it takes on top of the one   *)
(* of MessagesProofs.                                                      *)
(***************************************************************************)
EXTENDS MessagesProofs

\* The number of m was given before, to a message that is gone.
Reused(m) == \E r \in ledger \ messages : r.channel = m.channel /\ r.seq = m.seq

\* A cursor stands at a number that was issued, or at the start.
CursorsIssued ==
    \A u \in Users, c \in Channels : window[u][c].upto \in SeqsOf(c, ledger) \cup {0}

\* A client syncs a channel once at a time.
OneSync ==
    \A t, o \in Tasks :
        (/\ pc[t] \in {"read", "reply"} /\ pc[o] \in {"read", "reply"}
         /\ req[t].user = req[o].user /\ req[t].channel = req[o].channel)
          => t = o

\* The since of a sync under way is the cursor of its client still.
SinceIsCursor ==
    \A t \in Tasks : pc[t] \in {"read", "reply"} =>
        req[t].since \in {Newest, window[req[t].user][req[t].channel].upto}

\* The range a page is about to add to the window of its client.
PageRange(t) == Covered(req[t], page[t], [from |-> req[t].since, upto |-> req[t].since])

\* A page holds every live message of the range it covers, but for numbers
\* given again since it was read.
PagesComplete ==
    \A t \in Tasks : pc[t] = "reply" =>
        \A m \in messages :
            (/\ m.channel = req[t].channel
             /\ PageRange(t).from < m.seq /\ m.seq <= PageRange(t).upto)
              => m \in page[t] \/ Reused(m)

CInv == /\ IsFiniteSet(messages)
        /\ CursorsIssued
        /\ OneSync
        /\ SinceIsCursor
        /\ PagesComplete
        /\ HiddenOnlyByReuse
-----------------------------------------------------------------------------
(* Pages *)

\* A subset of a finite set has no more elements.
LEMMA SmallerCount ==
  ASSUME NEW T, IsFiniteSet(T), NEW S \in SUBSET T
  PROVE  /\ IsFiniteSet(S)
         /\ Cardinality(S) \in Nat /\ Cardinality(T) \in Nat
         /\ Cardinality(S) <= Cardinality(T)
BY FS_Subset, FS_CardinalityType

\* Above a row of a newest page there is no row outside the page.
LEMMA HighestClosed ==
  ASSUME NEW rows \in SUBSET Row, IsFiniteSet(rows), NEW k \in Nat,
         NEW h \in Highest(rows, k), NEW m \in rows, h.seq <= m.seq
  PROVE  m \in Highest(rows, k)
<1> DEFINE Above(r) == {n \in rows : n.seq > r.seq}
<1>1. \A n \in rows : n.seq \in Nat
  BY DEF Row
<1>2. h \in rows /\ Cardinality(Above(h)) < k
  BY DEF Highest
<1>3. Above(m) \subseteq Above(h)
  BY <1>1, <1>2
<1>4. Above(h) \subseteq rows
  OBVIOUS
<1>5. /\ Cardinality(Above(m)) \in Nat /\ Cardinality(Above(h)) \in Nat
      /\ Cardinality(Above(m)) <= Cardinality(Above(h))
  <2> HIDE DEF Above
  <2> QED BY <1>3, <1>4, SmallerCount
<1>6. Cardinality(Above(m)) < k
  <2> HIDE DEF Above
  <2> QED BY <1>2, <1>5
<1> QED BY <1>6 DEF Highest

\* Below a row of a page after since there is no later row outside the page.
LEMMA LowestClosed ==
  ASSUME NEW rows \in SUBSET Row, IsFiniteSet(rows), NEW k \in Nat,
         NEW h \in Lowest(rows, k), NEW m \in rows, m.seq <= h.seq
  PROVE  m \in Lowest(rows, k)
<1> DEFINE Below(r) == {n \in rows : n.seq < r.seq}
<1>1. \A n \in rows : n.seq \in Nat
  BY DEF Row
<1>2. h \in rows /\ Cardinality(Below(h)) < k
  BY DEF Lowest
<1>3. Below(m) \subseteq Below(h)
  BY <1>1, <1>2
<1>4. Below(h) \subseteq rows
  OBVIOUS
<1>5. /\ Cardinality(Below(m)) \in Nat /\ Cardinality(Below(h)) \in Nat
      /\ Cardinality(Below(m)) <= Cardinality(Below(h))
  <2> HIDE DEF Below
  <2> QED BY <1>3, <1>4, SmallerCount
<1>6. Cardinality(Below(m)) < k
  <2> HIDE DEF Below
  <2> QED BY <1>2, <1>5
<1> QED BY <1>6 DEF Lowest

\* A newest page shorter than its limit has every row: the highest row it left
\* out would have only rows of the page above it.
LEMMA ShortPageIsWhole ==
  ASSUME NEW rows \in SUBSET Row, IsFiniteSet(rows), NEW k \in Nat,
         Cardinality(Highest(rows, k)) < k
  PROVE  Highest(rows, k) = rows
<1> DEFINE rest == rows \ Highest(rows, k)
           restSeqs == {m.seq : m \in rest}
<1>1. Highest(rows, k) \subseteq rows
  BY DEF Highest
<1>2. SUFFICES ASSUME rest # {} PROVE FALSE
  BY <1>1
<1>3. restSeqs # {} /\ restSeqs \subseteq 0..MaxSeq /\ MaxSeq \in Nat
  BY <1>2, ConstantsAssumption DEF Row
<1>4. HighestSeq(restSeqs) \in restSeqs /\ \A n \in restSeqs : n <= HighestSeq(restSeqs)
  <2> HIDE DEF restSeqs
  <2> QED BY <1>3, HighestSeqFact
<1>5. PICK d \in rest : d.seq = HighestSeq(restSeqs)
  BY <1>4
<1> DEFINE above == {n \in rows : n.seq > d.seq}
<1>6. above \subseteq Highest(rows, k)
  <2> SUFFICES ASSUME NEW n \in rows, n.seq > d.seq, n \notin Highest(rows, k) PROVE FALSE
    OBVIOUS
  <2>1. n.seq \in restSeqs
    OBVIOUS
  <2>2. n.seq <= d.seq
    <3> HIDE DEF restSeqs
    <3> QED BY <2>1, <1>4, <1>5
  <2>3. n.seq \in Nat /\ d.seq \in Nat
    BY DEF Row
  <2> QED BY <2>2, <2>3
<1>7. /\ Cardinality(above) \in Nat /\ Cardinality(Highest(rows, k)) \in Nat
      /\ Cardinality(above) <= Cardinality(Highest(rows, k))
  <2>1. IsFiniteSet(Highest(rows, k))
    BY <1>1, SmallerCount
  <2> HIDE DEF above
  <2> QED BY <1>6, <2>1, SmallerCount
<1>8. d \in rows /\ Cardinality(above) < k
  <2> HIDE DEF above
  <2> QED BY <1>7
<1> QED BY <1>8 DEF Highest

\* The SELECT of a sync returns every live row of the range the page covers.
LEMMA PageFact ==
  ASSUME TypeOK, IsFiniteSet(messages), NEW r \in Request, NEW m \in messages,
         m.channel = r.channel,
         Covered(r, Select(r), [from |-> r.since, upto |-> r.since]).from < m.seq,
         m.seq <= Covered(r, Select(r), [from |-> r.since, upto |-> r.since]).upto
  PROVE  m \in Select(r)
<1> DEFINE all == RowsOf(r.channel, messages)
           rows == Select(r)
           seqs == {n.seq : n \in rows}
<1>1. /\ all \in SUBSET Row /\ IsFiniteSet(all) /\ m \in all /\ m.seq \in 1..MaxSeq
      /\ r.size \in Nat /\ 0 < r.size /\ MaxSeq \in Nat
  <2>1. all \subseteq messages /\ messages \subseteq Row /\ m \in all
    BY DEF TypeOK, RowsOf
  <2>2. IsFiniteSet(all)
    BY <2>1, SmallerCount
  <2> QED BY <2>1, <2>2, ConstantsAssumption DEF Row, Request
<1>2. rows \subseteq all /\ \A n \in rows : n.seq \in 1..MaxSeq
  <2>1. rows \subseteq all
    BY DEF Select, Highest, Lowest
  <2> HIDE DEF rows, all
  <2> QED BY <2>1, <1>1 DEF Row
<1>3. CASE r.since = Newest
  <2>1. rows = Highest(all, r.size)
    BY <1>3 DEF Select
  <2>2. CASE Cardinality(rows) < r.size
    BY <1>1, <2>1, <2>2, ShortPageIsWhole
  <2>3. CASE ~(Cardinality(rows) < r.size)
    <3>1. rows # {}
      <4>1. Cardinality({}) = 0
        BY FS_EmptySet
      <4> QED BY <4>1, <2>3, <1>1
    <3>2. seqs # {} /\ seqs \subseteq Nat
      BY <3>1, <1>2
    <3>3. LowestSeq(seqs) \in seqs
      <4> HIDE DEF seqs
      <4> QED BY <3>2, LowestSeqFact
    <3>4. PICK h \in rows : h.seq = LowestSeq(seqs)
      BY <3>3
    <3>5. LowestSeq(seqs) - 1 < m.seq
      BY <1>3, <2>3 DEF Covered
    <3>6. h.seq <= m.seq
      <4> h.seq \in Nat
        BY <3>2, <3>3, <3>4
      <4> HIDE DEF seqs, rows
      <4> QED BY <3>4, <3>5, <1>1
    <3>7. h \in Highest(all, r.size)
      BY <2>1
    <3>8. m \in Highest(all, r.size)
      <4> HIDE DEF all
      <4> QED BY <3>6, <3>7, <1>1, HighestClosed
    <3> QED BY <3>8, <2>1
  <2> QED BY <2>2, <2>3
<1>4. CASE r.since # Newest
  <2> DEFINE later == {n \in all : n.seq > r.since}
  <2>1. rows = Lowest(later, r.size)
    BY <1>4 DEF Select
  <2>2. r.since \in 0..MaxSeq
    BY <1>4 DEF Request, Seqs
  <2>3. r.since < m.seq /\ m.seq <= HighestSeq(seqs \cup {r.since})
    BY <1>4 DEF Covered
  <2>4. later \in SUBSET Row /\ IsFiniteSet(later) /\ m \in later
    <3>1. later \subseteq all /\ m \in later
      BY <1>1, <2>3
    <3> HIDE DEF later, all
    <3> QED BY <3>1, <1>1, SmallerCount
  <2>5. HighestSeq(seqs \cup {r.since}) \in seqs \cup {r.since}
    <3>1. seqs \cup {r.since} \subseteq 0..MaxSeq
      BY <1>2, <2>2
    <3> HIDE DEF seqs
    <3> QED BY <3>1, <1>1, HighestSeqFact
  <2>6. PICK h \in rows : h.seq = HighestSeq(seqs \cup {r.since})
    <3>1. HighestSeq(seqs \cup {r.since}) # r.since
      <4> HIDE DEF seqs
      <4> QED BY <2>2, <2>3, <1>1
    <3> QED BY <3>1, <2>5
  <2>7. h \in Lowest(later, r.size) /\ m.seq <= h.seq
    BY <2>1, <2>3, <2>6
  <2>8. m \in Lowest(later, r.size)
    <3> HIDE DEF later
    <3> QED BY <2>4, <2>7, <1>1, LowestClosed
  <2> QED BY <2>8, <2>1
<1> QED BY <1>3, <1>4
-----------------------------------------------------------------------------
(* Numbers given again *)

\* The store gains a row in a commit only, and no row comes back.
LEMMA StoreStep ==
  ASSUME IInv, [Next]_vars
  PROVE  /\ ledger \subseteq ledger'
         /\ \A r \in ledger : r \in messages' => r \in messages
         /\ \A m \in messages' : \/ m \in messages
                                \/ \E t \in Tasks : CommitMessage(t) /\ m = NewRow(t)
<1> USE DEF IInv, store
<1>1. ledger \subseteq ledger'
  BY LedgerStep
<1>2. ASSUME NEW t \in Tasks, CommitMessage(t), NEW r \in ledger, r \in messages'
      PROVE  r \in messages
  <2>1. r.id # NewRow(t).id
    BY <1>2 DEF CommitMessage, IdsInFlight, IdsOf, NewRow
  <2> QED BY <1>2, <2>1 DEF CommitMessage
<1>3. \/ \E t \in Tasks : CommitMessage(t) /\ messages' = messages \cup {NewRow(t)}
      \/ messages' \subseteq messages
  BY ReceiveFact DEF Next, Accept, Step, ReserveSeq, InsertMessage, CommitMessage, Announce,
     ReadPage, SyncReply, CheckAuthor, MessageRole, RemoveMessage, ChannelRole, DropChannel,
     CheckRole, Fail, SetMod, OtherCommit, Crash, vars
<1> QED BY <1>1, <1>2, <1>3

\* A number once given to a message that is gone stays so.
LEMMA ReusedStep ==
  ASSUME IInv, [Next]_vars, NEW m, Reused(m)
  PROVE  Reused(m)'
BY StoreStep DEF Reused

\* A row committed at or below an issued number takes the number of a deleted
\* one: numbers go up from the highest live row, and none was ever skipped.
LEMMA NewRowFact ==
  ASSUME IInv, [Next]_vars, NEW m \in messages', m \notin messages,
         NEW x \in SeqsOf(m.channel, ledger) \cup {0}, m.seq <= x
  PROVE  Reused(m)'
<1> USE DEF IInv
<1>1. PICK t \in Tasks : CommitMessage(t) /\ m = NewRow(t)
  BY StoreStep
<1> DEFINE c == m.channel
<1>2. m.seq = Top(c) + 1
  BY <1>1 DEF CommitMessage, NumbersCurrent, NewRow
<1>3. Top(c) \in Nat /\ \A n \in SeqsOf(c, messages) : n <= Top(c)
  BY TopFact DEF TypeOK, Seqs
<1>4. PICK q \in ledger : q.channel = c /\ q.seq = x
  <2>1. x # 0
    BY <1>2, <1>3
  <2> QED BY <2>1 DEF SeqsOf, RowsOf
<1>5. q.seq \in Nat
  BY DEF TypeOK, Row
<1>6. PICK r \in ledger : r.channel = c /\ r.seq = m.seq
  <2>1. m.seq = q.seq \/ m.seq \in 1..(q.seq - 1)
    BY <1>2, <1>3, <1>4, <1>5
  <2> QED BY <1>4, <2>1 DEF NoNumberSkipped, SeqsOf, RowsOf
<1>7. r \notin messages
  <2>1. SUFFICES ASSUME r \in messages PROVE FALSE
    OBVIOUS
  <2>2. m.seq \in SeqsOf(c, messages)
    BY <2>1, <1>6 DEF SeqsOf, RowsOf
  <2> QED BY <2>2, <1>2, <1>3
<1>8. r \in ledger' /\ r \notin messages'
  BY <1>7, StoreStep
<1> QED BY <1>6, <1>8 DEF Reused

\* Only finitely many rows are live.
LEMMA FiniteStep ==
  ASSUME IInv, IsFiniteSet(messages), [Next]_vars
  PROVE  IsFiniteSet(messages')
<1>1. CASE \E t \in Tasks : CommitMessage(t)
  BY <1>1, FS_AddElement DEF CommitMessage
<1>2. CASE messages' \subseteq messages
  BY <1>2, FS_Subset
<1> QED BY <1>1, <1>2, StoreStep
-----------------------------------------------------------------------------
(* Syncs *)

\* A sync begins when its client has no other under way in that channel, at its
\* cursor or afresh.
LEMMA ReceiveSync ==
  ASSUME TypeOK, NEW t \in Tasks, Receive(t)
  PROVE  \E r \in Request :
           \E step \in {"reserve", "author", "read", "drop", "drop_role"} :
              /\ Accept(t, step, r)
              /\ step = "read" => /\ ~Syncing(r.user, r.channel)
                                 /\ r.since \in {Newest, window[r.user][r.channel].upto}
<1> PICK u \in Users, c \in Channels :
      \/ \E i \in MsgIds : ChannelSend(t, u, c, i)
      \/ \E i \in MsgIds : DeleteMessage(t, u, c, i)
      \/ \E l \in Limits : ChannelSync(t, u, c, l)
      \/ DeleteChannel(t, u, c)
  BY DEF Receive
<1>1. CASE \E l \in Limits : ChannelSync(t, u, c, l)
  <2> PICK l \in Limits, s \in {Newest, window[u][c].upto} :
         Accept(t, "read", [Ask(u, c) EXCEPT !.since = s, !.size = Clamp(l)])
    BY <1>1 DEF ChannelSync
  <2> DEFINE r == [Ask(u, c) EXCEPT !.since = s, !.size = Clamp(l)]
  <2>1. s \in Seqs \cup {Newest}
    BY DEF TypeOK, Window
  <2>2. r \in Request /\ r.user = u /\ r.channel = c /\ r.since = s
    BY <2>1, AskFact DEF Ask
  <2>3. ~Syncing(u, c)
    BY <1>1 DEF ChannelSync
  <2>4. Accept(t, "read", r)
    OBVIOUS
  <2> HIDE DEF r
  <2> QED BY <2>2, <2>3, <2>4
<1>2. CASE \E i \in MsgIds : ChannelSend(t, u, c, i)
  BY <1>2, AskFact DEF ChannelSend
<1>3. CASE \E i \in MsgIds : DeleteMessage(t, u, c, i)
  BY <1>3, AskFact DEF DeleteMessage
<1>4. CASE DeleteChannel(t, u, c)
  BY <1>4, AskFact DEF DeleteChannel
<1> QED BY <1>1, <1>2, <1>3, <1>4

\* Apart from its beginning, its SELECT and its reply, nothing changes a sync
\* under way, and only a reply moves a cursor or ends without telling less.
LEMMA SyncsKept ==
  ASSUME TypeOK, [Next]_vars, \A t \in Tasks : ~Receive(t) /\ ~SyncReply(t)
  PROVE  /\ window' = window
         /\ \A u \in Users : delivered[u] \subseteq delivered'[u]
         /\ \A t \in Tasks : pc'[t] \in {"read", "reply"} =>
              /\ pc[t] \in {"read", "reply"}
              /\ req'[t] = req[t]
              /\ pc'[t] = "reply" => ReadPage(t) \/ (pc[t] = "reply" /\ page'[t] = page[t])
<1> USE DEF TypeOK, Idle, Goto, Finish, store, tasks, clients
<1>1. ASSUME NEW t \in Tasks, Step(t), ~SyncReply(t)
      PROVE  /\ window' = window
             /\ \A u \in Users : delivered[u] \subseteq delivered'[u]
             /\ \A o \in Tasks : pc'[o] \in {"read", "reply"} =>
                  /\ pc[o] \in {"read", "reply"}
                  /\ req'[o] = req[o]
                  /\ pc'[o] = "reply" => ReadPage(o) \/ (pc[o] = "reply" /\ page'[o] = page[o])
  BY <1>1 DEF Step, ReserveSeq, InsertMessage, CommitMessage, Announce, ReadPage, CheckAuthor,
              MessageRole, RemoveMessage, ChannelRole, CheckRole, DropChannel
<1>2. ASSUME NEW t \in Tasks, Fail(t)
      PROVE  /\ UNCHANGED clients
             /\ \A o \in Tasks : pc'[o] \in {"read", "reply"} =>
                  pc[o] = pc'[o] /\ req'[o] = req[o] /\ page'[o] = page[o]
  BY <1>2 DEF Fail
<1>3. ASSUME Crash
      PROVE  UNCHANGED clients /\ \A o \in Tasks : pc'[o] \notin {"read", "reply"}
  BY <1>3 DEF Crash
<1>4. CASE UNCHANGED <<tasks, clients>>
  BY <1>4
<1> QED BY <1>1, <1>2, <1>3, <1>4 DEF Next, SetMod, OtherCommit, vars
\* The number a page goes up to was issued.
LEMMA PageIssued ==
  ASSUME IInv, CursorsIssued, SinceIsCursor, NEW t \in Tasks, pc[t] = "reply"
  PROVE  PageRange(t).upto \in SeqsOf(req[t].channel, ledger) \cup {0}
<1> DEFINE seqs == {m.seq : m \in page[t]}
<1>1. req[t] \in Request /\ page[t] \in SUBSET Row /\ MaxSeq \in Nat
  BY ConstantsAssumption DEF IInv, TypeOK, Idle
<1>2. seqs \subseteq SeqsOf(req[t].channel, ledger) /\ seqs \subseteq 0..MaxSeq
  BY <1>1 DEF IInv, OnlyCommittedIsTold, SeqsOf, RowsOf, Row
<1>3. CASE req[t].since = Newest
  <2>1. PageRange(t).upto = HighestSeq(seqs \cup {0})
    BY <1>3 DEF PageRange, Covered
  <2>2. seqs \cup {0} \subseteq 0..MaxSeq
    BY <1>1, <1>2
  <2>3. HighestSeq(seqs \cup {0}) \in seqs \cup {0}
    <3> HIDE DEF seqs
    <3> QED BY <2>2, <1>1, HighestSeqFact
  <2> QED BY <2>1, <2>3, <1>2
<1>4. CASE req[t].since # Newest
  <2> DEFINE s == req[t].since
  <2>1. PageRange(t).upto = HighestSeq(seqs \cup {s})
    BY <1>4 DEF PageRange, Covered
  <2>2. s \in SeqsOf(req[t].channel, ledger) \cup {0}
    BY <1>1, <1>4 DEF SinceIsCursor, CursorsIssued, Request
  <2>3. seqs \cup {s} \subseteq 0..MaxSeq
    BY <1>1, <1>2, <1>4 DEF Request, Seqs
  <2>4. HighestSeq(seqs \cup {s}) \in seqs \cup {s}
    <3> HIDE DEF seqs, s
    <3> QED BY <2>3, <1>1, HighestSeqFact
  <2> QED BY <2>1, <2>2, <2>4, <1>2
<1> QED BY <1>3, <1>4

\* A reply moves the cursor of its client to the end of its page and tells
\* the client of every row in it.
LEMMA ReplyFact ==
  ASSUME TypeOK, NEW t \in Tasks, SyncReply(t)
  PROVE  LET u == req[t].user  c == req[t].channel IN
         /\ u \in Users /\ c \in Channels
         /\ window'[u][c].upto = PageRange(t).upto
         /\ window'[u][c].from = IF req[t].since = Newest THEN PageRange(t).from
                                                        ELSE window[u][c].from
         /\ \A v \in Users, d \in Channels : (v # u \/ d # c) => window'[v][d] = window[v][d]
         /\ \A m \in page[t] : m.id \in delivered'[u]
         /\ \A v \in Users : delivered[v] \subseteq delivered'[v]
         /\ pc' = [pc EXCEPT ![t] = "idle"] /\ req' = [req EXCEPT ![t] = NoRequest]
         /\ page' = [page EXCEPT ![t] = {}] /\ pc[t] = "reply"
         /\ UNCHANGED store
<1> DEFINE u == req[t].user
           c == req[t].channel
<1>1. u \in Users /\ c \in Channels /\ pc[t] = "reply"
  BY DEF SyncReply, TypeOK, Idle, Request
<1>2. /\ window'[u][c] = Covered(req[t], page[t], window[u][c])
      /\ \A v \in Users, d \in Channels : (v # u \/ d # c) => window'[v][d] = window[v][d]
  BY <1>1 DEF SyncReply, TypeOK
<1>3. /\ window'[u][c].upto = PageRange(t).upto
      /\ window'[u][c].from = IF req[t].since = Newest THEN PageRange(t).from
                                                     ELSE window[u][c].from
  BY <1>2 DEF Covered, PageRange
<1>4. /\ \A m \in page[t] : m.id \in delivered'[u]
      /\ \A v \in Users : delivered[v] \subseteq delivered'[v]
  BY <1>1 DEF SyncReply, TypeOK, IdsOf
<1> QED BY <1>1, <1>2, <1>3, <1>4 DEF SyncReply, Finish, Goto

\* Cursors move to issued numbers.
LEMMA CursorsStep ==
  ASSUME IInv, CursorsIssued, SinceIsCursor, [Next]_vars
  PROVE  CursorsIssued'
<1> USE DEF IInv, CursorsIssued
<1>1. \A c : SeqsOf(c, ledger) \subseteq SeqsOf(c, ledger')
  BY StoreStep DEF SeqsOf, RowsOf
<1>2. ASSUME NEW t \in Tasks, SyncReply(t) PROVE CursorsIssued'
  <2>1. PageRange(t).upto \in SeqsOf(req[t].channel, ledger) \cup {0}
    BY <1>2, ReplyFact, PageIssued
  <2>2. ASSUME NEW v \in Users, NEW d \in Channels
        PROVE  window'[v][d].upto \in SeqsOf(d, ledger) \cup {0}
    BY <1>2, <2>1, ReplyFact
  <2> QED BY <1>1, <2>2
<1>3. ASSUME NEW t \in Tasks, Receive(t) PROVE CursorsIssued'
  BY <1>1, <1>3, ReceiveFact DEF Accept, clients
<1>4. CASE \A t \in Tasks : ~Receive(t) /\ ~SyncReply(t)
  BY <1>1, <1>4, SyncsKept
<1> QED BY <1>2, <1>3, <1>4

\* Syncs of one client in one channel take turns.
LEMMA TurnsStep ==
  ASSUME TypeOK, OneSync, [Next]_vars
  PROVE  OneSync'
<1> USE DEF OneSync
<1>1. ASSUME NEW t \in Tasks, SyncReply(t) PROVE OneSync'
  BY <1>1, ReplyFact DEF TypeOK
<1>2. ASSUME NEW t \in Tasks, Receive(t) PROVE OneSync'
  BY <1>2, ReceiveSync DEF TypeOK, Accept, Goto, Syncing
<1>3. CASE \A t \in Tasks : ~Receive(t) /\ ~SyncReply(t)
  BY <1>3, SyncsKept
<1> QED BY <1>1, <1>2, <1>3

\* The cursor a sync started from waits for its reply.
LEMMA SinceStep ==
  ASSUME TypeOK, OneSync, SinceIsCursor, [Next]_vars
  PROVE  SinceIsCursor'
<1> USE DEF SinceIsCursor
<1>1. ASSUME NEW t \in Tasks, SyncReply(t) PROVE SinceIsCursor'
  <2>1. ASSUME NEW o \in Tasks, pc'[o] \in {"read", "reply"}
        PROVE  /\ o # t /\ pc[o] \in {"read", "reply"} /\ req'[o] = req[o]
               /\ window'[req[o].user][req[o].channel] = window[req[o].user][req[o].channel]
    <3>1. o # t /\ pc[o] \in {"read", "reply"} /\ req'[o] = req[o] /\ pc[t] = "reply"
      BY <1>1, <2>1, ReplyFact DEF TypeOK
    <3>2. req[o].user # req[t].user \/ req[o].channel # req[t].channel
      BY <3>1 DEF OneSync
    <3>3. req[o].user \in Users /\ req[o].channel \in Channels
      BY <3>1 DEF TypeOK, Idle, Request
    <3> QED BY <1>1, <3>1, <3>2, <3>3, ReplyFact
  <2> QED BY <2>1
<1>2. ASSUME NEW t \in Tasks, Receive(t) PROVE SinceIsCursor'
  BY <1>2, ReceiveSync DEF TypeOK, Accept, Goto, clients
<1>3. CASE \A t \in Tasks : ~Receive(t) /\ ~SyncReply(t)
  BY <1>3, SyncsKept
<1> QED BY <1>1, <1>2, <1>3

\* A page stays complete: what is committed into its range after it was read
\* has a number given before.
LEMMA PagesStep ==
  ASSUME IInv, CInv, [Next]_vars
  PROVE  PagesComplete'
<1> USE DEF CInv
<1>1. ASSUME NEW o \in Tasks, pc'[o] = "reply"
      PROVE  /\ req'[o] = req[o]
             /\ \/ ReadPage(o)
                \/ pc[o] = "reply" /\ page'[o] = page[o]
  <2>1. CASE \A t \in Tasks : ~Receive(t) /\ ~SyncReply(t)
    BY <1>1, <2>1, SyncsKept DEF IInv
  <2>2. ASSUME NEW t \in Tasks, SyncReply(t)
        PROVE  pc[o] = pc'[o] /\ req'[o] = req[o] /\ page'[o] = page[o]
    BY <1>1, <2>2, ReplyFact DEF IInv, TypeOK
  <2>3. ASSUME NEW t \in Tasks, Receive(t)
        PROVE  pc[o] = pc'[o] /\ req'[o] = req[o] /\ page'[o] = page[o]
    BY <1>1, <2>3, ReceiveFact DEF IInv, TypeOK, Accept, Goto
  <2> QED BY <1>1, <2>1, <2>2, <2>3
<1>2. SUFFICES ASSUME NEW o \in Tasks, pc'[o] = "reply", NEW m \in messages',
                      m.channel = req'[o].channel,
                      PageRange(o)'.from < m.seq, m.seq <= PageRange(o)'.upto
               PROVE  m \in page'[o] \/ Reused(m)'
  BY DEF PagesComplete
<1>3. CASE ReadPage(o)
  <2>1. /\ req' = req /\ page'[o] = Select(req[o]) /\ messages' = messages /\ req[o] \in Request
    BY <1>3 DEF ReadPage, IInv, TypeOK, Idle, store
  <2> QED BY <1>2, <2>1, PageFact DEF PageRange, IInv
<1>4. CASE pc[o] = "reply" /\ page'[o] = page[o]
  <2>1. PageRange(o)' = PageRange(o) /\ req'[o] = req[o]
    BY <1>1, <1>2, <1>4 DEF PageRange
  <2>2. CASE m \in messages
    BY <1>2, <1>4, <2>1, <2>2, ReusedStep DEF PagesComplete
  <2>3. CASE m \notin messages
    <3>1. PageRange(o).upto \in SeqsOf(m.channel, ledger) \cup {0}
      BY <1>2, <1>4, <2>1, PageIssued
    <3> QED BY <1>2, <2>1, <2>3, <3>1, NewRowFact
  <2> QED BY <2>2, <2>3
<1> QED BY <1>1, <1>2, <1>3, <1>4
\* A row within the window of a client is in the window before, in the page
\* the client is sent, or new with a number given before.
LEMMA HiddenStep ==
  ASSUME IInv, CInv, [Next]_vars
  PROVE  HiddenOnlyByReuse'
<1> USE DEF CInv
<1>1. SUFFICES ASSUME NEW u \in Users, NEW m \in messages',
                      window'[u][m.channel].from < m.seq, m.seq <= window'[u][m.channel].upto,
                      m.id \notin delivered'[u]
               PROVE  Reused(m)'
  BY DEF HiddenOnlyByReuse, Reused
<1> DEFINE c == m.channel
<1>2. m.channel \in Channels /\ m.seq \in Nat
  <2>1. TypeOK'
    BY TypeStep DEF IInv
  <2> QED BY <2>1 DEF TypeOK, Row
<1>3. CASE window'[u][c] = window[u][c] /\ delivered[u] \subseteq delivered'[u]
  <2>1. CASE m \in messages
    <3>1. Reused(m)
      BY <1>1, <1>3, <2>1 DEF HiddenOnlyByReuse, Reused
    <3> QED BY <3>1, ReusedStep
  <2>2. CASE m \notin messages
    BY <1>1, <1>2, <1>3, <2>2, NewRowFact DEF CursorsIssued
  <2> QED BY <2>1, <2>2
<1>4. ASSUME NEW t \in Tasks, SyncReply(t), u = req[t].user, c = req[t].channel
      PROVE  Reused(m)'
  <2>1. /\ messages' = messages /\ pc[t] = "reply"
        /\ window'[u][c].upto = PageRange(t).upto
        /\ window'[u][c].from = IF req[t].since = Newest THEN PageRange(t).from
                                                       ELSE window[u][c].from
        /\ \A n \in page[t] : n.id \in delivered'[u]
        /\ delivered[u] \subseteq delivered'[u]
    BY <1>4, ReplyFact DEF IInv, store
  <2>2. CASE PageRange(t).from < m.seq
    <3>1. m \in page[t] \/ Reused(m)
      BY <1>1, <1>4, <2>1, <2>2 DEF PagesComplete
    <3> QED BY <1>1, <2>1, <3>1, ReusedStep
  <2>3. CASE ~(PageRange(t).from < m.seq)
    <3>1. req[t].since # Newest
      BY <1>1, <2>1, <2>3
    <3>2. PageRange(t).from = window[u][c].upto
      BY <1>4, <2>1, <3>1 DEF SinceIsCursor, PageRange, Covered
    <3>3. window[u][c].upto \in Nat
      BY <1>2 DEF IInv, TypeOK, Window, Seqs
    <3>4. window[u][c].from < m.seq /\ m.seq <= window[u][c].upto
      BY <1>1, <1>2, <2>1, <2>3, <3>1, <3>2, <3>3
    <3>5. Reused(m)
      BY <1>1, <2>1, <3>4 DEF HiddenOnlyByReuse, Reused
    <3> QED BY <3>5, ReusedStep
  <2> QED BY <2>2, <2>3
<1>5. ASSUME NEW t \in Tasks, SyncReply(t), ~(u = req[t].user /\ c = req[t].channel)
      PROVE  window'[u][c] = window[u][c] /\ delivered[u] \subseteq delivered'[u]
  BY <1>2, <1>5, ReplyFact DEF IInv
<1>6. ASSUME NEW t \in Tasks, Receive(t) PROVE UNCHANGED clients
  BY <1>6, ReceiveFact DEF IInv, Accept, clients
<1>7. CASE \A t \in Tasks : ~Receive(t) /\ ~SyncReply(t)
  BY <1>3, <1>7, SyncsKept DEF IInv
<1> QED BY <1>3, <1>4, <1>5, <1>6, <1>7 DEF clients

\* No client follows a cursor and no row is live at first.
LEMMA InitCursors == ASSUME Init PROVE CInv
BY FS_EmptySet DEF Init, CInv, CursorsIssued, OneSync, SinceIsCursor, PagesComplete,
   HiddenOnlyByReuse

\* A client that follows the cursor of handle_channel_sync, page after page or
\* afresh from the newest one, has every live message it has passed, other
\* than one that took over the number of a deleted message.
THEOREM NothingMissed == Spec => []HiddenOnlyByReuse
<1>1. Init => CInv
  BY InitCursors
<1>2. IInv /\ CInv /\ [Next]_vars => CInv'
  <2> SUFFICES ASSUME IInv, CInv, [Next]_vars PROVE CInv'
    OBVIOUS
  <2>1. IsFiniteSet(messages')
    BY FiniteStep DEF CInv
  <2>2. CursorsIssued' /\ OneSync' /\ SinceIsCursor'
    BY CursorsStep, TurnsStep, SinceStep DEF CInv, IInv
  <2> QED BY <2>1, <2>2, PagesStep, HiddenStep DEF CInv
<1>3. CInv => HiddenOnlyByReuse
  BY DEF CInv
<1> QED BY <1>1, <1>2, <1>3, Invariance, PTL DEF Spec
=============================================================================
