----------------------------- MODULE MessageLog -----------------------------
(***************************************************************************)
(* What the message store of the channel namespace promises, without the  *)
(* transactions, locks and tasks that keep the promise: a set of open      *)
(* channels, each with an append-only numbering of its live messages.      *)
(* Messages.tla is shown to implement it.                                  *)
(***************************************************************************)
EXTENDS Integers, FiniteSets, TLAPS

CONSTANTS Users, Channels, DmChannels, MsgIds, MaxSeq

VARIABLES open,     \* the channels that exist
          log,      \* the live messages
          issued    \* every message id that was ever in the log

vars == <<open, log, issued>>

Row == [id: MsgIds, channel: Channels, author: Users, seq: 1..MaxSeq]

SeqsOf(c) == {m.seq : m \in {r \in log : r.channel = c}}

\* s is one more than the highest live number of c, and 1 in an empty channel.
IsNext(s, c) == /\ s - 1 \in SeqsOf(c) \cup {0}
                /\ \A n \in SeqsOf(c) : n < s

TypeOK == /\ open \subseteq Channels
          /\ log \subseteq Row
          /\ issued \subseteq MsgIds

Init == /\ open = Channels
        /\ log = {}
        /\ issued = {}

\* A message is appended at the next number of an open channel, under a new id.
Append == \E r \in Row :
            /\ r.channel \in open
            /\ r.id \notin issued
            /\ IsNext(r.seq, r.channel)
            /\ log' = log \cup {r}
            /\ issued' = issued \cup {r.id}
            /\ UNCHANGED open

Remove == \E r \in log :
            /\ log' = log \ {r}
            /\ UNCHANGED <<open, issued>>

\* A text channel goes together with every message in it.
Drop == \E c \in open \ DmChannels :
          /\ open' = open \ {c}
          /\ log' = {r \in log : r.channel # c}
          /\ UNCHANGED issued

Next == Append \/ Remove \/ Drop

Spec == Init /\ [][Next]_vars
-----------------------------------------------------------------------------
(* What follows for whoever implements the log *)

\* No two live messages share an id, or a number within their channel.
Distinct == \A r, q \in log :
    (r.id = q.id \/ (r.channel = q.channel /\ r.seq = q.seq)) => r = q

\* A live message has an issued id and an open channel.
Accounted == \A r \in log : r.id \in issued /\ r.channel \in open

LogInv == TypeOK /\ Distinct /\ Accounted

\* A message that was removed, by itself or with its channel, never comes back,
\* nor does another one under its id.
RemovedForGood ==
    [][\A i \in issued : (\A m \in log : m.id # i) => (\A m \in log' : m.id # i)]_vars

\* A new message is numbered above every live message of its channel, so that
\* whoever has read up to the highest number misses nothing that comes later.
NewestOnTop ==
    [][\A r \in log' \ log : \A q \in log : q.channel = r.channel => q.seq < r.seq]_vars

\* Appending, removing and dropping keep the live messages apart.
LEMMA LogInvStep == ASSUME LogInv, [Next]_vars PROVE LogInv'
<1> USE DEF LogInv, TypeOK, Distinct, Accounted
<1>1. CASE Append
  <2> PICK r \in Row : /\ r.channel \in open /\ r.id \notin issued /\ IsNext(r.seq, r.channel)
                       /\ log' = log \cup {r} /\ issued' = issued \cup {r.id} /\ open' = open
    BY <1>1 DEF Append
  <2>1. \A q \in log : q.id # r.id
    OBVIOUS
  <2>2. \A q \in log : q.channel = r.channel => q.seq # r.seq
    BY DEF IsNext, SeqsOf, Row
  <2>3. r.id \in MsgIds
    BY DEF Row
  <2> QED BY <2>1, <2>2, <2>3
<1>2. CASE Remove
  BY <1>2 DEF Remove
<1>3. CASE Drop
  BY <1>3 DEF Drop
<1>4. CASE UNCHANGED vars
  BY <1>4 DEF vars
<1> QED BY <1>1, <1>2, <1>3, <1>4 DEF Next

\* The log tells its messages apart, by their ids and by their numbers.
THEOREM LogDistinct == Spec => []LogInv
<1>1. Init => LogInv
  BY DEF Init, LogInv, TypeOK, Distinct, Accounted
<1> QED BY <1>1, LogInvStep, PTL DEF Spec

\* Only an append brings an id into the log, and it takes one never issued.
THEOREM LogNeverRestores == Spec => RemovedForGood
<1>1. [Next]_vars => [\A i \in issued : (\A m \in log : m.id # i)
                                          => (\A m \in log' : m.id # i)]_vars
  BY DEF Next, Append, Remove, Drop, vars
<1> QED BY <1>1, PTL DEF Spec, RemovedForGood

\* Only an append brings a message into the log, at the next number.
THEOREM LogAppendsOnTop == Spec => NewestOnTop
<1>1. [Next]_vars => [\A r \in log' \ log : \A q \in log :
                        q.channel = r.channel => q.seq < r.seq]_vars
  BY DEF Next, Append, Remove, Drop, IsNext, SeqsOf
<1> QED BY <1>1, PTL DEF Spec, NewestOnTop
=============================================================================
