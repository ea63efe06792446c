-------------------------- MODULE DirectoryProofs --------------------------
(***************************************************************************)
(* Theorems about Directory, for every number of users, channels, names    *)
(* and tasks, and without a bound on the writes of a row.                  *)
(***************************************************************************)
EXTENDS Directory, TLAPS

\* The label a task was asked for fits what it does.
LabelsFit ==
    \A t \in Tasks :
      /\ pc[t] \in {"create_role", "rename_role", "rename"} => req[t].label \in Names
      /\ pc[t] = "insert" => req[t].label \in Labels
      /\ pc[t] = "find" => req[t].label \in Pairs

\* No two rows share a label, and a row that was never written is absent.
RowsDiffer ==
    /\ \A i, j \in ChannelIds : Exists(i) /\ channels[i] = channels[j] => i = j
    /\ \A i \in ChannelIds : version[i] = 0 => ~Exists(i)

\* The id a creation holds is its own, and not written yet.
IdsAreFresh ==
    \A t \in Tasks : pc[t] \in {"create_role", "insert"} =>
        /\ version[req[t].id] = 0
        /\ \A s \in Tasks \ {t} : ~Idle(s) => req[s].id # req[t].id

\* A DM about to be announced or already acked is the row of its pair.
DmRows ==
    /\ \A t \in Tasks : pc[t] = "announce" /\ page[t][req[t].id].label \in Pairs
          => channels[req[t].id] = page[t][req[t].id].label
    /\ \A p \in Pairs : \A i \in answered[p] : channels[i] = p

\* A list about to be sent has no DM its user is not a member of.
ListsPrivate ==
    \A t \in Tasks : pc[t] = "list_reply" =>
        \A i \in ChannelIds : page[t][i].label \in Pairs => req[t].user \in page[t][i].label

\* A rename or a deletion past its check is by staff, or by someone demoted.
RoleChecked ==
    \A t \in Tasks : pc[t] \in {"rename", "drop"} =>
        req[t].user \in mods \cup {Admin} \/ t \in demoted

IInv == /\ TypeOK
        /\ LabelsFit
        /\ RowsDiffer
        /\ IdsAreFresh
        /\ DmRows
        /\ ListsPrivate
        /\ DmUnseen
        /\ RoleChecked
-----------------------------------------------------------------------------
(* The invariant behind FollowersTold *)

Hidden(w, i) == channels[i] \in Pairs /\ w \notin channels[i]

\* An entry as new as the row has its label, or is blank where it is hidden.
Truthful(w, i, e) ==
    /\ e.version <= version[i]
    /\ e.version = version[i] => e.label = channels[i] \/ Hidden(w, i)

EntriesTruthful ==
    /\ \A w \in Watchers, i \in ChannelIds :
         told[w][i] <= version[i] /\ Truthful(w, i, view[w][i])
    /\ \A t \in Tasks : pc[t] = "announce" =>
         \A w \in Watchers : Truthful(w, req[t].id, page[t][req[t].id])
    /\ \A t \in Tasks : pc[t] = "list_reply" =>
         \A i \in ChannelIds : Truthful(req[t].user, i, page[t][i])

\* The task that wrote the row last, or one that has read it since, is going
\* to announce it.
Carries(t, i) ==
    /\ pc[t] \in {"fetch", "announce"}
    /\ req[t].id = i
    /\ \/ pc[t] = "fetch" /\ req[t].own = version[i]
       \/ pc[t] = "announce" /\ page[t][i].version = version[i]

Excused(w, i) == w \in muted[i] \/ Hidden(w, i) \/ \E t \in Tasks : Carries(t, i)

\* What the last writer of a row is to fetch is there.
OwnersFind == \A t \in Tasks :
    /\ pc[t] \in {"create_role", "insert", "find"} => req[t].own = 0
    /\ pc[t] = "fetch" =>
         /\ req[t].own <= version[req[t].id]
         /\ req[t].own = version[req[t].id] => Exists(req[t].id)

OneList == \A s, t \in Tasks :
    (/\ pc[s] \in {"list", "list_reply"} /\ pc[t] \in {"list", "list_reply"}
     /\ req[s].live /\ req[t].live /\ req[s].user = req[t].user) => s = t

ListsByWatchers == \A t \in Tasks :
    pc[t] \in {"list", "list_reply"} => req[t].user \in Watchers

Knows(w, i) == told[w][i] = version[i] \/ Excused(w, i)

\* Who has listed the channels knows them, and so will who is listing them.
Informed ==
    /\ \A w \in Watchers : status[w] = "following" => \A i \in ChannelIds : Knows(w, i)
    /\ \A t \in Tasks :
         (pc[t] = "list_reply" /\ req[t].live /\ status[req[t].user] = "listing")
         => \A i \in ChannelIds : Knows(req[t].user, i) \/ page[t][i].version = version[i]

CInv == /\ EntriesTruthful
        /\ OwnersFind
        /\ OneList
        /\ ListsByWatchers
        /\ Informed
-----------------------------------------------------------------------------
\* Two different users are a pair, and a pair is no name.
LEMMA PairFact ==
  /\ \A u, v \in Users : u # v => {u, v} \in Pairs
  /\ \A l \in Pairs : l \in Labels /\ l \notin Names /\ l # Absent
  /\ \A n \in Names : n \in Labels /\ n # Absent
<1>1. \A u, v \in Users : u # v => {u, v} \in Pairs
  <2> SUFFICES ASSUME NEW u \in Users, NEW v \in Users, u # v
               PROVE  {u, v} \in Pairs
    OBVIOUS
  <2>1. {u, v} \in {{a, b} : a, b \in Users}
    OBVIOUS
  <2>2. \A a \in Users : {u, v} # {a}
    OBVIOUS
  <2> QED BY <2>1, <2>2 DEF Pairs
<1> QED BY <1>1, DirectoryAssumption DEF Labels

\* A request that begins has its type.
LEMMA AcceptType ==
  ASSUME TypeOK, NEW t \in Tasks, NEW step \in DbSteps, NEW u \in Users,
         NEW i \in ChannelIds \cup {NoId}, NEW l \in Labels \cup {Absent},
         i = NoId => step = "list", Accept(t, step, u, i, l)
  PROVE  TypeOK'
<1>1. /\ pc' = [pc EXCEPT ![t] = step]
      /\ req' = [req EXCEPT ![t] = [user |-> u, id |-> i, label |-> l,
                                   live |-> TRUE, own |-> 0]]
      /\ UNCHANGED <<channels, version, mods, page, status, view, told, muted, demoted, answered>>
  BY DEF Accept, Goto, table, clients, history
<1>2. /\ req' \in [Tasks -> Request \cup {NoRequest}]
      /\ req'[t] \in Request /\ req'[t].id = i
      /\ \A s \in Tasks \ {t} : req'[s] = req[s]
  BY <1>1 DEF Request, TypeOK
<1>3. /\ pc' \in [Tasks -> DbSteps \cup {"idle", "announce", "list_reply"}]
      /\ pc'[t] = step /\ step # "idle" /\ step # "announce" /\ step # "list_reply"
      /\ \A s \in Tasks \ {t} : pc'[s] = pc[s]
  BY <1>1 DEF DbSteps, TypeOK
<1>4. i = NoId \/ i \in ChannelIds
  OBVIOUS
<1> QED BY <1>1, <1>2, <1>3, <1>4 DEF TypeOK, Idle

\* A task that ends leaves the types of the rest alone.
LEMMA FinishType ==
  ASSUME TypeOK, NEW t \in Tasks, Finish(t),
         UNCHANGED <<table, mods, clients, answered>>, muted' \in [ChannelIds -> SUBSET Users]
  PROVE  TypeOK'
BY DEF TypeOK, Finish, Idle, Goto, table, clients

\* A request that goes on to another statement keeps its type.
LEMMA GotoType ==
  ASSUME TypeOK, NEW t \in Tasks, NEW step \in DbSteps, ~Idle(t), Goto(t, step),
         UNCHANGED <<req, page, table, mods, clients, history>>,
         req[t].id \in ChannelIds
  PROVE  TypeOK'
BY DEF TypeOK, Idle, Goto, table, clients, history, DbSteps

\* is_mod.
LEMMA CheckRoleType ==
  ASSUME TypeOK, NEW t \in Tasks, NEW step \in DbSteps, NEW role \in DbSteps \ {"list"},
         CheckRole(t, role, step)
  PROVE  TypeOK'
<1>1. ~Idle(t) /\ req[t].id \in ChannelIds
  BY DEF TypeOK, CheckRole, Idle, DbSteps
<1>2. CASE req[t].user \in mods
  BY <1>1, <1>2, GotoType DEF CheckRole, history, Finish, TypeOK, Goto
<1>3. CASE req[t].user \notin mods
  BY <1>3, FinishType DEF CheckRole, TypeOK
<1> QED BY <1>2, <1>3

\* Every request begins with its type.
LEMMA ReceiveType ==
  ASSUME TypeOK, NEW t \in Tasks, Receive(t)
  PROVE  TypeOK'
<1>1. PICK u \in Users :
        \/ \E i \in ChannelIds, n \in Names : CreateText(t, u, i, n)
        \/ \E i \in ChannelIds, other \in Users : CreateDm(t, u, i, other)
        \/ \E i \in ChannelIds, n \in Names : RenameChannel(t, u, i, n)
        \/ \E i \in ChannelIds : DeleteChannel(t, u, i)
        \/ ChannelList(t, u)
  BY DEF Receive
<1>2. ASSUME NEW i \in ChannelIds, NEW n \in Names, CreateText(t, u, i, n)
      PROVE  TypeOK'
  BY <1>2, AcceptType, PairFact, DirectoryAssumption DEF CreateText, CreateGate, DbSteps
<1>3. ASSUME NEW i \in ChannelIds, NEW other \in Users, CreateDm(t, u, i, other)
      PROVE  TypeOK'
  <2>1. {u, other} \in Labels \cup {Absent} /\ Accept(t, "insert", u, i, {u, other})
    BY <1>3, PairFact DEF CreateDm
  <2> QED BY <2>1, AcceptType, DirectoryAssumption DEF DbSteps
<1>4. ASSUME NEW i \in ChannelIds, NEW n \in Names, RenameChannel(t, u, i, n)
      PROVE  TypeOK'
  BY <1>4, AcceptType, PairFact, DirectoryAssumption DEF RenameChannel, DbSteps
<1>5. ASSUME NEW i \in ChannelIds, DeleteChannel(t, u, i)
      PROVE  TypeOK'
  BY <1>5, AcceptType, DirectoryAssumption DEF DeleteChannel, DbSteps
<1>6. CASE ChannelList(t, u)
  BY <1>6, AcceptType DEF ChannelList, DbSteps
<1> QED BY <1>1, <1>2, <1>3, <1>4, <1>5, <1>6

\* One row written, and a task that goes on with the request it had.
LEMMA WriteFact ==
  ASSUME TypeOK, NEW t \in Tasks, pc[t] \in {"insert", "rename", "drop"},
         NEW l \in Labels \cup {Absent}, Write(t, req[t].id, l)
  PROVE  /\ req[t] \in Request /\ req[t].id \in ChannelIds
         /\ channels' \in [ChannelIds -> Labels \cup {Absent}]
         /\ version' \in [ChannelIds -> Nat]
         /\ channels'[req[t].id] = l
         /\ version'[req[t].id] = version[req[t].id] + 1
         /\ \A j \in ChannelIds \ {req[t].id} :
               channels'[j] = channels[j] /\ version'[j] = version[j]
         /\ muted' = [muted EXCEPT ![req[t].id] = {}]
         /\ req' \in [Tasks -> Request \cup {NoRequest}]
         /\ req'[t] = [req[t] EXCEPT !.own = version[req[t].id] + 1]
         /\ req'[t] \in Request /\ req'[t].own = version'[req[t].id]
         /\ req'[t].id = req[t].id /\ req'[t].user = req[t].user
         /\ req'[t].label = req[t].label /\ req'[t].live = req[t].live
         /\ \A s \in Tasks \ {t} : req'[s] = req[s]
<1>1. ~Idle(t) /\ pc[t] \notin {"idle", "list", "list_reply"}
  BY DEF Idle
<1>2. req[t] \in Request /\ req[t].id \in ChannelIds
  BY <1>1 DEF TypeOK
<1>3. /\ channels' \in [ChannelIds -> Labels \cup {Absent}]
      /\ version' \in [ChannelIds -> Nat]
      /\ channels'[req[t].id] = l
      /\ version'[req[t].id] = version[req[t].id] + 1
      /\ \A j \in ChannelIds \ {req[t].id} :
            channels'[j] = channels[j] /\ version'[j] = version[j]
      /\ muted' = [muted EXCEPT ![req[t].id] = {}]
      /\ version[req[t].id] + 1 \in Nat
  BY <1>2 DEF TypeOK, Write
<1>4. /\ req'[t] = [req[t] EXCEPT !.own = version[req[t].id] + 1]
      /\ \A s \in Tasks \ {t} : req'[s] = req[s]
      /\ DOMAIN req' = Tasks
      /\ req' = [s \in Tasks |-> req'[s]]
  BY <1>2 DEF Write, TypeOK
<1>5. /\ req'[t] \in Request /\ req'[t].own = version[req[t].id] + 1
      /\ req'[t].id = req[t].id /\ req'[t].user = req[t].user
      /\ req'[t].label = req[t].label /\ req'[t].live = req[t].live
  BY <1>2, <1>3, <1>4 DEF Request
<1>6. req' \in [Tasks -> Request \cup {NoRequest}]
  BY <1>4, <1>5 DEF TypeOK
<1> QED BY <1>2, <1>3, <1>4, <1>5, <1>6

\* A write that goes on to read the row back keeps the types.
LEMMA WriteType ==
  ASSUME TypeOK, NEW t \in Tasks, pc[t] \in {"insert", "rename"},
         NEW l \in Labels \cup {Absent}, Write(t, req[t].id, l), Goto(t, "fetch"),
         UNCHANGED <<mods, clients, answered, page, demoted>>
  PROVE  TypeOK'
<1>1. /\ pc' = [pc EXCEPT ![t] = "fetch"]
      /\ UNCHANGED <<mods, status, view, told, answered, page, demoted>>
  BY DEF Goto, clients
<1>2. /\ pc' \in [Tasks -> DbSteps \cup {"idle", "announce", "list_reply"}]
      /\ pc'[t] = "fetch" /\ \A s \in Tasks \ {t} : pc'[s] = pc[s]
  BY <1>1 DEF TypeOK, DbSteps
<1>3. /\ req'[t] \in Request /\ req'[t].id \in ChannelIds
      /\ req' \in [Tasks -> Request \cup {NoRequest}]
      /\ \A s \in Tasks \ {t} : req'[s] = req[s]
      /\ channels' \in [ChannelIds -> Labels \cup {Absent}]
      /\ version' \in [ChannelIds -> Nat]
      /\ muted' \in [ChannelIds -> SUBSET Users]
  <2>1. muted' \in [ChannelIds -> SUBSET Users]
    BY DEF Write, TypeOK
  <2> QED BY <2>1, WriteFact
<1> QED BY <1>1, <1>2, <1>3 DEF TypeOK, Idle

\* Two versions of an entry are compared as numbers.
LEMMA NewerFact ==
  \A m, n \in Nat : Newer(m, n) \in Nat /\ Newer(m, n) >= m /\ Newer(m, n) >= n
                   /\ (Newer(m, n) = m \/ Newer(m, n) = n)
BY DEF Newer

\* What a client shows and was told after rows of the right type reach it.
LEMMA ShownType ==
  ASSUME TypeOK, NEW w \in Watchers, NEW S \in SUBSET ChannelIds, NEW rows \in [S -> Entry]
  PROVE  Shown(w, rows) \in [ChannelIds -> Entry] /\ Told(w, rows) \in [ChannelIds -> Nat]
<1>1. \A i \in S : rows[i] \in Entry /\ rows[i].version \in Nat
  BY DEF Entry
<1>2. view[w] \in [ChannelIds -> Entry] /\ told[w] \in [ChannelIds -> Nat]
  BY DEF TypeOK
<1>3. \A i \in ChannelIds : (IF i \in S THEN rows[i] ELSE view[w][i]) \in Entry
  BY <1>1, <1>2
<1>4. \A i \in ChannelIds :
        (IF i \in S THEN Newer(told[w][i], rows[i].version) ELSE told[w][i]) \in Nat
  BY <1>1, <1>2, NewerFact
<1>5. DOMAIN rows = S
  OBVIOUS
<1> QED BY <1>3, <1>4, <1>5 DEF Shown, Told

\* A row has the type of an entry, and so has its version alone.
LEMMA RowType ==
  ASSUME TypeOK, NEW i \in ChannelIds
  PROVE  Row(i) \in Entry /\ [Row(i) EXCEPT !.label = Absent] \in Entry
         /\ [Row(i) EXCEPT !.label = Absent] = [label |-> Absent, version |-> version[i]]
BY DEF TypeOK, Row, Entry

\* The steps of a task that is at work keep the types.
LEMMA StepType ==
  ASSUME TypeOK, LabelsFit, NEW t \in Tasks, Step(t)
  PROVE  TypeOK'
<1> DEFINE i == req[t].id
           l == req[t].label
<1>1. CASE CreateRole(t)
  BY <1>1, CheckRoleType DEF CreateRole, DbSteps
<1>2. CASE InsertChannel(t)
  <2>1. ~Idle(t) /\ i \in ChannelIds /\ l \in Labels
    BY <1>2 DEF InsertChannel, TypeOK, LabelsFit, Idle
  <2>2. CASE FreeFor(i, l)
    BY <1>2, <2>1, <2>2, WriteType DEF InsertChannel
  <2>3. CASE ~FreeFor(i, l) /\ l \in Pairs /\ Goto(t, "find")
    <3>1. UNCHANGED <<req, page, table, mods, clients, history>>
      BY <1>2, <2>3, PairFact DEF InsertChannel, history, Goto, Finish
    <3> QED BY <2>1, <2>3, <3>1, GotoType DEF DbSteps
  <2>4. CASE ~FreeFor(i, l) /\ Finish(t)
    BY <1>2, <2>4, FinishType DEF InsertChannel, TypeOK
  <2> QED BY <1>2, <2>2, <2>3, <2>4 DEF InsertChannel
<1>3. CASE FindDm(t)
  <2>1. ~Idle(t) /\ req[t] \in Request /\ i \in ChannelIds
    BY <1>3 DEF FindDm, TypeOK, Idle
  <2>2. PICK j \in ChannelIds : req' = [req EXCEPT ![t].id = j]
    BY <1>3 DEF FindDm
  <2>3. /\ req'[t] \in Request /\ req'[t].id = j
        /\ \A s \in Tasks \ {t} : req'[s] = req[s]
        /\ req' \in [Tasks -> Request \cup {NoRequest}]
    <3>1. /\ req'[t] = [req[t] EXCEPT !.id = j]
          /\ \A s \in Tasks \ {t} : req'[s] = req[s]
          /\ DOMAIN req' = Tasks /\ req' = [s \in Tasks |-> req'[s]]
      BY <2>1, <2>2 DEF TypeOK
    <3>2. req'[t] \in Request /\ req'[t].id = j
      BY <2>1, <3>1 DEF Request
    <3> QED BY <3>1, <3>2 DEF TypeOK
  <2>4. /\ pc' \in [Tasks -> DbSteps \cup {"idle", "announce", "list_reply"}]
        /\ pc'[t] = "fetch" /\ \A s \in Tasks \ {t} : pc'[s] = pc[s]
    BY <1>3 DEF FindDm, Goto, TypeOK, DbSteps
  <2>5. UNCHANGED <<channels, version, mods, page, status, view, told, muted, demoted, answered>>
    BY <1>3 DEF FindDm, table, clients, history
  <2> QED BY <2>3, <2>4, <2>5 DEF TypeOK, Idle
<1>4. CASE RenameRole(t)
  BY <1>4, CheckRoleType DEF RenameRole, DbSteps
<1>5. CASE UpdateName(t)
  <2>1. l \in Labels
    BY <1>5, PairFact DEF UpdateName, LabelsFit
  <2>2. CASE IsText(i) /\ FreeFor(i, l)
    BY <1>5, <2>1, <2>2, WriteType DEF UpdateName
  <2>3. CASE ~IsText(i) \/ ~FreeFor(i, l)
    BY <1>5, <2>3, FinishType DEF UpdateName, TypeOK
  <2> QED BY <2>2, <2>3
<1>6. CASE DropRole(t)
  BY <1>6, CheckRoleType DEF DropRole, DbSteps
<1>7. CASE DropChannel(t)
  <2>1. CASE IsText(i)
    <3>1. /\ Write(t, i, Absent) /\ Goto(t, "announce") /\ pc[t] = "drop"
          /\ page' = [page EXCEPT ![t] =
                [j \in {i} |-> [label |-> Absent, version |-> version[i] + 1]]]
          /\ UNCHANGED <<mods, status, view, told, answered, demoted>>
      BY <1>7, <2>1 DEF DropChannel, clients
    <3>2. /\ req'[t] \in Request /\ i \in ChannelIds /\ req'[t].id = i
          /\ req' \in [Tasks -> Request \cup {NoRequest}]
          /\ \A s \in Tasks \ {t} : req'[s] = req[s]
          /\ channels' \in [ChannelIds -> Labels \cup {Absent}]
          /\ version' \in [ChannelIds -> Nat]
          /\ muted' \in [ChannelIds -> SUBSET Users]
      <4>1. muted' \in [ChannelIds -> SUBSET Users]
        BY <3>1 DEF Write, TypeOK
      <4> QED BY <3>1, <4>1, WriteFact
    <3>3. [label |-> Absent, version |-> version[i] + 1] \in Entry
      BY <3>2 DEF TypeOK, Entry
    <3>4. /\ DOMAIN page' = Tasks /\ page'[t] \in [{i} -> Entry]
          /\ \A s \in Tasks \ {t} : page'[s] = page[s]
      BY <3>1, <3>3 DEF TypeOK
    <3>5. /\ pc' \in [Tasks -> DbSteps \cup {"idle", "announce", "list_reply"}]
          /\ pc'[t] = "announce" /\ \A s \in Tasks \ {t} : pc'[s] = pc[s]
      BY <3>1 DEF Goto, TypeOK, DbSteps
    <3> QED BY <3>1, <3>2, <3>4, <3>5 DEF TypeOK, Idle
  <2>2. CASE ~IsText(i)
    BY <1>7, <2>2, FinishType DEF DropChannel, TypeOK
  <2> QED BY <2>1, <2>2
<1>8. CASE FetchChannel(t)
  <2>1. ~Idle(t) /\ req[t] \in Request /\ i \in ChannelIds
    BY <1>8 DEF FetchChannel, TypeOK, Idle
  <2>2. CASE Exists(i)
    <3>1. /\ page' = [page EXCEPT ![t] = [j \in {i} |-> Row(i)]] /\ Goto(t, "announce")
          /\ UNCHANGED <<channels, version, req, mods, status, view, told, muted, demoted, answered>>
      BY <1>8, <2>2 DEF FetchChannel, table, clients
    <3>2. /\ DOMAIN page' = Tasks /\ page'[t] \in [{i} -> Entry]
          /\ \A s \in Tasks \ {t} : page'[s] = page[s]
      BY <2>1, <3>1, RowType DEF TypeOK
    <3>3. /\ pc' \in [Tasks -> DbSteps \cup {"idle", "announce", "list_reply"}]
          /\ pc'[t] = "announce" /\ \A s \in Tasks \ {t} : pc'[s] = pc[s]
      BY <3>1 DEF Goto, TypeOK, DbSteps
    <3> QED BY <2>1, <3>1, <3>2, <3>3 DEF TypeOK, Idle
  <2>3. CASE ~Exists(i)
    BY <1>8, <2>3, FinishType DEF FetchChannel, TypeOK
  <2> QED BY <2>2, <2>3
<1>9. CASE Announce(t)
  <2>1. ~Idle(t) /\ req[t] \in Request /\ i \in ChannelIds /\ page[t] \in [{i} -> Entry]
    BY <1>9 DEF Announce, TypeOK, Idle
  <2>2. \A w \in Watchers : /\ Shown(w, page[t]) \in [ChannelIds -> Entry]
                            /\ Told(w, page[t]) \in [ChannelIds -> Nat]
    BY <2>1, ShownType
  <2>3. /\ status' \in [Watchers -> Statuses]
        /\ view' \in [Watchers -> [ChannelIds -> Entry]]
        /\ told' \in [Watchers -> [ChannelIds -> Nat]]
    BY <1>9, <2>2 DEF Announce, TypeOK, Statuses
  <2>4. muted' \in [ChannelIds -> SUBSET Users]
    <3>1. req[t].user \in Users /\ muted \in [ChannelIds -> SUBSET Users]
      BY <2>1 DEF Request, TypeOK
    <3>2. muted[i] \cup {req[t].user} \in SUBSET Users
      BY <2>1, <3>1
    <3>3. muted' \in {muted, [muted EXCEPT ![i] = @ \cup {req[t].user}]}
      BY <1>9 DEF Announce
    <3> QED BY <2>1, <3>1, <3>2, <3>3
  <2>5. answered' \in [Pairs -> SUBSET ChannelIds]
    BY <1>9, <2>1 DEF Announce, TypeOK
  <2> QED BY <1>9, <2>3, <2>4, <2>5 DEF Announce, Finish, Goto, TypeOK, Idle, table
<1>10. CASE ReadList(t)
  <2>1. ~Idle(t) /\ req[t] \in Request
    BY <1>10 DEF ReadList, TypeOK, Idle
  <2>2. /\ page' = [page EXCEPT ![t] = [j \in ChannelIds |->
              IF Lists(req[t].user, j) THEN Row(j) ELSE [Row(j) EXCEPT !.label = Absent]]]
        /\ Goto(t, "list_reply")
        /\ UNCHANGED <<channels, version, req, mods, view, told, demoted, answered>>
    BY <1>10 DEF ReadList, table
  <2>3. /\ DOMAIN page' = Tasks /\ page'[t] \in [ChannelIds -> Entry]
        /\ \A s \in Tasks \ {t} : page'[s] = page[s]
    BY <2>2, RowType DEF TypeOK
  <2>4. /\ pc' \in [Tasks -> DbSteps \cup {"idle", "announce", "list_reply"}]
        /\ pc'[t] = "list_reply" /\ \A s \in Tasks \ {t} : pc'[s] = pc[s]
    BY <2>2 DEF Goto, TypeOK, DbSteps
  <2>5. status' \in [Watchers -> Statuses]
    BY <1>10 DEF ReadList, TypeOK, Statuses
  <2>6. muted' \in [ChannelIds -> SUBSET Users]
    <3>1. /\ muted \in [ChannelIds -> SUBSET Users]
          /\ \/ muted' = muted
             \/ muted' = [j \in ChannelIds |-> muted[j] \ {req[t].user}]
      BY <1>10 DEF ReadList, TypeOK
    <3>2. \A j \in ChannelIds : muted[j] \ {req[t].user} \in SUBSET Users
      BY <3>1
    <3> QED BY <3>1, <3>2
  <2> QED BY <2>1, <2>2, <2>3, <2>4, <2>5, <2>6 DEF TypeOK, Idle
<1>11. CASE ListReply(t)
  <2>1. page[t] \in [ChannelIds -> Entry]
    BY <1>11 DEF ListReply, TypeOK
  <2>2. \A w \in Watchers : /\ Shown(w, page[t]) \in [ChannelIds -> Entry]
                            /\ Told(w, page[t]) \in [ChannelIds -> Nat]
    BY <2>1, ShownType
  <2>3. /\ status' \in [Watchers -> Statuses]
        /\ view' \in [Watchers -> [ChannelIds -> Entry]]
        /\ told' \in [Watchers -> [ChannelIds -> Nat]]
    <3>1. CASE req[t].live
      <4>1. /\ view' = [view EXCEPT ![req[t].user] = Shown(req[t].user, page[t])]
            /\ told' = [told EXCEPT ![req[t].user] = Told(req[t].user, page[t])]
            /\ status' = [status EXCEPT ![req[t].user] =
                 IF @ = "listing" THEN "following" ELSE @]
        BY <1>11, <3>1 DEF ListReply
      <4> QED BY <2>2, <4>1 DEF TypeOK, Statuses
    <3>2. CASE ~req[t].live
      BY <1>11, <3>2 DEF ListReply, TypeOK, clients
    <3> QED BY <3>1, <3>2
  <2> QED BY <1>11, <2>3 DEF ListReply, Finish, Goto, TypeOK, Idle, table
<1> QED BY <1>1, <1>2, <1>3, <1>4, <1>5, <1>6, <1>7, <1>8, <1>9, <1>10, <1>11 DEF Step

\* Every step of the directory keeps the types.
LEMMA TypeStep ==
  ASSUME TypeOK, LabelsFit, [Next]_vars
  PROVE  TypeOK'
<1>1. ASSUME NEW t \in Tasks, Receive(t) PROVE TypeOK'
  BY <1>1, ReceiveType
<1>2. ASSUME NEW t \in Tasks, Step(t) PROVE TypeOK'
  BY <1>2, StepType
<1>3. ASSUME NEW t \in Tasks, Fail(t) PROVE TypeOK'
  <2>1. pc[t] = "fetch" => req[t].id \in ChannelIds
    BY DEF TypeOK
  <2>2. /\ muted' \in {muted, [muted EXCEPT ![req[t].id] = Watchers]}
        /\ Finish(t) /\ UNCHANGED <<table, mods, clients, answered>>
    BY <1>3 DEF Fail
  <2>3. muted' \in [ChannelIds -> SUBSET Users]
    BY <2>2, DirectoryAssumption DEF TypeOK
  <2> QED BY <2>2, <2>3, FinishType
<1>4. ASSUME NEW w \in Watchers, Connect(w) PROVE TypeOK'
  BY <1>4 DEF Connect, TypeOK, Idle, Statuses, table, tasks, history
<1>5. ASSUME NEW w \in Watchers, Disconnect(w) PROVE TypeOK'
  <2>1. /\ status' \in [Watchers -> Statuses]
        /\ view' \in [Watchers -> [ChannelIds -> Entry]]
        /\ told' \in [Watchers -> [ChannelIds -> Nat]]
    BY <1>5 DEF Disconnect, Forget, TypeOK, Statuses, Entry, Unseen
  <2>2. /\ req' \in [Tasks -> Request \cup {NoRequest}]
        /\ \A t \in Tasks : ~Idle(t) => req'[t] \in Request /\ req'[t].id = req[t].id
    <3>1. \A t \in Tasks : ~Idle(t) => [req[t] EXCEPT !.live = FALSE] \in Request
                                     /\ [req[t] EXCEPT !.live = FALSE].id = req[t].id
      BY DEF TypeOK, Request
    <3> QED BY <1>5, <3>1 DEF Disconnect, TypeOK
  <2> QED BY <1>5, <2>1, <2>2 DEF Disconnect, TypeOK, Idle, table, history
<1>6. ASSUME NEW u \in Users, SetMod(u) PROVE TypeOK'
  BY <1>6 DEF SetMod, TypeOK, Idle, table, tasks, clients
<1>7. CASE Crash
  BY <1>7 DEF Crash, TypeOK, Idle, table, Statuses, Entry, Unseen
<1>8. CASE UNCHANGED vars
  BY <1>8 DEF vars, TypeOK, Idle, table, tasks, clients, history
<1> QED BY <1>1, <1>2, <1>3, <1>4, <1>5, <1>6, <1>7, <1>8 DEF Next
-----------------------------------------------------------------------------
(* What the kinds of steps change *)

\* The environment's steps: sockets come and go and roles change.
Outside == \/ \E w \in Watchers : Connect(w) \/ Disconnect(w)
           \/ \E u \in Users : SetMod(u)
           \/ UNCHANGED vars

\* A step is one of a task, one from outside, or a crash.
LEMMA NextFact ==
  ASSUME [Next]_vars
  PROVE  \/ \E t \in Tasks : Receive(t) \/ Step(t) \/ Fail(t)
         \/ Outside
         \/ Crash
BY DEF Next, Outside

\* A task touches no register of another.
LEMMA OthersFact ==
  ASSUME TypeOK, NEW t \in Tasks, Receive(t) \/ Step(t) \/ Fail(t), NEW s \in Tasks \ {t}
  PROVE  pc'[s] = pc[s] /\ req'[s] = req[s] /\ page'[s] = page[s]
<1>1. CASE Receive(t)
  BY <1>1 DEF TypeOK, Receive, CreateText, CreateDm, RenameChannel, DeleteChannel,
              ChannelList, Accept, Goto
<1>2. CASE Step(t)
  <2> USE DEF TypeOK, Goto, Finish, tasks, table, clients, history
  <2>1. CASE CreateRole(t) \/ RenameRole(t) \/ DropRole(t)
    BY <2>1 DEF CreateRole, RenameRole, DropRole, CheckRole
  <2>2. CASE InsertChannel(t)
    BY <2>2 DEF InsertChannel, Write
  <2>3. CASE FindDm(t)
    BY <2>3 DEF FindDm
  <2>4. CASE UpdateName(t) \/ DropChannel(t)
    BY <2>4 DEF UpdateName, DropChannel, Write
  <2>5. CASE FetchChannel(t) \/ Announce(t)
    BY <2>5 DEF FetchChannel, Announce
  <2>6. CASE ReadList(t) \/ ListReply(t)
    BY <2>6 DEF ReadList, ListReply
  <2> QED BY <1>2, <2>1, <2>2, <2>3, <2>4, <2>5, <2>6 DEF Step
<1>3. CASE Fail(t)
  BY <1>3 DEF TypeOK, Fail, Finish, Goto
<1> QED BY <1>1, <1>2, <1>3

\* A task that failed holds nothing, and has written nothing.
LEMMA FailFact ==
  ASSUME TypeOK, NEW t \in Tasks, Fail(t)
  PROVE  /\ pc'[t] = "idle" /\ pc[t] \in DbSteps
         /\ UNCHANGED <<channels, version, mods, status, view, told, answered>>
         /\ demoted' = demoted \ {t}
BY DEF TypeOK, Fail, Finish, Goto, table, clients

\* What comes from outside leaves the table and the requests alone, but for
\* the sockets of the requests.
LEMMA OutsideFact ==
  ASSUME TypeOK, Outside
  PROVE  /\ UNCHANGED <<channels, version, pc, page, muted, answered>>
         /\ \A t \in Tasks : ~Idle(t) =>
              /\ req'[t].id = req[t].id /\ req'[t].user = req[t].user
              /\ req'[t].label = req[t].label /\ req'[t].own = req[t].own
              /\ req'[t].live => req[t].live
<1>1. ASSUME NEW w \in Watchers, Connect(w)
      PROVE  UNCHANGED <<channels, version, pc, page, muted, answered, req>>
  BY <1>1 DEF Connect, table, tasks, history
<1>2. ASSUME NEW w \in Watchers, Disconnect(w)
      PROVE  /\ UNCHANGED <<channels, version, pc, page, muted, answered>>
             /\ \A t \in Tasks : ~Idle(t) =>
                  req'[t] = req[t] \/ req'[t] = [req[t] EXCEPT !.live = FALSE]
  BY <1>2 DEF Disconnect, table, history
<1>3. ASSUME NEW u \in Users, SetMod(u)
      PROVE  UNCHANGED <<channels, version, pc, page, muted, answered, req>>
  BY <1>3 DEF SetMod, table, tasks, clients
<1>4. CASE UNCHANGED vars
  BY <1>4 DEF vars, table, tasks, clients, history
<1>5. \A t \in Tasks : ~Idle(t) => req[t] \in Request
  BY DEF TypeOK
<1> QED BY <1>1, <1>2, <1>3, <1>4, <1>5 DEF Outside, Request

\* After a crash no task is at work.
LEMMA CrashFact ==
  ASSUME Crash
  PROVE  /\ \A t \in Tasks : pc'[t] = "idle"
         /\ UNCHANGED <<channels, version, mods, muted, answered>>
         /\ \A w \in Watchers, i \in ChannelIds :
              status'[w] = "off" /\ view'[w][i] = Unseen /\ told'[w][i] = 0
BY DEF Crash, table

\* How a request begins.
LEMMA ReceiveFact ==
  ASSUME TypeOK, NEW t \in Tasks, Receive(t)
  PROVE  /\ Idle(t)
         /\ req'[t].live = TRUE /\ req'[t].own = 0 /\ req'[t].user \in Users
         /\ UNCHANGED <<channels, version, mods, page, status, view, told, muted, demoted, answered>>
         /\ \/ /\ pc'[t] \in {"create_role", "insert"}
               /\ req'[t].id \in ChannelIds /\ FreshId(req'[t].id)
               /\ req'[t].label \in Labels
               /\ pc'[t] = "create_role" => req'[t].label \in Names
            \/ /\ pc'[t] \in {"rename_role", "rename", "drop_role", "drop"}
               /\ req'[t].id \in ChannelIds /\ IsText(req'[t].id)
               /\ pc'[t] \in {"rename_role", "rename"} => req'[t].label \in Names
               /\ pc'[t] \in {"rename", "drop"} => req'[t].user = Admin
            \/ /\ pc'[t] = "list" /\ req'[t].id = NoId
               /\ req'[t].user \in Watchers
               /\ \A s \in Tasks : pc[s] \in {"list", "list_reply"} /\ req[s].live
                     => req[s].user # req'[t].user
<1>1. ASSUME NEW step, NEW u \in Users, NEW i, NEW l, Accept(t, step, u, i, l)
      PROVE  /\ Idle(t)
             /\ req'[t] = [user |-> u, id |-> i, label |-> l, live |-> TRUE, own |-> 0]
             /\ pc'[t] = step
             /\ UNCHANGED <<channels, version, mods, page, status, view, told, muted,
                           demoted, answered>>
  BY <1>1 DEF Accept, Goto, TypeOK, table, clients, history
<1>2. PICK u \in Users :
        \/ \E i \in ChannelIds, n \in Names : CreateText(t, u, i, n)
        \/ \E i \in ChannelIds, other \in Users : CreateDm(t, u, i, other)
        \/ \E i \in ChannelIds, n \in Names : RenameChannel(t, u, i, n)
        \/ \E i \in ChannelIds : DeleteChannel(t, u, i)
        \/ ChannelList(t, u)
  BY DEF Receive
<1>3. ASSUME NEW i \in ChannelIds, NEW n \in Names, CreateText(t, u, i, n)
      PROVE  /\ Accept(t, CreateGate(u), u, i, n) /\ FreshId(i) /\ n \in Labels
             /\ CreateGate(u) \in {"create_role", "insert"}
  BY <1>3, PairFact DEF CreateText, CreateGate
<1>4. ASSUME NEW i \in ChannelIds, NEW other \in Users, CreateDm(t, u, i, other)
      PROVE  /\ Accept(t, "insert", u, i, {u, other}) /\ FreshId(i)
             /\ {u, other} \in Labels
  BY <1>4, PairFact DEF CreateDm
<1>5. ASSUME NEW i \in ChannelIds, NEW n \in Names, RenameChannel(t, u, i, n)
      PROVE  /\ IsText(i)
             /\ Accept(t, "rename_role", u, i, n) \/ (u = Admin /\ Accept(t, "rename", u, i, n))
  BY <1>5 DEF RenameChannel
<1>6. ASSUME NEW i \in ChannelIds, DeleteChannel(t, u, i)
      PROVE  /\ IsText(i)
             /\ Accept(t, "drop_role", u, i, Absent) \/ (u = Admin /\ Accept(t, "drop", u, i, Absent))
  BY <1>6 DEF DeleteChannel
<1>7. ASSUME ChannelList(t, u)
      PROVE  /\ Accept(t, "list", u, NoId, Absent) /\ u \in Watchers
             /\ \A s \in Tasks : pc[s] \in {"list", "list_reply"} /\ req[s].live
                   => req[s].user # u
  BY <1>7 DEF ChannelList
<1>8. PICK step, i, l :
        /\ Accept(t, step, u, i, l)
        /\ \/ /\ step \in {"create_role", "insert"}
              /\ i \in ChannelIds /\ FreshId(i) /\ l \in Labels
              /\ step = "create_role" => l \in Names
           \/ /\ step \in {"rename_role", "rename", "drop_role", "drop"}
              /\ i \in ChannelIds /\ IsText(i)
              /\ step \in {"rename_role", "rename"} => l \in Names
              /\ step \in {"rename", "drop"} => u = Admin
           \/ /\ step = "list" /\ i = NoId /\ u \in Watchers
              /\ \A s \in Tasks : pc[s] \in {"list", "list_reply"} /\ req[s].live
                    => req[s].user # u
  <2>1. CASE \E i \in ChannelIds, n \in Names : CreateText(t, u, i, n)
    BY <1>3, <2>1
  <2>2. CASE \E i \in ChannelIds, other \in Users : CreateDm(t, u, i, other)
    BY <1>4, <2>2
  <2>3. CASE \E i \in ChannelIds, n \in Names : RenameChannel(t, u, i, n)
    BY <1>5, <2>3
  <2>4. CASE \E i \in ChannelIds : DeleteChannel(t, u, i)
    BY <1>6, <2>4
  <2>5. CASE ChannelList(t, u)
    BY <1>7, <2>5
  <2> QED BY <1>2, <2>1, <2>2, <2>3, <2>4, <2>5
<1>9. /\ Idle(t) /\ pc'[t] = step
      /\ req'[t].id = i /\ req'[t].user = u /\ req'[t].label = l
      /\ req'[t].live = TRUE /\ req'[t].own = 0
      /\ UNCHANGED <<channels, version, mods, page, status, view, told, muted, demoted, answered>>
  <2>1. Accept(t, step, u, i, l)
    BY <1>8
  <2> HIDE <1>8
  <2>2. /\ Idle(t) /\ pc'[t] = step
        /\ req'[t] = [user |-> u, id |-> i, label |-> l, live |-> TRUE, own |-> 0]
        /\ UNCHANGED <<channels, version, mods, page, status, view, told, muted,
                      demoted, answered>>
    BY <1>1, <2>1
  <2> QED BY <2>2
<1> QED BY <1>8, <1>9
-----------------------------------------------------------------------------
(* The labels, the ids and the rows *)

\* What a step of a task at work does to the table: nothing, one row of its
\* own written, or the row of another task's request found.
LEMMA TableFact ==
  ASSUME TypeOK, LabelsFit, NEW t \in Tasks, Step(t)
  PROVE  \/ UNCHANGED <<channels, version>>
         \/ /\ pc[t] = "insert" /\ FreeFor(req[t].id, req[t].label) /\ pc'[t] = "fetch"
            /\ Write(t, req[t].id, req[t].label) /\ req[t].label \in Labels
         \/ /\ pc[t] = "rename" /\ FreeFor(req[t].id, req[t].label) /\ pc'[t] = "fetch"
            /\ Write(t, req[t].id, req[t].label) /\ req[t].label \in Names
            /\ IsText(req[t].id)
         \/ /\ pc[t] = "drop" /\ IsText(req[t].id) /\ pc'[t] = "announce"
            /\ Write(t, req[t].id, Absent)
            /\ page'[t] = [j \in {req[t].id} |->
                 [label |-> Absent, version |-> version[req[t].id] + 1]]
<1>1. CASE InsertChannel(t)
  BY <1>1 DEF InsertChannel, TypeOK, LabelsFit, Goto, table
<1>2. CASE UpdateName(t)
  BY <1>2 DEF UpdateName, TypeOK, LabelsFit, Goto, table
<1>3. CASE DropChannel(t)
  BY <1>3 DEF DropChannel, TypeOK, Goto, table
<1>4. CASE CreateRole(t) \/ RenameRole(t) \/ DropRole(t)
  BY <1>4 DEF CreateRole, RenameRole, DropRole, CheckRole, table
<1>5. CASE FindDm(t) \/ FetchChannel(t) \/ Announce(t) \/ ReadList(t) \/ ListReply(t)
  BY <1>5 DEF FindDm, FetchChannel, Announce, ReadList, ListReply, table
<1> QED BY <1>1, <1>2, <1>3, <1>4, <1>5 DEF Step

\* Where a task at work is after its step, and what it holds.
LEMMA MovesFact ==
  ASSUME TypeOK, LabelsFit, NEW t \in Tasks, Step(t)
  PROVE  /\ pc[t] # "idle" /\ pc'[t] \notin {"create_role", "rename_role", "drop_role", "list"}
         /\ pc'[t] = "insert" => pc[t] = "create_role" /\ req' = req
         /\ pc'[t] = "rename" => pc[t] = "rename_role" /\ req' = req /\ req[t].user \in mods
         /\ pc'[t] = "drop" => pc[t] = "drop_role" /\ req' = req /\ req[t].user \in mods
         /\ pc'[t] = "find" => pc[t] = "insert" /\ req' = req /\ req[t].label \in Pairs
         /\ pc'[t] = "list_reply" => pc[t] = "list" /\ req' = req
         /\ pc'[t] = "announce" => pc[t] \in {"drop", "fetch"} /\ req'[t].id = req[t].id
         /\ \/ pc'[t] = "idle" \/ req'[t].id = req[t].id
            \/ pc[t] = "find" /\ channels[req'[t].id] = req[t].label /\ req'[t].id \in ChannelIds
<1>1. Idle(t) \/ (req[t] \in Request /\ req[t].own \in Nat)
  BY DEF TypeOK, Request
<1> USE DEF TypeOK, Idle, Goto, Finish
<1>2. CASE CreateRole(t) \/ RenameRole(t) \/ DropRole(t)
  BY <1>2 DEF CreateRole, RenameRole, DropRole, CheckRole
<1>3. CASE InsertChannel(t)
  <2>1. CASE FreeFor(req[t].id, req[t].label)
    <3>1. req'[t].id = req[t].id
      BY <1>3, <2>1, WriteFact DEF InsertChannel, LabelsFit
    <3> QED BY <1>3, <2>1, <3>1 DEF InsertChannel
  <2>2. CASE ~FreeFor(req[t].id, req[t].label)
    BY <1>3, <2>2 DEF InsertChannel
  <2> QED BY <2>1, <2>2
<1>4. CASE FindDm(t)
  BY <1>1, <1>4 DEF FindDm, Request
<1>5. CASE UpdateName(t)
  <2>1. CASE IsText(req[t].id) /\ FreeFor(req[t].id, req[t].label)
    <3>1. req'[t].id = req[t].id
      BY <1>5, <2>1, WriteFact, PairFact DEF UpdateName, LabelsFit
    <3> QED BY <1>5, <2>1, <3>1 DEF UpdateName
  <2>2. CASE ~IsText(req[t].id) \/ ~FreeFor(req[t].id, req[t].label)
    BY <1>5, <2>2 DEF UpdateName
  <2> QED BY <2>1, <2>2
<1>6. CASE DropChannel(t)
  BY <1>1, <1>6, WriteFact DEF DropChannel
<1>7. CASE FetchChannel(t)
  BY <1>7 DEF FetchChannel
<1>8. CASE Announce(t) \/ ListReply(t)
  BY <1>8 DEF Announce, ListReply
<1>9. CASE ReadList(t)
  BY <1>9 DEF ReadList
<1> QED BY <1>2, <1>3, <1>4, <1>5, <1>6, <1>7, <1>8, <1>9 DEF Step

\* LabelsFit is inductive.
LEMMA LabelsStep ==
  ASSUME TypeOK, LabelsFit, [Next]_vars
  PROVE  LabelsFit'
<1>1. ASSUME NEW t \in Tasks, Receive(t) PROVE LabelsFit'
  <2>1. \A s \in Tasks \ {t} : pc'[s] = pc[s] /\ req'[s] = req[s]
    BY <1>1, OthersFact
  <2>2. /\ pc'[t] \in {"create_role", "rename_role", "rename"} => req'[t].label \in Names
        /\ pc'[t] = "insert" => req'[t].label \in Labels
        /\ pc'[t] # "find"
    BY <1>1, ReceiveFact
  <2> QED BY <2>1, <2>2 DEF LabelsFit
<1>2. ASSUME NEW t \in Tasks, Step(t) PROVE LabelsFit'
  BY <1>2, MovesFact, OthersFact, PairFact DEF LabelsFit
<1>3. ASSUME NEW t \in Tasks, Fail(t) PROVE LabelsFit'
  BY <1>3, FailFact, OthersFact DEF LabelsFit
<1>4. CASE Outside
  BY <1>4, OutsideFact DEF LabelsFit, Idle
<1>5. CASE Crash
  BY <1>5, CrashFact DEF LabelsFit
<1> QED BY <1>1, <1>2, <1>3, <1>4, <1>5, NextFact

\* RowsDiffer is inductive: a row is written with a label no other row has.
LEMMA RowsStep ==
  ASSUME TypeOK, LabelsFit, RowsDiffer, [Next]_vars
  PROVE  RowsDiffer'
<1>1. CASE UNCHANGED <<channels, version>>
  BY <1>1 DEF RowsDiffer, Exists
<1>2. ASSUME NEW t \in Tasks, Step(t), ~UNCHANGED <<channels, version>> PROVE RowsDiffer'
  <2>1. PICK l \in Labels \cup {Absent} :
          /\ pc[t] \in {"insert", "rename", "drop"}
          /\ Write(t, req[t].id, l)
          /\ l = Absent \/ FreeFor(req[t].id, l)
    BY <1>2, TableFact, PairFact
  <2>2. /\ req[t].id \in ChannelIds
        /\ channels'[req[t].id] = l
        /\ version'[req[t].id] = version[req[t].id] + 1
        /\ \A j \in ChannelIds \ {req[t].id} :
              channels'[j] = channels[j] /\ version'[j] = version[j]
        /\ version[req[t].id] \in Nat
    <3>1. req[t].id \in ChannelIds
      BY <2>1, WriteFact
    <3>2. version[req[t].id] \in Nat
      BY <3>1 DEF TypeOK
    <3> QED BY <2>1, <3>1, <3>2, WriteFact
  <2> QED BY <2>1, <2>2 DEF RowsDiffer, Exists, FreeFor
<1>3. ASSUME NEW t \in Tasks, Receive(t) PROVE RowsDiffer'
  BY <1>1, <1>3, ReceiveFact
<1>4. ASSUME NEW t \in Tasks, Fail(t) PROVE RowsDiffer'
  BY <1>1, <1>4, FailFact
<1> QED BY <1>1, <1>2, <1>3, <1>4, NextFact, OutsideFact, CrashFact

\* IdsAreFresh is inductive: nobody finds or is asked for an unwritten row.
LEMMA FreshStep ==
  ASSUME TypeOK, LabelsFit, RowsDiffer, IdsAreFresh, [Next]_vars
  PROVE  IdsAreFresh'
<1> DEFINE Fresh(s) == pc[s] \in {"create_role", "insert"}
<1>1. \A s \in Tasks : Fresh(s) => req[s].id \in ChannelIds
  BY DEF TypeOK
<1>2. ASSUME NEW t \in Tasks, Receive(t) PROVE IdsAreFresh'
  <2>1. \A s \in Tasks \ {t} : pc'[s] = pc[s] /\ req'[s] = req[s]
    BY <1>2, OthersFact
  <2>2. version' = version /\ Idle(t)
    BY <1>2, ReceiveFact
  <2>3. pc'[t] \in {"create_role", "insert"} =>
          /\ version[req'[t].id] = 0
          /\ \A s \in Tasks : ~Idle(s) => req[s].id # req'[t].id
    BY <1>2, ReceiveFact DEF FreshId
  <2>4. \A s \in Tasks \ {t} : Fresh(s) => req[s].id # req'[t].id
    <3> SUFFICES ASSUME NEW s \in Tasks \ {t}, Fresh(s)
                 PROVE  req[s].id # req'[t].id
      OBVIOUS
    <3>1. version[req[s].id] = 0 /\ ~IsText(req[s].id) /\ ~Idle(s) /\ req[s].id # NoId
      BY <1>1, DirectoryAssumption, PairFact DEF IdsAreFresh, RowsDiffer, Exists, IsText, Idle
    <3>2. \/ FreshId(req'[t].id) \/ IsText(req'[t].id) \/ req'[t].id = NoId
      BY <1>2, ReceiveFact
    <3> QED BY <3>1, <3>2 DEF FreshId, IsText
  <2> QED BY <2>1, <2>2, <2>3, <2>4 DEF IdsAreFresh, Idle
<1>3. ASSUME NEW t \in Tasks, Step(t) PROVE IdsAreFresh'
  <2>1. \A s \in Tasks \ {t} : pc'[s] = pc[s] /\ req'[s] = req[s]
    BY <1>3, OthersFact
  <2>2. pc'[t] \in {"create_role", "insert"} => Fresh(t) /\ req' = req /\ pc[t] = "create_role"
    BY <1>3, MovesFact
  <2>3. \A j \in ChannelIds : version'[j] = version[j] \/
          (j = req[t].id /\ pc[t] \in {"insert", "rename", "drop"}
            /\ pc'[t] \in {"fetch", "announce"})
    BY <1>3, TableFact, WriteFact, PairFact
  <2>4. ASSUME NEW s \in Tasks \ {t}, Fresh(s)
        PROVE  pc'[t] # "idle" => req[s].id # req'[t].id
    <3>1. version[req[s].id] = 0 /\ req[t].id # req[s].id /\ ~Exists(req[s].id)
      BY <1>1, <1>3, <2>4, MovesFact DEF IdsAreFresh, RowsDiffer, Idle
    <3>2. CASE req'[t].id = req[t].id
      BY <3>1, <3>2
    <3>3. CASE pc[t] = "find" /\ channels[req'[t].id] = req[t].label
      BY <3>1, <3>3, PairFact DEF LabelsFit, Exists
    <3> QED BY <1>3, <3>2, <3>3, MovesFact
  <2>5. ASSUME NEW s \in Tasks \ {t}, Fresh(s)
        PROVE  version'[req[s].id] = 0
    BY <1>1, <1>3, <2>3, <2>5, MovesFact DEF IdsAreFresh, Idle
  <2>6. Fresh(t) /\ pc[t] = "create_role" => version'[req[t].id] = 0
    BY <1>1, <2>3 DEF IdsAreFresh
  <2> QED BY <2>1, <2>2, <2>4, <2>5, <2>6 DEF IdsAreFresh, Idle
<1>4. ASSUME NEW t \in Tasks, Fail(t) PROVE IdsAreFresh'
  BY <1>4, FailFact, OthersFact DEF IdsAreFresh, Idle
<1>5. CASE Outside
  BY <1>5, OutsideFact DEF IdsAreFresh, Idle
<1>6. CASE Crash
  BY <1>6, CrashFact DEF IdsAreFresh
<1> QED BY <1>2, <1>3, <1>4, <1>5, <1>6, NextFact
-----------------------------------------------------------------------------
(* DMs, lists and roles *)

\* The row of a DM is never written again.
LEMMA DmStays ==
  ASSUME IInv, [Next]_vars, NEW i \in ChannelIds, channels[i] \in Pairs
  PROVE  channels'[i] = channels[i] /\ version'[i] = version[i]
<1>1. ASSUME NEW t \in Tasks, Step(t) PROVE channels'[i] = channels[i] /\ version'[i] = version[i]
  <2>1. pc[t] = "insert" => req[t].id # i
    BY PairFact DEF IInv, IdsAreFresh, RowsDiffer, Exists
  <2>2. IsText(req[t].id) => req[t].id # i
    BY PairFact DEF IsText
  <2> QED BY <1>1, <2>1, <2>2, TableFact, WriteFact, PairFact DEF IInv
<1> QED BY <1>1, NextFact, ReceiveFact, FailFact, OutsideFact, CrashFact DEF IInv

\* What an announcement leaves behind.
LEMMA AnnounceFact ==
  ASSUME TypeOK, NEW t \in Tasks, Announce(t)
  PROVE  /\ req[t].id \in ChannelIds /\ page[t] \in [{req[t].id} -> Entry]
         /\ \A p \in Pairs : answered'[p] = answered[p] \/
              (p = page[t][req[t].id].label /\ answered'[p] = answered[p] \cup {req[t].id})
         /\ \A w \in Watchers :
              \/ /\ w \in Audience(t)
                 /\ view'[w] = Shown(w, page[t]) /\ told'[w] = Told(w, page[t])
                 /\ status'[w] = status[w]
              \/ /\ view'[w] = view[w] /\ told'[w] = told[w]
                 /\ status'[w] = "joined" \/ (w \notin Audience(t) /\ status'[w] = status[w])
         /\ muted' = IF page[t][req[t].id].label \in Pairs /\ ~req[t].live
                      THEN [muted EXCEPT ![req[t].id] = @ \cup {req[t].user}] ELSE muted
         /\ pc'[t] = "idle" /\ UNCHANGED <<channels, version, mods>>
<1>1. req[t].id \in ChannelIds /\ page[t] \in [{req[t].id} -> Entry]
  BY DEF TypeOK, Announce
<1>2. PICK heard \in SUBSET Audience(t) :
        /\ status' = [w \in Watchers |->
             IF w \in Audience(t) \ heard THEN "joined" ELSE status[w]]
        /\ view' = [w \in Watchers |->
             IF w \in heard THEN Shown(w, page[t]) ELSE view[w]]
        /\ told' = [w \in Watchers |->
             IF w \in heard THEN Told(w, page[t]) ELSE told[w]]
  BY DEF Announce
<1>3. ASSUME NEW w \in Watchers
      PROVE  \/ /\ w \in Audience(t)
                /\ view'[w] = Shown(w, page[t]) /\ told'[w] = Told(w, page[t])
                /\ status'[w] = status[w]
             \/ /\ view'[w] = view[w] /\ told'[w] = told[w]
                /\ status'[w] = "joined" \/ (w \notin Audience(t) /\ status'[w] = status[w])
  <2>1. CASE w \in heard
    <3>1. w \in Audience(t)
      BY <2>1
    <3> QED BY <1>2, <2>1, <3>1
  <2>2. CASE w \in Audience(t) \ heard
    <3>1. w \notin heard /\ w \in Audience(t)
      BY <2>2
    <3>2. view'[w] = view[w] /\ told'[w] = told[w]
      BY <1>2, <3>1
    <3>3. status'[w] = "joined"
      BY <1>2, <2>2
    <3> QED BY <3>2, <3>3
  <2>3. CASE w \notin heard /\ w \notin Audience(t)
    BY <1>2, <2>3
  <2> QED BY <2>1, <2>2, <2>3
<1>4. \A p \in Pairs : answered'[p] = answered[p] \/
        (p = page[t][req[t].id].label /\ answered'[p] = answered[p] \cup {req[t].id})
  BY DEF Announce
<1>5. /\ muted' = IF page[t][req[t].id].label \in Pairs /\ ~req[t].live
                   THEN [muted EXCEPT ![req[t].id] = @ \cup {req[t].user}] ELSE muted
      /\ pc'[t] = "idle" /\ UNCHANGED <<channels, version, mods>>
  BY DEF TypeOK, Announce, Finish, Goto, table
<1> QED BY <1>1, <1>3, <1>4, <1>5

\* What the clients of the other steps of a task are: as they were, but for
\* the one that gets its list.
LEMMA ListFact ==
  ASSUME TypeOK, NEW t \in Tasks, Step(t), ~Announce(t)
  PROVE  /\ answered' = answered
         /\ \A w \in Watchers :
              \/ view'[w] = view[w] /\ told'[w] = told[w]
              \/ /\ pc[t] = "list_reply" /\ w = req[t].user /\ req[t].live /\ pc'[t] = "idle"
                 /\ view'[w] = Shown(w, page[t]) /\ told'[w] = Told(w, page[t])
<1>1. CASE CreateRole(t) \/ RenameRole(t) \/ DropRole(t)
  BY <1>1 DEF CreateRole, RenameRole, DropRole, CheckRole, clients
<1>2. CASE InsertChannel(t) \/ UpdateName(t) \/ DropChannel(t)
  BY <1>2 DEF InsertChannel, UpdateName, DropChannel, clients
<1>3. CASE FindDm(t) \/ FetchChannel(t) \/ ReadList(t)
  BY <1>3 DEF FindDm, FetchChannel, ReadList, clients, history
<1>4. CASE ListReply(t)
  BY <1>4 DEF ListReply, clients, TypeOK, Finish, Goto
<1> QED BY <1>1, <1>2, <1>3, <1>4 DEF Step

\* What a client may see after a socket came or went.
LEMMA SocketFact ==
  ASSUME TypeOK, Outside, NEW w \in Watchers
  PROVE  \/ view'[w] = view[w] /\ told'[w] = told[w] /\ (status'[w] = status[w] \/ status'[w] = "joined")
         \/ /\ status'[w] = "off"
            /\ \A i \in ChannelIds : view'[w][i] = Unseen /\ told'[w][i] = 0
<1>1. ASSUME NEW x \in Watchers, Connect(x)
      PROVE  view' = view /\ told' = told /\ (status'[w] = status[w] \/ status'[w] = "joined")
  BY <1>1 DEF Connect, TypeOK
<1>2. ASSUME NEW x \in Watchers, Disconnect(x)
      PROVE  \/ view'[w] = view[w] /\ told'[w] = told[w] /\ status'[w] = status[w]
             \/ /\ status'[w] = "off"
                /\ \A i \in ChannelIds : view'[w][i] = Unseen /\ told'[w][i] = 0
  BY <1>2 DEF Disconnect, Forget, TypeOK
<1>3. ASSUME NEW u \in Users, SetMod(u) PROVE UNCHANGED <<view, told, status>>
  BY <1>3 DEF SetMod, clients
<1> QED BY <1>1, <1>2, <1>3 DEF Outside, vars, clients

\* DmRows is inductive.
LEMMA DmRowsStep ==
  ASSUME IInv, [Next]_vars
  PROVE  DmRows'
<1> DEFINE Said(t) == page[t][req[t].id].label
           Told1(t) == pc[t] = "announce" /\ Said(t) \in Pairs => channels[req[t].id] = Said(t)
<1>1. \A i \in ChannelIds : channels[i] \in Pairs => channels'[i] = channels[i]
  BY DmStays
<1>2. \A t \in Tasks : pc[t] = "announce" => req[t].id \in ChannelIds
  BY DEF IInv, TypeOK
<1>3. \A p \in Pairs : \A i \in answered[p] : i \in ChannelIds /\ channels'[i] = p
  BY <1>1 DEF IInv, TypeOK, DmRows
<1>4. ASSUME NEW t \in Tasks, pc[t] = "announce", Said(t) \in Pairs
      PROVE  channels'[req[t].id] = Said(t)
  BY <1>1, <1>2, <1>4 DEF IInv, DmRows
<1>5. ASSUME NEW t \in Tasks, Receive(t) PROVE DmRows'
  <2>1. pc'[t] # "announce" /\ answered' = answered
    BY <1>5, ReceiveFact DEF IInv
  <2>2. \A s \in Tasks \ {t} : pc'[s] = pc[s] /\ req'[s] = req[s] /\ page'[s] = page[s]
    BY <1>5, OthersFact DEF IInv
  <2> QED BY <1>3, <1>4, <2>1, <2>2 DEF DmRows
<1>6. ASSUME NEW t \in Tasks, Step(t) PROVE DmRows'
  <2>1. \A s \in Tasks \ {t} : pc'[s] = pc[s] /\ req'[s] = req[s] /\ page'[s] = page[s]
    BY <1>6, OthersFact DEF IInv
  <2>2. CASE Announce(t)
    <3>1. \A p \in Pairs : answered'[p] = answered[p] \/
            (p = Said(t) /\ answered'[p] = answered[p] \cup {req[t].id})
      BY <2>2, AnnounceFact DEF IInv
    <3>2. pc'[t] = "idle" /\ pc[t] = "announce"
      BY <2>2, AnnounceFact DEF IInv, Announce
    <3>3. \A p \in Pairs : \A i \in answered'[p] : channels'[i] = p
      BY <1>3, <1>4, <3>1, <3>2
    <3> QED BY <1>4, <2>1, <3>2, <3>3 DEF DmRows
  <2>3. CASE ~Announce(t)
    <3>1. answered' = answered
      BY <1>6, <2>3, ListFact DEF IInv
    <3>2. pc'[t] = "announce" /\ page'[t][req'[t].id].label \in Pairs =>
            channels'[req'[t].id] = page'[t][req'[t].id].label
      <4>1. CASE DropChannel(t)
        <5>1. page'[t][req'[t].id].label = Absent \/ pc'[t] # "announce"
          <6>1. CASE IsText(req[t].id)
            <7>1. req'[t].id = req[t].id
              BY <4>1, <6>1, WriteFact DEF IInv, DropChannel
            <7>2. page'[t] = [j \in {req[t].id} |->
                    [label |-> Absent, version |-> version[req[t].id] + 1]]
              BY <4>1, <6>1 DEF IInv, DropChannel, TypeOK
            <7> QED BY <7>1, <7>2
          <6>2. CASE ~IsText(req[t].id)
            BY <4>1, <6>2 DEF DropChannel, Finish, Goto, IInv, TypeOK
          <6> QED BY <6>1, <6>2
        <5> QED BY <5>1, PairFact
      <4>2. CASE FetchChannel(t)
        BY <4>2 DEF FetchChannel, IInv, TypeOK, Row, table, Finish, Goto
      <4>3. CASE ~DropChannel(t) /\ ~FetchChannel(t)
        <5>1. pc[t] \notin {"drop", "fetch"}
          BY <1>6, <4>3 DEF Step, CreateRole, RenameRole, DropRole, CheckRole, InsertChannel,
             FindDm, UpdateName, Announce, ReadList, ListReply
        <5> QED BY <1>6, <5>1, MovesFact DEF IInv
      <4> QED BY <4>1, <4>2, <4>3
    <3> QED BY <1>3, <1>4, <2>1, <3>1, <3>2 DEF DmRows
  <2> QED BY <2>2, <2>3
<1>7. ASSUME NEW t \in Tasks, Fail(t) PROVE DmRows'
  BY <1>3, <1>4, <1>7, FailFact, OthersFact DEF IInv, DmRows
<1>8. CASE Outside
  BY <1>3, <1>4, <1>8, OutsideFact DEF IInv, DmRows, Idle
<1>9. CASE Crash
  BY <1>3, <1>9, CrashFact DEF DmRows
<1> QED BY <1>5, <1>6, <1>7, <1>8, <1>9, NextFact

\* ListsPrivate is inductive.
LEMMA PrivateStep ==
  ASSUME IInv, [Next]_vars
  PROVE  ListsPrivate'
<1>1. ASSUME NEW t \in Tasks, Receive(t) PROVE ListsPrivate'
  <2>1. pc'[t] # "list_reply"
    BY <1>1, ReceiveFact DEF IInv
  <2> QED BY <1>1, <2>1, OthersFact DEF IInv, ListsPrivate
<1>2. ASSUME NEW t \in Tasks, Step(t) PROVE ListsPrivate'
  <2>1. \A s \in Tasks \ {t} : pc'[s] = pc[s] /\ req'[s] = req[s] /\ page'[s] = page[s]
    BY <1>2, OthersFact DEF IInv
  <2>2. ASSUME pc'[t] = "list_reply", NEW i \in ChannelIds, page'[t][i].label \in Pairs
        PROVE  req'[t].user \in page'[t][i].label
    <3>1. pc[t] = "list" /\ req' = req
      BY <1>2, <2>2, MovesFact DEF IInv
    <3>2. ReadList(t)
      BY <1>2, <3>1 DEF Step, CreateRole, RenameRole, DropRole, CheckRole, InsertChannel,
         FindDm, UpdateName, DropChannel, FetchChannel, Announce, ListReply
    <3>3. page'[t][i] = IF Lists(req[t].user, i) THEN Row(i) ELSE [Row(i) EXCEPT !.label = Absent]
      BY <3>2 DEF ReadList, IInv, TypeOK
    <3>4. Lists(req[t].user, i) /\ page'[t][i].label = channels[i]
      BY <2>2, <3>3, PairFact DEF Row
    <3> QED BY <2>2, <3>1, <3>4, PairFact DEF Lists, IsText, IsMember
  <2> QED BY <2>1, <2>2 DEF IInv, ListsPrivate
<1>3. ASSUME NEW t \in Tasks, Fail(t) PROVE ListsPrivate'
  BY <1>3, FailFact, OthersFact DEF IInv, ListsPrivate
<1>4. CASE Outside
  BY <1>4, OutsideFact DEF IInv, ListsPrivate, Idle
<1>5. CASE Crash
  BY <1>5, CrashFact DEF ListsPrivate
<1> QED BY <1>1, <1>2, <1>3, <1>4, <1>5, NextFact

\* DmUnseen is kept: what a client is shown is its list or an announcement.
LEMMA UnseenStep ==
  ASSUME IInv, [Next]_vars
  PROVE  DmUnseen'
<1> SUFFICES ASSUME NEW w \in Watchers, NEW i \in ChannelIds, view'[w][i].label \in Pairs
             PROVE  w \in view'[w][i].label
  BY DEF DmUnseen
<1>1. CASE view'[w][i] = view[w][i]
  BY <1>1 DEF IInv, DmUnseen
<1>2. CASE view'[w][i] = Unseen
  BY <1>2, PairFact DEF Unseen
<1>3. ASSUME NEW t \in Tasks, Step(t), view'[w][i] # view[w][i]
      PROVE  w \in view'[w][i].label
  <2>1. CASE Announce(t)
    <3>1. /\ w \in Audience(t) /\ view'[w] = Shown(w, page[t])
          /\ page[t] \in [{req[t].id} -> Entry] /\ req[t].id \in ChannelIds
      BY <1>3, <2>1, AnnounceFact DEF IInv
    <3>2. i = req[t].id /\ view'[w][i] = page[t][i]
      BY <1>3, <3>1 DEF Shown
    <3> QED BY <3>1, <3>2 DEF Audience
  <2>2. CASE ~Announce(t)
    <3>1. /\ pc[t] = "list_reply" /\ w = req[t].user /\ view'[w] = Shown(w, page[t])
          /\ page[t] \in [ChannelIds -> Entry]
      <4>1. /\ pc[t] = "list_reply" /\ w = req[t].user /\ view'[w] = Shown(w, page[t])
        BY <1>3, <2>2, ListFact DEF IInv
      <4> QED BY <4>1 DEF IInv, TypeOK
    <3>2. view'[w][i] = page[t][i]
      BY <3>1 DEF Shown
    <3> QED BY <3>1, <3>2 DEF IInv, ListsPrivate
  <2> QED BY <2>1, <2>2
<1>4. ASSUME NEW t \in Tasks, Receive(t) PROVE view'[w][i] = view[w][i]
  BY <1>4, ReceiveFact DEF IInv
<1>5. ASSUME NEW t \in Tasks, Fail(t) PROVE view'[w][i] = view[w][i]
  BY <1>5, FailFact DEF IInv
<1>6. CASE Outside
  BY <1>1, <1>2, <1>6, SocketFact DEF IInv
<1>7. CASE Crash
  BY <1>2, <1>7, CrashFact
<1> QED BY <1>1, <1>3, <1>4, <1>5, <1>6, <1>7, NextFact

\* A demotion is remembered while the task is at work.
LEMMA DemotedFact ==
  ASSUME TypeOK, NEW t \in Tasks, Receive(t) \/ Step(t) \/ Fail(t)
  PROVE  mods' = mods /\ \A s \in Tasks \ {t} : s \in demoted => s \in demoted'
<1>1. CASE Receive(t)
  BY <1>1, ReceiveFact
<1>2. CASE Fail(t)
  BY <1>2, FailFact
<1>3. CASE Step(t)
  <2> USE DEF Finish, history, Write
  <2>1. CASE CreateRole(t) \/ RenameRole(t) \/ DropRole(t)
    BY <2>1 DEF CreateRole, RenameRole, DropRole, CheckRole
  <2>2. CASE InsertChannel(t) \/ UpdateName(t) \/ DropChannel(t)
    BY <2>2 DEF InsertChannel, UpdateName, DropChannel
  <2>3. CASE FindDm(t) \/ FetchChannel(t) \/ ReadList(t)
    BY <2>3 DEF FindDm, FetchChannel, ReadList
  <2>4. CASE Announce(t) \/ ListReply(t)
    BY <2>4 DEF Announce, ListReply
  <2> QED BY <1>3, <2>1, <2>2, <2>3, <2>4 DEF Step
<1> QED BY <1>1, <1>2, <1>3

\* RoleChecked is inductive.
LEMMA RoleStep ==
  ASSUME IInv, [Next]_vars
  PROVE  RoleChecked'
<1>1. ASSUME NEW t \in Tasks, Receive(t) PROVE RoleChecked'
  <2>1. pc'[t] \in {"rename", "drop"} => req'[t].user = Admin
    BY <1>1, ReceiveFact DEF IInv
  <2> QED BY <1>1, <2>1, OthersFact, DemotedFact DEF IInv, RoleChecked
<1>2. ASSUME NEW t \in Tasks, Step(t) PROVE RoleChecked'
  <2>1. pc'[t] \in {"rename", "drop"} => req' = req /\ req[t].user \in mods
    BY <1>2, MovesFact DEF IInv
  <2> QED BY <1>2, <2>1, OthersFact, DemotedFact DEF IInv, RoleChecked
<1>3. ASSUME NEW t \in Tasks, Fail(t) PROVE RoleChecked'
  BY <1>3, FailFact, OthersFact, DemotedFact DEF IInv, RoleChecked
<1>4. CASE Outside
  <2>1. \A t \in Tasks : ~Idle(t) => req'[t].user = req[t].user /\ pc'[t] = pc[t]
    BY <1>4, OutsideFact DEF IInv
  <2>2. pc' = pc
    BY <1>4, OutsideFact DEF IInv
  <2>3. ASSUME NEW t \in Tasks, pc[t] \in {"rename", "drop"},
               req[t].user \in mods \cup {Admin} \/ t \in demoted
        PROVE  req[t].user \in mods' \cup {Admin} \/ t \in demoted'
    <3>1. ASSUME NEW u \in Users, SetMod(u)
          PROVE  req[t].user \in mods' \cup {Admin} \/ t \in demoted'
      BY <2>3, <3>1 DEF SetMod
    <3>2. ASSUME NEW w \in Watchers, Connect(w) \/ Disconnect(w)
          PROVE  UNCHANGED <<mods, demoted>>
      BY <3>2 DEF Connect, Disconnect, history
    <3> QED BY <1>4, <2>3, <3>1, <3>2 DEF Outside, vars, history
  <2> QED BY <2>1, <2>2, <2>3 DEF IInv, RoleChecked, Idle
<1>5. CASE Crash
  BY <1>5, CrashFact DEF RoleChecked
<1> QED BY <1>1, <1>2, <1>3, <1>4, <1>5, NextFact
-----------------------------------------------------------------------------
(* The theorems *)

\* IInv is an inductive invariant of the directory.
THEOREM Invariance == Spec => []IInv
<1>1. Init => IInv
  <2> SUFFICES ASSUME Init PROVE IInv
    OBVIOUS
  <2>1. TypeOK
    BY DEF Init, TypeOK, Idle, Entry, Unseen, Statuses
  <2>2. DmUnseen
    BY PairFact DEF Init, DmUnseen, Unseen
  <2> QED BY <2>1, <2>2 DEF Init, IInv, LabelsFit, RowsDiffer, Exists, IdsAreFresh, DmRows,
     ListsPrivate, RoleChecked
<1>2. IInv /\ [Next]_vars => IInv'
  BY TypeStep, LabelsStep, RowsStep, FreshStep, DmRowsStep, PrivateStep, UnseenStep, RoleStep
     DEF IInv
<1> QED BY <1>1, <1>2, PTL DEF Spec

\* Every variable keeps its type, whatever requests run against the channels.
THEOREM TypeCorrect == Spec => []TypeOK
<1>1. IInv => TypeOK
  BY DEF IInv
<1> QED BY <1>1, Invariance, PTL

\* Two users have one DM: every id acked for a pair is its one row.
THEOREM OneDm == Spec => []DmIsOne
<1>1. IInv => DmIsOne
  <2> SUFFICES ASSUME IInv, NEW p \in Pairs, NEW i \in answered[p], NEW j \in answered[p]
               PROVE  i = j /\ channels[i] = p
    BY DEF DmIsOne
  <2>1. i \in ChannelIds /\ j \in ChannelIds
    BY DEF IInv, TypeOK
  <2>2. channels[i] = p /\ channels[j] = p /\ p # Absent
    BY PairFact DEF IInv, DmRows
  <2> QED BY <2>1, <2>2 DEF IInv, RowsDiffer, Exists
<1> QED BY <1>1, Invariance, PTL

\* No client is ever shown a DM its user is not a member of.
THEOREM UnseenDm == Spec => []DmUnseen
<1>1. IInv => DmUnseen
  BY DEF IInv
<1> QED BY <1>1, Invariance, PTL

\* Names change and disappear only in the UPDATE or the DELETE of a request for that
\* channel, by staff or by somebody demoted since the check.
THEOREM StaffOnly == Spec => StaffRename
<1>1. IInv /\ [Next]_vars =>
        [\A i \in ChannelIds :
           (IsText(i) /\ channels'[i] # channels[i])
           => \E t \in Tasks : /\ pc[t] \in {"rename", "drop"} /\ pc'[t] # pc[t]
                               /\ req[t].id = i
                               /\ \/ req[t].user \in mods \cup {Admin}
                                  \/ t \in demoted]_vars
  <2> SUFFICES ASSUME IInv, [Next]_vars, NEW i \in ChannelIds,
                      IsText(i), channels'[i] # channels[i]
               PROVE  \E t \in Tasks : /\ pc[t] \in {"rename", "drop"} /\ pc'[t] # pc[t]
                                       /\ req[t].id = i
                                       /\ \/ req[t].user \in mods \cup {Admin}
                                          \/ t \in demoted
    OBVIOUS
  <2>1. PICK t \in Tasks : Step(t)
    BY NextFact, ReceiveFact, FailFact, OutsideFact, CrashFact DEF IInv
  <2>2. \/ pc[t] = "insert" /\ Write(t, req[t].id, req[t].label) /\ req[t].label \in Labels
        \/ /\ pc[t] \in {"rename", "drop"} /\ pc'[t] \in {"fetch", "announce"}
           /\ \E l \in Labels \cup {Absent} : Write(t, req[t].id, l)
    BY <2>1, TableFact, PairFact DEF IInv
  <2>3. req[t].id = i
    BY <2>2, WriteFact DEF IInv
  <2>4. pc[t] # "insert"
    BY <2>3, PairFact DEF IInv, IdsAreFresh, RowsDiffer, Exists, IsText
  <2> QED BY <2>2, <2>3, <2>4 DEF IInv, RoleChecked
<1> QED BY <1>1, Invariance, PTL DEF Spec, StaffRename

\* A DM is there for good: what handle_channel_rename and handle_channel_delete do to
\* text channels never reaches its row.
THEOREM DmsKept == Spec => [][\A i \in ChannelIds :
                                channels[i] \in Pairs => channels'[i] = channels[i]]_vars
<1>1. IInv /\ [Next]_vars => [\A i \in ChannelIds :
                                channels[i] \in Pairs => channels'[i] = channels[i]]_vars
  BY DmStays
<1> QED BY <1>1, Invariance, PTL DEF Spec

\* The loser of two racing creates of a DM goes on to look for a row that is there.
LEMMA FindStep ==
  ASSUME IInv, DmFound, [Next]_vars
  PROVE  DmFound'
<1>1. ASSUME NEW s \in Tasks, pc[s] = "find", pc'[s] = "find", req'[s].label = req[s].label
      PROVE  \E i \in ChannelIds : channels'[i] = req'[s].label
  <2>1. PICK i \in ChannelIds : channels[i] = req[s].label
    BY <1>1 DEF DmFound
  <2>2. channels[i] \in Pairs
    BY <1>1, <2>1 DEF IInv, LabelsFit
  <2> QED BY <1>1, <2>1, <2>2, DmStays
<1>2. ASSUME NEW t \in Tasks, Step(t) PROVE DmFound'
  <2>1. \A s \in Tasks \ {t} : pc'[s] = pc[s] /\ req'[s] = req[s]
    BY <1>2, OthersFact DEF IInv
  <2>2. ASSUME pc'[t] = "find" PROVE \E i \in ChannelIds : channels'[i] = req'[t].label
    <3>1. pc[t] = "insert" /\ req' = req
      BY <1>2, <2>2, MovesFact DEF IInv
    <3>2. InsertChannel(t) /\ pc'[t] = "find"
      BY <1>2, <2>2, <3>1 DEF Step, CreateRole, RenameRole, DropRole, CheckRole, FindDm,
         UpdateName, DropChannel, FetchChannel, Announce, ReadList, ListReply
    <3>3. ~FreeFor(req[t].id, req[t].label) /\ channels' = channels
      BY <3>2 DEF InsertChannel, IInv, TypeOK, Goto, Finish, table
    <3> QED BY <3>1, <3>3 DEF FreeFor
  <2> QED BY <1>1, <2>1, <2>2 DEF DmFound
<1>3. ASSUME NEW t \in Tasks, Receive(t) PROVE DmFound'
  <2>1. pc'[t] # "find" /\ \A s \in Tasks \ {t} : pc'[s] = pc[s] /\ req'[s] = req[s]
    BY <1>3, ReceiveFact, OthersFact DEF IInv
  <2> QED BY <1>1, <2>1 DEF DmFound
<1>4. ASSUME NEW t \in Tasks, Fail(t) PROVE DmFound'
  BY <1>1, <1>4, FailFact, OthersFact DEF IInv, DmFound
<1>5. CASE Outside
  BY <1>1, <1>5, OutsideFact DEF IInv, DmFound, Idle
<1>6. CASE Crash
  BY <1>6, CrashFact DEF DmFound
<1> QED BY <1>2, <1>3, <1>4, <1>5, <1>6, NextFact

\* The SELECT that follows a refused INSERT of a DM in handle_channel_create has a
\* row to return: fetch_one does not fail for want of one.
THEOREM DmsFound == Spec => []DmFound
<1>1. Init => DmFound
  BY DEF Init, DmFound
<1> QED BY <1>1, FindStep, Invariance, PTL DEF Spec
-----------------------------------------------------------------------------
(* The directory implements ChannelNames *)

Issued == {i \in ChannelIds : version[i] > 0}

\* Every step is one of the directory's promise, or changes nothing of it.
LEMMA PromiseStep ==
  ASSUME IInv, [Next]_vars
  PROVE  [Promise!Next]_(Promise!vars)
<1>1. CASE UNCHANGED <<channels, version>>
  BY <1>1 DEF Promise!vars
<1>2. ASSUME NEW t \in Tasks, Step(t) PROVE [Promise!Next]_(Promise!vars)
  <2> DEFINE i == req[t].id
             l == req[t].label
  <2>1. CASE UNCHANGED <<channels, version>>
    BY <1>1, <2>1
  <2>2. ASSUME NEW m \in Labels \cup {Absent}, Write(t, i, m),
               pc[t] \in {"insert", "rename", "drop"}
        PROVE  /\ i \in ChannelIds
               /\ channels' = [channels EXCEPT ![i] = m]
               /\ Issued' = Issued \cup {i}
    <3>1. /\ i \in ChannelIds /\ version[i] \in Nat
          /\ version'[i] = version[i] + 1
          /\ \A j \in ChannelIds \ {i} : version'[j] = version[j]
      <4>1. i \in ChannelIds /\ version'[i] = version[i] + 1
            /\ \A j \in ChannelIds \ {i} : version'[j] = version[j]
        BY <2>2, WriteFact DEF IInv
      <4> QED BY <4>1 DEF IInv, TypeOK
    <3> QED BY <2>2, <3>1 DEF Issued, Write
  <2>3. CASE pc[t] = "insert" /\ FreeFor(i, l) /\ Write(t, i, l) /\ l \in Labels
    <3>1. i \notin Issued /\ channels[i] = Absent /\ i \in ChannelIds
      <4>1. i \in ChannelIds /\ version[i] = 0
        BY <2>2, <2>3 DEF IInv, IdsAreFresh
      <4> QED BY <4>1 DEF Issued, IInv, RowsDiffer, Exists
    <3>2. Promise!Free(l)
      BY <2>3, <3>1, PairFact DEF Promise!Free, FreeFor, Labels
    <3>3. channels' = [channels EXCEPT ![i] = l] /\ Issued' = Issued \cup {i}
      BY <2>2, <2>3
    <3>4. l \in Names \cup Pairs
      BY <2>3 DEF Labels
    <3>5. PICK j \in ChannelIds, m \in Names \cup Pairs : j = i /\ m = l
      BY <3>1, <3>4
    <3>6. Promise!Open(j, m)
      BY <3>1, <3>2, <3>3, <3>5 DEF Promise!Open, Issued
    <3>7. Promise!Next
      BY <3>6 DEF Promise!Next
    <3> QED BY <3>7
  <2>4. ASSUME IsText(i), i \in ChannelIds PROVE i \in Issued
    BY <2>4, PairFact DEF IInv, TypeOK, RowsDiffer, Exists, IsText, Issued
  <2>5. CASE pc[t] = "rename" /\ FreeFor(i, l) /\ Write(t, i, l) /\ l \in Names /\ IsText(i)
    <3>1. i \in ChannelIds /\ channels' = [channels EXCEPT ![i] = l] /\ Issued' = Issued
      BY <2>2, <2>4, <2>5, PairFact
    <3>2. CASE channels[i] = l
      <4>1. channels' = channels
        BY <3>1, <3>2 DEF IInv, TypeOK
      <4> QED BY <3>1, <4>1 DEF Promise!vars, Issued
    <3>3. CASE channels[i] # l
      <4>1. Promise!Free(l)
        BY <2>5, <3>1, <3>3 DEF Promise!Free, FreeFor
      <4>2. Promise!Rename(i, l)
        BY <2>5, <3>1, <4>1 DEF Promise!Rename, IsText, Issued
      <4> QED BY <2>5, <3>1, <4>2 DEF Promise!Next
    <3> QED BY <3>2, <3>3
  <2>6. CASE pc[t] = "drop" /\ IsText(i) /\ Write(t, i, Absent)
    <3>1. i \in ChannelIds /\ channels' = [channels EXCEPT ![i] = Absent] /\ Issued' = Issued
      BY <2>2, <2>4, <2>6
    <3>2. Promise!Close(i)
      BY <2>6, <3>1 DEF Promise!Close, IsText, Issued
    <3> QED BY <3>1, <3>2 DEF Promise!Next
  <2> QED BY <1>2, <2>1, <2>3, <2>5, <2>6, TableFact DEF IInv
<1> QED BY <1>1, <1>2, NextFact, ReceiveFact, FailFact, OutsideFact, CrashFact DEF IInv

\* Whatever the tasks do, the directory keeps the promise of ChannelNames.
THEOREM Implementation == Spec => ImplementsNames
<1>1. Init => Promise!Init
  BY DEF Init, Promise!Init
<1>2. IInv /\ [Next]_vars => [Promise!Next]_(Promise!vars)
  BY PromiseStep
<1> QED BY <1>1, <1>2, Invariance, PTL DEF Spec, ImplementsNames, Promise!Spec

\* The id of a deleted channel stays without a channel: neither a rename nor a create
\* that was under way brings it back, so nothing sent to it reaches another channel.
THEOREM IdsRetired == Spec => [][\A i \in ChannelIds :
                                   version[i] > 0 /\ ~Exists(i) => ~Exists(i)']_vars
<1>1. ASSUME IInv, [Next]_vars, NEW i \in ChannelIds, version[i] > 0, ~Exists(i)
      PROVE  ~Exists(i)'
  <2>1. [Promise!Next]_(Promise!vars)
    BY <1>1, PromiseStep
  <2>2. i \in Issued /\ channels[i] = Absent
    BY <1>1 DEF Issued, Exists
  <2>3. Absent \notin Names
    BY DirectoryAssumption DEF Labels
  <2>4. channels'[i] = Absent
    BY <2>1, <2>2, <2>3, <1>1
       DEF Promise!Next, Promise!vars, Promise!Open, Promise!Rename, Promise!Close, Issued,
           IInv, TypeOK
  <2> QED BY <2>4 DEF Exists
<1>2. IInv /\ [Next]_vars => [\A i \in ChannelIds :
                                   version[i] > 0 /\ ~Exists(i) => ~Exists(i)']_vars
  BY <1>1
<1> QED BY <1>2, Invariance, PTL DEF Spec
-----------------------------------------------------------------------------
(* What the clients know *)

\* A row is left alone or written once, and then its writer carries it.
LEMMA RowFact ==
  ASSUME IInv, [Next]_vars, NEW i \in ChannelIds
  PROVE  /\ version[i] \in Nat /\ version'[i] \in Nat
         /\ \/ channels'[i] = channels[i] /\ version'[i] = version[i]
            \/ /\ version'[i] = version[i] + 1
               /\ \E t \in Tasks : Carries(t, i)'
<1>1. version[i] \in Nat
  BY DEF IInv, TypeOK
<1>2. ASSUME NEW t \in Tasks, Step(t), ~UNCHANGED <<channels, version>>
      PROVE  \/ channels'[i] = channels[i] /\ version'[i] = version[i]
             \/ version'[i] = version[i] + 1 /\ Carries(t, i)'
  <2>1. PICK l \in Labels \cup {Absent} :
          /\ pc[t] \in {"insert", "rename", "drop"} /\ Write(t, req[t].id, l)
          /\ \/ pc'[t] = "fetch"
             \/ /\ pc'[t] = "announce"
                /\ page'[t] = [j \in {req[t].id} |->
                     [label |-> Absent, version |-> version[req[t].id] + 1]]
    BY <1>2, TableFact, PairFact DEF IInv
  <2>2. CASE req[t].id = i
    <3>1. /\ version'[i] = version[i] + 1 /\ req'[t].own = version'[i] /\ req'[t].id = i
      BY <2>1, <2>2, WriteFact DEF IInv
    <3> QED BY <2>1, <2>2, <3>1 DEF Carries
  <2>3. CASE req[t].id # i
    BY <2>1, <2>3, WriteFact DEF IInv
  <2> QED BY <2>2, <2>3
<1>3. \/ UNCHANGED <<channels, version>>
      \/ \E t \in Tasks : Step(t)
  BY NextFact, ReceiveFact, FailFact, OutsideFact, CrashFact DEF IInv
<1> QED BY <1>1, <1>2, <1>3

\* What was true of an entry stays true of it.
LEMMA TruthfulStays ==
  ASSUME IInv, [Next]_vars, NEW w, NEW i \in ChannelIds, NEW e \in Entry, Truthful(w, i, e)
  PROVE  /\ e.version <= version'[i]
         /\ e.version = version'[i] => e.label = channels'[i] \/ Hidden(w, i)'
<1>1. /\ e.version \in Nat /\ version[i] \in Nat
      /\ \/ channels'[i] = channels[i] /\ version'[i] = version[i]
         \/ version'[i] = version[i] + 1
  BY RowFact DEF Entry
<1> QED BY <1>1 DEF Truthful, Hidden

\* An empty entry is true of every row, whatever its version.
LEMMA UnseenTruthful ==
  ASSUME IInv, NEW w, NEW i \in ChannelIds
  PROVE  Truthful(w, i, Unseen)
<1>1. version[i] \in Nat /\ (version[i] = 0 => channels[i] = Absent)
  BY DEF IInv, TypeOK, RowsDiffer, Exists
<1> QED BY <1>1 DEF Truthful, Unseen

\* What a client's entry becomes: what it was, nothing, or one of the page
\* of the task that announces or lists.
LEMMA EntryFact ==
  ASSUME TypeOK, LabelsFit, [Next]_vars, NEW w \in Watchers, NEW i \in ChannelIds
  PROVE  \/ view'[w][i] = view[w][i] /\ told'[w][i] = told[w][i]
         \/ view'[w][i] = Unseen /\ told'[w][i] = 0 /\ status'[w] = "off"
         \/ \E t \in Tasks :
              /\ Step(t)
              /\ \/ Announce(t) /\ i = req[t].id /\ page[t][i] \in Entry
                 \/ /\ ~Announce(t) /\ pc[t] = "list_reply" /\ w = req[t].user
                    /\ page[t][i] \in Entry
              /\ view'[w][i] = page[t][i]
              /\ told'[w][i] = Newer(told[w][i], page[t][i].version)
<1>1. ASSUME NEW t \in Tasks, Announce(t)
      PROVE  \/ view'[w][i] = view[w][i] /\ told'[w][i] = told[w][i]
             \/ /\ i = req[t].id /\ page[t][i] \in Entry
                /\ view'[w][i] = page[t][i]
                /\ told'[w][i] = Newer(told[w][i], page[t][i].version)
  <2>1. /\ page[t] \in [{req[t].id} -> Entry]
        /\ \/ view'[w] = view[w] /\ told'[w] = told[w]
           \/ view'[w] = Shown(w, page[t]) /\ told'[w] = Told(w, page[t])
    BY <1>1, AnnounceFact
  <2> QED BY <2>1 DEF Shown, Told
<1>2. ASSUME NEW t \in Tasks, Step(t), ~Announce(t)
      PROVE  \/ view'[w][i] = view[w][i] /\ told'[w][i] = told[w][i]
             \/ /\ pc[t] = "list_reply" /\ w = req[t].user /\ page[t][i] \in Entry
                /\ view'[w][i] = page[t][i]
                /\ told'[w][i] = Newer(told[w][i], page[t][i].version)
  <2>1. \/ view'[w] = view[w] /\ told'[w] = told[w]
        \/ /\ pc[t] = "list_reply" /\ w = req[t].user
           /\ view'[w] = Shown(w, page[t]) /\ told'[w] = Told(w, page[t])
    BY <1>2, ListFact
  <2>2. pc[t] = "list_reply" => page[t] \in [ChannelIds -> Entry]
    BY DEF TypeOK
  <2> QED BY <2>1, <2>2 DEF Shown, Told
<1>3. ASSUME NEW t \in Tasks, Receive(t) \/ Fail(t) PROVE view' = view /\ told' = told
  BY <1>3, ReceiveFact, FailFact
<1>4. CASE Outside
  BY <1>4, SocketFact
<1>5. CASE Crash
  BY <1>5, CrashFact
<1> QED BY <1>1, <1>2, <1>3, <1>4, <1>5, NextFact

\* What a task is about to announce or to list: what it was, or as the rows
\* are after its step.
LEMMA PageFact ==
  ASSUME IInv, [Next]_vars, NEW t \in Tasks, pc'[t] \in {"announce", "list_reply"}
  PROVE  \/ pc'[t] = pc[t] /\ page'[t] = page[t] /\ req'[t].id = req[t].id
            /\ req'[t].user = req[t].user /\ (req'[t].live => req[t].live)
         \/ /\ pc'[t] = "announce" /\ Step(t) /\ pc[t] \in {"drop", "fetch"}
            /\ req'[t].id = req[t].id /\ req[t].id \in ChannelIds
            /\ page'[t][req[t].id] = Row(req[t].id)'
         \/ /\ pc'[t] = "list_reply" /\ ReadList(t) /\ req' = req
            /\ \A i \in ChannelIds : page'[t][i] =
                 IF Lists(req[t].user, i) THEN Row(i) ELSE [label |-> Absent, version |-> version[i]]
<1>1. ASSUME NEW s \in Tasks, Receive(s) \/ Step(s) \/ Fail(s), s # t
      PROVE  pc'[t] = pc[t] /\ page'[t] = page[t] /\ req'[t] = req[t]
  BY <1>1, OthersFact DEF IInv
<1>2. ~Receive(t) /\ ~Fail(t) /\ ~Crash
  BY ReceiveFact, FailFact, CrashFact DEF IInv
<1>3. CASE Outside
  BY <1>3, OutsideFact DEF IInv, Idle
<1>4. CASE Step(t) /\ pc'[t] = "announce"
  <2>1. pc[t] \in {"drop", "fetch"} /\ req'[t].id = req[t].id /\ req[t].id \in ChannelIds
    <3>1. pc[t] \in {"drop", "fetch"} /\ req'[t].id = req[t].id
      BY <1>4, MovesFact DEF IInv
    <3> QED BY <3>1 DEF IInv, TypeOK
  <2>2. DropChannel(t) \/ FetchChannel(t)
    BY <1>4, <2>1 DEF Step, CreateRole, RenameRole, DropRole, CheckRole, InsertChannel,
       FindDm, UpdateName, Announce, ReadList, ListReply
  <2>3. CASE DropChannel(t)
    <3>1. IsText(req[t].id)
      BY <1>4, <2>3 DEF DropChannel, Finish, Goto, IInv, TypeOK
    <3>2. channels'[req[t].id] = Absent /\ version'[req[t].id] = version[req[t].id] + 1
      BY <2>3, <3>1, WriteFact DEF IInv, DropChannel
    <3>3. page'[t] = [j \in {req[t].id} |->
            [label |-> Absent, version |-> version[req[t].id] + 1]]
      BY <2>3, <3>1 DEF DropChannel, IInv, TypeOK
    <3> QED BY <1>4, <2>1, <3>2, <3>3 DEF Row
  <2>4. CASE FetchChannel(t)
    <3>1. Exists(req[t].id)
      BY <1>4, <2>4 DEF FetchChannel, Finish, Goto, IInv, TypeOK
    <3>2. page'[t] = [j \in {req[t].id} |-> Row(req[t].id)] /\ UNCHANGED <<channels, version>>
      BY <2>4, <3>1 DEF FetchChannel, IInv, TypeOK, table
    <3> QED BY <1>4, <2>1, <3>2 DEF Row
  <2> QED BY <2>2, <2>3, <2>4
<1>5. CASE Step(t) /\ pc'[t] = "list_reply"
  <2>1. pc[t] = "list" /\ req' = req
    BY <1>5, MovesFact DEF IInv
  <2>2. ReadList(t)
    BY <1>5, <2>1 DEF Step, CreateRole, RenameRole, DropRole, CheckRole, InsertChannel,
       FindDm, UpdateName, DropChannel, FetchChannel, Announce, ListReply
  <2>3. \A i \in ChannelIds : page'[t][i] =
          IF Lists(req[t].user, i) THEN Row(i) ELSE [label |-> Absent, version |-> version[i]]
    BY <2>2, RowType DEF ReadList, IInv, TypeOK
  <2> QED BY <1>5, <2>1, <2>2, <2>3
<1> QED BY <1>1, <1>2, <1>3, <1>4, <1>5, NextFact

\* EntriesTruthful is kept: entries are read from rows and only grow old.
LEMMA TruthfulStep ==
  ASSUME IInv, EntriesTruthful, [Next]_vars
  PROVE  EntriesTruthful'
<1>1. \A i \in ChannelIds : version[i] \in Nat /\ version'[i] \in Nat /\ version'[i] >= version[i]
  BY RowFact
<1>2. ASSUME NEW w, NEW i \in ChannelIds, NEW e \in Entry, Truthful(w, i, e)
      PROVE  /\ e.version <= version'[i]
             /\ e.version = version'[i] => e.label = channels'[i] \/ Hidden(w, i)'
  BY <1>2, TruthfulStays
<1>3. ASSUME NEW w \in Watchers, NEW i \in ChannelIds
      PROVE  told'[w][i] <= version'[i] /\ Truthful(w, i, view[w][i])'
  <2>1. /\ told[w][i] \in Nat /\ told[w][i] <= version[i]
        /\ view[w][i] \in Entry /\ Truthful(w, i, view[w][i])
    BY DEF EntriesTruthful, IInv, TypeOK
  <2>2. Truthful(w, i, Unseen) /\ Unseen \in Entry
    BY UnseenTruthful DEF Unseen, Entry
  <2>3. CASE view'[w][i] = view[w][i] /\ told'[w][i] = told[w][i]
    BY <1>1, <1>2, <2>1, <2>3 DEF Truthful
  <2>4. CASE view'[w][i] = Unseen /\ told'[w][i] = 0
    BY <1>1, <1>2, <2>2, <2>4 DEF Truthful
  <2>5. ASSUME NEW t \in Tasks, page[t][i] \in Entry, view'[w][i] = page[t][i],
               told'[w][i] = Newer(told[w][i], page[t][i].version),
               Truthful(w, i, page[t][i])
        PROVE  told'[w][i] <= version'[i] /\ Truthful(w, i, view[w][i])'
    <3>1. page[t][i].version \in Nat /\ page[t][i].version <= version[i]
      BY <2>5 DEF Entry, Truthful
    <3>2. told'[w][i] <= version'[i]
      <4>1. version[i] \in Nat /\ version'[i] \in Nat /\ version'[i] >= version[i]
        BY <1>1
      <4>2. \/ told'[w][i] = told[w][i]
            \/ told'[w][i] = page[t][i].version
        BY <2>1, <2>5, <3>1 DEF Newer
      <4>3. told'[w][i] \in Nat /\ told'[w][i] <= version[i]
        BY <2>1, <3>1, <4>2
      <4> QED BY <4>1, <4>3
    <3> QED BY <1>2, <2>5, <3>2 DEF Truthful
  <2>6. ASSUME NEW t \in Tasks, Announce(t), i = req[t].id PROVE Truthful(w, i, page[t][i])
    BY <2>6 DEF EntriesTruthful, Announce
  <2>7. ASSUME NEW t \in Tasks, pc[t] = "list_reply", w = req[t].user
        PROVE  Truthful(w, i, page[t][i])
    BY <2>7 DEF EntriesTruthful
  <2> QED BY <2>3, <2>4, <2>5, <2>6, <2>7, EntryFact DEF IInv
<1>4. ASSUME NEW t \in Tasks, pc'[t] = "announce", NEW w \in Watchers
      PROVE  Truthful(w, req[t].id, page[t][req[t].id])'
  <2>1. CASE pc[t] = "announce" /\ page'[t] = page[t] /\ req'[t].id = req[t].id
    <3>1. /\ req[t].id \in ChannelIds /\ page[t][req[t].id] \in Entry
          /\ Truthful(w, req[t].id, page[t][req[t].id])
      BY <2>1 DEF EntriesTruthful, IInv, TypeOK
    <3> QED BY <1>2, <2>1, <3>1 DEF Truthful
  <2>2. CASE req'[t].id = req[t].id /\ req[t].id \in ChannelIds
             /\ page'[t][req[t].id] = Row(req[t].id)'
    BY <1>1, <2>2 DEF Row, Truthful, Hidden
  <2> QED BY <1>4, <2>1, <2>2, PageFact
<1>5. ASSUME NEW t \in Tasks, pc'[t] = "list_reply", NEW i \in ChannelIds
      PROVE  Truthful(req[t].user, i, page[t][i])'
  <2>1. CASE pc[t] = "list_reply" /\ page'[t] = page[t] /\ req'[t].user = req[t].user
    <3>1. page[t][i] \in Entry /\ Truthful(req[t].user, i, page[t][i])
      BY <2>1 DEF EntriesTruthful, IInv, TypeOK
    <3> QED BY <1>2, <2>1, <3>1 DEF Truthful, Hidden
  <2>2. CASE ReadList(t) /\ req' = req /\ page'[t][i] =
               IF Lists(req[t].user, i) THEN Row(i) ELSE [label |-> Absent, version |-> version[i]]
    <3>1. UNCHANGED <<channels, version>> /\ channels[i] \in Labels \cup {Absent}
      BY <2>2 DEF ReadList, table, IInv, TypeOK
    <3> QED BY <1>1, <2>2, <3>1
      DEF Row, Truthful, Hidden, Lists, IsText, IsMember, Labels
  <2> QED BY <1>5, <2>1, <2>2, PageFact
<1> QED BY <1>3, <1>4, <1>5 DEF EntriesTruthful

\* OwnersFind is inductive.
LEMMA OwnersStep ==
  ASSUME IInv, OwnersFind, [Next]_vars
  PROVE  OwnersFind'
<1>1. ASSUME NEW t \in Tasks,
             pc'[t] = pc[t], req'[t].own = req[t].own, req'[t].id = req[t].id,
             req[t].id \in ChannelIds \/ pc[t] \notin {"create_role", "insert", "find", "fetch"}
      PROVE  /\ pc'[t] \in {"create_role", "insert", "find"} => req'[t].own = 0
             /\ pc'[t] = "fetch" =>
                  /\ req'[t].own <= version'[req'[t].id]
                  /\ req'[t].own = version'[req'[t].id] => Exists(req[t].id)'
  <2>1. CASE pc[t] = "fetch"
    <3>1. req[t].own \in Nat
      BY <2>1 DEF IInv, TypeOK, Idle, Request
    <3> QED BY <1>1, <2>1, <3>1, RowFact DEF OwnersFind, Exists
  <2> QED BY <1>1, <2>1 DEF OwnersFind
<1>2. \A t \in Tasks : pc[t] \in {"create_role", "insert", "find", "fetch"} => req[t].id \in ChannelIds
  BY DEF IInv, TypeOK
<1>3. ASSUME NEW t \in Tasks, Receive(t) PROVE OwnersFind'
  <2>1. pc'[t] # "fetch" /\ req'[t].own = 0 /\ UNCHANGED <<channels, version>>
    BY <1>3, ReceiveFact DEF IInv
  <2> QED BY <1>3, <2>1, OthersFact DEF IInv, OwnersFind, Exists
<1>4. ASSUME NEW t \in Tasks, Step(t) PROVE OwnersFind'
  <2>1. \A s \in Tasks \ {t} : pc'[s] = pc[s] /\ req'[s] = req[s]
    BY <1>4, OthersFact DEF IInv
  <2>2. pc'[t] \in {"create_role", "insert", "find"} => req'[t].own = 0
    BY <1>4, MovesFact DEF IInv, OwnersFind
  <2>3. ASSUME pc'[t] = "fetch"
        PROVE  /\ req'[t].own <= version'[req'[t].id]
               /\ req'[t].own = version'[req'[t].id] => Exists(req[t].id)'
    <3>1. CASE ~UNCHANGED <<channels, version>>
      <4>1. /\ pc[t] \in {"insert", "rename"} /\ req[t].label \in Labels
            /\ Write(t, req[t].id, req[t].label)
        BY <1>4, <2>3, <3>1, TableFact, PairFact DEF IInv
      <4>2. /\ req'[t].own = version'[req[t].id] /\ req'[t].id = req[t].id
            /\ channels'[req[t].id] = req[t].label
            /\ version'[req[t].id] \in Nat
        <5>1. req[t].id \in ChannelIds
          BY <4>1 DEF IInv, TypeOK
        <5> QED BY <4>1, <5>1, WriteFact, RowFact DEF IInv
      <4>3. req[t].label # Absent
        BY <4>1, DirectoryAssumption
      <4> QED BY <4>2, <4>3 DEF Exists
    <3>2. CASE UNCHANGED <<channels, version>>
      <4>1. FindDm(t)
        <5>1. CASE InsertChannel(t) \/ UpdateName(t)
          <6>1. PICK l \in Labels : Write(t, req[t].id, l) /\ pc[t] \in {"insert", "rename"}
            BY <2>3, <5>1, PairFact DEF InsertChannel, UpdateName, Finish, Goto, IInv, TypeOK, LabelsFit
          <6>2. version'[req[t].id] = version[req[t].id] + 1 /\ version[req[t].id] \in Nat
            <7>1. req[t].id \in ChannelIds /\ version'[req[t].id] = version[req[t].id] + 1
              BY <6>1, WriteFact DEF IInv
            <7> QED BY <7>1 DEF IInv, TypeOK
          <6> QED BY <3>2, <6>2
        <5>2. CASE CreateRole(t) \/ RenameRole(t) \/ DropRole(t) \/ DropChannel(t)
          BY <2>3, <5>2 DEF CreateRole, RenameRole, DropRole, CheckRole, DropChannel,
             Finish, Goto, IInv, TypeOK
        <5>3. CASE FetchChannel(t) \/ Announce(t) \/ ReadList(t) \/ ListReply(t)
          BY <2>3, <5>3 DEF FetchChannel, Announce, ReadList, ListReply,
             Finish, Goto, IInv, TypeOK
        <5> QED BY <1>4, <5>1, <5>2, <5>3 DEF Step
      <4>2. PICK j \in ChannelIds : channels[j] = req[t].label /\ req' = [req EXCEPT ![t].id = j]
        BY <4>1 DEF FindDm
      <4>3. req[t] \in Request /\ req[t].own = 0 /\ req[t].label \in Pairs
        BY <4>1 DEF FindDm, IInv, TypeOK, Idle, OwnersFind, LabelsFit
      <4>4. req'[t].id = j /\ req'[t].own = 0
        BY <4>2, <4>3 DEF IInv, TypeOK, Request
      <4> QED BY <3>2, <4>2, <4>3, <4>4, PairFact, RowFact DEF Exists
    <3> QED BY <3>1, <3>2
  <2>4. \A s \in Tasks \ {t} :
          /\ pc'[s] \in {"create_role", "insert", "find"} => req'[s].own = 0
          /\ pc'[s] = "fetch" =>
               /\ req'[s].own <= version'[req'[s].id]
               /\ req'[s].own = version'[req'[s].id] => Exists(req[s].id)'
    BY <1>1, <1>2, <2>1
  <2> QED BY <2>2, <2>3, <2>4 DEF OwnersFind, Exists
<1>5. ASSUME NEW t \in Tasks, Fail(t) PROVE OwnersFind'
  BY <1>5, FailFact, OthersFact DEF IInv, OwnersFind, Exists
<1>6. CASE Outside
  BY <1>6, OutsideFact DEF IInv, OwnersFind, Idle, Exists
<1>7. CASE Crash
  BY <1>7, CrashFact DEF OwnersFind
<1> QED BY <1>3, <1>4, <1>5, <1>6, <1>7, NextFact

\* A task that reads or sends a list did so before, for the same client, or
\* has just been asked by a client that waited for no list.
LEMMA ListerFact ==
  ASSUME IInv, [Next]_vars, NEW t \in Tasks, pc'[t] \in {"list", "list_reply"}
  PROVE  \/ /\ pc[t] \in {"list", "list_reply"} /\ req'[t].user = req[t].user
            /\ req'[t].live => req[t].live
         \/ /\ Receive(t) /\ pc'[t] = "list" /\ req'[t].user \in Watchers
            /\ \A s \in Tasks : pc[s] \in {"list", "list_reply"} /\ req[s].live
                  => req[s].user # req'[t].user
<1>1. CASE Receive(t)
  BY <1>1, ReceiveFact DEF IInv
<1>2. CASE Step(t)
  BY <1>2, MovesFact DEF IInv
<1>3. CASE Fail(t) \/ Crash
  BY <1>3, FailFact, CrashFact DEF IInv
<1>4. CASE Outside
  BY <1>4, OutsideFact DEF IInv, Idle
<1>5. ASSUME NEW s \in Tasks, s # t, Receive(s) \/ Step(s) \/ Fail(s)
      PROVE  pc'[t] = pc[t] /\ req'[t] = req[t]
  BY <1>5, OthersFact DEF IInv
<1> QED BY <1>1, <1>2, <1>3, <1>4, <1>5, NextFact

\* OneList and ListsByWatchers are inductive.
LEMMA ListersStep ==
  ASSUME IInv, OneList, ListsByWatchers, [Next]_vars
  PROVE  OneList' /\ ListsByWatchers'
<1>1. ListsByWatchers'
  BY ListerFact DEF ListsByWatchers
<1>2. ASSUME NEW s \in Tasks, NEW t \in Tasks,
             pc'[s] \in {"list", "list_reply"}, pc'[t] \in {"list", "list_reply"},
             req'[s].live, req'[t].live, req'[s].user = req'[t].user, s # t
      PROVE  FALSE
  <2>1. CASE Receive(s)
    <3>1. pc[t] \in {"list", "list_reply"} /\ req'[t].user = req[t].user /\ req[t].live
      <4>1. pc'[t] = pc[t] /\ req'[t] = req[t]
        BY <1>2, <2>1, OthersFact DEF IInv
      <4> QED BY <1>2, <4>1
    <3> QED BY <1>2, <2>1, <3>1, ReceiveFact DEF IInv
  <2>2. CASE Receive(t)
    <3>1. pc[s] \in {"list", "list_reply"} /\ req'[s].user = req[s].user /\ req[s].live
      <4>1. pc'[s] = pc[s] /\ req'[s] = req[s]
        BY <1>2, <2>2, OthersFact DEF IInv
      <4> QED BY <1>2, <4>1
    <3> QED BY <1>2, <2>2, <3>1, ReceiveFact DEF IInv
  <2>3. CASE ~Receive(s) /\ ~Receive(t)
    BY <1>2, <2>3, ListerFact DEF OneList
  <2> QED BY <2>1, <2>2, <2>3
<1>3. OneList'
  BY <1>2 DEF OneList
<1> QED BY <1>1, <1>3

\* A row whose last change someone carries is carried on until it is
\* announced, or until nobody is left to announce it.
LEMMA CarriesStep ==
  ASSUME IInv, CInv, [Next]_vars, NEW t \in Tasks, NEW i \in ChannelIds,
         Carries(t, i), version'[i] = version[i]
  PROVE  Carries(t, i)' \/ muted'[i] = Watchers \/ Announce(t) \/ Crash
<1>1. /\ pc[t] \in {"fetch", "announce"} /\ req[t].id = i
      /\ \/ pc[t] = "fetch" /\ req[t].own = version[i]
         \/ pc[t] = "announce" /\ page[t][i].version = version[i]
  BY DEF Carries
<1>2. CASE Fail(t)
  BY <1>1, <1>2 DEF Fail, DbSteps, IInv, TypeOK
<1>3. CASE Step(t) /\ ~Announce(t)
  <2>1. FetchChannel(t)
    BY <1>1, <1>3 DEF Step, CreateRole, RenameRole, DropRole, CheckRole, InsertChannel,
       FindDm, UpdateName, DropChannel, ReadList, ListReply
  <2>2. pc[t] = "fetch" /\ req[t].own = version[i] /\ Exists(i)
    BY <1>1, <2>1 DEF FetchChannel, CInv, OwnersFind
  <2>3. pc'[t] = "announce" /\ page'[t] = [j \in {i} |-> Row(i)] /\ req' = req
    BY <1>1, <2>1, <2>2 DEF FetchChannel, IInv, TypeOK, Goto
  <2> QED BY <1>1, <2>3 DEF Carries, Row
<1>4. CASE Receive(t)
  BY <1>1, <1>4, ReceiveFact DEF IInv, Idle
<1>5. ASSUME NEW s \in Tasks, s # t, Receive(s) \/ Step(s) \/ Fail(s)
      PROVE  Carries(t, i)'
  BY <1>1, <1>5, OthersFact DEF IInv, Carries
<1>6. CASE Outside
  BY <1>1, <1>6, OutsideFact DEF IInv, Idle, Carries
<1> QED BY <1>2, <1>3, <1>4, <1>5, <1>6, NextFact

\* A client stays excused of a row until the row is written again or the client reads
\* a list.
LEMMA MutedFact ==
  ASSUME IInv, [Next]_vars, NEW i \in ChannelIds, NEW w \in muted[i], w \in Watchers,
         version'[i] = version[i],
         \A s \in Tasks : ~(ReadList(s) /\ req[s].user = w /\ req[s].live)
  PROVE  w \in muted'[i]
<1>2. ASSUME NEW t \in Tasks, Step(t) PROVE w \in muted'[i]
  <2>1. ASSUME NEW l \in Labels \cup {Absent}, pc[t] \in {"insert", "rename", "drop"},
               Write(t, req[t].id, l)
        PROVE  w \in muted'[i]
    <3>1. req[t].id # i
      <4>1. version[i] \in Nat /\ version'[i] = version[i]
        BY DEF IInv, TypeOK
      <4>2. version'[req[t].id] = version[req[t].id] + 1
        BY <2>1, WriteFact DEF IInv
      <4> QED BY <4>1, <4>2
    <3>2. req[t].id \in ChannelIds /\ muted' = [muted EXCEPT ![req[t].id] = {}]
      BY <2>1, WriteFact DEF IInv
    <3> QED BY <3>1, <3>2 DEF IInv, TypeOK
  <2>2. CASE InsertChannel(t)
    <3>1. req[t].label \in Labels
      BY <2>2 DEF InsertChannel, IInv, LabelsFit
    <3> QED BY <2>1, <2>2, <3>1 DEF InsertChannel
  <2>3. CASE UpdateName(t)
    <3>1. req[t].label \in Labels
      BY <2>3, PairFact DEF UpdateName, IInv, LabelsFit
    <3> QED BY <2>1, <2>3, <3>1 DEF UpdateName
  <2>4. CASE DropChannel(t)
    BY <2>1, <2>4 DEF DropChannel
  <2>5. CASE CreateRole(t) \/ RenameRole(t) \/ DropRole(t)
    BY <2>5 DEF CreateRole, RenameRole, DropRole, CheckRole
  <2>6. CASE FindDm(t) \/ FetchChannel(t) \/ ListReply(t)
    BY <2>6 DEF FindDm, FetchChannel, ListReply, history
  <2>7. CASE Announce(t)
    <3>1. muted' \in {muted, [muted EXCEPT ![req[t].id] = @ \cup {req[t].user}]}
      BY <2>7, AnnounceFact DEF IInv
    <3>2. muted \in [ChannelIds -> SUBSET Users]
      BY DEF IInv, TypeOK
    <3> QED BY <3>1, <3>2
  <2>8. CASE ReadList(t)
    BY <2>8 DEF ReadList
  <2> QED BY <1>2, <2>2, <2>3, <2>4, <2>5, <2>6, <2>7, <2>8 DEF Step
<1>3. ASSUME NEW t \in Tasks, Fail(t) PROVE w \in muted'[i]
  <2>1. pc[t] = "fetch" => req[t].id \in ChannelIds
    BY DEF IInv, TypeOK
  <2> QED BY <1>3, <2>1 DEF Fail, IInv, TypeOK
<1> QED BY <1>2, <1>3, NextFact, ReceiveFact, OutsideFact, CrashFact DEF IInv

\* A connected client loses nothing it was told.
LEMMA ToldFact ==
  ASSUME IInv, [Next]_vars, NEW w \in Watchers, NEW i \in ChannelIds, status'[w] # "off"
  PROVE  told[w][i] \in Nat /\ told'[w][i] \in Nat /\ told'[w][i] >= told[w][i]
<1>1. told[w][i] \in Nat
  BY DEF IInv, TypeOK
<1>2. CASE told'[w][i] = told[w][i]
  BY <1>1, <1>2
<1>3. ASSUME NEW t \in Tasks, page[t][i] \in Entry,
             told'[w][i] = Newer(told[w][i], page[t][i].version)
      PROVE  told'[w][i] \in Nat /\ told'[w][i] >= told[w][i]
  <2>1. page[t][i].version \in Nat
    BY <1>3 DEF Entry
  <2> QED BY <1>1, <1>3, <2>1, NewerFact
<1> QED BY <1>1, <1>2, <1>3, EntryFact DEF IInv

\* The announcement of a row's last change reaches every client that goes on
\* following it, but for one whose user is not to see the row, and for the
\* asker of a DM whose socket is gone.
LEMMA HeardFact ==
  ASSUME IInv, CInv, [Next]_vars, NEW t \in Tasks, Announce(t), NEW i \in ChannelIds,
         Carries(t, i), NEW w \in Watchers, status'[w] \in {"listing", "following"}
  PROVE  told'[w][i] = version'[i] \/ w \in muted'[i] \/ Hidden(w, i)'
<1>1. pc[t] = "announce" /\ req[t].id = i /\ page[t][i].version = version[i]
  BY DEF Carries, Announce
<1>2. page[t] \in [{i} -> Entry] /\ UNCHANGED <<channels, version>>
  BY <1>1, AnnounceFact DEF IInv
<1>3. CASE w \in Audience(t) /\ told'[w] = Told(w, page[t])
  <2>1. told'[w][i] = Newer(told[w][i], version[i])
    BY <1>1, <1>2, <1>3 DEF Told
  <2>2. told[w][i] \in Nat /\ version[i] \in Nat /\ told[w][i] <= version[i]
    BY DEF CInv, EntriesTruthful, IInv, TypeOK
  <2> QED BY <1>2, <2>1, <2>2 DEF Newer
<1>4. CASE w \notin Audience(t) /\ status'[w] = status[w]
  <2>1. w \in Online
    BY <1>4 DEF Online
  <2>2. /\ page[t][i].label \in Pairs
        /\ w \notin page[t][i].label \/ (w = req[t].user /\ ~req[t].live)
    BY <1>1, <1>4, <2>1 DEF Audience
  <2>3. channels[i] = page[t][i].label
    BY <1>1, <2>2 DEF IInv, DmRows
  <2>4. w = req[t].user /\ ~req[t].live => w \in muted'[i]
    <3> SUFFICES ASSUME w = req[t].user, ~req[t].live PROVE w \in muted'[i]
      OBVIOUS
    <3>1. muted' = [muted EXCEPT ![i] = @ \cup {w}]
      BY <1>1, <2>2, AnnounceFact DEF IInv
    <3>2. muted \in [ChannelIds -> SUBSET Users]
      BY DEF IInv, TypeOK
    <3> QED BY <3>1, <3>2
  <2> QED BY <1>2, <2>2, <2>3, <2>4 DEF Hidden
<1>5. \/ w \in Audience(t) /\ told'[w] = Told(w, page[t])
      \/ w \notin Audience(t) /\ status'[w] = status[w]
  BY AnnounceFact DEF IInv
<1> QED BY <1>3, <1>4, <1>5

\* Who knows a row, or is to be told of it, still does after a step in which
\* the client misses nothing.
LEMMA KnowsStep ==
  ASSUME IInv, CInv, [Next]_vars, NEW w \in Watchers, NEW i \in ChannelIds, Knows(w, i),
         status'[w] \in {"listing", "following"},
         \A s \in Tasks : ~(ReadList(s) /\ req[s].user = w /\ req[s].live)
  PROVE  Knows(w, i)'
<1>1. CASE version'[i] # version[i]
  BY <1>1, RowFact DEF Knows, Excused
<1>2. CASE version'[i] = version[i]
  <2>1. CASE told[w][i] = version[i]
    <3>1. told'[w][i] <= version'[i]
      BY TruthfulStep DEF CInv, EntriesTruthful
    <3>2. told'[w][i] >= told[w][i] /\ told'[w][i] \in Nat /\ version[i] \in Nat
      BY ToldFact, RowFact
    <3> QED BY <1>2, <2>1, <3>1, <3>2 DEF Knows
  <2>2. CASE w \in muted[i]
    BY <1>2, <2>2, MutedFact DEF Knows, Excused
  <2>3. CASE Hidden(w, i)
    BY <2>3, DmStays DEF Hidden, Knows, Excused
  <2>4. ASSUME NEW t \in Tasks, Carries(t, i) PROVE Knows(w, i)'
    <3>1. CASE Carries(t, i)' \/ muted'[i] = Watchers
      BY <3>1 DEF Knows, Excused
    <3>2. CASE Announce(t)
      BY <2>4, <3>2, HeardFact DEF Knows, Excused
    <3>3. ~Crash
      BY CrashFact
    <3> QED BY <1>2, <2>4, <3>1, <3>2, <3>3, CarriesStep
  <2> QED BY <2>1, <2>2, <2>3, <2>4 DEF Knows, Excused
<1> QED BY <1>1, <1>2

\* A client begins to list when its list is read, and to follow when it gets
\* the list it waited for.
LEMMA StatusFact ==
  ASSUME IInv, [Next]_vars, NEW w \in Watchers, status'[w] # status[w],
         status'[w] \in {"listing", "following"}
  PROVE  \E t \in Tasks : /\ req[t].user = w /\ req[t].live
                          /\ \/ status'[w] = "listing" /\ ReadList(t)
                             \/ /\ status'[w] = "following" /\ status[w] = "listing"
                                /\ ListReply(t)
<1>1. ASSUME NEW t \in Tasks, Step(t)
      PROVE  /\ req[t].user = w /\ req[t].live
             /\ \/ status'[w] = "listing" /\ ReadList(t)
                \/ status'[w] = "following" /\ status[w] = "listing" /\ ListReply(t)
  <2>1. CASE CreateRole(t) \/ RenameRole(t) \/ DropRole(t)
    BY <2>1 DEF CreateRole, RenameRole, DropRole, CheckRole, clients
  <2>2. CASE InsertChannel(t) \/ UpdateName(t) \/ DropChannel(t)
    BY <2>2 DEF InsertChannel, UpdateName, DropChannel, clients
  <2>3. CASE FindDm(t) \/ FetchChannel(t)
    BY <2>3 DEF FindDm, FetchChannel, clients
  <2>4. CASE Announce(t)
    BY <2>4, AnnounceFact DEF IInv
  <2>5. CASE ReadList(t)
    BY <2>5 DEF ReadList, IInv, TypeOK
  <2>6. CASE ListReply(t)
    BY <2>6 DEF ListReply, clients, IInv, TypeOK
  <2> QED BY <1>1, <2>1, <2>2, <2>3, <2>4, <2>5, <2>6 DEF Step
<1>2. ~Outside /\ ~Crash
  <2>1. ASSUME Outside
        PROVE  status'[w] = status[w] \/ status'[w] = "joined" \/ status'[w] = "off"
    BY <2>1, SocketFact DEF IInv
  <2>2. Crash => status'[w] = "off"
    BY DEF Crash
  <2> QED BY <2>1, <2>2
<1>3. \A t \in Tasks : ~Receive(t) /\ ~Fail(t)
  BY ReceiveFact, FailFact DEF IInv
<1>4. PICK t \in Tasks : Step(t)
  BY <1>2, <1>3, NextFact
<1> QED BY <1>1, <1>4

\* Informed is kept: a list is read after the rooms are joined, so no change
\* falls between the two.
LEMMA InformedStep ==
  ASSUME IInv, CInv, [Next]_vars
  PROVE  Informed'
<1>1. ASSUME NEW w \in Watchers, status'[w] = "following", NEW i \in ChannelIds
      PROVE  Knows(w, i)'
  <2> \A s \in Tasks : ~(ReadList(s) /\ req[s].user = w /\ req[s].live)
    BY <1>1 DEF ReadList, IInv, TypeOK
  <2>1. CASE status[w] = "following"
    BY <1>1, <2>1, KnowsStep DEF CInv, Informed
  <2>2. CASE status[w] # "following"
    <3>1. PICK t \in Tasks : /\ req[t].user = w /\ req[t].live
                            /\ status[w] = "listing" /\ ListReply(t)
      BY <1>1, <2>2, StatusFact
    <3>2. pc[t] = "list_reply" /\ page[t] \in [ChannelIds -> Entry]
      BY <3>1 DEF ListReply, IInv, TypeOK
    <3>3. CASE Knows(w, i)
      BY <1>1, <3>3, KnowsStep
    <3>4. CASE page[t][i].version = version[i]
      <4>1. told' = [told EXCEPT ![w] = Told(w, page[t])] /\ UNCHANGED version
        BY <3>1 DEF ListReply, table
      <4>2. told'[w][i] = Newer(told[w][i], version[i])
        BY <3>2, <3>4, <4>1 DEF Told, IInv, TypeOK
      <4>3. told[w][i] \in Nat /\ version[i] \in Nat /\ told[w][i] <= version[i]
        BY DEF CInv, EntriesTruthful, IInv, TypeOK
      <4> QED BY <4>1, <4>2, <4>3 DEF Newer, Knows
    <3> QED BY <3>1, <3>2, <3>3, <3>4 DEF CInv, Informed
  <2> QED BY <2>1, <2>2
<1>2. ASSUME NEW t \in Tasks, pc'[t] = "list_reply", req'[t].live,
             status'[req'[t].user] = "listing", NEW i \in ChannelIds
      PROVE  Knows(req[t].user, i)' \/ page'[t][i].version = version'[i]
  <2>1. CASE /\ pc[t] = "list_reply" /\ page'[t] = page[t]
             /\ req'[t].user = req[t].user /\ req[t].live
    <3> DEFINE w == req[t].user
    <3>1. w \in Watchers
      BY <2>1 DEF CInv, ListsByWatchers
    <3>2. status[w] = "listing"
      <4> SUFFICES ASSUME status[w] # "listing" PROVE FALSE
        OBVIOUS
      <4>1. PICK s \in Tasks : req[s].user = w /\ req[s].live /\ ReadList(s)
        BY <1>2, <2>1, <3>1, StatusFact
      <4>2. pc[s] = "list"
        BY <4>1 DEF ReadList
      <4> QED BY <2>1, <4>1, <4>2 DEF CInv, OneList
    <3>3. CASE Knows(w, i)
      <4>1. PICK x \in Watchers : x = w
        BY <3>1
      <4>2. \A s \in Tasks : ~(ReadList(s) /\ req[s].user = x /\ req[s].live)
        BY <2>1, <4>1 DEF ReadList, CInv, OneList
      <4>3. Knows(x, i)'
        BY <1>2, <2>1, <3>3, <4>1, <4>2, KnowsStep
      <4> QED BY <2>1, <4>1, <4>3 DEF Knows, Excused, Hidden
    <3>4. CASE page[t][i].version = version[i] /\ version'[i] = version[i]
      BY <2>1, <3>4
    <3>5. CASE version'[i] # version[i]
      BY <3>5, RowFact DEF Knows, Excused
    <3> QED BY <2>1, <3>2, <3>3, <3>4, <3>5 DEF CInv, Informed
  <2>2. CASE ReadList(t) /\ page'[t][i] =
               IF Lists(req[t].user, i) THEN Row(i) ELSE [label |-> Absent, version |-> version[i]]
    BY <2>2 DEF ReadList, Row, table
  <2> QED BY <1>2, <2>1, <2>2, PageFact
<1> QED BY <1>1, <1>2 DEF Informed

\* A client that follows was told every change that is open to it and that nobody is
\* about to announce, or failed to announce to it since its list.
THEOREM NewsTold == Spec => []FollowersTold
<1>1. Init => CInv
  <2> SUFFICES ASSUME Init PROVE CInv
    OBVIOUS
  <2>1. EntriesTruthful
    BY DEF Init, EntriesTruthful, Truthful, Unseen
  <2> QED BY <2>1 DEF Init, CInv, OwnersFind, OneList, ListsByWatchers, Informed
<1>2. IInv /\ CInv /\ [Next]_vars => CInv'
  BY TruthfulStep, OwnersStep, ListersStep, InformedStep DEF CInv
<1>3. IInv /\ CInv => FollowersTold
  <2> SUFFICES ASSUME IInv, CInv, NEW w \in Watchers, NEW i \in ChannelIds,
                      status[w] = "following", channels[i] \in Pairs => w \in channels[i],
                      ~Pending(i), w \notin muted[i]
               PROVE  /\ told[w][i] = version[i]
                      /\ view[w][i].version = version[i] => view[w][i].label = channels[i]
    BY DEF FollowersTold
  <2>1. ~Hidden(w, i) /\ \A t \in Tasks : ~Carries(t, i)
    BY DEF Hidden, Pending, Carries
  <2>2. Knows(w, i) /\ Truthful(w, i, view[w][i])
    BY DEF CInv, Informed, EntriesTruthful
  <2> QED BY <2>1, <2>2 DEF Knows, Excused, Truthful
<1> QED BY <1>1, <1>2, <1>3, Invariance, PTL DEF Spec
-----------------------------------------------------------------------------
=============================================================================
