----------------------------- MODULE Directory -----------------------------
(***************************************************************************)
(* The channel directory (channels.rs): creating, renaming, deleting and   *)
(* listing channels, as requests of independent tokio tasks, and what the  *)
(* connected clients come to believe of it.  Each statement is a           *)
(* transaction of its own and one step here; between the statement that    *)
(* writes a channel and the broadcast that tells of it lies at least one   *)
(* await, where the steps of other requests fit.                           *)
(***************************************************************************)
EXTENDS Integers

CONSTANTS
    Users, Admin,        \* the accounts and the one AdminId holds
    Watchers,            \* the users whose client this module follows
    ChannelIds, Names,
    Tasks,               \* the requests that may run at once
    MinRole,             \* CHANNEL_CREATE_MIN_ROLE
    MaxVersion,          \* bound: how often one row is written
    Absent, NoId, NoRequest

Pairs == {{u, v} : u, v \in Users} \ {{u} : u \in Users}
Labels == Names \cup Pairs

ASSUME DirectoryAssumption ==
    /\ Admin \in Users
    /\ Watchers \subseteq Users
    /\ MaxVersion \in Nat \ {0}
    /\ Names \cap Pairs = {}
    /\ Absent \notin Labels
    /\ NoId \notin ChannelIds

VARIABLES
    channels,  \* table channels: the label of each row, a name or a pair
    mods,      \* users.is_mod
    pc,        \* what each task does next
    req,       \* the request it serves
    page,      \* the rows its last SELECT returned
    status,    \* what each followed client is doing
    view,      \* the channel list it shows
    version,   \* history: how often each row has been written
    told,      \* history: the latest version each client was told
    muted,     \* history: of each row, who is not told its last change and has
               \* not read it in a list since
    demoted,   \* history: tasks whose user lost the role after its check
    answered   \* history: the ids acked as the DM of a pair

table == <<channels, version>>
tasks == <<pc, req, page>>
clients == <<status, view, told>>
history == <<muted, demoted, answered>>
vars == <<table, mods, tasks, clients, history>>

Request == [user: Users, id: ChannelIds \cup {NoId}, label: Labels \cup {Absent},
            live: BOOLEAN, own: Nat]
Entry == [label: Labels \cup {Absent}, version: Nat]
Unseen == [label |-> Absent, version |-> 0]
Nothing == [i \in {} |-> Unseen]

DbSteps == {"create_role", "insert", "find", "fetch", "rename_role", "rename",
            "drop_role", "drop", "list"}
Statuses == {"off", "joined", "listing", "following"}
-----------------------------------------------------------------------------
Row(i) == [label |-> channels[i], version |-> version[i]]
Exists(i) == channels[i] # Absent

IsText(i) == channels[i] \in Names
IsMember(u, l) == l \in Pairs /\ u \in l

\* Slip: no unique index.
FreeAlways(i, l) == TRUE

\* The unique indexes on names and on pairs leave the label to row i.
FreeFor(i, l) == \A j \in ChannelIds \ {i} : channels[j] # l

Idle(t) == pc[t] = "idle"
Goto(t, step) == pc' = [pc EXCEPT ![t] = step]

\* The task ends: its future is dropped and its registers with it.
Finish(t) == /\ Goto(t, "idle")
             /\ req' = [req EXCEPT ![t] = NoRequest]
             /\ page' = [page EXCEPT ![t] = Nothing]
             /\ demoted' = demoted \ {t}

\* A request begins on behalf of a connected socket.
Accept(t, step, u, i, l) ==
    /\ Idle(t)
    /\ u \in Watchers => status[u] # "off"
    /\ Goto(t, step)
    /\ req' = [req EXCEPT ![t] = [user |-> u, id |-> i, label |-> l,
                                  live |-> TRUE, own |-> 0]]
    /\ UNCHANGED <<table, mods, page, clients, history>>

\* One row is written, and the task remembers which version it made.
Write(t, i, l) ==
    /\ channels' = [channels EXCEPT ![i] = l]
    /\ version' = [version EXCEPT ![i] = @ + 1]
    /\ req' = [req EXCEPT ![t].own = version[i] + 1]
    /\ muted' = [muted EXCEPT ![i] = {}]

\* Slip: the role looked up and not used.
CheckRoleIgnored(t, role, step) ==
    /\ pc[t] = role
    /\ Goto(t, step)
    /\ UNCHANGED <<req, page, table, mods, clients, history>>

\* is_mod, which sends a mod on to the step and refuses anyone else.
CheckRole(t, role, step) ==
    /\ pc[t] = role
    /\ \/ /\ req[t].user \in mods
          /\ Goto(t, step)
          /\ UNCHANGED <<req, page, demoted>>
       \/ /\ req[t].user \notin mods
          /\ Finish(t)
    /\ UNCHANGED <<table, mods, clients, muted, answered>>
-----------------------------------------------------------------------------
Init == /\ channels = [i \in ChannelIds |-> Absent]
        /\ mods = {}
        /\ pc = [t \in Tasks |-> "idle"]
        /\ req = [t \in Tasks |-> NoRequest]
        /\ page = [t \in Tasks |-> Nothing]
        /\ status = [w \in Watchers |-> "off"]
        /\ view = [w \in Watchers |-> [i \in ChannelIds |-> Unseen]]
        /\ version = [i \in ChannelIds |-> 0]
        /\ told = [w \in Watchers |-> [i \in ChannelIds |-> 0]]
        /\ muted = [i \in ChannelIds |-> {}]
        /\ demoted = {}
        /\ answered = [p \in Pairs |-> {}]
-----------------------------------------------------------------------------
(* channel_create *)

\* Uuid::new_v4 is taken to be new: neither stored before nor held by a task.
FreshId(i) == /\ version[i] = 0
              /\ \A t \in Tasks : ~Idle(t) => req[t].id # i

\* The step can_create_text_channel leads to for a user.
CreateGate(u) == IF MinRole = "user" \/ u = Admin THEN "insert"
                 ELSE IF MinRole = "mod" THEN "create_role" ELSE "refused"

CreateText(t, u, i, n) ==
    /\ CreateGate(u) # "refused"
    /\ FreshId(i)
    /\ Accept(t, CreateGate(u), u, i, n)

CreateDm(t, u, i, other) ==
    /\ other # u
    /\ FreshId(i)
    /\ Accept(t, "insert", u, i, {u, other})

CreateRole(t) == CheckRole(t, "create_role", "insert")

\* Slip: INSERT OR REPLACE.
InsertOrReplace(t) ==
    LET i == req[t].id  l == req[t].label IN
    /\ pc[t] = "insert"
    /\ channels' = [j \in ChannelIds |-> IF j = i THEN l
                      ELSE IF channels[j] = l THEN Absent ELSE channels[j]]
    /\ version' = [version EXCEPT ![i] = @ + 1]
    /\ Goto(t, "fetch")
    /\ UNCHANGED <<mods, req, page, clients, history>>

\* Slip: a taken name is looked up like a DM, and not refused.
InsertOrFind(t) ==
    LET i == req[t].id  l == req[t].label IN
    /\ pc[t] = "insert"
    /\ \/ /\ FreeFor(i, l)
          /\ Write(t, i, l)
          /\ Goto(t, "fetch")
       \/ /\ ~FreeFor(i, l)
          /\ Goto(t, "find")
          /\ UNCHANGED <<table, muted, req>>
    /\ UNCHANGED <<mods, page, clients, demoted, answered>>

\* The INSERT.  When the label is taken a text channel is refused and a DM
\* looks for the channel its pair has already.
InsertChannel(t) ==
    LET i == req[t].id  l == req[t].label IN
    /\ pc[t] = "insert"
    /\ \/ /\ FreeFor(i, l)
          /\ Write(t, i, l)
          /\ Goto(t, "fetch")
          /\ UNCHANGED <<page, demoted>>
       \/ /\ ~FreeFor(i, l)
          /\ l \in Pairs
          /\ Goto(t, "find")
          /\ UNCHANGED <<table, muted, req, page, demoted>>
       \/ /\ ~FreeFor(i, l)
          /\ l \in Names
          /\ Finish(t)
          /\ UNCHANGED <<table, muted>>
    /\ UNCHANGED <<mods, clients, answered>>

FindDm(t) ==
    /\ pc[t] = "find"
    /\ \E i \in ChannelIds : /\ channels[i] = req[t].label
                             /\ req' = [req EXCEPT ![t].id = i]
    /\ Goto(t, "fetch")
    /\ UNCHANGED <<table, mods, page, clients, history>>
-----------------------------------------------------------------------------
(* channel_rename and channel_delete: text channels only *)

RenameChannel(t, u, i, n) ==
    /\ IsText(i)
    /\ Accept(t, IF u = Admin THEN "rename" ELSE "rename_role", u, i, n)

RenameRole(t) == CheckRole(t, "rename_role", "rename")

\* The UPDATE: the row may be gone since access_channel, and the name taken.
UpdateName(t) ==
    LET i == req[t].id  n == req[t].label IN
    /\ pc[t] = "rename"
    /\ \/ /\ IsText(i)
          /\ FreeFor(i, n)
          /\ version[i] < MaxVersion
          /\ Write(t, i, n)
          /\ Goto(t, "fetch")
          /\ UNCHANGED <<page, demoted>>
       \/ /\ ~IsText(i) \/ ~FreeFor(i, n)
          /\ Finish(t)
          /\ UNCHANGED <<table, muted>>
    /\ UNCHANGED <<mods, clients, answered>>

DeleteChannel(t, u, i) ==
    /\ IsText(i)
    /\ Accept(t, IF u = Admin THEN "drop" ELSE "drop_role", u, i, Absent)

DropRole(t) == CheckRole(t, "drop_role", "drop")

DropChannel(t) ==
    LET i == req[t].id IN
    /\ pc[t] = "drop"
    /\ \/ /\ IsText(i)
          /\ Write(t, i, Absent)
          /\ page' = [page EXCEPT ![t] =
                [j \in {i} |-> [label |-> Absent, version |-> version[i] + 1]]]
          /\ Goto(t, "announce")
          /\ UNCHANGED demoted
       \/ /\ ~IsText(i)
          /\ Finish(t)
          /\ UNCHANGED <<table, muted>>
    /\ UNCHANGED <<mods, clients, answered>>
-----------------------------------------------------------------------------
(* fetch_channel and the broadcast of a channel that was written or found *)

\* Slip: no check that the row is still there.
FetchUnchecked(t) ==
    LET i == req[t].id IN
    /\ pc[t] = "fetch"
    /\ page' = IF Exists(i) THEN [page EXCEPT ![t] = [j \in {i} |-> Row(i)]] ELSE page
    /\ Goto(t, "announce")
    /\ UNCHANGED <<table, mods, clients, req, history>>

\* The row as it is by now, which may be another task's: renamed or gone.
FetchChannel(t) ==
    LET i == req[t].id IN
    /\ pc[t] = "fetch"
    /\ \/ /\ Exists(i)
          /\ page' = [page EXCEPT ![t] = [j \in {i} |-> Row(i)]]
          /\ Goto(t, "announce")
          /\ UNCHANGED <<req, demoted>>
       \/ /\ ~Exists(i)
          /\ Finish(t)
    /\ UNCHANGED <<table, mods, clients, muted, answered>>

\* Slip: the rooms joined with the first list.
OnlineListed == {w \in Watchers : status[w] = "following"}

\* The sockets of the text room: the connect handler joins it.
Online == {w \in Watchers : status[w] # "off"}

\* A text channel is told to the text room, except the socket that asked,
\* which has the ack; a DM to the other user's room and to the asker.  The kind
\* of a row never changes, so what was renamed goes to the text room.
Audience(t) ==
    LET l == page[t][req[t].id].label IN
    IF l \notin Pairs THEN Online
    ELSE {w \in Online : w \in l /\ (w = req[t].user => req[t].live)}

Newer(m, n) == IF m < n THEN n ELSE m

\* What a client shows and was told after the rows reach it.
Shown(w, rows) == [i \in ChannelIds |->
    IF i \in DOMAIN rows THEN rows[i] ELSE view[w][i]]
Told(w, rows) == [i \in ChannelIds |->
    IF i \in DOMAIN rows THEN Newer(told[w][i], rows[i].version) ELSE told[w][i]]

\* The emit and the ack.  A socket whose buffer is full misses its packet.
Announce(t) ==
    LET i == req[t].id  l == page[t][i].label IN
    /\ pc[t] = "announce"
    /\ \E heard \in SUBSET Audience(t) :
         /\ status' = [w \in Watchers |->
              IF w \in Audience(t) \ heard THEN "joined" ELSE status[w]]
         /\ view' = [w \in Watchers |->
              IF w \in heard THEN Shown(w, page[t]) ELSE view[w]]
         /\ told' = [w \in Watchers |->
              IF w \in heard THEN Told(w, page[t]) ELSE told[w]]
    /\ muted' = IF l \in Pairs /\ ~req[t].live
                THEN [muted EXCEPT ![i] = @ \cup {req[t].user}] ELSE muted
    /\ answered' = [p \in Pairs |-> IF p = l THEN answered[p] \cup {i} ELSE answered[p]]
    /\ Finish(t)
    /\ UNCHANGED <<table, mods>>
-----------------------------------------------------------------------------
(* channel_list.  A socket waits for one list before it asks for another.  *)

ChannelList(t, u) ==
    /\ u \in Watchers
    /\ \A s \in Tasks : pc[s] \in {"list", "list_reply"} /\ req[s].live => req[s].user # u
    /\ Accept(t, "list", u, NoId, Absent)

\* Slip: the SELECT without its last condition.
ListsAny(u, i) == Exists(i)

\* The WHERE of the SELECT: text channels and the user's own DMs.
Lists(u, i) == IsText(i) \/ IsMember(u, channels[i])

ReadList(t) ==
    LET u == req[t].user IN
    /\ pc[t] = "list"
    /\ page' = [page EXCEPT ![t] = [i \in ChannelIds |->
          IF Lists(u, i) THEN Row(i) ELSE [Row(i) EXCEPT !.label = Absent]]]
    /\ IF req[t].live
       THEN /\ status' = [status EXCEPT ![u] = "listing"]
            /\ muted' = [i \in ChannelIds |-> muted[i] \ {u}]
       ELSE UNCHANGED <<status, muted>>
    /\ Goto(t, "list_reply")
    /\ UNCHANGED <<table, mods, req, view, told, demoted, answered>>

\* The ack: the client shows the list, and follows the broadcasts from there
\* unless it missed one since the SELECT.
ListReply(t) ==
    LET u == req[t].user IN
    /\ pc[t] = "list_reply"
    /\ IF req[t].live
       THEN /\ view' = [view EXCEPT ![u] = Shown(u, page[t])]
            /\ told' = [told EXCEPT ![u] = Told(u, page[t])]
            /\ status' = [status EXCEPT
                 ![u] = IF @ = "listing" THEN "following" ELSE @]
       ELSE UNCHANGED clients
    /\ Finish(t)
    /\ UNCHANGED <<table, mods, muted, answered>>
-----------------------------------------------------------------------------
(* Sockets, roles and failures *)

Forget(w) == /\ view' = [view EXCEPT ![w] = [i \in ChannelIds |-> Unseen]]
             /\ told' = [told EXCEPT ![w] = [i \in ChannelIds |-> 0]]

\* The connect handler joins the text room and the user's own room.
Connect(w) == /\ status[w] = "off"
              /\ status' = [status EXCEPT ![w] = "joined"]
              /\ UNCHANGED <<table, mods, tasks, view, told, history>>

\* The handlers of a closed socket run on; their acks go nowhere.
Disconnect(w) ==
    /\ status[w] # "off"
    /\ status' = [status EXCEPT ![w] = "off"]
    /\ Forget(w)
    /\ req' = [t \in Tasks |->
         IF ~Idle(t) /\ req[t].user = w THEN [req[t] EXCEPT !.live = FALSE] ELSE req[t]]
    /\ UNCHANGED <<table, mods, pc, page, history>>

\* set_mod (admin.rs): the admin changes the role of someone else.
SetMod(u) ==
    /\ u # Admin
    /\ mods' = IF u \in mods THEN mods \ {u} ELSE mods \cup {u}
    /\ demoted' = IF u \in mods
                  THEN demoted \cup {t \in Tasks : pc[t] \in {"rename", "drop"}
                                                    /\ req[t].user = u}
                  ELSE demoted
    /\ UNCHANGED <<table, tasks, clients, muted, answered>>

\* A statement fails (busy, I/O, pool timeout): `?` leaves the handler, and a
\* change it has made already is told to nobody.
Fail(t) ==
    /\ pc[t] \in DbSteps
    /\ muted' = IF pc[t] = "fetch" /\ req[t].own = version[req[t].id]
                THEN [muted EXCEPT ![req[t].id] = Watchers] ELSE muted
    /\ Finish(t)
    /\ UNCHANGED <<table, mods, clients, answered>>

\* The process dies and every socket with it.
Crash == /\ \E t \in Tasks : ~Idle(t)
         /\ pc' = [t \in Tasks |-> "idle"]
         /\ req' = [t \in Tasks |-> NoRequest]
         /\ page' = [t \in Tasks |-> Nothing]
         /\ status' = [w \in Watchers |-> "off"]
         /\ view' = [w \in Watchers |-> [i \in ChannelIds |-> Unseen]]
         /\ told' = [w \in Watchers |-> [i \in ChannelIds |-> 0]]
         /\ demoted' = {}
         /\ UNCHANGED <<table, mods, muted, answered>>
-----------------------------------------------------------------------------
Receive(t) ==
    \E u \in Users :
      \/ \E i \in ChannelIds, n \in Names : CreateText(t, u, i, n)
      \/ \E i \in ChannelIds, other \in Users : CreateDm(t, u, i, other)
      \/ \E i \in ChannelIds, n \in Names : RenameChannel(t, u, i, n)
      \/ \E i \in ChannelIds : DeleteChannel(t, u, i)
      \/ ChannelList(t, u)

Step(t) == \/ CreateRole(t)
           \/ InsertChannel(t)
           \/ FindDm(t)
           \/ RenameRole(t)
           \/ UpdateName(t)
           \/ DropRole(t)
           \/ DropChannel(t)
           \/ FetchChannel(t)
           \/ Announce(t)
           \/ ReadList(t)
           \/ ListReply(t)

Next == \/ \E t \in Tasks : Receive(t) \/ Step(t) \/ Fail(t)
        \/ \E w \in Watchers : Connect(w) \/ Disconnect(w)
        \/ \E u \in Users : SetMod(u)
        \/ Crash

Spec == Init /\ [][Next]_vars
-----------------------------------------------------------------------------
(* Properties *)

\* Every variable has its type.
TypeOK ==
    /\ channels \in [ChannelIds -> Labels \cup {Absent}]
    /\ version \in [ChannelIds -> Nat]
    /\ mods \subseteq Users
    /\ pc \in [Tasks -> DbSteps \cup {"idle", "announce", "list_reply"}]
    /\ req \in [Tasks -> Request \cup {NoRequest}]
    /\ DOMAIN page = Tasks
    /\ \A t \in Tasks :
         /\ ~Idle(t) => req[t] \in Request
         /\ pc[t] \notin {"idle", "list", "list_reply"} => req[t].id \in ChannelIds
         /\ pc[t] = "announce" => page[t] \in [{req[t].id} -> Entry]
         /\ pc[t] = "list_reply" => page[t] \in [ChannelIds -> Entry]
    /\ status \in [Watchers -> Statuses]
    /\ view \in [Watchers -> [ChannelIds -> Entry]]
    /\ told \in [Watchers -> [ChannelIds -> Nat]]
    /\ muted \in [ChannelIds -> SUBSET Users]
    /\ demoted \subseteq Tasks
    /\ answered \in [Pairs -> SUBSET ChannelIds]

\* A change of row i is under way: written, and not yet announced.
Pending(i) == \E t \in Tasks : pc[t] \in {"fetch", "announce"} /\ req[t].id = i

\* A client that has listed the channels and missed no packet has been told the
\* latest change of every channel open to it, once no task is about to announce
\* one: the rooms are joined before any list is read.  Only a change that its
\* task could not announce to this client, and that came after its list, is left
\* out.  Whether the client shows that change is a matter of which announcement
\* arrived last; what it shows as the latest version is the row as it is.
FollowersTold ==
    \A w \in Watchers, i \in ChannelIds :
        (/\ status[w] = "following"
         /\ channels[i] \in Pairs => w \in channels[i]
         /\ ~Pending(i)
         /\ w \notin muted[i])
        => /\ told[w][i] = version[i]
           /\ view[w][i].version = version[i] => view[w][i].label = channels[i]

\* Two users have one DM: whatever the races of their two channel_create
\* requests, every id ever acked for the pair is the one row with its label.
DmIsOne == \A p \in Pairs : \A i, j \in answered[p] : i = j /\ channels[i] = p

\* A create that met the unique pair finds the DM it met, however late it looks and
\* whatever is renamed, deleted or created in between.
DmFound == \A t \in Tasks :
    pc[t] = "find" => \E i \in ChannelIds : channels[i] = req[t].label

\* No client ever shows a DM its user is no member of.
DmUnseen == \A w \in Watchers, i \in ChannelIds :
    view[w][i].label \in Pairs => w \in view[w][i].label

\* A name changes or disappears only in the step of a task that renames or deletes
\* this very channel, for a user who is staff or has been demoted since its check.
StaffRename ==
    [][\A i \in ChannelIds :
         (IsText(i) /\ channels'[i] # channels[i])
         => \E t \in Tasks : /\ pc[t] \in {"rename", "drop"} /\ pc'[t] # pc[t]
                             /\ req[t].id = i
                             /\ \/ req[t].user \in mods \cup {Admin}
                                \/ t \in demoted]_vars

\* What the directory promises, whatever its tasks do in between.
Promise == INSTANCE ChannelNames WITH
    label <- channels, issued <- {i \in ChannelIds : version[i] > 0}
ImplementsNames == Promise!Spec
=============================================================================
