# Verification of bonfire-backend

TLA+ models of the chat server in `src/src` (Rust: axum, socketioxide, sqlx over
one SQLite database), TLC runs on small instances, and TLAPS proofs for all
values of the constants.

## The system

The server is one process. Every event of a socket runs its handler as a tokio
task of its own; a disconnect does not cancel it. Tasks share nothing but the
SQLite database (through a pool of five connections), the `AdminId` in memory
and the socket rooms. So all concurrency is between the *database statements*
of handlers, with every `.await` a point where another handler may run, and
every hazard is of the form "a statement acts on what an earlier statement
saw". A statement fails with busy, I/O or pool errors; the process can be
killed between any two statements.

| component | code | state | operations | model |
|---|---|---|---|---|
| message path | `channels.rs`, `permissions.rs` | tables `messages`, `channels`, column `is_mod` | `channel_send`, `channel_sync`, `channel_delete_message`, `channel_delete` | `Messages`, abstractly `MessageLog` |
| database locking | SQLite through sqlx | write lock, read snapshots | begin, read, write, commit, rollback | `Database` |
| key namespace | `keys.rs` | `key_bundles`, `one_time_prekeys` | `upload_bundle`, `fetch_bundle`, `prekey_count` (read only) | `Prekeys`, abstractly `PrekeyPool` |
| sessions | `login.rs`, `auth_middlewear.rs`, `auth.rs`, `main.rs`, `admin.rs`, `session.rs` | `sessions`, `banned_users`, `hashed_pw`, `is_mod`, the UserID of each socket | `login`, connect, `request_new_session`, the ticker, `change_password`, `ban_user`, `unban_user`, `set_mod` | `Sessions` |
| channel directory | `channels.rs`, `channel.rs` | `channels`, the rooms, the list each client shows | `channel_create`, `channel_rename`, `channel_delete`, `channel_list`, `lookup_user` (read only) | `Directory`, abstractly `ChannelNames` |
| registration and admin | `register.rs`, `admin.rs`, `permissions.rs`, `main.rs` | `users`, `AdminId`, `.env` | `register`, startup | `Bootstrap` |
| encryption at rest | `message_crypto.rs` | the key file | load or create, encrypt, decrypt | the key file in `Bootstrap`; the cipher is opaque |
| cookies | `crypto_manager.rs`, `cookie.rs` | the secret | sign, verify | abstracted: a cookie is its session id |
| profile reads | `admin.rs` | none | `my_role`, `get_profile`, `find_user` | not modelled: single reads |
| message namespace | `messages.rs` | none | echo, ping | not modelled |

How they interact: `login` makes a session; the middleware turns a session into
a socket with a UserID in the namespaces `/auth`, `/admin`, `/channel` and
`/keys`; handlers trust that UserID for as long as the socket lives. The admin
namespace changes roles and deletes sessions that login, middleware and
extension read. `channel_delete` removes the channel (and by cascade the rows)
that sends and syncs under way have already checked. A commit in *any*
component makes the open read snapshots of all others stale, which the modules
have as `OtherCommit`.

What makes each component correct, and hard:

- *Messages*: the numbers of a channel are dense and unique although two sends
  read the same `MAX(seq)`; a client that follows a cursor misses nothing but
  what broadcasts and reused numbers take; a DM stays with its two members; no
  row outlives its channel; nothing is announced that was not committed.
- *Keys*: a one-time prekey is given out once, in spite of concurrent fetches,
  re-uploads, failures and crashes; none is lost but by a committed fetch.
- *Sessions*: a ban and a new password delete the sessions there are, while
  logins and extensions are under way; mods do not ban mods although roles
  change between the lookups and the ban.
- *Directory*: names and pairs of users stay unique while creates, renames and
  deletes race, two users end at one DM, and a connected client is told the latest change
  of every channel it may know although the write of a channel and the broadcast of it are two
  steps and broadcasts overtake each other and the answer to `channel_list`.
- *Bootstrap*: who is the admin, in this run and after a restart, when first
  registrations race, when the line in `.env` is not written, cut short or
  interleaved; and that the message key survives every start.

## Modules

`Database.tla` is the part of SQLite that the handlers' correctness rests on.
`db.begin()` is `BEGIN DEFERRED`: the first `SELECT` fixes a snapshot
(`OpenSnapshot`), the first write needs the single write lock and a snapshot no
commit has made stale (`CanUpgrade`), otherwise SQLite refuses at once and the
handler's `?` drops the transaction (`Rollback`). A lone statement, or a
transaction whose first statement writes, has no snapshot and waits for the
lock (`Autocommit`). It is modelled from how `src` uses it, and is the same for
a rollback journal and for WAL: the journal only adds refusals, which `Fail`
allows at every statement.

`Messages.tla` has one action per statement of a handler. `pc[t]` names the
statement task `t` waits for, `req[t]` its request, `held[t]` the number it
read, `page[t]` the rows its sync read.

| code | actions |
|---|---|
| `handle_channel_send` | `ChannelSend`, `ReserveSeq`, `InsertMessage`, `CommitMessage`, `Announce` |
| `handle_channel_sync` | `ChannelSync`, `ReadPage`, `SyncReply` |
| `handle_channel_delete_message` | `DeleteMessage`, `CheckAuthor`, `MessageRole`, `RemoveMessage` |
| `handle_channel_delete` | `DeleteChannel`, `ChannelRole`, `DropChannel` |
| `set_mod` | `SetMod` |
| `?` on any statement; the process is killed | `Fail`; `Crash` |

Rows written in a transaction appear with its commit. `access_channel` is part
of the action that accepts a request, so every later statement acts on what it
saw then. A broadcast reaches any subset of its room: offline sockets, full
buffers and order are all in that choice. A client follows one cursor per
channel, the end of the last page it got; `delivered` and `window` are history
variables of what it was told and which range its pages covered. `ledger` is
the history of committed rows.

`MessageLog.tla` is what the message path promises: an atomic log per channel,
with append at the next number, remove, and drop of a channel with its rows.

`Prekeys.tla` does the same for `keys.rs`: `UploadBundle`, `StageBundle`,
`StagePrekeys`, `CommitUpload`; `FetchBundle` (the bundle is read outside the
transaction), `PickPrekey` or `PickNothing`, `ConsumePrekey`, `CommitFetch`,
`FetchReply`. The keys of one client account are one value. An upload is of a
fresh account, which the comment at `keys.rs:131` states as the client's side
of the contract; a repeated upload of the same keys is outside the model.
`PrekeyPool.tla` is the abstract pool: replace all, take the lowest.

`Sessions.tla`: `Login`, `BanCheck`, `StoreSession`; `Connect`; `RefreshSession`,
`ExtendSession`; `CleanSessions` (ticker); `ChangePassword`, `SetPassword`,
`PurgeSessions`; `BanUser`, `CallerRole`, `TargetRole`, `BanInsert`, `BanCommit`;
`UnbanUser`, `SetMod`. A password is its version. `origin` records what the
login of each session had seen, and what was true when it was stored.

`KnowsRole` marks a ban under way when a role it has looked up changes, which is
history for `BanEntitled`.

`Directory.tla` follows one request per task, statement by statement:

| code | actions |
|---|---|
| `handle_channel_create` | `CreateText` (with `CreateGate`, `CreateRole` for the configured threshold) or `CreateDm`, `InsertChannel`, `FindDm`, `FetchChannel`, `Announce` |
| `handle_channel_rename` | `RenameChannel`, `RenameRole`, `UpdateName`, `FetchChannel`, `Announce` |
| `handle_channel_delete` | `DeleteChannel`, `DropRole`, `DropChannel`, `Announce` |
| `handle_channel_list` | `ChannelList`, `ReadList`, `ListReply` |
| the connect handler; a closed socket | `Connect`; `Disconnect` |
| `set_mod`; `?` on any statement; the process is killed | `SetMod`; `Fail`; `Crash` |

A row is its label: a name, or the pair of users of a DM. Both unique indexes are
`FreeFor`. `fetch_channel` reads the row as it is by then, so what a task announces may
be another task's write; `version` counts the writes of a row to tell them apart. `view`
is the channel list the client of a followed user (`Watchers`) shows, `told` the latest
version it has been told, `status` how far it is: *joined* the rooms, *listing* from the
SELECT of its list, *following* once it has the answer. A packet that is lost (a full
buffer) puts it back to *joined*; only a client that asks for the list again follows
again. `muted` has, for each row, the clients its last write could not be told to: all
when the statement after the write failed, and the asker of a DM that was gone; reading
a list takes a client out again. `demoted` holds the tasks past their role check whose
user has lost the role since. `ChannelNames.tla` is the abstract directory: an injective
map from ids to labels, with open, rename and close.

`Bootstrap.tla` composes what makes a server come up: `Start` (`dotenv()?` and
`load_admin_from_env`), `LoadKey`, `RefuseKey` or `CreateKey` and `WriteKey`
(`load_or_create`), registrations (`Register`, `InsertUser`, `CheckUnset`,
`SetAdmin`, then `PutKey`, `PutId`, `PutNewLine`, the three writes of `writeln!`
on an unbuffered file, and `PersistFails`), `Stop` at any moment, and the operator who
removes a key file no server starts with. `.env` is the sequence of pieces
written of `ADMIN_USER_ID` lines; `Parses`, `Counts` and `Value` are what dotenv and
`load_admin_from_env` make of any such sequence, cut or interleaved. `disturbed`
and `raced` are history: whether the promotion of the first user was cut short
or another user came before it, and whether two tasks found AdminId unset at once.

Each module has a few operators headed *Slip*: the definition after it, with a
plausible bug. They are not used by the specification; replacing the definition
by the slip makes a property fail, which shows that the property is about that
piece of code.

## Runs

| run | bounds | shows |
|---|---|---|
| `Messages_log` | one user, one text channel, 4 ids, 2 tasks, numbers up to 3, pages of 1 or 2 | `ReservedSeqIsNext`, `NoNumberSkipped`, `NoOrphanRows`, `HiddenOnlyByReuse`, `NothingInvented`, `ImplementsLog` |
| `Messages_rooms` | three users, a text channel and a DM the admin is not in, 1 id, 2 tasks | `DmStaysPrivate`, `DmRemovedByAuthorOnly` |
| `Messages_answers` | two users, one channel, 1 id, 2 tasks, fair | `EveryRequestEnds`, `LockIsReleased` |
| `Prekeys_pool` | two users, two accounts, ids 1 and 2, 3 tasks | `NoKeyGivenTwice`, `PoolIsOfBundle`, `KeysConserved`, `MixedOnlyByReplacement`, `ImplementsPool` |
| `Prekeys_mixed` | one user, two accounts, 2 tasks | `ReplyIsOfOneAccount` is violated |
| `Sessions_revocation` | admin, victim and a third user, 2 session ids, 2 tasks, clock to 2, one change of password and one ban | `BannedOnlyByRace`, `StaleOnlyByRace`, `BanEntitled`, `RevokedStaysRevoked`, `LiveSessionKept` |
| `Sessions_banned` | as above | `BannedCannotLogIn` is violated |
| `Sessions_password` | as above | `NewPasswordOnly` is violated |
| `Directory_lists` | admin and two users, one of them followed, one row written up to 3 times, 2 names, 2 tasks, threshold *mod* | `FollowersTold`, `DmUnseen`, `StaffRename` |
| `Directory_names` | three users, two rows written up to twice, 2 names, 2 tasks, threshold *user* | `DmIsOne`, `DmFound`, `ImplementsNames` |
| `Bootstrap_restarts` | 3 registrations in 3 tasks, 3 starts, 2 keys, `.env` without a line or with a blank one | `AdminHasAccount`, `FirstStaysAdmin`, `EnvStaysLoadable`, `MessagesReadable` |
| `Bootstrap_first` | 2 registrations, one start | `FirstUserIsAdmin` is violated |

Why these bounds are enough for the cases at stake. Every race in the code is
between two requests, so two tasks meet all of them; `Prekeys_pool` has three,
for two fetches around an upload. Four ids with numbers up to three allow a
number to be freed and reused while a page of two and a cursor are in between;
`MaxSeq` is also the i64 bound, at which `ReserveSeq` is refused. Limits 0 and 3
with `MaxLimit` 2 meet both ends of the clamp. A login lives 1 and an extension
2 ticks, the clock stops at 2, so a session can be extended, can reach its exact
expiry and can pass it. `Directory_lists` has one row because what a client knows of a row depends on no
other; three writes are a create, a rename and a delete, or two renames that
overtake each other. Its followed user is in some DMs and outside another.
Collisions of labels need two rows, which `Directory_names` has instead of a
client. In `Bootstrap_restarts` three starts are a first one, one after a cut
append and one that reads what both left; a third registration is there to find
the admin unset after the two before it failed to persist. Message ids, channel
ids, user ids, prekey accounts and session ids are used once, which bounds the number of sends, uploads and logins. Deadlock is not
checked: once these are used up the system may stop. The safety runs use
symmetry in tasks and ids; the liveness run does not.

The four violated properties are stated by the repository, and the code does
something else:

- `keys.rs:131` says a re-upload invalidates the old account's keys; a fetch that
  read the old bundle before it answers with that bundle and a new prekey.
  `MixedOnlyByReplacement` shows this is the only way.
- `banned_users.sql:1` says an entry cannot log in; a login that looked the ban
  up before it was committed stores its session after, and it stays.
  `BannedOnlyByRace` shows this is the only way.
- `admin.rs:404` says all sessions are killed on a new password; a login that
  verified the old one stores its session after the purge. `StaleOnlyByRace`
  shows this is the only way.
- `readme.md:28` says the first user that is created will be the admin; `register`
  commits the user, asks `is_unset` and calls `set` in three steps, so of two
  registrations at once the second user can be promoted before the first or over
  it. `FirstStaysAdmin` shows that nothing else makes another user the admin
  while no promotion is cut short.

Behaviour the models have and no property forbids, because the code decides so:
a number is given again after the newest message is deleted, and a client at
that cursor is not sent the new message by a sync (`HiddenOnlyByReuse` is the
exact extent); a send can answer `INTERNAL` after its commit; a prekey is spent
when the process dies before the ack; a socket outlives its session; a client
shows an older name when an older announcement arrives last (`FollowersTold` says
it was told the newer one too, not which of the two it shows); a change whose `fetch_channel` fails is told
to nobody until the next list; the first `ADMIN_USER_ID` line of `.env` counts, so
a blank one forgets every promoted admin at the next restart; a torn key file
stops every start until it is removed.

## Fairness

`FairSpec` of `Messages` has, for each task, weak fairness of its next statement
or of a failure that is certain then (a refused insert, a busy timeout, a number
beyond the last): tokio polls a ready task again and SQLite answers every
statement. Nothing is fair about clients, `SetMod`, other failures or crashes,
so an answer never depends on luck. The other modules state safety only; that a
client is told of a channel is stated of the states in which no announcement of it
is under way.

## Proofs

`MessagesProofs.tla` proves, for any users, channels, tasks, ids and bounds, from
`ConstantsAssumption` and `NoTaskAssumption` only:

- `TypeCorrect`: the types, among them that numbers stay within `MaxSeq`;
- `NumberReserved`, `NumbersDense`, `NoOrphans`, `OnlyCommitted`, `DmPrivacy`:
  the safety invariants of the runs;
- `DmRemoval`: the action property of the run `rooms`;
- `LogRefinement`: `Messages` implements `MessageLog`;
- `RequestsDescend` and `LockAtCommit`: every step of a request lowers its
  `Rank`, the number of statements it has left at most, and the write lock is
  held by exactly the task that is about to commit. They are the safety half of
  `EveryRequestEnds` and `LockIsReleased`; what they leave to TLC is fairness.

All follow from one inductive invariant, `IInv`. The invariants of the runs are
not inductive: that a committing send has the right number needs to know why it
still has it. The argument is `NumbersCurrent` with `LockHolder`: a number read
in a snapshot that is still current is the next one, because every commit that
changes rows makes all snapshots stale, and from the insert on, the lock keeps
all writers out. `ChannelsHeld` is the same for the foreign key. `IdsInFlight`
and `LedgerComplete` make an id name one row, which turns "told of an id" into
"told of the row of one channel" for `DmPrivacy`; `RemovalEntitled` carries the
author check of a deletion over to its DELETE. `RequestsWellFormed` remembers
what `access_channel` had established. The proof that `Next` preserves each part
is a lemma of its own with a step per action (`TypeStep`, `LockStep`,
`NumbersStep`, ...). `HighestSeqFact` and `TopFact` are the facts about
`MAX(seq)`, from well-foundedness of the naturals.

`CursorProofs.tla` adds `NothingMissed`, `HiddenOnlyByReuse` for all constants: a
message that a client's window covers and the client was never told of has a
number that was given before. It needs `CInv` beside `IInv`. `PagesComplete` says
that the page of a sync under way holds every live row of the range it is about
to add to the window, but for numbers given again since the SELECT: a row that
appears later has the next number (`NumbersCurrent`), so it is above the whole
page, or its number was issued before and the row of it is gone (`NoNumberSkipped`).
`OneSync` and `SinceIsCursor` make the window a page extends the one its request
was made from, and `CursorsIssued` puts every cursor at a number that was issued.
What the LIMIT does is in three lemmas about finite sets of rows: a page is
closed upwards (`HighestClosed`) or downwards (`LowestClosed`), and a newest page
shorter than its limit is the whole channel (`ShortPageIsWhole`); `PageFact` puts
them together for the clamp, `ORDER BY` and `since_seq` of `handle_channel_sync`.
`CInv` was checked by TLC on the instances of `Messages_log` and `Messages_rooms`
before it was proved.

The two abstract modules hold theorems of their own, about every system that
implements them: the messages of `MessageLog` have distinct ids and numbers
(`LogDistinct`), a removed one never returns (`LogNeverRestores`), a new one is
numbered above all live ones (`LogAppendsOnTop`); the pools of `PrekeyPool` are
disjoint (`PoolsDisjoint`) and a taken prekey never returns (`NeverTakenAgain`).
With `LogRefinement` and `PoolRefinement` they hold of the handlers without
another invariant: `MessagesDistinct`, `MessagesRemovedForGood`, `MessagesOnTop`,
`PrekeysApart` and `PrekeysSpentForGood`.

`PrekeysProofs.tla` proves, from `KeysAssumption` (the model values that stand for
"none" are none of the accounts and keys) and `NoTaskAssumption`: `TypeCorrect`,
`GivenOnce`, `PoolPublished`, `NoneLost` and `PoolRefinement` (`Prekeys` implements
`PrekeyPool`). That a prekey is given once is not inductive: a fetch that has not
committed holds a prekey that is still in the pool, and so may another. What
excludes the second commit is `PicksCurrent` with `LockHolder`: a prekey picked
in a snapshot that is still current is the lowest of the pool, and a fetch past
its DELETE holds the lock that nobody else can commit without. `RepliesSpent`
says that what a reply carries has left the pool for good. For the refinement,
`AccountsUsed`, `UploadsFresh` and `BundlesDiffer` carry the contract that an
upload is of a fresh account from its request to its commit. `MixedByRace` bounds
the violated `ReplyIsOfOneAccount`: `MixedIsReplaced` carries it from the pick
on (a fetch that has picked a prekey of another account than it has seen is one
whose bundle is gone), and `SeenUsed` with the freshness of uploads keeps a
replaced account from being published again.

`SessionsProofs.tla` proves, from `SessionsAssumption` and `NoTaskAssumption`:
`TypeCorrect`, `BanRevokes` and `ChangeRevokes` (the two race properties, so the
two violated runs show the only ways), and the action properties `NeverRestored`
and `LiveKept`, and `BansEntitled`, for which `CallersKnown` carries the role of
the caller over to the lookup of the target. The strengthening is about logins under way: `VerifiedPast` and
`LoginsPast` say that what a login has seen lies in the past, and that one past
the lookup of a user banned by now was overtaken by a ban; `PurgesPast` says the
same of a purge. `ExtendedFact` is why an extension is harmless: it keeps the id
and the user of every row and adds none.

`DirectoryProofs.tla` proves, from `DirectoryAssumption`: `TypeCorrect`, `OneDm`,
`UnseenDm`, `StaffOnly`, `Implementation` (`Directory` implements `ChannelNames`) and
`NewsTold`. The first five rest on `IInv`: `RowsDiffer` (no two rows share a label),
`IdsAreFresh` and `DmRows` (a DM keeps its row and its label for ever, so an id found or
fetched for a pair is that of its one row), `ListsPrivate` (a list on its way holds no
DM of others) and `RoleChecked` (a task past its role check serves staff, or somebody
demoted since). So does `DmsFound`: the loser of a unique index finds the DM it lost to,
because by `DmsKept` no row of a DM ever changes. `IdsRetired` follows from the
refinement step: the id of a deleted channel stays without a channel, so nothing sent to
it reaches another one. `NewsTold` needs `CInv`. For a row nobody is announcing, a
follower was told the latest version because the task that wrote it, its owner,
*carries* it from the write to the announcement (`OwnersFind`, with `EntriesTruthful`:
an entry with the latest version has the latest label), and if the owner ends without
announcing it to a client, that client is `muted` for the row until it reads a list
(`MutedFact`). `ListsByWatchers`, `OneList` and `Informed` do the same for a list: what
a client in state *listing* does not know is on the page of its list or carried by a
task.

`BootstrapProofs.tla` proves, from `BootstrapAssumption`: `TypeCorrect`,
`AdminRegistered`, `FirstIsAdmin`, `Loadable` and `KeyKept`. `AdminRegistered` needs
that every id in `.env` is that of a committed user, wherever a line was cut.
`Loadable` follows from an invariant about the end of the file: unless two tasks raced,
one task at most is writing, and what it has yet to write continues the line
that the file ends in. For `FirstIsAdmin`, `Undisturbed` says what the file
holds while nothing has disturbed the promotion of the first user: nothing at
first, then the line of that user, so that every later start loads it.

The bounds on the clock, bans and changes of password are constants there, so the
theorems hold for every bound, and so for a program without them.

Every invariant and action property of a passing run is proved, and so are the
three refinements. Model-checked only: both liveness properties (liveness under
fairness is out of the prover's reach, as is `ENABLED`). The four violated properties have counterexamples and no proofs.

## Not modelled

- Contents, usernames and profiles (no property tells them apart); encryption,
  decryption and HMAC, taken to be sound.
- The connection pool: no handler holds two connections.
- `prekey_count`, `my_role`, `get_profile`, `find_user` and `lookup_user`, which are
  single reads; the echo and ping of `messages.rs`.
- The broadcast `channel_message_deleted` and the deletion of a client's copy.
- In `Directory`, the emit of a broadcast and the ack after it are one step, and a
  user is followed through one socket. A message that is sent to more sockets
  than one differs in who gets it only.
- In `Bootstrap`, a single piece written to `.env` is written whole or not at all,
  other lines of the file do not change while the server runs, it ends with a
  newline, and no variable of the environment overrides it. The admin changing
  `.env` by hand, which the readme mentions, is outside the model.
- In `Bootstrap`, a `path.exists()` that answers no because the file cannot be
  examined: the database in the same place would have failed to open before.
- In `Messages`, how a send fails at the greatest i64: `ReserveSeq` refuses it where
  the decoding of the sum or the unique index would. Either way no row is written.
- In `Prekeys`, an account that is uploaded twice. `keys.rs` refuses none, so the
  properties and theorems about prekeys hold for clients that keep the contract
  of `keys.rs:131`.
- Uniqueness of random ids, which is assumed.

## Plan

Done: `Database`, `MessageLog`, `Messages`, `MessagesProofs`, `PrekeyPool`,
`Prekeys`, `PrekeysProofs`, `Sessions`, `SessionsProofs`, `ChannelNames`, `Directory`,
`DirectoryProofs`, `Bootstrap`, `BootstrapProofs`, `CursorProofs`.

1. The descent of requests, `RequestsDescend`, for the other components.
2. The broadcast `channel_message_deleted` beside `channel_message`, if the
   order of the two is ever promised.
