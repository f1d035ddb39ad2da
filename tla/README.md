# botsapp: formal verification

TLA+ specifications of botsapp, model-checked with TLC and, where it matters
most, proved with TLAPS. botsapp lets an assistant read a family's WhatsApp
accounts: an MCP server answers tool calls, an admin UI decides who may see
what, WAHA (external) speaks WhatsApp, WorkOS (external) signs people in. Paths
below are relative to `src/server/src/botsapp/`.

## 1. The system

Two asyncio processes share one SQLite file. Each has a single connection to
it, used by every request the process serves; a statement is atomic, requests
interleave at each `await`, and the DML of all of them goes to the connection's
one implicit transaction. Nothing rolls back.

| Component | State | Operations | What makes it correct |
|---|---|---|---|
| Metadata store (`db.py`, `queries_sqlite/metadata.sql`) | tables users, accounts, grants, chat_access | one method per change, `bootstrap` at every start | only holders have allowed rows; references do not dangle although SQLite does not enforce them; a read leaks nothing |
| Users page (`admin/users.py`, `admin/directory.py`) | none of its own: the table and WorkOS | invite, remove, change role, `live_admin_check` | WorkOS first, then the table, undo when the table fails; an administrator remains |
| Sign-in and middleware (`admin/auth.py`) | signed cookies | login, callback (mirrors the role), policy per path | a change is made only for an administrator |
| Accounts page (`admin/accounts.py`) | none of its own | create, delete, grant, revoke, key actions, connect, disconnect, reset, the cards and their poll | failures leave nothing half-made |
| Chats page (`admin/app.py`) | none of its own | toggle, tags | only the owner shares |
| Scoped keys (`key_manager.py`, `waha_keys.py`) | the account's encrypted key; WAHA's keys | provision, rotate, verify, repair, revoke | no live key that nobody knows of; only vetted keys are used |
| Bridge registry (`bridge_registry.py`) | client cache, clients waiting to be closed | `for_account`, `create_session`, `delete_session`, `close` | a call never gets a replaced key; no client leaks |
| WAHA client (`waha_client.py`) | one HTTP session, id caches | sessions, chats, messages, media | paging is complete; pairing works |
| MCP tools (`tools.py`, `scope.py`, `message_store.py`) | none | reads limited to the allowlist, tags, choose_group, media | the allowlist limits every read |
| Start-up (`app.py`, `admin/app.py`, `db.py`, `secretbox.py`, `start.sh`) | `state.py` globals, the file's schema | lifespan, schema, bootstrap, watchdog | ready before it serves; two starts do not collide |
| Media links (`object_storage.py`) | objects and their deletions | upload and presign, delete after the link's lifetime | a link works until it expires; objects do not outlive it |
| Session status (`session.py`) | none | connect or get status, get status | only a click connects, and a click does connect |
| `transcription.py`, `_authkit_issuer_workaround.py`, templates, loaders | none | helpers | |

They interact by method calls inside a process, by the shared SQLite file
between the two processes, and by HTTP with WAHA and WorkOS. What is hard:
checks and writes that are separate statements on a shared transaction; changes
that span the table and an external service, each step of which may fail, lose
its answer or be interrupted by a restart; keys that other calls hold while they
are replaced. `PROJECT.json` lists these hazards line by line, with the
property that covers each.

## 2. The modules

| Module | Models |
|---|---|
| `AccessControl` | the access tables, every admin operation on them statement by statement, the reads and tag writes of the MCP process |
| `AccessControlProofs` | theorems about `AccessControl` |
| `UserDirectory` | the users table and the WorkOS organization: invite, remove, change role, sign-in, restart |
| `KeyLifecycle` | accounts, WAHA sessions and scoped keys: every call of `key_manager.py` and of the account handlers |
| `KeyLifecycleProofs` | theorems about `KeyLifecycle`, with any number of concurrent requests |
| `KeyCustody` | abstract: a key is always in somebody's custody. `KeyLifecycle` implements it |
| `KeyCustodyProofs` | theorems about `KeyLifecycle` with one request at a time, the refinement of `KeyCustody` among them; extends `KeyLifecycleProofs` |
| `BridgeRegistry` | the WAHA clients of both processes: cache, eviction, grace period, shutdown |
| `BridgeRegistryProofs` | theorems about `BridgeRegistry` |
| `ToolCalls` | the calls of the MCP tools: authorization, account, allowlist, WAHA, groups, tags, media |
| `ToolCallsProofs` | theorems about `ToolCalls` |
| `Paging` | pure: how lists are cut into pages; used by `ToolCalls` |
| `SessionPairing` | one account's WAHA session, the pairing card in several browser tabs, and the handlers between them |
| `SessionPairingProofs` | theorems about `SessionPairing` |
| `Startup` | how the two processes start on one file |
| `MediaLinks` | download links: upload, signature, deletion |
| `Servers` | composes the last two: links are made by a server that serves, and their tasks end with it |
| `ServersProofs` | theorems about `Servers` |
| `UserDirectoryProofs` | theorems about `UserDirectory` |
| `MC*` | model values and symmetry for the runs |

**AccessControl.** `db` is what the admin connection sees, `saved` what is
committed and what the MCP process sees, `txn` whether the implicit transaction
is open. A request is a record whose `at` names its next statement. `Write`
joins the transaction, `Commit` publishes everything written on the connection,
whoever wrote it. `StatementFails` ends a request and leaves its writes in the
transaction, as the code does; `AdminRestart` drops what is not committed and
runs `bootstrap`. `ListAllowedJidsFor` is the two-read lookup that gates
every tool. Rows are keys `<<account, viewer, jid>>`, in `rows` when they exist and
in `allowed` when `is_allowed = 1`; texts are left out. `seen` is a history
variable: what an atomic read could have returned during a call.

**UserDirectory.** `users` is the table's `is_admin`, `role` the WorkOS
memberships ("other" is a role botsapp does not know), `invite` the invitations.
Each WorkOS call is a step with three ends: done, failed without effect, done
with its answer lost (`Done`, `Fails`, `DoneAndLost`). The compensations of
`users.py` are steps of the request. `signed` matters because a cookie
outlives a membership: only after a new sign-in is the role mirrored.

**KeyLifecycle.** `row` is the accounts table with the stored key and its
recorded actions, `keys` what WAHA has, `sessions` WAHA's sessions, `logged`
what the log names as left behind. A key's scope is "policy" or "wide": all that
`drift_from_policy` tells apart. What a request holds in memory is in
`req` and dies with the process.

**KeyCustody** states what the docstring of `key_manager.py` promises: a key is
held by the operation that made it until it is stored, deleted or reported.
`CustodyOf` maps every state of `KeyLifecycle` to it.

**BridgeRegistry.** `cache` is `_clients` of both processes, `closing`
`_closing` with the ticks left, `call` what is in flight. The lock in `_client`
is never held across an await, so `Lookup` is one step; the reads before it are
steps of their own, which is where lookups become stale. `doomed` holds the
clients `close()` still has to close.

**ToolCalls.** A call is a record whose `at` names the read or request it
awaits next; what it has read so far is in the record (`allowed`, `groups`,
`found`, `current`) and is as old as the step that read it. Around the calls the
world changes: the owner hides a chat, a grant or a key goes, tags are edited, a
group is left. `AccessControl` shows how those happen statement by statement; here
each is one step, and a lookup is one read (`ReadSound` is why it may be).
`Arrive` to `TakeBridge` are the two middlewares and `resolve_scope`; `FirstRead` and
`NextRead` are the order of awaits of each tool. `choose_group`'s second round is
a request of its own, with any reply, since the server keeps nothing between
the two. WAHA's chats and messages are fixed sequences (`Recent`, `Feed`): what
changes is who may see them. `seen` is a history variable, the worlds that there
were during a call. `smooth` says that WAHA answered everything asked. What a fetch
returns is cut where the code cuts it, before the allowlist applies: `FoundChats`,
`HitsIn` and `FoundMessages`, `Answers`. `Listing` is the list without the cuts,
which the pages are compared with. The
tool that stands for all outbound ones is refused by `Authorize`.

**Paging.** A list that is filtered out of a fixed, ordered source is the set of
positions that pass; `Slice` is Python's slice of it, also with bounds below zero,
`Page` is `_page`, `FetchCount` the over-fetch of `WAHAClient.list_messages`. The
caps are constants: `FetchCap` (1000 messages of a chat), `ChatCap` (1000 chats that
a search looks at), `FetchAll` (10,000 rows that the allowlist is applied to).

**SessionPairing.** `wa` is what WAHA has: the session's state, whether WhatsApp
knows it as a linked device, and whether a failed session comes with an error. `panel`
is what each tab shows, `req` its request: `op` the click or load it began as, `at`
the call to WAHA that comes next, `then` what becomes of the status that is being
read. So `connect_or_get_status` is a status read whose `then` is "decide",
`connect`'s own status read one whose `then` is "drop", the poll one whose `then` is
"poll". Each round of the wait for a starting session is a step. WAHA, the phone and
the other tabs move between any two calls. `Post` gives a call that changes the
session its three ends: done, failed, done with the answer lost. A tab has one request
at a time: the poll that a tab sends when it becomes visible again, which may
overlap another poll of its own, is one more poll. `still` is a history variable: the
clicks that have found the session unchanged so far and met no failing call.

**Startup.** `pc` is the statement each process is at, `db` the file: which tables and
added columns it has, the row of the administrator, whether there is an account, the
legacy tables. DDL and the bootstrap commit by themselves, statement by statement, so
the two processes interleave at each, and a process can be killed between any two.
`conf` is what is wrong with the environment, `unlucky` the processes that met a locked
file since they started. `Files` are the files that releases before this one leave.

**MediaLinks.** `object` is the fate of each upload: where the call is, whether the
bucket has the object, how long the link still works, where the deletion task is. The
link's timer and the task's are two timers; `Tick` advances both. `stray` is history:
the code has given up on deleting the object. **Servers** runs both: a restart of the
MCP server interrupts its uploads and tasks.

## 3. The runs

| Run | Instance | Shows |
|---|---|---|
| `AccessSerial` | 2 users, 2 accounts (requests act on one), 1 chat, 1 request, 1 read, 1 statement that raises | all operations, restarts between any two statements; `TypeOK`, `StaleRowsNeverLeak`, and, until a statement raises, `ReadSound`, `AllowedRowsBelongToHolders`, `NoDanglingReferences`; `OwnerRowsSurvive` |
| `AccessRevokeRace` | 2 requests on 1 account: invite, grant, revoke, toggle | finding: `ShownToHolders` fails, a toggle that races a revocation shows a chat to someone who no longer holds the account |
| `KeysSerial` | 2 accounts, 2 keys, 1 request, refused calls, ignored scopes, database failures, dashboard | `NoStraySessions`, `ActionsReported`, `KeyedAccountsStay`, refinement of `KeyCustody` (so no key is unknown), `HeldKeysSettle` (liveness) |
| `KeysFaults` | 3 keys, 2 requests, every fault but the dashboard | `CurrentKeyKept`, `OnlyVettedKeys` |
| `KeysNoValue` | 1 request, missing values | finding: `NoUnknownKeys` fails |
| `DirectorySerial` | 3 users, 3 invitations, 1 request, 1 fault of any kind | `RemovedEverywhere`, `AdminsComeFromWorkOS`, `ChangesVetted`; unless an answer is lost, the process crashes or somebody edits a role, `AdminRemainsSerially`, `NoStaleAdmin`, `NoOrphanInvitation` |
| `DirectoryLastAdmin` | 2 requests, no faults | finding: two administrators remove each other |
| `Registry` | 1 account, 2 keys, 3 clients, 2 calls, grace 2 | `ServesStoredKey`, `NoLeakedClient`, `NotCutOff` |
| `Tools` | 2 accounts (others act on one), 3 groups of which 1 is a community, 2 tags, 7 messages, 1 call, 1 change of the world at any await | `ShownWasAllowed`, `ScopeVetted`, `GroupsAreCurrent`, `QuietCallsKeepPromises`, `PagesTruthful`, `TagsMerged` |
| `Sessions` | 2 tabs, 5 rounds of waiting, 1 failing or lost call | `DisconnectForgets`, `ConnectRevives`, `OnlyClicksStart`, `QrPanelCatchesUp` (liveness) |
| `SessionStuck` | 1 tab, no failing call | finding: a session that failed with an error is not revived |
| `Servers` | 2 processes, 3 added columns, 2 restarts, 1 locked statement, every environment; 1 object, a link of 2 ticks, 1 failing call | `ReadyBeforeServing`, `NobodyLosesTheRace`, `LinkGoodUntilExpiry`, `NothingOutlivesItsLink` (liveness) |

Why the bounds are enough. Access: the second user is once an owner, once a
grantee, and the bootstrap admin the other; requests act on one account because
each statement touches one account or one user. The chat is a parameter that
nothing compares. Keys: two keys for a rotation, a third for the key of a second
request; the other account is where a key of the wrong session goes.
Directory: an actor, a target and the bootstrap administrator; three
invitations for an invite and a resend with its undo. `Spare` starts a request
only when enough ids are left, so that no request is stuck for want of them.
Registry: a cached client, one waiting, one admin's; accounts do not interact
because the cache key is the session. A grace of two ticks and calls of at most
one express "a call shorter than the grace period".
Tools: every tool with limits below and above the bounds, offsets 0, 1 and -3,
with and without tags, query, chat, communities and account, and every reply to
the picker. One change suffices because each property compares a moment of the
call with what is shown; the proofs cover any number of changes and calls. The
ceilings are small so that each is met: pages of 2 rows, 4 messages fetched of a
chat that has 5 with noise among them, searches that look at 2 of 3 chats and
keep 3 of 4 hits. Some calls are therefore beyond what `PagesTruthful` claims
(`Reaches`), and some just within.
`MaxGroupChoices` is 2 and at most 2 groups match, so "too_many" is not reached.
Sessions: a tab that clicks and one that polls or clicks against it; five rounds is
the code's own number; one fault, since each property is about clicks that meet none.
Servers: three columns are the code's own number, and one process may be ahead of the
other at each; two restarts interrupt a start and the restart of it. Objects have names of
their own and do not interact. `MaxMishaps`, `MaxRestarts` and `MaxLocked` bound only how
often things go wrong; the proofs do not depend on them.

Symmetry is used for key, request and invitation ids and ciphertexts, which are
only compared, and never in the run with a liveness property. `CHECK_DEADLOCK
FALSE` stands only in `Registry`, where the bounded stock of clients can run
out, and in `Servers`, which stops when both processes serve or gave up, the
object is gone and the restarts are used.

**Fairness.** `KeyLifecycle!FairSpec` assumes that a request that has arrived
goes on: WAHA's calls are bounded by aiohttp's timeout, the database's by
SQLite's. Nothing is assumed about arrivals, faults or the dashboard.
`SessionPairing!FairSpec` assumes the same of the handlers (each call to WAHA is answered
or times out) and that a card with a QR code polls, which its script's timer and, as a
second line, the page's meta refresh see to. Nothing is assumed of WAHA, the phone or the
clicks. `Servers!Spec` assumes that time passes and that asyncio resumes the calls and
tasks that can go on while the server serves. Nothing is assumed of starts and restarts.
The other runs check safety.

Each property of a passing run has a mutant: an operator next to the one it
replaces, commented "Mutant", that a plausible mistake would produce and that
violates the property.

## 4. What is proved

`AccessControlProofs`, for every value of the constants:

- `TypeCorrect`: `Spec => []TypeOK`.
- `StaleRowsAreHarmless`: `Spec => []StaleRowsNeverLeak`, with any number of
  concurrent requests, raising statements and restarts. The invariant ties a
  call past its access check to `seen[c].held`: the check read a committed state
  in which the viewer held the account, and no admin step changes a call. It
  uses nothing about what the admin requests write, which is the point: reads
  are safe because each checks the grant itself.
- `SerialConsistency`: one request slot implies `[](AllowedRowsBelongToHolders /\
  NoDanglingReferences)`, each of which holds as long as no statement has raised. Neither is
  inductive:
  in the middle of a deletion the admin connection sees tables that are neither.
  `SerialInv` adds, for each operation and each of its statements, what is known
  of `db` (`RemovingUser`, `DeletingAccount`, `Revoking`, `Progress`), above all that
  `db` is consistent again at the commit, and that nothing is written yet before the
  first one. One request is necessary: the last state of `AccessRevokeRace`, with two,
  has an allowed row of someone who holds nothing.
- `SerialReads`: under the same assumption `[]ReadSound`: between the two reads
  the committed tables may change, but an allowed row implies a holder in the
  state it is read from, so the result is that of one state.
- `NothingDangles`: under the same assumption `[]NoDanglingReferences`.
- `OwnersKeepTheirRows`: under the same assumption `OwnerRowsSurvive`, an action property. Its
  invariant compares what is committed with what the admin connection sees: a row that the
  connection has deleted and not committed is one that nobody owns on both sides, except in a
  deletion under way, whose commit takes the account with it. One request is necessary here
  too: another request's commit can publish half a deletion.

These assume only `BootAssumption` and, where stated, one request.

`ToolCallsProofs`, for any number of accounts, chats, tools' arguments, concurrent
calls and changes (assuming only `ToolAssumption` and `PagingAssumption`):

- `TypeCorrect`: `Spec => []TypeOK`.
- `AnswersStayInView`: `Spec => []ShownWasAllowed`.
- `AccountsAreVetted`: `Spec => []ScopeVetted`.
- `GroupsAreNeverStale`: `Spec => []GroupsAreCurrent`.
- `TagsAreMerged`: `Spec => TagsMerged`, an action property.
- `QuietCallsAreFair`: `Spec => []QuietCallsKeepPromises`, if there are finitely many groups
  (which a cardinality in the property needs).
- `PagesAreTruthful`: `Spec => []PagesTruthful`, if there are finitely many chats (for the
  same reason), for lists of any length, any limit, any value of the caps and any offset that
  is not negative, as far as the caps leave the page and a row to spare (`Reaches`).
- `PagesJoin`, about `Paging`'s operators, for offsets that are not negative: a page continues
  what the pages before it held, repeats nothing of it, and is the last exactly when
  everything has been read.

One invariant, `IInv`, serves the first four. `Control` says what a call record can look like at
each step, above all that past the check of one chat that chat is in the
allowlist the check read. `Evidence` says that for each thing the call has read
there is a world in `seen` in which it was so; it survives every later change
because `seen` only grows. `Witnessed` puts the current world in `seen` while a
call is under way, so each read adds its own evidence. Answers are made of
subsets of what was read, whatever the fetch returned.

`TagsMerged` and `QuietCallsKeepPromises` need to know what a call remembers, `Recollection`. `Settled` says, for each
step, what a call has found out of a world that was the only one it saw: so a refusal means
that the caller was not entitled, and what `_find_groups` keeps are the eligible groups
(`MatchesEligible`). It holds as long as `seen` is one world, and there is nothing to show as
soon as it is not. `Remembers` says that the tags a call is about to merge were the chat's in
some world of the call, also when the caller lost the account in between: an account goes
only together with its tags.

For the pages, a list is a set of positions, and the lemmas from `RankType` to `SlicePrefix`
say what ranks and slices of such a set are: ranks keep the order and miss no place
(`RankOnto`), a slice of a slice is a slice (`SliceOfSlice`), a cut leaves a beginning of the
list (`SlicePrefix`), and a beginning has the list's own slices as far as it goes
(`PrefixSlice`, `ReachedSlice`). Each cap of the code is such a cut: `RealPrefix` is the
over-fetch of `list_messages`, `HitsPrefix` the hits that are kept, `FoundPrefix` the chats
that are looked at. `AllLeafed` is the invariant: the page of a call that is done is the slice
of its whole list, and a `list_chats` by tags at its matches has lost none of them, unless
WAHA failed. `OrderedList` then makes the slice what stands at the list's places.

What `Reaches` leaves out is the code's own doing. Near a cap the tools report an end that is
none. An offset is not clamped, so a negative one is a negative bound of Python's slices
(`Bound`): it counts from the end of what the caps left, the page can be empty or a part, and
`next_offset` can be null before the end, or negative. Nothing is claimed of such a page but
what the other properties claim of every answer: all it shows is visible to the caller.

`UserDirectoryProofs`, for any number of users, requests, invitations and faults of any
kind:

- `TypeCorrect`: `Spec => []TypeOK`.
- `WorkOSFirst`: `Spec => []AdminsComeFromWorkOS`. The invariant follows a role from
  WorkOS to the request that will record it: a request that is about to write
  "admin" carries a role that WorkOS has had for that person.
- `LiveCheckFirst`: `Spec => []ChangesVetted`: past its first call, a request is one
  that passed the live check.

With one request slot (`OneAtATime`; `DirectoryLastAdmin` refutes the second with two), still
for every fault:

- `RemovedFirst`: `Spec => RemovedEverywhere`. `Orderly` says for each step of each operation
  what the request has seen to be done in WorkOS, which stays so although people accept
  invitations meanwhile: someone without an invitation has none to accept.
- `AnAdminRemains`: `Spec => []AdminRemainsSerially`. `Remaining` adds that the request under way
  is from somebody who still is an administrator on both sides, and nobody demotes or removes
  themselves.
- `NobodyIsStale`: `Spec => []NoStaleAdmin`, and `NobodyIsOrphaned`: `Spec =>
  []NoOrphanInvitation`. `Agreeing` says for each user what the table may have while WorkOS has
  something else: only what the request under way is about to write, to undo or to put back.
  These two assume `UndoWorks`: a failing statement is not followed by a refused WorkOS call.
  With two faults of both sorts TLC refutes them, since the undo is a WorkOS call as well.

A deployment without a WorkOS organization (`Managed = FALSE`) is covered by these theorems;
the runs have one.

`BridgeRegistryProofs`, for any number of accounts, keys, clients and calls, any grace period
(assuming `RegistryAssumption`, of which the proofs need that there is an account):

- `TypeCorrect`: `Spec => []TypeOK`.
- `ReplacedKeysUnused`: `Spec => []ServesStoredKey`. The invariant (`Fits`) follows the key from
  the read to the client: the key a call looks up is one that was stored during its lookup,
  and the client it gets was made for that key, since `_client` compares the two.
- `NothingLeaks`: `Spec => []NoLeakedClient`, and `NobodyCutOff`: `Spec => NotCutOff`, if calls
  are shorter than the grace period (`MaxCall < Grace`). `Fits` also adds up the ticks: those
  that an evicted client has left and the age of a call that uses it are at least the grace
  period, so a call ends before its client is closed; a call that outlives it would reopen the
  client's HTTP session, which nobody closes.

`KeyLifecycleProofs`, for any number of accounts, keys, concurrent requests and faults of any
kind:

- `TypeCorrect`: `Spec => []TypeOK`.
- `CurrentKeyStays`: `Spec => []CurrentKeyKept`, `KeysAreVetted`: `Spec => []OnlyVettedKeys`. The
  invariant is about hands: a key in a request's hands is in no other's and in no row
  (`Apart`, `Fits`), so the one a request discards or deletes after a rotation is nobody's; a
  key that is about to be stored was listed with the policy and for that session, which `had`,
  the scopes a key has had, remembers.

`KeyCustodyProofs`, with one request slot:

- `RecordsAreTrue`: `Spec => []ActionsReported`, and `KeyedRowsStay`: `Spec => KeyedAccountsStay`,
  for every fault.
- `SessionsHaveAccounts`: `Spec => []NoStraySessions`, if no answer is lost.
- `NoKeyUnknown`: `Spec => []NoUnknownKeys`, and `ImplementsCustody`: `Spec => CustodyKept`, the
  refinement of `KeyCustody`, if no answer is lost, no value is missing and no request is cut
  short. The step simulation goes with the invariant: each step moves at most one key from
  one custody to another, or swaps two where a rotation stores.

Each assumption is necessary. Two requests that provision at once leave a key that the second
overwrites; two that create one account let the loser delete the winner's session. A lost
answer leaves a key or a session behind, a crash in mid-operation a key, and a missing value
is the finding of `KeysNoValue`.

`SessionPairingProofs`, for any number of tabs, rounds and failing calls:

- `TypeCorrect`: `Spec => []TypeOK`.
- `LogoutIsForGood`: `Spec => DisconnectForgets`.
- `ConnectStarts`: `Spec => ConnectRevives`.
- `OnlyAClickStarts`: `Spec => OnlyClicksStart`.

The invariant is two statements about each request. `Belongs` says which steps are of
which click: only a click on Connect reaches the calls that start a session, which is
`OnlyAClickStarts`. `Knows` says what a click in `still` has learnt of the session, which
is still so because nothing has moved: a request at `stop` has seen a session that does
not work, so a session that works all along is logged out of; one at `restart` has seen it
stopped or failed, so the restart takes.

`ServersProofs`, for any number of columns, restarts, locked statements, objects, any
lifetime of a link and any number of failing calls:

- `TypesCorrect`: the types of both parts.
- `ServesWhenReady`: `Spec => []ReadyBeforeServing`. The invariant says what each statement
  that a process has passed has left in the file; nothing ever takes it away, whatever the
  other process does, but for the columns that `ALTER` still has to add, which are in `todo`
  or in the file.
- `NobodyLoses`: `Spec => []NobodyLosesTheRace`, from the same invariant.
- `LinkGood`: `Spec => []LinkGoodUntilExpiry`: the task is created when the link is signed,
  and sleeps for at least what is left of it.

Only model-checked: the three liveness properties, `HeldKeysSettle`, `QrPanelCatchesUp` and
`NothingOutlivesItsLink` (liveness under fairness is out of the prover's reach).

## 5. What the checks found

1. `toggle_allowed` checks the access and writes in a later statement. A `revoke_account`
   between the two deletes the grant and the rows, and the toggle then commits an allowed row
   for a viewer who holds nothing. Reads refuse it; the next grant exposes it.
2. A key that WAHA creates without returning its value stays live: `WahaKeyApi`
   raises before `_issue` has the id, so the branch that discards it is dead.
3. Two administrators who remove or demote each other at the same time leave none.
4. A session that WAHA reports as FAILED with an error is not revived by Connect:
   `connect_or_get_status` takes the session's error for a failed status read and never
   reaches the restart that `connect` has for failed sessions. The card then shows the error
   and no button.

Gaps that the code accepts, or that show only with concurrent requests, are in
the hazard list with a note: two requests that provision a key for one account
leave one key unused but live; two that create one account let the loser delete
the winner's; `verify` racing `rotate` records the old key's actions; a lost
answer from WAHA or WorkOS, a crash in mid-operation or two failures in a row
leave the other side ahead of the table; a removed bootstrap administrator is
made one again at the next start; of two tag edits of one chat at the same time
the first is lost; two clicks on Connect can restart a session that is being scanned; a
disconnect whose status read fails, or finds the session starting, only stops it and keeps the
device linked; an upload that fails half way or is cancelled, and any restart, leaves its
object; the legacy tables are dropped once there is an account, although the bootstrap no longer
adopts what is in them (the comment at `app.py:97` says it does); `list_messages` near its cap of 1000, the searches near theirs (1000 chats, 10,000 rows) and
`search_messages` with a chat that WAHA does not answer for report an end that is none, and so
can any paged tool with a negative offset; `list_chats` by tags
fails as a whole when a match is hidden while it runs.

## 6. Not modelled

Left out for good: the rest of the templates, the path prefix, transcription, the AuthKit
workaround, encryption itself (a library), loaders and interface declarations: none has
state that a property could be about. Of `waha_client.py` the outbound calls, which no tool
may reach (`ToolCalls` shows that they are refused), and the mapping of WAHA's ids and
names; of `auth.py` cookie signing, the OAuth state and the origin check, which are
stateless checks by a library or of one request; `select_account`, `list_accounts` and
`on_list_tools`, which only choose what is listed; `LOCAL_DEV_DISABLE_AUTH`, with which both
processes take everyone on a developer machine for the bootstrap administrator.
