---------------------------- MODULE AccessControl ----------------------------
(***************************************************************************)
(* Who may see what: the users, accounts, grants and chat_access tables of *)
(* db.py, the admin-UI handlers that change them and the reads and tag     *)
(* writes of the MCP server.                                               *)
(*                                                                         *)
(* The two processes share one SQLite file.  The admin process has ONE     *)
(* connection, used by every request it serves: a statement is atomic, but *)
(* requests interleave at each await, all DML goes to the one implicit     *)
(* transaction, and whichever request commits first commits what the       *)
(* others have written so far.  Nothing ever rolls back; a crash drops     *)
(* what is not committed.  `db` is what the admin connection sees, `saved` *)
(* what is committed and so what the MCP process sees.                     *)
(***************************************************************************)
EXTENDS Naturals, FiniteSets

CONSTANTS
    Users,          \* e-mail addresses (normalised: see _normalize_email)
    Accounts,       \* account ids
    Jids,           \* WhatsApp chat ids
    Requests,       \* slots for admin requests in flight (1 slot = serial)
    Calls,          \* slots for MCP reads in flight
    Nobody,         \* the owner of an account with no row
    BootAdmin,      \* BOTSAPP_ADMIN_EMAIL
    DefaultAccount, \* the bootstrap account, which cannot be deleted
    Targets,        \* bound: the accounts that requests and calls act on
    Active,         \* bound: the kinds of request that arrive
    MaxFailures     \* bound: how many statements raise (disk full, database is locked)

ASSUME BootAssumption ==
    /\ BootAdmin \in Users
    /\ DefaultAccount \in Accounts
    /\ Nobody \notin Users
    /\ Targets \subseteq Accounts
    /\ MaxFailures \in Nat

VARIABLES
    db,     \* the tables as the admin connection sees them
    saved,  \* the tables as committed
    txn,    \* is the admin connection's implicit transaction open?
    req,    \* the admin requests in flight
    call,   \* the MCP reads in flight
    tagger, \* the MCP server's tag write in flight
    seen,   \* history: what each call could legitimately have seen
    failures \* history: how many statements have raised

vars == <<db, saved, txn, req, call, tagger, seen, failures>>

-----------------------------------------------------------------------------
(* The tables.  A row of chat_access is a key <<account, viewer, jid>>; it *)
(* is in `rows` when it exists and in `allowed` when is_allowed = 1.  Only *)
(* the existence of a row's tags matters here.                             *)

Keys == Accounts \X Users \X Jids

Tables == [users   : SUBSET Users,
           owner   : [Accounts -> Users \cup {Nobody}],
           grants  : SUBSET (Accounts \X Users),
           rows    : SUBSET Keys,
           allowed : SUBSET Keys]

Exists(d, a) == d.owner[a] # Nobody

\* has_account_access: the owner, or a grant on an account that exists.
HasAccess(d, a, u) ==
    Exists(d, a) /\ (d.owner[a] = u \/ <<a, u>> \in d.grants)

OwnsAny(d, u) == \E a \in Accounts : d.owner[a] = u

AllowedJids(d, a, u) == {j \in Jids : <<a, u, j>> \in d.allowed}

\* What list_allowed_jids_for would return if its two reads were one.
Visible(d, a, u) == IF HasAccess(d, a, u) THEN AllowedJids(d, a, u) ELSE {}

-----------------------------------------------------------------------------
(* The DML statements of metadata.sql.                                     *)

AddUserRow(d, u)    == [d EXCEPT !.users = @ \cup {u}]
DeleteUserRow(d, u) == [d EXCEPT !.users = @ \ {u}]

\* ON CONFLICT (id) DO NOTHING: an existing account keeps its owner.
AddAccountRow(d, a, u) ==
    IF Exists(d, a) THEN d ELSE [d EXCEPT !.owner[a] = u]
DeleteAccountRow(d, a) == [d EXCEPT !.owner[a] = Nobody]

AddGrant(d, a, u)    == [d EXCEPT !.grants = @ \cup {<<a, u>>}]
RemoveGrant(d, a, u) == [d EXCEPT !.grants = @ \ {<<a, u>>}]

\* Mutant: the grants are left to ON DELETE CASCADE, which is off.
DeleteNoGrants(d, As, Us) == d

DeleteGrants(d, As, Us) ==
    [d EXCEPT !.grants = {g \in @ : ~(g[1] \in As /\ g[2] \in Us)}]

\* Mutants: only the grant is removed; every viewer's rows are.
DeleteNoChatAccess(d, As, Us) == d
DeleteEveryonesChatAccess(d, As, Us) ==
    [d EXCEPT !.rows    = {k \in @ : k[1] \notin As},
              !.allowed = {k \in @ : k[1] \notin As}]

DeleteChatAccess(d, As, Us) ==
    [d EXCEPT !.rows    = {k \in @ : ~(k[1] \in As /\ k[2] \in Us)},
              !.allowed = {k \in @ : ~(k[1] \in As /\ k[2] \in Us)}]

\* The upserts: tags never touch is_allowed, a new row starts hidden.
UpsertTags(d, a, u, j) == [d EXCEPT !.rows = @ \cup {<<a, u, j>>}]

\* Mutant: two bound parameters change places.
UpsertAllowedSwapped(d, a, u, j, on) ==
    [d EXCEPT !.rows    = @ \cup {<<a, j, u>>},
              !.allowed = IF on THEN @ \cup {<<a, j, u>>} ELSE @ \ {<<a, j, u>>}]

UpsertAllowed(d, a, u, j, on) ==
    [d EXCEPT !.rows    = @ \cup {<<a, u, j>>},
              !.allowed = IF on THEN @ \cup {<<a, u, j>>} ELSE @ \ {<<a, u, j>>}]

-----------------------------------------------------------------------------
(* History: has the viewer of call c held the account, and which chats     *)
(* were visible to them, in some committed state of the call?              *)

NothingSeen == [held |-> FALSE, jids |-> {}]

Observe ==
    seen' = [c \in Calls |->
        LET a == call'[c].acct  u == call'[c].who IN
        CASE call'[c].at = "idle" -> NothingSeen
          [] call[c].at = "done" /\ call'[c].at = "done" -> seen[c]
          [] OTHER -> [held |-> seen[c].held \/ HasAccess(saved', a, u),
                       jids |-> seen[c].jids \cup Visible(saved', a, u)]]

-----------------------------------------------------------------------------
(* Requests in flight.  `at` is the next statement to run; `who` is the    *)
(* user a request is about (invitee, owner, grantee, viewer), `actor` the  *)
(* signed-in caller where the code compares it.                            *)

Ops == {"invite", "removeUser", "createAccount", "deleteAccount",
        "grant", "revoke", "toggle", "tags"}

WriteSteps == {"addUser", "delGrants", "delRows", "delUser", "addAccount",
               "delAccount", "delCommit", "addGrant", "removeGrant", "upsert",
               "commit"}

Steps == {"idle", "exists", "ownsNone", "dbOwnsNone", "userExists", "stillThere",
          "dbUser", "dbAccount", "dbOwner", "holders", "visible", "mayWrite",
          "visibleRow", "isOwner", "session"} \cup WriteSteps

Idle == [op |-> "none", at |-> "idle", acct |-> DefaultAccount,
         who |-> BootAdmin, actor |-> BootAdmin, jid |-> "none", on |-> FALSE]

Request == [op : Ops \cup {"none"}, at : Steps, acct : Accounts, who : Users,
            actor : Users, jid : Jids \cup {"none"}, on : BOOLEAN]

At(r, op, step) == req[r].op = op /\ req[r].at = step

NoMcpStep == UNCHANGED <<call, tagger, failures>> /\ Observe

\* A request arrives: the middleware found its caller in users.
Arrive(r, new) ==
    /\ req[r] = Idle
    /\ new.op \in Active
    /\ req' = [req EXCEPT ![r] = new]
    /\ UNCHANGED <<db, saved, txn>> /\ NoMcpStep

\* A read that lets the request go on to `next` or ends it.
Check(r, ok, next) ==
    /\ req' = [req EXCEPT ![r] = IF ok THEN [@ EXCEPT !.at = next] ELSE Idle]
    /\ UNCHANGED <<db, saved, txn>> /\ NoMcpStep

\* Mutant: a connection in autocommit mode.
WriteThrough(r, newDb, next) ==
    /\ db' = newDb /\ saved' = newDb
    /\ req' = [req EXCEPT ![r].at = next]
    /\ UNCHANGED txn /\ NoMcpStep

\* A DML statement: it joins, or opens, the connection's transaction.
Write(r, newDb, next) ==
    /\ db' = newDb
    /\ txn' = TRUE
    /\ req' = [req EXCEPT ![r].at = next]
    /\ UNCHANGED saved /\ NoMcpStep

\* connection.commit(): publishes everything written on the connection.
Commit(r, next) ==
    /\ saved' = db
    /\ txn' = FALSE
    /\ req' = [req EXCEPT ![r] = IF next = "idle" THEN Idle ELSE [@ EXCEPT !.at = next]]
    /\ UNCHANGED db /\ NoMcpStep

New(op, step, a, u) ==
    [Idle EXCEPT !.op = op, !.at = step, !.acct = a, !.who = u]

-----------------------------------------------------------------------------
(* Users page: invite_user and remove_user, and db.add_user and            *)
(* db.remove_user under them (WorkOS is modelled in UserDirectory).        *)

InviteUser(r) ==
    \/ \E u \in Users : Arrive(r, New("invite", "exists", DefaultAccount, u))
    \/ At(r, "invite", "exists") /\ Check(r, req[r].who \notin db.users, "addUser")

DbAddUser(r) ==
    \/ At(r, "invite", "addUser") /\ Write(r, AddUserRow(db, req[r].who), "commit")
    \/ At(r, "invite", "commit") /\ Commit(r, "idle")

RemoveUser(r) ==
    \/ \E u \in Users : Arrive(r, New("removeUser", "userExists", DefaultAccount, u))
    \/ At(r, "removeUser", "userExists") /\ Check(r, req[r].who \in db.users, "ownsNone")
    \/ At(r, "removeUser", "ownsNone") /\ Check(r, ~OwnsAny(db, req[r].who), "dbOwnsNone")

DbRemoveUser(r) ==
    LET u == req[r].who IN
    \/ At(r, "removeUser", "dbOwnsNone") /\ Check(r, ~OwnsAny(db, u), "delGrants")
    \/ At(r, "removeUser", "delGrants")
       /\ Write(r, DeleteGrants(db, Accounts, {u}), "delRows")
    \/ At(r, "removeUser", "delRows")
       /\ Write(r, DeleteChatAccess(db, Accounts, {u}), "delUser")
    \/ At(r, "removeUser", "delUser") /\ Write(r, DeleteUserRow(db, u), "commit")
    \/ At(r, "removeUser", "commit") /\ Commit(r, "idle")

-----------------------------------------------------------------------------
(* Accounts: create_account and delete_account.  What WAHA and the key     *)
(* manager do in between is modelled in KeyLifecycle; here they succeed,   *)
(* or fail and the handler undoes the row with db.delete_account.          *)

CreateAccount(r) ==
    \/ \E a \in Targets, u \in Users : Arrive(r, New("createAccount", "exists", a, u))
    \/ At(r, "createAccount", "exists")
       /\ Check(r, ~Exists(db, req[r].acct), "userExists")
    \/ At(r, "createAccount", "userExists")
       /\ Check(r, req[r].who \in db.users, "dbUser")
    \/ At(r, "createAccount", "session") /\ \E failed \in BOOLEAN : Check(r, failed, "delGrants")

DbAddAccount(r) ==
    \/ At(r, "createAccount", "dbUser") /\ Check(r, req[r].who \in db.users, "addAccount")
    \/ At(r, "createAccount", "addAccount")
       /\ Write(r, AddAccountRow(db, req[r].acct, req[r].who), "commit")
    \/ At(r, "createAccount", "commit") /\ Commit(r, "session")

DeleteAccount(r) ==
    \/ \E a \in Targets \ {DefaultAccount} :
          Arrive(r, New("deleteAccount", "exists", a, BootAdmin))
    \/ At(r, "deleteAccount", "exists")
       /\ Check(r, Exists(db, req[r].acct), "session")
    \* Key and session are deleted first; a failure there changes nothing here.
    \/ At(r, "deleteAccount", "session") /\ \E ok \in BOOLEAN : Check(r, ok, "delGrants")

\* db.delete_account, for a deletion or to undo a creation.
DbDeleteAccount(r) ==
    LET a == req[r].acct IN
    /\ req[r].op \in {"createAccount", "deleteAccount"}
    /\ \/ req[r].at = "delGrants" /\ Write(r, DeleteGrants(db, {a}, Users), "delRows")
       \/ req[r].at = "delRows" /\ Write(r, DeleteChatAccess(db, {a}, Users), "delAccount")
       \/ req[r].at = "delAccount" /\ Write(r, DeleteAccountRow(db, a), "delCommit")
       \/ req[r].at = "delCommit" /\ Commit(r, "idle")

-----------------------------------------------------------------------------
(* Grants: grant_account and revoke_account (accounts.py and db.py).  The  *)
(* handler's _manageable reads the account as the request arrives.         *)

GrantAccount(r) ==
    \/ \E a \in Targets, u \in Users :
          /\ Exists(db, a)
          /\ u # db.owner[a]
          /\ Arrive(r, New("grant", "userExists", a, u))
    \/ At(r, "grant", "userExists") /\ Check(r, req[r].who \in db.users, "dbUser")

DbGrantAccount(r) ==
    LET a == req[r].acct  u == req[r].who IN
    \/ At(r, "grant", "dbUser") /\ Check(r, u \in db.users, "dbAccount")
    \/ At(r, "grant", "dbAccount") /\ Check(r, Exists(db, a), "addGrant")
    \/ At(r, "grant", "addGrant") /\ Write(r, AddGrant(db, a, u), "commit")
    \/ At(r, "grant", "commit") /\ Commit(r, "idle")

RevokeAccount(r) ==
    \E a \in Targets, u \in Users :
        Exists(db, a) /\ Arrive(r, New("revoke", "dbOwner", a, u))

\* A no-op for the owner; an account that is gone meanwhile does not stop it.
DbRevokeAccount(r) ==
    LET a == req[r].acct  u == req[r].who IN
    \/ At(r, "revoke", "dbOwner") /\ Check(r, db.owner[a] # u, "removeGrant")
    \/ At(r, "revoke", "removeGrant") /\ Write(r, RemoveGrant(db, a, u), "delRows")
    \/ At(r, "revoke", "delRows")
       /\ Write(r, DeleteChatAccess(db, {a}, {u}), "commit")
    \/ At(r, "revoke", "commit") /\ Commit(r, "idle")

-----------------------------------------------------------------------------
(* Chats page: toggle_allowed and save_metadata.  _chat_access reads the   *)
(* account as the request arrives, and the grants when the owner acts on   *)
(* another viewer's list.                                                  *)

ToggleAllowed(r) ==
    \/ \E a \in Targets, me \in Users, viewer \in Users, j \in Jids, on \in BOOLEAN :
          /\ db.owner[a] = me
          /\ Arrive(r, [New("toggle", IF viewer = me THEN "mayWrite" ELSE "holders", a, viewer)
                          EXCEPT !.actor = me, !.jid = j, !.on = on])
    \/ At(r, "toggle", "holders")
       /\ Check(r, <<req[r].acct, req[r].who>> \in db.grants, "mayWrite")

DbSetChatAccessAllowed(r) ==
    LET a == req[r].acct  u == req[r].who IN
    \/ At(r, "toggle", "mayWrite") /\ Check(r, HasAccess(db, a, u), "isOwner")
    \/ At(r, "toggle", "isOwner") /\ Check(r, db.owner[a] = req[r].actor, "upsert")
    \/ At(r, "toggle", "upsert")
       /\ Write(r, UpsertAllowed(db, a, u, req[r].jid, req[r].on), "commit")
    \/ At(r, "toggle", "commit") /\ Commit(r, "idle")

\* The owner may tag any chat, a viewer only what was shared with them.
SaveMetadata(r) ==
    LET a == req[r].acct  u == req[r].who IN
    \/ \E t \in Targets, me \in Users, j \in Jids :
          /\ Exists(db, t)
          /\ Arrive(r, [New("tags", IF db.owner[t] = me THEN "mayWrite" ELSE "visible", t, me)
                          EXCEPT !.jid = j])
    \/ At(r, "tags", "visible") /\ Check(r, HasAccess(db, a, u), "visibleRow")
    \/ At(r, "tags", "visibleRow") /\ Check(r, <<a, u, req[r].jid>> \in db.allowed, "mayWrite")

DbUpsertChatAccessTags(r) ==
    LET a == req[r].acct  u == req[r].who IN
    \/ At(r, "tags", "mayWrite") /\ Check(r, HasAccess(db, a, u), "upsert")
    \/ At(r, "tags", "upsert") /\ Write(r, UpsertTags(db, a, u, req[r].jid), "commit")
    \/ At(r, "tags", "commit") /\ Commit(r, "idle")

-----------------------------------------------------------------------------
(* A statement raises: nothing catches it in db.py and nothing rolls back, *)
(* so what the request wrote stays in the open transaction.                *)

StatementFails(r) ==
    /\ failures < MaxFailures
    /\ failures' = failures + 1
    /\ req[r].at \in WriteSteps
    /\ req' = [req EXCEPT ![r] = Idle]
    /\ UNCHANGED <<db, saved, txn, call, tagger>> /\ Observe

\* What bootstrap() makes sure of at every start of either process.
Bootstrapped(d) ==
    AddAccountRow(AddUserRow(d, BootAdmin), DefaultAccount, BootAdmin)

\* The admin process stops at any point and is started again.
AdminRestart ==
    /\ db' = Bootstrapped(saved)
    /\ saved' = Bootstrapped(saved)
    /\ txn' = FALSE
    /\ req' = [r \in Requests |-> Idle]
    /\ NoMcpStep

-----------------------------------------------------------------------------
(* The MCP process, on a connection of its own: it sees `saved`.           *)

NoCall == [at |-> "idle", acct |-> DefaultAccount, who |-> BootAdmin, result |-> {}]
NoTag  == [at |-> "idle", acct |-> DefaultAccount, who |-> BootAdmin, jid |-> "none"]

\* The two reads of list_allowed_jids_for, each preceded by a mutant: a read
\* that trusts the rows, and a query without "is_allowed = 1".
TrustRows(c) == TRUE
MayRead(c) == HasAccess(saved, call[c].acct, call[c].who)

AllRows(c) == {j \in Jids : <<call[c].acct, call[c].who, j>> \in saved.rows}
AllowedRows(c) == AllowedJids(saved, call[c].acct, call[c].who)

\* list_allowed_jids_for; the caller uses the answer some time later.
ListAllowedJidsFor(c) ==
    /\ \/ \E a \in Targets, u \in Users :
             /\ call[c].at = "idle"
             /\ call' = [call EXCEPT ![c] = [NoCall EXCEPT !.at = "access", !.acct = a, !.who = u]]
       \/ /\ call[c].at = "access"
          /\ call' = [call EXCEPT ![c].at = IF MayRead(c) THEN "query" ELSE "done"]
       \/ /\ call[c].at = "query"
          /\ call' = [call EXCEPT ![c].at = "done",
                                  ![c].result = AllowedRows(c)]
       \/ call[c].at = "done" /\ call' = [call EXCEPT ![c] = NoCall]
    /\ UNCHANGED <<db, saved, txn, req, tagger, failures>> /\ Observe

\* add_tag, remove_tag, clear_tags: the chat must be in the caller's
\* allowlist, then upsert_chat_access_tags checks the access again.
TagTool ==
    /\ \/ \E a \in Targets, u \in Users : \E j \in Visible(saved, a, u) :
             /\ tagger = NoTag
             /\ tagger' = [at |-> "mayWrite", acct |-> a, who |-> u, jid |-> j]
       \/ /\ tagger.at = "mayWrite"
          /\ tagger' = IF HasAccess(saved, tagger.acct, tagger.who)
                       THEN [tagger EXCEPT !.at = "upsert"] ELSE NoTag
    /\ UNCHANGED <<db, saved, txn, req, call, failures>> /\ Observe

\* The write and its commit: SQLite lets one process write at a time, so it
\* waits for the admin connection's transaction, and at worst times out.
TagToolWrite ==
    /\ tagger.at = "upsert"
    /\ tagger' = NoTag
    /\ \/ /\ ~txn
          /\ saved' = UpsertTags(saved, tagger.acct, tagger.who, tagger.jid)
          /\ db' = saved'
       \/ txn /\ UNCHANGED <<db, saved>>
    /\ UNCHANGED <<txn, req, call, failures>> /\ Observe

-----------------------------------------------------------------------------

NoTables == [users |-> {}, owner |-> [a \in Accounts |-> Nobody],
             grants |-> {}, rows |-> {}, allowed |-> {}]

\* Both processes bootstrap before they serve.
Init ==
    /\ db = Bootstrapped(NoTables)
    /\ saved = Bootstrapped(NoTables)
    /\ txn = FALSE
    /\ req = [r \in Requests |-> Idle]
    /\ call = [c \in Calls |-> NoCall]
    /\ tagger = NoTag
    /\ seen = [c \in Calls |-> NothingSeen]
    /\ failures = 0

Next ==
    \/ \E r \in Requests :
          \/ InviteUser(r)    \/ DbAddUser(r)
          \/ RemoveUser(r)    \/ DbRemoveUser(r)
          \/ CreateAccount(r) \/ DbAddAccount(r)
          \/ DeleteAccount(r) \/ DbDeleteAccount(r)
          \/ GrantAccount(r)  \/ DbGrantAccount(r)
          \/ RevokeAccount(r) \/ DbRevokeAccount(r)
          \/ ToggleAllowed(r) \/ DbSetChatAccessAllowed(r)
          \/ SaveMetadata(r)  \/ DbUpsertChatAccessTags(r)
          \/ StatementFails(r)
    \/ AdminRestart
    \/ \E c \in Calls : ListAllowedJidsFor(c)
    \/ TagTool
    \/ TagToolWrite

Spec == Init /\ [][Next]_vars

-----------------------------------------------------------------------------
(* Properties.                                                             *)

TypeOK ==
    /\ db \in Tables /\ saved \in Tables
    /\ txn \in BOOLEAN
    /\ req \in [Requests -> Request]
    /\ call \in [Calls -> [at : {"idle", "access", "query", "done"}, acct : Accounts,
                           who : Users, result : SUBSET Jids]]
    /\ tagger \in [at : {"idle", "mayWrite", "upsert"}, acct : Accounts,
                   who : Users, jid : Jids \cup {"none"}]
    /\ seen \in [Calls -> [held : BOOLEAN, jids : SUBSET Jids]]
    /\ failures \in 0..MaxFailures

\* "Empty for a viewer without access to the account, even if stale
\* chat_access rows exist" (list_allowed_jids_for): a read returns chats only
\* to someone who has held the account at some moment of that read, whatever
\* the admin process is doing, has half done, or failed to do.
StaleRowsNeverLeak ==
    \A c \in Calls : call[c].result # {} => seen[c].held

\* A read never mixes two states of the tables: each chat it returns was
\* allowed to its viewer, who held the account, in one state of the read.
\* This one and the next three are lost once a statement has raised: the half
\* that was written is committed by whichever request commits next.
ReadSound == failures = 0 => \A c \in Calls : call[c].result \subseteq seen[c].jids

HoldersOnly(d) == \A k \in d.allowed : HasAccess(d, k[1], k[2])

References(d) ==
    /\ \A a \in Accounts : Exists(d, a) => d.owner[a] \in d.users
    /\ \A g \in d.grants : Exists(d, g[1]) /\ g[2] \in d.users

\* Nobody keeps an allowed chat on an account they do not hold: what
\* revoke_account, delete_account and remove_user promise, so that a viewer
\* who is granted the account again starts with nothing.
AllowedRowsBelongToHolders == failures = 0 => HoldersOnly(saved)

\* "A revoked or never-granted viewer can neither read nor write rows"
\* (db.py:303): no commit shows a chat to someone who held the account neither
\* before it nor after it, which _require_access is there for.
ShownToHolders ==
    [][failures = 0 => \A k \in saved'.allowed \ saved.allowed :
          HasAccess(saved, k[1], k[2]) \/ HasAccess(saved', k[1], k[2])]_vars

\* The REFERENCES clauses of metadata.sql, which SQLite does not enforce
\* here: an account has an owner among the users, a grant joins a user and
\* an account that exist.  remove_user refuses an owner for this reason.
NoDanglingReferences == failures = 0 => References(saved)

\* While an account keeps its owner, no step removes the owner's own rows
\* (their allowlist and tags): the reason revoke_account is a no-op for them.
OwnerRowsSurvive ==
    [][failures = 0 => \A k \in saved.rows :
          saved.owner[k[1]] = k[2] /\ saved'.owner[k[1]] = k[2] => k \in saved'.rows]_vars

-----------------------------------------------------------------------------
(* Why one request at a time keeps the committed tables consistent: what   *)
(* is known of the tables at each step of the request in flight.           *)

Consistent(d) == HoldersOnly(d) /\ References(d)

NoGrantsOf(d, u) == \A g \in d.grants : g[2] # u
NoGrantsOn(d, a) == \A g \in d.grants : g[1] # a

\* Every allowed row belongs to a holder, but for those that
\* DeleteChatAccess(d, As, Us) is about to delete.
HoldersOnlyBut(d, As, Us) ==
    \A k \in d.allowed : (k[1] \in As /\ k[2] \in Us) \/ HasAccess(d, k[1], k[2])

\* The request has written nothing yet.
Clean == ~txn /\ db = saved

RemovingUser(r) ==
    LET u == req[r].who  at == req[r].at IN
    /\ at = "delGrants" => Clean /\ ~OwnsAny(db, u)
    /\ at \in {"delRows", "delUser"} =>
          txn /\ References(db) /\ ~OwnsAny(db, u) /\ NoGrantsOf(db, u)
    /\ at = "delRows" => HoldersOnlyBut(db, Accounts, {u})
    /\ at = "delUser" => Consistent(db) /\ \A k \in db.allowed : k[2] # u

DeletingAccount(r) ==
    LET a == req[r].acct  at == req[r].at IN
    /\ at = "delGrants" => Clean
    /\ at \in {"delRows", "delAccount"} => txn /\ References(db) /\ NoGrantsOn(db, a)
    /\ at = "delRows" => HoldersOnlyBut(db, {a}, Users)
    /\ at = "delAccount" => Consistent(db) /\ \A k \in db.allowed : k[1] # a

Revoking(r) ==
    LET a == req[r].acct  u == req[r].who  at == req[r].at IN
    /\ at = "removeGrant" => db.owner[a] # u
    /\ at = "delRows" => /\ txn /\ References(db)
                         /\ HoldersOnlyBut(db, {a}, {u})

Progress(r) ==
    LET a == req[r].acct  u == req[r].who  op == req[r].op  at == req[r].at IN
    /\ at \notin {"delGrants", "delRows", "delUser", "delAccount", "delCommit", "commit"} => Clean
    /\ at \in {"delCommit", "commit"} => txn /\ Consistent(db)
    /\ op = "removeUser" => RemovingUser(r)
    /\ op \in {"createAccount", "deleteAccount"} => DeletingAccount(r)
    /\ op = "revoke" => Revoking(r)
    /\ at = "addAccount" => u \in db.users
    /\ at \in {"dbAccount", "addGrant"} => u \in db.users
    /\ at = "addGrant" => Exists(db, a)
    /\ at \in {"isOwner", "upsert"} => HasAccess(db, a, u)

\* With one request slot, for as long as no statement has raised.
SerialInv == Consistent(saved) /\ \A r \in Requests : Progress(r)

=============================================================================
