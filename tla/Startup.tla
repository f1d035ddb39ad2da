-------------------------------- MODULE Startup --------------------------------
(***************************************************************************)
(* How the MCP server and the admin UI start on one SQLite file: the       *)
(* lifespans of app.py and admin/app.py, which run db.ensure_schema,       *)
(* db.bootstrap and the checks of the configuration.                       *)
(*                                                                         *)
(* Each statement that SQLite commits by itself is a step, since the other *)
(* process starts at the same time, and a process may be killed and start  *)
(* again, between any two of them.                                         *)
(***************************************************************************)
EXTENDS Naturals

CONSTANTS
    Columns,     \* the columns that older account tables lack, 1..Columns
    MaxRestarts, \* bound: restarts and crashes
    MaxLocked    \* bound: statements given up because the file stays locked

ASSUME StartupAssumption ==
    Columns \in Nat /\ MaxRestarts \in Nat /\ MaxLocked \in Nat

VARIABLES
    pc,       \* where each process is
    todo,     \* the columns it has found missing
    db,       \* the file
    conf,     \* the environment
    unlucky,  \* history: processes that met a locked file since they started
    restarts, \* how many restarts are left
    locks     \* how many locked statements are left

startupVars == <<pc, todo, db, conf, unlucky, restarts, locks>>

-----------------------------------------------------------------------------

Procs == {"mcp", "admin"}

Tables == {"users", "accounts", "grants", "chat_access"}

AllColumns == 1..Columns

\* `admin` is the row of BOTSAPP_ADMIN_EMAIL, `account` whether there is any
\* account, `legacy` whether the single-tenant tables are still there.
Fresh == [tables |-> {}, columns |-> {}, admin |-> "none", account |-> FALSE, legacy |-> FALSE]

\* What is wrong with the environment, if anything.
Confs == {"good", "noEmail", "noSecret", "badSecret", "noLogin"}

\* SecretBox.from_env and config_from_env: what keeps a process from starting.
Misconfigured(p) ==
    \/ conf = "badSecret"
    \/ conf = "noSecret" /\ p = "mcp"
    \/ conf = "noLogin" /\ p = "admin"

\* The steps of a start, in order; the table that each CREATE makes.
StartSteps == {"login", "open", "users", "accounts", "columns", "alter", "grants",
               "chat_access", "legacy", "drop", "addUser", "setAdmin", "addAccount", "secret"}

First(p) == IF p = "admin" THEN "login" ELSE "open"

At(p, step) == pc[p] = step
Go(p, step) == pc' = [pc EXCEPT ![p] = step]
Fail(p)     == Go(p, "failed")

NoRestart == UNCHANGED <<conf, restarts>>
NoFault   == UNCHANGED <<unlucky, locks>>

\* A statement of p: it is done, or the file stays locked for longer than
\* SQLite waits, the statement raises and p does not start.
Statement(p, done) ==
    /\ \/ done /\ NoFault
       \/ /\ locks > 0 /\ locks' = locks - 1 /\ unlucky' = unlucky \cup {p}
          /\ Fail(p) /\ UNCHANGED <<todo, db>>
    /\ NoRestart

\* A step of p that leaves the file alone.
Check(p, possible, next) ==
    /\ IF possible THEN Go(p, next) ELSE Fail(p)
    /\ UNCHANGED <<todo, db>> /\ NoFault /\ NoRestart

-----------------------------------------------------------------------------

\* config_from_env, which comes first in the admin UI.
CheckLogin(p) == At(p, "login") /\ Check(p, conf # "noLogin", "open")

\* db.connect.
Open(p) == At(p, "open") /\ Statement(p, Go(p, "users") /\ UNCHANGED <<todo, db>>)

\* CREATE TABLE IF NOT EXISTS: a new accounts table has all the columns.
CreateTable(p, table, next) ==
    /\ At(p, table)
    /\ Statement(p, /\ Go(p, next) /\ UNCHANGED todo
                    /\ db' = [db EXCEPT
                         !.tables = @ \cup {table},
                         !.columns = IF table = "accounts" /\ table \notin db.tables
                                     THEN AllColumns ELSE @])

EnsureTables(p) ==
    \/ CreateTable(p, "users", "accounts")
    \/ CreateTable(p, "accounts", "columns")
    \/ CreateTable(p, "grants", "chat_access")
    \/ CreateTable(p, "chat_access", "legacy")

\* _add_missing_account_columns: what PRAGMA table_info says is missing.
ReadColumns(p) ==
    /\ At(p, "columns")
    /\ Statement(p, /\ Go(p, "alter") /\ UNCHANGED db
                    /\ todo' = [todo EXCEPT ![p] = AllColumns \ db.columns])

\* The first of them, in the order of the code.
NextColumn(p) == {c \in todo[p] : \A d \in todo[p] : c <= d}

\* Mutant: another process having just added the column is an error.
AddColumnStrict(p) ==
    /\ At(p, "alter")
    /\ \/ todo[p] = {} /\ Check(p, TRUE, "grants")
       \/ \E c \in NextColumn(p) :
             Statement(p, IF c \in db.columns
                          THEN Fail(p) /\ UNCHANGED <<todo, db>>
                          ELSE /\ db' = [db EXCEPT !.columns = @ \cup {c}]
                               /\ todo' = [todo EXCEPT ![p] = @ \ {c}] /\ UNCHANGED pc)

\* _add_text_column: "duplicate column name" is no error.
AddColumn(p) ==
    /\ At(p, "alter")
    /\ \/ todo[p] = {} /\ Check(p, TRUE, "grants")
       \/ \E c \in NextColumn(p) :
             Statement(p, /\ db' = [db EXCEPT !.columns = @ \cup {c}]
                          /\ todo' = [todo EXCEPT ![p] = @ \ {c}] /\ UNCHANGED pc)

\* _drop_adopted_legacy_tables.  list_accounts names the new columns.
DropLegacy(p) ==
    \/ /\ At(p, "legacy")
       /\ Statement(p, /\ IF AllColumns \subseteq db.columns
                          THEN Go(p, IF db.account THEN "drop" ELSE "addUser")
                          ELSE Fail(p)
                       /\ UNCHANGED <<todo, db>>)
    \/ /\ At(p, "drop")
       /\ Statement(p, Go(p, "addUser") /\ UNCHANGED todo /\ db' = [db EXCEPT !.legacy = FALSE])

\* Mutant: a user that is there was made an administrator by then.
OnceOnly(p) ==
    /\ At(p, "addUser")
    /\ Statement(p, /\ Go(p, IF db.admin = "none" THEN "setAdmin" ELSE "secret")
                    /\ UNCHANGED todo
                    /\ db' = [db EXCEPT !.admin = IF @ = "none" THEN "admin" ELSE @])

\* bootstrap; each of the three commits.  Without the variable it is skipped.
AddUser(p) ==
    /\ At(p, "addUser")
    /\ IF conf = "noEmail" THEN Check(p, TRUE, "secret")
       ELSE Statement(p, /\ Go(p, "setAdmin") /\ UNCHANGED todo
                         /\ db' = [db EXCEPT !.admin = IF @ = "none" THEN "admin" ELSE @])

SetAdmin(p) ==
    /\ At(p, "setAdmin")
    /\ Statement(p, /\ Go(p, "addAccount") /\ UNCHANGED todo
                    /\ db' = [db EXCEPT !.admin = "admin"])

AddAccount(p) ==
    /\ At(p, "addAccount")
    /\ Statement(p, Go(p, "secret") /\ UNCHANGED todo /\ db' = [db EXCEPT !.account = TRUE])

\* SecretBox.from_env and what follows it: the process serves, or gives up.
CheckSecret(p) == At(p, "secret") /\ Check(p, ~Misconfigured(p), "serving")

-----------------------------------------------------------------------------

\* Some processes are killed, or have failed, and start again: one container
\* of docker-compose, or both where start.sh runs them, whose watchdog stops
\* everything as soon as one of them exits.
RestartOf(ps) ==
    /\ restarts > 0 /\ restarts' = restarts - 1
    /\ pc' = [p \in Procs |-> IF p \in ps THEN First(p) ELSE pc[p]]
    /\ todo' = [p \in Procs |-> IF p \in ps THEN {} ELSE todo[p]]
    /\ unlucky' = unlucky \ ps
    /\ UNCHANGED <<db, conf, locks>>

\* A new file, one of an earlier release, one of a single-tenant release, or
\* the current one; the bootstrap administrator may be new, or a mere member.
Files ==
    { Fresh, [Fresh EXCEPT !.legacy = TRUE] } \cup
    { [tables |-> Tables, columns |-> cs, admin |-> rl, account |-> TRUE, legacy |-> l] :
        cs \in {{}, AllColumns}, rl \in {"none", "member", "admin"}, l \in BOOLEAN }

StartupInit ==
    /\ pc = [p \in Procs |-> First(p)]
    /\ todo = [p \in Procs |-> {}]
    /\ db \in Files
    /\ conf \in Confs
    /\ unlucky = {}
    /\ restarts = MaxRestarts
    /\ locks = MaxLocked

StartStep(p) ==
    \/ CheckLogin(p) \/ Open(p)      \/ EnsureTables(p) \/ ReadColumns(p)
    \/ AddColumn(p)  \/ DropLegacy(p) \/ AddUser(p)     \/ SetAdmin(p)
    \/ AddAccount(p) \/ CheckSecret(p)

StartupNext ==
    \/ \E p \in Procs : StartStep(p)
    \/ \E ps \in SUBSET Procs : ps # {} /\ RestartOf(ps)

StartupSpec == StartupInit /\ [][StartupNext]_startupVars

-----------------------------------------------------------------------------
(* Properties.                                                             *)

StartupTypeOK ==
    /\ pc \in [Procs -> StartSteps \cup {"serving", "failed"}]
    /\ todo \in [Procs -> SUBSET AllColumns]
    /\ db \in [tables : SUBSET Tables, columns : SUBSET AllColumns,
               admin : {"none", "member", "admin"}, account : BOOLEAN, legacy : BOOLEAN]
    /\ conf \in Confs
    /\ unlucky \subseteq Procs
    /\ restarts \in 0..MaxRestarts /\ locks \in 0..MaxLocked

\* A process that serves has its tables, with every column, and, if the
\* environment names the administrator, that administrator and an account
\* (app.py, admin/app.py): whatever was interrupted, by whom, however often.
ReadyBeforeServing ==
    \A p \in Procs : At(p, "serving") =>
        /\ db.tables = Tables /\ db.columns = AllColumns
        /\ conf # "noEmail" => db.admin = "admin" /\ db.account

\* "The loser would otherwise crash" (_add_text_column): the two processes never
\* keep each other from starting.  One that fails has met a locked file or an
\* environment it refuses.
NobodyLosesTheRace ==
    \A p \in Procs : At(p, "failed") => p \in unlucky \/ Misconfigured(p)

=============================================================================
