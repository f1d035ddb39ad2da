----------------------------- MODULE ServersProofs -----------------------------
(***************************************************************************)
(* Proofs about Servers, for any number of columns, objects, restarts,     *)
(* locked statements and failures: what a process has when it serves, why  *)
(* it may fail to start, and that a link works for as long as it says.     *)
(***************************************************************************)
EXTENDS Servers, TLAPS

\* The steps of a start that come after each thing it makes sure of.
Ready         == {"secret", "serving"}
AfterAdmin    == {"addAccount"} \cup Ready
AfterChats    == {"legacy", "drop", "addUser", "setAdmin"} \cup AfterAdmin
AfterGrants   == {"chat_access"} \cup AfterChats
AfterColumns  == {"grants"} \cup AfterGrants
AfterAccounts == {"columns", "alter"} \cup AfterColumns
AfterUsers    == {"accounts"} \cup AfterAccounts

AllSteps == StartSteps \cup {"serving", "failed"}

FileType == [tables : SUBSET Tables, columns : SUBSET AllColumns,
             admin : {"none", "member", "admin"}, account : BOOLEAN, legacy : BOOLEAN]

\* What p has made sure of at step s of its start, with missing columns t.
Made(p, s, t) ==
    /\ s \in AfterUsers    => "users" \in db.tables
    /\ s \in AfterAccounts => "accounts" \in db.tables
    /\ s = "alter"         => AllColumns \subseteq db.columns \cup t
    /\ s \in AfterColumns  => AllColumns \subseteq db.columns
    /\ s \in AfterGrants   => "grants" \in db.tables
    /\ s \in AfterChats    => "chat_access" \in db.tables
    /\ conf # "noEmail" => /\ s \in AfterAdmin => db.admin = "admin"
                           /\ s \in Ready => db.account
    /\ s = "login"   => p = "admin"
    /\ s = "failed"  => p \in unlucky \/ Misconfigured(p)

StartInv ==
    /\ StartupTypeOK
    /\ \A p \in Procs : Made(p, pc[p], todo[p])

-----------------------------------------------------------------------------

\* The file only ever gains what a start makes sure of.
Grows ==
    /\ db' \in FileType /\ db.tables \subseteq db'.tables /\ db.columns \subseteq db'.columns
    /\ db.admin = "admin" => db'.admin = "admin"
    /\ db.account => db'.account

\* One process goes to step s; `known` says it is past what it now has.
LEMMA StepMade ==
    ASSUME StartInv, NEW p \in Procs, NEW s \in AllSteps, NEW t \in SUBSET AllColumns,
           pc' = [pc EXCEPT ![p] = s], todo' = [todo EXCEPT ![p] = t],
           Grows, UNCHANGED <<conf, restarts>>,
           unlucky \subseteq unlucky', unlucky' \subseteq Procs, locks' \in 0..MaxLocked,
           Made(p, s, t)'
    PROVE  StartInv'
  <1>1. /\ pc \in [Procs -> AllSteps] /\ todo \in [Procs -> SUBSET AllColumns]
        /\ conf \in Confs /\ restarts \in 0..MaxRestarts
    BY DEF StartInv, StartupTypeOK, AllSteps
  <1>2. StartupTypeOK'
    BY <1>1 DEF StartupTypeOK, AllSteps, Grows, FileType
  <1>3. ASSUME NEW q \in Procs PROVE Made(q, pc[q], todo[q])'
    <2>1. CASE q = p
      BY <2>1, <1>1
    <2>2. CASE q # p
      <3>1. pc'[q] = pc[q] /\ todo'[q] = todo[q] /\ conf' = conf
        BY <2>2, <1>1
      <3>2. Made(q, pc[q], todo[q])
        BY DEF StartInv
      <3> QED BY <3>1, <3>2 DEF Made, Grows, Misconfigured
    <2> QED BY <2>1, <2>2
  <1> QED BY <1>2, <1>3 DEF StartInv

\* A statement that raises because the file stays locked.
LEMMA LockedMade ==
    ASSUME StartInv, NEW p \in Procs, locks > 0, locks' = locks - 1,
           unlucky' = unlucky \cup {p}, Fail(p), UNCHANGED <<todo, db, conf, restarts>>
    PROVE  StartInv'
  <1>1. pc' = [pc EXCEPT ![p] = "failed"] /\ "failed" \in AllSteps
    BY DEF Fail, Go, AllSteps
  <1>2. todo \in [Procs -> SUBSET AllColumns] /\ db \in FileType /\ unlucky \subseteq Procs
    BY DEF StartInv, StartupTypeOK, FileType
  <1>3. todo' = [todo EXCEPT ![p] = todo[p]] /\ todo[p] \in SUBSET AllColumns
    BY <1>2
  <1>4. Grows
    BY <1>2 DEF Grows
  <1>5. locks' \in 0..MaxLocked
    BY StartupAssumption DEF StartInv, StartupTypeOK
  <1>6. Made(p, "failed", todo[p])'
    BY DEF Made, AfterUsers, AfterAccounts, AfterColumns, AfterGrants, AfterChats, AfterAdmin,
           Ready
  <1> QED BY <1>1, <1>2, <1>3, <1>4, <1>5, <1>6, StepMade

\* A step that goes to s with missing columns t, in the shape of the actions.
Reaches(p, s, t) ==
    /\ pc' = [pc EXCEPT ![p] = s] /\ todo' = [todo EXCEPT ![p] = t]
    /\ Grows /\ Made(p, s, t)'

LEMMA StatementMade ==
    ASSUME StartInv, NEW p \in Procs, NEW done, Statement(p, done),
           NEW s \in AllSteps, NEW t \in SUBSET AllColumns, done /\ UNCHANGED <<conf, unlucky>> => Reaches(p, s, t)
    PROVE  StartInv'
  <1>1. UNCHANGED <<conf, restarts>>
    BY DEF Statement, NoRestart
  <1>2. CASE done /\ NoFault
    <2>1. /\ unlucky \subseteq unlucky' /\ unlucky' \subseteq Procs
          /\ locks' \in 0..MaxLocked
      BY <1>2 DEF NoFault, StartInv, StartupTypeOK
    <2>2. Reaches(p, s, t)
      BY <1>1, <1>2 DEF NoFault
    <2> QED BY <1>1, <2>1, <2>2, StepMade DEF Reaches
  <1>3. CASE /\ locks > 0 /\ locks' = locks - 1 /\ unlucky' = unlucky \cup {p}
             /\ Fail(p) /\ UNCHANGED <<todo, db>>
    BY <1>1, <1>3, LockedMade
  <1> QED BY <1>2, <1>3 DEF Statement

\* The types, taken apart for the steps below.
LEMMA StartTypes ==
    ASSUME StartInv
    PROVE  /\ pc \in [Procs -> AllSteps] /\ todo \in [Procs -> SUBSET AllColumns]
           /\ db \in FileType /\ conf \in Confs
           /\ \A p \in Procs : todo' = todo => todo' = [todo EXCEPT ![p] = todo[p]]
  BY DEF StartInv, StartupTypeOK, FileType, AllSteps

\* A step that leaves the file as it is reaches what p has made sure of.
LEMMA SameFile ==
    ASSUME StartInv, NEW p \in Procs, NEW s \in AllSteps, Go(p, s),
           UNCHANGED <<todo, db, conf, unlucky>>, Made(p, s, todo[p])
    PROVE  Reaches(p, s, todo[p])
  BY StartTypes DEF Reaches, Go, Grows, Made, Misconfigured

LEMMA CheckMade ==
    ASSUME StartInv, NEW p \in Procs, NEW possible \in BOOLEAN, NEW next \in AllSteps,
           Check(p, possible, next), possible => Made(p, next, todo[p]),
           ~possible => Misconfigured(p)
    PROVE  StartInv'
  <1>1. UNCHANGED <<todo, db, conf, restarts, unlucky, locks>>
    BY DEF Check, NoFault, NoRestart
  <1>2. CASE possible
    <2>1. Reaches(p, next, todo[p])
      BY <1>1, <1>2, SameFile DEF Check
    <2> QED BY <1>1, <2>1, StartTypes, StepMade DEF Reaches, StartInv, StartupTypeOK
  <1>3. CASE ~possible
    <2>1. Go(p, "failed") /\ "failed" \in AllSteps
      BY <1>3 DEF Check, Fail, AllSteps
    <2>2. Made(p, "failed", todo[p])
      BY <1>3 DEF Made, AfterUsers, AfterAccounts, AfterColumns, AfterGrants, AfterChats,
                  AfterAdmin, Ready
    <2>3. Reaches(p, "failed", todo[p])
      BY <1>1, <2>1, <2>2, SameFile
    <2> QED BY <1>1, <2>1, <2>3, StartTypes, StepMade DEF Reaches, StartInv, StartupTypeOK
  <1> QED BY <1>2, <1>3

-----------------------------------------------------------------------------
(* The actions, one by one.                                                *)

LEMMA BeginningMade ==
    ASSUME StartInv, NEW p \in Procs, CheckLogin(p) \/ Open(p) \/ ReadColumns(p) PROVE StartInv'
  <1>1. CASE CheckLogin(p)
    <2>1. "open" \in AllSteps /\ Made(p, "open", todo[p])
      BY DEF AllSteps, StartSteps, Made, AfterUsers, AfterAccounts, AfterColumns, AfterGrants,
             AfterChats, AfterAdmin, Ready
    <2>2. Made(p, pc[p], todo[p])
      BY DEF StartInv
    <2>3. Check(p, conf # "noLogin", "open")
      BY <1>1 DEF CheckLogin
    <2>4. p = "admin"
      BY <2>2, <1>1 DEF CheckLogin, At, Made
    <2> QED BY <2>1, <2>3, <2>4, CheckMade DEF Misconfigured
  <1>2. CASE Open(p)
    <2>1. "users" \in AllSteps /\ Made(p, "users", todo[p])
      BY DEF AllSteps, StartSteps, Made, AfterUsers, AfterAccounts, AfterColumns, AfterGrants,
             AfterChats, AfterAdmin, Ready
    <2>2. Go(p, "users") /\ UNCHANGED <<todo, db>> /\ UNCHANGED <<conf, unlucky>>
             => Reaches(p, "users", todo[p])
      BY <2>1, SameFile
    <2> QED BY <1>2, <2>1, <2>2, StartTypes, StatementMade DEF Open
  <1>3. CASE ReadColumns(p)
    <2> DEFINE t == AllColumns \ db.columns
    <2>1. "alter" \in AllSteps /\ t \in SUBSET AllColumns
      BY DEF AllSteps, StartSteps
    <2>2. Made(p, "columns", todo[p])
      BY <1>3 DEF ReadColumns, At, StartInv
    <2>3. ASSUME Go(p, "alter"), UNCHANGED <<db, conf>>, todo' = [todo EXCEPT ![p] = t]
          PROVE  Reaches(p, "alter", t)
      BY <2>2, <2>3, StartTypes
      DEF Reaches, Go, Grows, Made, AfterUsers, AfterAccounts, AfterColumns, AfterGrants,
          AfterChats, AfterAdmin, Ready
    <2> HIDE DEF t
    <2>4. Statement(p, Go(p, "alter") /\ UNCHANGED db /\ todo' = [todo EXCEPT ![p] = t])
      BY <1>3 DEF ReadColumns, t
    <2> QED BY <2>1, <2>3, <2>4, StatementMade
  <1> QED BY <1>1, <1>2, <1>3

LEMMA TablesMade ==
    ASSUME StartInv, NEW p \in Procs, EnsureTables(p) PROVE StartInv'
  <1> DEFINE grown(table) ==
                [db EXCEPT !.tables = @ \cup {table},
                           !.columns = IF table = "accounts" /\ table \notin db.tables
                                       THEN AllColumns ELSE @]
  <1>1. ASSUME NEW table \in Tables
        PROVE  /\ grown(table) \in FileType
               /\ db.tables \subseteq grown(table).tables /\ table \in grown(table).tables
               /\ db.columns \subseteq grown(table).columns
               /\ grown(table).admin = db.admin /\ grown(table).account = db.account
    BY <1>1, StartTypes DEF FileType
  <1>2. ASSUME NEW table \in Tables, NEW next \in AllSteps, CreateTable(p, table, next),
               \/ table = "users" /\ next = "accounts"
               \/ table = "accounts" /\ next = "columns"
               \/ table = "grants" /\ next = "chat_access"
               \/ table = "chat_access" /\ next = "legacy"
        PROVE  StartInv'
    <2>1. Made(p, table, todo[p])
      BY <1>2 DEF CreateTable, At, StartInv
    <2>2. ASSUME Go(p, next), UNCHANGED <<todo, conf>>, db' = grown(table)
          PROVE  Reaches(p, next, todo[p])
      <3>1. Grows /\ table \in db'.tables /\ db.admin = db'.admin /\ db.account = db'.account
        BY <2>2, <1>1 DEF Grows
      <3>2. Made(p, next, todo[p])'
        BY <3>1, <2>1, <2>2, <1>2
        DEF Grows, Made, AfterUsers, AfterAccounts, AfterColumns, AfterGrants, AfterChats,
            AfterAdmin, Ready
      <3> QED BY <3>1, <3>2, <2>2, StartTypes DEF Reaches, Go
    <2> HIDE DEF grown
    <2>3. Statement(p, Go(p, next) /\ UNCHANGED todo /\ db' = grown(table))
      BY <1>2 DEF CreateTable, grown
    <2> QED BY <2>2, <2>3, StartTypes, StatementMade
  <1>3. {"accounts", "columns", "chat_access", "legacy"} \subseteq AllSteps
        /\ {"users", "accounts", "grants", "chat_access"} \subseteq Tables
    BY DEF AllSteps, StartSteps, Tables
  <1> QED BY <1>2, <1>3 DEF EnsureTables

LEMMA ColumnsMade ==
    ASSUME StartInv, NEW p \in Procs, AddColumn(p) PROVE StartInv'
  <1>1. Made(p, "alter", todo[p]) /\ {"alter", "grants"} \subseteq AllSteps
    BY DEF AddColumn, At, StartInv, AllSteps, StartSteps
  <1>2. CASE todo[p] = {} /\ Check(p, TRUE, "grants")
    <2>1. Made(p, "grants", todo[p])
      BY <1>1, <1>2
      DEF Made, AfterUsers, AfterAccounts, AfterColumns, AfterGrants, AfterChats, AfterAdmin,
          Ready
    <2> QED BY <1>1, <1>2, <2>1, CheckMade
  <1>3. ASSUME NEW c \in NextColumn(p),
               Statement(p, /\ db' = [db EXCEPT !.columns = @ \cup {c}]
                            /\ todo' = [todo EXCEPT ![p] = @ \ {c}] /\ UNCHANGED pc)
        PROVE  StartInv'
    <2> DEFINE t == todo[p] \ {c}  new == [db EXCEPT !.columns = @ \cup {c}]
    <2>1. c \in AllColumns /\ t \in SUBSET AllColumns /\ pc[p] = "alter"
      BY StartTypes DEF NextColumn, AddColumn, At
    <2>2. /\ new \in FileType /\ new.columns = db.columns \cup {c} /\ new.tables = db.tables
          /\ new.admin = db.admin /\ new.account = db.account
      BY <2>1, StartTypes DEF FileType
    <2>3. ASSUME db' = new, todo' = [todo EXCEPT ![p] = t], UNCHANGED <<pc, conf>>
          PROVE  Reaches(p, "alter", t)
      <3>1. pc' = [pc EXCEPT ![p] = "alter"]
        BY <2>1, <2>3, StartTypes
      <3>2. Grows
        BY <2>2, <2>3 DEF Grows
      <3>3. Made(p, "alter", t)'
        BY <1>1, <2>2, <2>3
        DEF Made, AfterUsers, AfterAccounts, AfterColumns, AfterGrants, AfterChats,
            AfterAdmin, Ready
      <3> QED BY <3>1, <3>2, <3>3, <2>3 DEF Reaches
    <2> HIDE DEF t, new
    <2>4. Statement(p, db' = new /\ todo' = [todo EXCEPT ![p] = t] /\ UNCHANGED pc)
      BY <1>3 DEF t, new
    <2> QED BY <1>1, <2>1, <2>3, <2>4, StatementMade
  <1> QED BY <1>2, <1>3 DEF AddColumn

LEMMA LegacyMade ==
    ASSUME StartInv, NEW p \in Procs, DropLegacy(p) PROVE StartInv'
  <1>0. {"legacy", "drop", "addUser"} \subseteq AllSteps
    BY DEF AllSteps, StartSteps
  <1>1. CASE At(p, "legacy") /\
             Statement(p, /\ IF AllColumns \subseteq db.columns
                             THEN Go(p, IF db.account THEN "drop" ELSE "addUser")
                             ELSE Fail(p)
                          /\ UNCHANGED <<todo, db>>)
    <2> DEFINE s == IF db.account THEN "drop" ELSE "addUser"
    <2>1. Made(p, "legacy", todo[p])
      BY <1>1 DEF At, StartInv
    <2>2. AllColumns \subseteq db.columns /\ s \in AllSteps /\ Made(p, s, todo[p])
      BY <2>1, <1>0
      DEF Made, AfterUsers, AfterAccounts, AfterColumns, AfterGrants, AfterChats, AfterAdmin,
          Ready
    <2>3. Go(p, s) /\ UNCHANGED <<todo, db>> /\ UNCHANGED <<conf, unlucky>>
             => Reaches(p, s, todo[p])
      BY <2>2, SameFile
    <2>4. Statement(p, Go(p, s) /\ UNCHANGED <<todo, db>>)
      BY <1>1, <2>2
    <2> QED BY <2>2, <2>3, <2>4, StartTypes, StatementMade
  <1>2. CASE At(p, "drop") /\
             Statement(p, Go(p, "addUser") /\ UNCHANGED todo /\ db' = [db EXCEPT !.legacy = FALSE])
    <2>1. Made(p, "drop", todo[p])
      BY <1>2 DEF At, StartInv
    <2>2. ASSUME Go(p, "addUser"), UNCHANGED <<todo, conf>>, db' = [db EXCEPT !.legacy = FALSE]
          PROVE  Reaches(p, "addUser", todo[p])
      <3>1. Grows /\ db'.tables = db.tables /\ db'.columns = db.columns
        BY <2>2, StartTypes DEF Grows, FileType
      <3>2. Made(p, "addUser", todo[p])'
        BY <3>1, <2>1
        DEF Made, AfterUsers, AfterAccounts, AfterColumns, AfterGrants, AfterChats,
            AfterAdmin, Ready
      <3> QED BY <3>1, <3>2, <2>2, StartTypes DEF Reaches, Go
    <2> QED BY <1>0, <1>2, <2>2, StartTypes, StatementMade
  <1> QED BY <1>1, <1>2 DEF DropLegacy

LEMMA BootstrapMade ==
    ASSUME StartInv, NEW p \in Procs,
           AddUser(p) \/ SetAdmin(p) \/ AddAccount(p) \/ CheckSecret(p)
    PROVE  StartInv'
  <1>0. /\ {"addUser", "setAdmin", "addAccount", "secret", "serving"} \subseteq AllSteps
        /\ Made(p, pc[p], todo[p])
    BY DEF AllSteps, StartSteps, StartInv
  <1>1. ASSUME NEW s \in AllSteps, NEW new \in FileType, Go(p, s), UNCHANGED <<todo, conf>>,
               db' = new, new.tables = db.tables, new.columns = db.columns,
               db.admin = "admin" => new.admin = "admin", db.account => new.account,
               \/ pc[p] = "addUser" /\ s = "setAdmin"
               \/ pc[p] = "setAdmin" /\ s = "addAccount" /\ new.admin = "admin"
               \/ pc[p] = "addAccount" /\ s = "secret" /\ new.account
        PROVE  Reaches(p, s, todo[p])
    <2>1. Grows
      BY <1>1 DEF Grows
    <2>2. Made(p, s, todo[p])'
      BY <1>0, <1>1
      DEF Made, AfterUsers, AfterAccounts, AfterColumns, AfterGrants, AfterChats, AfterAdmin,
          Ready
    <2> QED BY <2>1, <2>2, <1>1, StartTypes DEF Reaches, Go
  <1>2. CASE AddUser(p)
    <2>1. CASE conf = "noEmail"
      <3>1. Check(p, TRUE, "secret") /\ pc[p] = "addUser"
        BY <1>2, <2>1 DEF AddUser, At
      <3>2. Made(p, "secret", todo[p])
        BY <1>0, <3>1, <2>1
        DEF Made, AfterUsers, AfterAccounts, AfterColumns, AfterGrants, AfterChats, AfterAdmin,
            Ready
      <3> QED BY <1>0, <3>1, <3>2, CheckMade
    <2>2. CASE conf # "noEmail"
      <3> DEFINE new == [db EXCEPT !.admin = IF @ = "none" THEN "admin" ELSE @]
      <3>1. /\ new \in FileType /\ new.tables = db.tables /\ new.columns = db.columns
            /\ (db.admin = "admin" => new.admin = "admin") /\ (db.account => new.account)
        BY StartTypes DEF FileType
      <3>2. pc[p] = "addUser" /\ Statement(p, Go(p, "setAdmin") /\ UNCHANGED todo /\ db' = new)
        BY <1>2, <2>2 DEF AddUser, At
      <3> HIDE DEF new
      <3> QED BY <1>0, <1>1, <3>1, <3>2, StartTypes, StatementMade
    <2> QED BY <2>1, <2>2
  <1>3. CASE SetAdmin(p)
    <2> DEFINE new == [db EXCEPT !.admin = "admin"]
    <2>1. /\ new \in FileType /\ new.tables = db.tables /\ new.columns = db.columns
          /\ new.admin = "admin" /\ (db.account => new.account)
      BY StartTypes DEF FileType
    <2>2. pc[p] = "setAdmin" /\ Statement(p, Go(p, "addAccount") /\ UNCHANGED todo /\ db' = new)
      BY <1>3 DEF SetAdmin, At
    <2> HIDE DEF new
    <2> QED BY <1>0, <1>1, <2>1, <2>2, StartTypes, StatementMade
  <1>4. CASE AddAccount(p)
    <2> DEFINE new == [db EXCEPT !.account = TRUE]
    <2>1. /\ new \in FileType /\ new.tables = db.tables /\ new.columns = db.columns
          /\ new.admin = db.admin /\ new.account
      BY StartTypes DEF FileType
    <2>2. pc[p] = "addAccount" /\ Statement(p, Go(p, "secret") /\ UNCHANGED todo /\ db' = new)
      BY <1>4 DEF AddAccount, At
    <2> HIDE DEF new
    <2> QED BY <1>0, <1>1, <2>1, <2>2, StartTypes, StatementMade
  <1>5. CASE CheckSecret(p)
    <2>1. pc[p] = "secret" /\ Check(p, ~Misconfigured(p), "serving")
      BY <1>5 DEF CheckSecret, At
    <2>2. Made(p, "serving", todo[p])
      BY <1>0, <2>1
      DEF Made, AfterUsers, AfterAccounts, AfterColumns, AfterGrants, AfterChats, AfterAdmin,
          Ready
    <2>3. (~Misconfigured(p)) \in BOOLEAN /\ (~~Misconfigured(p) => Misconfigured(p))
      OBVIOUS
    <2> QED BY <1>0, <2>1, <2>2, <2>3, CheckMade
  <1> QED BY <1>2, <1>3, <1>4, <1>5

\* At the first step of a start nothing has been made sure of.
LEMMA FirstMade ==
    ASSUME NEW p \in Procs PROVE First(p) \in AllSteps /\ Made(p, First(p), {})
  BY DEF First, AllSteps, StartSteps, Made, AfterUsers, AfterAccounts, AfterColumns, AfterGrants,
         AfterChats, AfterAdmin, Ready, Procs

LEMMA RestartMade ==
    ASSUME StartInv, NEW ps \in SUBSET Procs, RestartOf(ps) PROVE StartInv'
  <1>1. /\ pc' = [p \in Procs |-> IF p \in ps THEN First(p) ELSE pc[p]]
        /\ todo' = [p \in Procs |-> IF p \in ps THEN {} ELSE todo[p]]
        /\ unlucky' = unlucky \ ps /\ UNCHANGED <<db, conf, locks>>
        /\ restarts' \in 0..MaxRestarts
    BY StartupAssumption DEF RestartOf, StartInv, StartupTypeOK
  <1>2. StartupTypeOK'
    BY <1>1, FirstMade DEF StartInv, StartupTypeOK, AllSteps
  <1>3. ASSUME NEW p \in Procs PROVE Made(p, pc[p], todo[p])'
    <2>1. CASE p \in ps
      <3>1. pc'[p] = First(p) /\ todo'[p] = {}
        BY <1>1, <2>1
      <3>2. First(p) # "failed"
        BY DEF First
      <3> QED BY <1>1, <3>1, <3>2, FirstMade DEF Made
    <2>2. CASE p \notin ps
      <3>1. pc'[p] = pc[p] /\ todo'[p] = todo[p] /\ Made(p, pc[p], todo[p])
        BY <1>1, <2>2 DEF StartInv
      <3> QED BY <1>1, <2>2, <3>1 DEF Made, Misconfigured
    <2> QED BY <2>1, <2>2
  <1> QED BY <1>2, <1>3 DEF StartInv

LEMMA StartupInitMade == ASSUME StartupInit PROVE StartInv
  <1>1. db \in FileType
    <2>1. db \in Files
      BY DEF StartupInit
    <2>2. CASE db \in {Fresh, [Fresh EXCEPT !.legacy = TRUE]}
      <3>1. Fresh \in FileType
        BY DEF Fresh, FileType
      <3>2. [Fresh EXCEPT !.legacy = TRUE] \in FileType
        BY <3>1 DEF FileType
      <3> QED BY <2>2, <3>1, <3>2
    <2>3. CASE \E cs \in {{}, AllColumns}, rl \in {"none", "member", "admin"}, l \in BOOLEAN :
                  db = [tables |-> Tables, columns |-> cs, admin |-> rl, account |-> TRUE,
                        legacy |-> l]
      BY <2>3 DEF FileType
    <2> QED BY <2>1, <2>2, <2>3 DEF Files
  <1>2. StartupTypeOK
    BY <1>1, FirstMade, StartupAssumption DEF StartupInit, StartupTypeOK, FileType, AllSteps
  <1>3. \A p \in Procs : Made(p, pc[p], todo[p])
    BY FirstMade DEF StartupInit
  <1> QED BY <1>2, <1>3 DEF StartInv

-----------------------------------------------------------------------------
(* Links.                                                                  *)

UploadType == [at : {"none", "put", "sign", "linked", "failed"}, stored : BOOLEAN,
               link : 0..LinkTTL, task : {"none", "created", "sleeping", "done"},
               sleep : 0..LinkTTL, stray : BOOLEAN]

\* A link only exists once the object does, and its delete sleeps no shorter.
Timed(x) ==
    /\ x.at = "put" => x.link = 0
    /\ x.at = "sign" \/ x.link > 0 => x.stored
    /\ x.task \in {"created", "sleeping"} => x.at = "linked"
    /\ x.task = "sleeping" => x.link <= x.sleep

LinkInv ==
    /\ object \in [Objects -> UploadType] /\ mishaps \in 0..MaxMishaps
    /\ \A o \in Objects : Timed(object[o])

LEMMA MishapType == ASSUME LinkInv, Mishap \/ UNCHANGED mishaps PROVE mishaps' \in 0..MaxMishaps
  BY LinksAssumption DEF LinkInv, Mishap

\* A step that changes one upload.
LEMMA OneTimed ==
    ASSUME LinkInv, NEW o \in Objects, object' \in [Objects -> UploadType],
           \A q \in Objects : q # o => object'[q] = object[q], Timed(object'[o]),
           Mishap \/ UNCHANGED mishaps
    PROVE  LinkInv'
  BY MishapType DEF LinkInv

LEMMA UploadTimed == ASSUME LinkInv, NEW o \in Objects, Upload(o) PROVE LinkInv'
  <1>1. /\ object \in [Objects -> UploadType] /\ object[o] = Unused
        /\ object' = [object EXCEPT ![o].at = "put"] /\ UNCHANGED mishaps
    BY DEF Upload, LinkInv
  <1>2. object' \in [Objects -> UploadType] /\ \A q \in Objects : q # o => object'[q] = object[q]
    BY <1>1 DEF UploadType
  <1>3. /\ object'[o].at = "put" /\ object'[o].link = 0 /\ object'[o].task = "none"
    BY <1>1 DEF UploadType, Unused
  <1> QED BY <1>1, <1>2, <1>3, OneTimed DEF Timed

LEMMA FullTTL == LinkTTL \in 0..LinkTTL
  BY LinksAssumption

LEMMA PutTimed == ASSUME LinkInv, NEW o \in Objects, Put(o) PROVE LinkInv'
  <1>1. /\ object \in [Objects -> UploadType] /\ Timed(object[o]) /\ object[o].at = "put"
        /\ Mishap \/ UNCHANGED mishaps
    BY DEF LinkInv, Put
  <1>2. CASE object' = [object EXCEPT ![o].at = "sign", ![o].stored = TRUE]
    <2>1. object' \in [Objects -> UploadType]
      <3> DEFINE new == [object[o] EXCEPT !.at = "sign", !.stored = TRUE]
      <3>1. object[o] \in UploadType
        BY <1>1
      <3>2. new \in UploadType
        BY <3>1 DEF UploadType
      <3>3. object' = [object EXCEPT ![o] = new]
        BY <1>2
      <3> HIDE DEF new
      <3> QED BY <1>1, <3>2, <3>3
    <2>2. \A q \in Objects : q # o => object'[q] = object[q]
      BY <1>1, <1>2
    <2>3. /\ object'[o].at = "sign" /\ object'[o].stored = TRUE
          /\ object'[o].link = object[o].link /\ object'[o].task = object[o].task
      BY <1>1, <1>2 DEF UploadType
    <2> QED BY <1>1, <2>1, <2>2, <2>3, OneTimed DEF Timed
  <1>3. ASSUME NEW done \in BOOLEAN,
               object' = [object EXCEPT ![o].at = "failed", ![o].stored = done, ![o].stray = done]
        PROVE  LinkInv'
    <2>1. object' \in [Objects -> UploadType]
      <3> DEFINE new == [object[o] EXCEPT !.at = "failed", !.stored = done, !.stray = done]
      <3>1. object[o] \in UploadType
        BY <1>1
      <3>2. new \in UploadType
        BY <3>1 DEF UploadType
      <3>3. object' = [object EXCEPT ![o] = new]
        BY <1>3
      <3> HIDE DEF new
      <3> QED BY <1>1, <3>2, <3>3
    <2>2. \A q \in Objects : q # o => object'[q] = object[q]
      BY <1>1, <1>3
    <2>3. /\ object'[o].at = "failed"
          /\ object'[o].link = object[o].link /\ object'[o].task = object[o].task
      BY <1>1, <1>3 DEF UploadType
    <2>4. object[o].link = 0 /\ object[o].task \notin {"created", "sleeping"}
      BY <1>1 DEF Timed
    <2> QED BY <1>1, <2>1, <2>2, <2>3, <2>4, OneTimed DEF Timed
  <1> QED BY <1>2, <1>3 DEF Put

LEMMA SignTimed == ASSUME LinkInv, NEW o \in Objects, Sign(o) PROVE LinkInv'
  <1>1. /\ object \in [Objects -> UploadType] /\ Timed(object[o]) /\ object[o].at = "sign"
        /\ Mishap \/ UNCHANGED mishaps
    BY DEF LinkInv, Sign
  <1>2. CASE object' = [object EXCEPT ![o].at = "linked", ![o].link = LinkTTL,
                                      ![o].task = "created"]
    <2>1. object' \in [Objects -> UploadType]
      <3> DEFINE new == [object[o] EXCEPT !.at = "linked", !.link = LinkTTL, !.task = "created"]
      <3>1. object[o] \in UploadType
        BY <1>1
      <3>2. new \in UploadType
        BY <3>1, FullTTL DEF UploadType
      <3>3. object' = [object EXCEPT ![o] = new]
        BY <1>2
      <3> HIDE DEF new
      <3> QED BY <1>1, <3>2, <3>3
    <2>2. \A q \in Objects : q # o => object'[q] = object[q]
      BY <1>1, <1>2
    <2>3. /\ object'[o].at = "linked" /\ object'[o].task = "created"
          /\ object'[o].stored = object[o].stored
      BY <1>1, <1>2 DEF UploadType
    <2> QED BY <1>1, <2>1, <2>2, <2>3, OneTimed DEF Timed
  <1>3. CASE object' = [object EXCEPT ![o].at = "failed", ![o].stray = TRUE]
    <2>1. object' \in [Objects -> UploadType]
      <3> DEFINE new == [object[o] EXCEPT !.at = "failed", !.stray = TRUE]
      <3>1. object[o] \in UploadType
        BY <1>1
      <3>2. new \in UploadType
        BY <3>1 DEF UploadType
      <3>3. object' = [object EXCEPT ![o] = new]
        BY <1>3
      <3> HIDE DEF new
      <3> QED BY <1>1, <3>2, <3>3
    <2>2. \A q \in Objects : q # o => object'[q] = object[q]
      BY <1>1, <1>3
    <2>3. /\ object'[o].at = "failed" /\ object'[o].task = object[o].task
          /\ object'[o].stored = object[o].stored
      BY <1>1, <1>3 DEF UploadType
    <2>4. object[o].stored /\ object[o].task \notin {"created", "sleeping"}
      BY <1>1 DEF Timed
    <2> QED BY <1>1, <2>1, <2>2, <2>3, <2>4, OneTimed DEF Timed
  <1> QED BY <1>2, <1>3 DEF Sign

LEMMA SleepTimed == ASSUME LinkInv, NEW o \in Objects, Sleep(o) PROVE LinkInv'
  <1>1. /\ object \in [Objects -> UploadType] /\ Timed(object[o]) /\ object[o].task = "created"
        /\ UNCHANGED mishaps
        /\ object' = [object EXCEPT ![o].task = "sleeping", ![o].sleep = LinkTTL]
    BY DEF LinkInv, Sleep
  <1>2. object' \in [Objects -> UploadType]
    <2> DEFINE new == [object[o] EXCEPT !.task = "sleeping", !.sleep = LinkTTL]
    <2>1. object[o] \in UploadType
      BY <1>1
    <2>2. new \in UploadType
      BY <2>1, FullTTL DEF UploadType
    <2>3. object' = [object EXCEPT ![o] = new]
      BY <1>1
    <2> HIDE DEF new
    <2> QED BY <1>1, <2>2, <2>3
  <1>3. \A q \in Objects : q # o => object'[q] = object[q]
    BY <1>1
  <1>4. /\ object'[o].at = object[o].at /\ object'[o].stored = object[o].stored
        /\ object'[o].link = object[o].link /\ object'[o].sleep = LinkTTL
    BY <1>1 DEF UploadType
  <1>5. object[o].link <= LinkTTL /\ object[o].at = "linked"
    BY <1>1, LinksAssumption DEF UploadType, Timed
  <1> QED BY <1>1, <1>2, <1>3, <1>4, <1>5, OneTimed DEF Timed

LEMMA DeleteTimed == ASSUME LinkInv, NEW o \in Objects, Delete(o) PROVE LinkInv'
  <1>1. /\ object \in [Objects -> UploadType] /\ Timed(object[o])
        /\ object[o].task = "sleeping" /\ object[o].sleep = 0
        /\ Mishap \/ UNCHANGED mishaps
    BY DEF LinkInv, Delete
  <1>2. object[o].link = 0 /\ object[o].at = "linked"
    <2>1. object[o].link \in 0..LinkTTL /\ LinkTTL \in Nat
      BY <1>1, LinksAssumption DEF UploadType
    <2>2. object[o].link <= 0 /\ object[o].at = "linked"
      BY <1>1 DEF Timed
    <2> QED BY <2>1, <2>2
  <1>3. ASSUME NEW b \in BOOLEAN, NEW c \in BOOLEAN,
               object' = [object EXCEPT ![o].task = "done", ![o].stored = b, ![o].stray = c]
        PROVE  LinkInv'
    <2>1. object' \in [Objects -> UploadType]
      <3> DEFINE new == [object[o] EXCEPT !.task = "done", !.stored = b, !.stray = c]
      <3>1. object[o] \in UploadType
        BY <1>1
      <3>2. new \in UploadType
        BY <3>1 DEF UploadType
      <3>3. object' = [object EXCEPT ![o] = new]
        BY <1>3
      <3> HIDE DEF new
      <3> QED BY <1>1, <3>2, <3>3
    <2>2. \A q \in Objects : q # o => object'[q] = object[q]
      BY <1>1, <1>3
    <2>3. /\ object'[o].at = object[o].at /\ object'[o].link = object[o].link
          /\ object'[o].task = "done"
      BY <1>1, <1>3 DEF UploadType
    <2> QED BY <1>1, <1>2, <2>1, <2>2, <2>3, OneTimed DEF Timed
  <1>4. CASE object' = [object EXCEPT ![o].task = "done", ![o].stored = FALSE]
    <2>1. object' = [object EXCEPT ![o].task = "done", ![o].stored = FALSE,
                                   ![o].stray = object[o].stray]
      BY <1>1, <1>4 DEF UploadType
    <2>2. object[o].stray \in BOOLEAN
      BY <1>1 DEF UploadType
    <2> QED BY <2>1, <2>2, <1>3
  <1> QED BY <1>3, <1>4 DEF Delete

LEMMA TickTimed == ASSUME LinkInv, Tick PROVE LinkInv'
  <1>1. /\ object' = [o \in Objects |->
                         [object[o] EXCEPT !.link = Less(@), !.sleep = Less(@)]]
        /\ UNCHANGED mishaps
    BY DEF Tick
  <1>2. ASSUME NEW o \in Objects
        PROVE  object'[o] \in UploadType /\ Timed(object'[o])
    <2> DEFINE x == object[o]
    <2>1. /\ x \in UploadType /\ Timed(x) /\ LinkTTL \in Nat
          /\ x.link \in 0..LinkTTL /\ x.sleep \in 0..LinkTTL
      BY LinksAssumption DEF LinkInv, UploadType
    <2>2. /\ Less(x.link) \in 0..LinkTTL /\ Less(x.sleep) \in 0..LinkTTL
          /\ Less(x.link) > 0 => x.link > 0
          /\ x.link <= x.sleep => Less(x.link) <= Less(x.sleep)
          /\ x.link = 0 => Less(x.link) = 0
      BY <2>1 DEF Less
    <2>3. /\ object'[o] \in UploadType
          /\ object'[o].at = x.at /\ object'[o].stored = x.stored /\ object'[o].task = x.task
          /\ object'[o].link = Less(x.link) /\ object'[o].sleep = Less(x.sleep)
      BY <1>1, <2>1, <2>2 DEF UploadType
    <2> QED BY <2>1, <2>2, <2>3 DEF Timed
  <1> QED BY <1>1, <1>2 DEF LinkInv

LEMMA InterruptTimed == ASSUME LinkInv, Interrupt PROVE LinkInv'
  <1>1. /\ UNCHANGED mishaps /\ DOMAIN object' = Objects
        /\ object' = [o \in Objects |-> object'[o]]
        /\ \A o \in Objects : object'[o] \in Interrupted(object[o])
    BY DEF Interrupt
  <1>2. ASSUME NEW o \in Objects
        PROVE  object'[o] \in UploadType /\ Timed(object'[o])
    <2> DEFINE x == object[o]  y == object'[o]
    <2>1. x \in UploadType /\ Timed(x) /\ LinkTTL \in Nat /\ y \in Interrupted(x)
      BY <1>1, LinksAssumption DEF LinkInv
    <2>2. CASE x.at = "put"
      <3>1. PICK done \in BOOLEAN : y = [x EXCEPT !.at = "failed", !.stored = done, !.stray = done]
        BY <2>1, <2>2 DEF Interrupted
      <3>2. y \in UploadType /\ y.at = "failed" /\ y.link = x.link /\ y.task = x.task
        BY <2>1, <3>1 DEF UploadType
      <3> QED BY <2>1, <2>2, <3>2, LinksAssumption DEF Timed
    <2>3. CASE x.at # "put"
      <3>1. y = [x EXCEPT !.at = IF @ = "sign" THEN "failed" ELSE @,
                          !.task = IF @ = "none" THEN @ ELSE "done",
                          !.sleep = 0, !.stray = x.stored]
        BY <2>1, <2>3 DEF Interrupted
      <3>2. /\ x.at \in {"none", "put", "sign", "linked", "failed"} /\ x.stored \in BOOLEAN
            /\ x.task \in {"none", "created", "sleeping", "done"} /\ 0 \in 0..LinkTTL
        BY <2>1 DEF UploadType
      <3>3. y \in UploadType
        BY <2>1, <3>1, <3>2 DEF UploadType
      <3>4. /\ y.at = IF x.at = "sign" THEN "failed" ELSE x.at
            /\ y.task = IF x.task = "none" THEN "none" ELSE "done"
            /\ y.link = x.link /\ y.stored = x.stored
        BY <2>1, <3>1 DEF UploadType
      <3> QED BY <2>1, <2>3, <3>2, <3>3, <3>4 DEF Timed
    <2> QED BY <2>2, <2>3
  <1> QED BY <1>1, <1>2 DEF LinkInv

LEMMA MediaInitTimed == ASSUME MediaInit PROVE LinkInv
  <1>1. Unused \in UploadType /\ Timed(Unused)
    BY LinksAssumption DEF Unused, UploadType, Timed
  <1> QED BY <1>1, LinksAssumption DEF MediaInit, LinkInv

-----------------------------------------------------------------------------
(* Both together.                                                          *)

Inv == StartInv /\ LinkInv

LEMMA StartKeeps == ASSUME StartInv, NEW p \in Procs, StartStep(p) PROVE StartInv'
  BY BeginningMade, TablesMade, ColumnsMade, LegacyMade, BootstrapMade DEF StartStep

LEMMA LinkKeeps == ASSUME LinkInv, NEW o \in Objects, LinkStep(o) PROVE LinkInv'
  BY PutTimed, SignTimed, SleepTimed, DeleteTimed DEF LinkStep

LEMMA NextKeeps == ASSUME Inv, [Next]_vars PROVE Inv'
  <1>1. ASSUME UNCHANGED startupVars PROVE StartInv'
    BY <1>1 DEF Inv, StartInv, StartupTypeOK, Made, Misconfigured, startupVars
  <1>2. ASSUME UNCHANGED mediaVars PROVE LinkInv'
    BY <1>2 DEF Inv, LinkInv, mediaVars
  <1>3. CASE Start
    BY <1>2, <1>3, StartKeeps DEF Start, Inv
  <1>4. CASE Restart
    BY <1>2, <1>4, RestartMade, InterruptTimed DEF Restart, Inv
  <1>5. CASE GetMedia
    BY <1>1, <1>5, UploadTimed DEF GetMedia, Inv
  <1>6. CASE TimePasses
    BY <1>1, <1>6, TickTimed DEF TimePasses, Inv
  <1>7. ASSUME NEW o \in Objects, LinkWork(o) PROVE Inv'
    BY <1>1, <1>7, LinkKeeps DEF LinkWork, Inv
  <1>8. CASE UNCHANGED vars
    BY <1>1, <1>2, <1>8 DEF vars, Inv
  <1> QED BY <1>3, <1>4, <1>5, <1>6, <1>7, <1>8 DEF Next

LEMMA Invariance == Spec => []Inv
  <1>1. Init => Inv
    BY StartupInitMade, MediaInitTimed DEF Init, Inv
  <1> QED BY <1>1, NextKeeps, PTL DEF Spec

-----------------------------------------------------------------------------

\* Both models keep their types.
THEOREM TypesCorrect == Spec => [](StartupTypeOK /\ MediaTypeOK)
  <1>1. Inv => StartupTypeOK /\ MediaTypeOK
    BY DEF Inv, StartInv, LinkInv, MediaTypeOK, UploadType
  <1> QED BY <1>1, Invariance, PTL

\* A process that serves has every table and column and, if the environment
\* names one, the administrator and an account: each step of ensure_schema and
\* bootstrap is idempotent and undoes none that the other process has done.
THEOREM ServesWhenReady == Spec => []ReadyBeforeServing
  <1>1. ASSUME Inv PROVE ReadyBeforeServing
    <2> SUFFICES ASSUME NEW p \in Procs, pc[p] = "serving"
                 PROVE  /\ db.tables = Tables /\ db.columns = AllColumns
                        /\ conf # "noEmail" => db.admin = "admin" /\ db.account
      BY DEF ReadyBeforeServing, At
    <2>1. Made(p, "serving", todo[p]) /\ db \in FileType
      BY <1>1, StartTypes DEF Inv, StartInv
    <2> QED BY <2>1 DEF Made, AfterUsers, AfterAccounts, AfterColumns, AfterGrants, AfterChats,
                        AfterAdmin, Ready, FileType, Tables
  <1> QED BY <1>1, Invariance, PTL

\* Neither process keeps the other from starting: _add_text_column tolerates a
\* column that has just been added, and nothing else in a start can be lost.
THEOREM NobodyLoses == Spec => []NobodyLosesTheRace
  <1>1. Inv => NobodyLosesTheRace
    BY DEF Inv, StartInv, Made, NobodyLosesTheRace, At
  <1> QED BY <1>1, Invariance, PTL

\* The object is there for as long as its link works, since the delete task
\* starts to sleep after the link was signed and sleeps for as long.
THEOREM LinkGood == Spec => []LinkGoodUntilExpiry
  <1>1. Inv => LinkGoodUntilExpiry
    BY DEF Inv, LinkInv, Timed, LinkGoodUntilExpiry
  <1> QED BY <1>1, Invariance, PTL

=============================================================================
