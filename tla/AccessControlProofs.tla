------------------------- MODULE AccessControlProofs -------------------------
(* Theorems about AccessControl, for every value of its constants.         *)
EXTENDS AccessControl, TLAPS

-----------------------------------------------------------------------------
(* Types.                                                                  *)

\* Every DML statement of metadata.sql keeps the tables well formed.
LEMMA StatementTypes ==
    ASSUME NEW d \in Tables, NEW a \in Accounts, NEW u \in Users, NEW As, NEW Us
    PROVE  /\ AddUserRow(d, u) \in Tables
           /\ DeleteUserRow(d, u) \in Tables
           /\ AddAccountRow(d, a, u) \in Tables
           /\ DeleteAccountRow(d, a) \in Tables
           /\ AddGrant(d, a, u) \in Tables
           /\ RemoveGrant(d, a, u) \in Tables
           /\ DeleteGrants(d, As, Us) \in Tables
           /\ DeleteChatAccess(d, As, Us) \in Tables
  <1>1. AddUserRow(d, u) \in Tables /\ DeleteUserRow(d, u) \in Tables
    BY DEF Tables, AddUserRow, DeleteUserRow
  <1>2. AddAccountRow(d, a, u) \in Tables /\ DeleteAccountRow(d, a) \in Tables
    BY DEF Tables, AddAccountRow, DeleteAccountRow
  <1>3. AddGrant(d, a, u) \in Tables /\ RemoveGrant(d, a, u) \in Tables
    BY DEF Tables, AddGrant, RemoveGrant
  <1>4. DeleteGrants(d, As, Us) \in Tables /\ DeleteChatAccess(d, As, Us) \in Tables
    BY DEF Tables, DeleteGrants, DeleteChatAccess
  <1> QED BY <1>1, <1>2, <1>3, <1>4

LEMMA UpsertTypes ==
    ASSUME NEW d \in Tables, NEW a \in Accounts, NEW u \in Users, NEW j \in Jids,
           NEW on \in BOOLEAN
    PROVE  UpsertTags(d, a, u, j) \in Tables /\ UpsertAllowed(d, a, u, j, on) \in Tables
  <1> DEFINE k == <<a, u, j>>
  <1>1. k \in Keys
    BY DEF Keys
  <1>2. d.rows \cup {k} \in SUBSET Keys /\ d.allowed \cup {k} \in SUBSET Keys
    BY <1>1 DEF Tables
  <1>3. d.allowed \ {k} \in SUBSET Keys
    BY DEF Tables
  <1> HIDE DEF k
  <1>4. [d EXCEPT !.rows = @ \cup {k}] \in Tables
    BY <1>2 DEF Tables
  <1>5. [d EXCEPT !.rows = @ \cup {k}, !.allowed = @ \cup {k}] \in Tables
    BY <1>2 DEF Tables
  <1>6. [d EXCEPT !.rows = @ \cup {k}, !.allowed = @ \ {k}] \in Tables
    BY <1>2, <1>3 DEF Tables
  <1>7. CASE on
    BY <1>4, <1>5, <1>7 DEF UpsertTags, UpsertAllowed, k
  <1>8. CASE ~on
    BY <1>4, <1>6, <1>8 DEF UpsertTags, UpsertAllowed, k
  <1> QED BY <1>7, <1>8

LEMMA BootstrappedType ==
    ASSUME NEW d \in Tables PROVE Bootstrapped(d) \in Tables
  <1>1. BootAdmin \in Users /\ DefaultAccount \in Accounts
    BY BootAssumption
  <1>2. AddUserRow(d, BootAdmin) \in Tables
    BY <1>1, StatementTypes
  <1> QED BY <1>1, <1>2, StatementTypes DEF Bootstrapped


\* The chat of a request or of a tag write is a real one once it is needed.
JidsKnown ==
    /\ \A r \in Requests : req[r].op \in {"toggle", "tags"} => req[r].jid \in Jids
    /\ tagger.at # "idle" => tagger.jid \in Jids

TypeInv == TypeOK /\ JidsKnown

CallType == [at : {"idle", "access", "query", "done"}, acct : Accounts,
             who : Users, result : SUBSET Jids]

LEMMA IdleType == Idle \in Request /\ Idle.op = "none"
  BY BootAssumption DEF Idle, Request, Steps

LEMMA ObserveType ==
    ASSUME TypeInv, Observe, saved' \in Tables, call' \in [Calls -> CallType]
    PROVE  seen' \in [Calls -> [held : BOOLEAN, jids : SUBSET Jids]]
  <1> SUFFICES ASSUME NEW c \in Calls
               PROVE  seen'[c] \in [held : BOOLEAN, jids : SUBSET Jids]
    BY DEF Observe
  <1> DEFINE a == call'[c].acct
             u == call'[c].who
  <1>1. seen[c] \in [held : BOOLEAN, jids : SUBSET Jids]
    BY DEF TypeInv, TypeOK
  <1>2. Visible(saved', a, u) \in SUBSET Jids
    BY DEF Visible, AllowedJids
  <1>3. HasAccess(saved', a, u) \in BOOLEAN
    BY DEF HasAccess, Exists
  <1>4. NothingSeen \in [held : BOOLEAN, jids : SUBSET Jids]
    BY DEF NothingSeen
  <1> QED BY <1>1, <1>2, <1>3, <1>4 DEF Observe

LEMMA CheckType ==
    ASSUME TypeInv, NEW r \in Requests, NEW ok, NEW next \in Steps, Check(r, ok, next)
    PROVE  TypeInv'
  <1>1. /\ db' = db /\ saved' = saved /\ txn' = txn /\ call' = call /\ tagger' = tagger
        /\ failures' = failures /\ Observe
    BY DEF Check, NoMcpStep
  <1>2. seen' \in [Calls -> [held : BOOLEAN, jids : SUBSET Jids]]
    BY <1>1, ObserveType DEF TypeInv, TypeOK, CallType
  <1>3. req' \in [Requests -> Request]
    BY IdleType DEF Check, TypeInv, TypeOK, Request
  <1>4. \A q \in Requests : req'[q].op \in {"toggle", "tags"} => req'[q].jid \in Jids
    BY IdleType DEF Check, TypeInv, TypeOK, JidsKnown, Request
  <1> QED BY <1>1, <1>2, <1>3, <1>4 DEF TypeInv, TypeOK, JidsKnown

LEMMA ArriveType ==
    ASSUME TypeInv, NEW r \in Requests, NEW new \in Request, Arrive(r, new),
           new.op \in {"toggle", "tags"} => new.jid \in Jids
    PROVE  TypeInv'
  <1>1. /\ db' = db /\ saved' = saved /\ txn' = txn /\ call' = call /\ tagger' = tagger
        /\ failures' = failures /\ Observe /\ req' = [req EXCEPT ![r] = new]
    BY DEF Arrive, NoMcpStep
  <1>2. seen' \in [Calls -> [held : BOOLEAN, jids : SUBSET Jids]]
    BY <1>1, ObserveType DEF TypeInv, TypeOK, CallType
  <1>3. req' \in [Requests -> Request]
    BY <1>1 DEF TypeInv, TypeOK
  <1>4. \A q \in Requests : req'[q].op \in {"toggle", "tags"} => req'[q].jid \in Jids
    BY <1>1 DEF TypeInv, TypeOK, JidsKnown
  <1> QED BY <1>1, <1>2, <1>3, <1>4 DEF TypeInv, TypeOK, JidsKnown

LEMMA WriteType ==
    ASSUME TypeInv, NEW r \in Requests, NEW newDb \in Tables, NEW next \in Steps,
           Write(r, newDb, next)
    PROVE  TypeInv'
  <1>1. /\ db' = newDb /\ saved' = saved /\ txn' = TRUE /\ call' = call /\ tagger' = tagger
        /\ failures' = failures /\ Observe /\ req' = [req EXCEPT ![r].at = next]
    BY DEF Write, NoMcpStep
  <1>2. seen' \in [Calls -> [held : BOOLEAN, jids : SUBSET Jids]]
    BY <1>1, ObserveType DEF TypeInv, TypeOK, CallType
  <1>a. req \in [Requests -> Request] /\ req' = [req EXCEPT ![r].at = next]
    BY <1>1 DEF TypeInv, TypeOK
  <1>3. req' \in [Requests -> Request]
    BY <1>a DEF Request
  <1>4. \A q \in Requests : req'[q].op \in {"toggle", "tags"} => req'[q].jid \in Jids
    BY <1>1 DEF TypeInv, TypeOK, JidsKnown, Request
  <1>5. /\ db' \in Tables /\ saved' \in Tables /\ txn' \in BOOLEAN
        /\ failures' \in 0..MaxFailures
    BY <1>1 DEF TypeInv, TypeOK
  <1>6. UNCHANGED <<call, tagger>>
    BY <1>1
  <1> QED BY <1>2, <1>3, <1>4, <1>5, <1>6 DEF TypeInv, TypeOK, JidsKnown

LEMMA CommitType ==
    ASSUME TypeInv, NEW r \in Requests, NEW next \in Steps, Commit(r, next)
    PROVE  TypeInv'
  <1>1. /\ db' = db /\ saved' = db /\ txn' = FALSE /\ call' = call /\ tagger' = tagger
        /\ failures' = failures /\ Observe
        /\ req' = [req EXCEPT ![r] = IF next = "idle" THEN Idle ELSE [@ EXCEPT !.at = next]]
    BY DEF Commit, NoMcpStep
  <1>2. seen' \in [Calls -> [held : BOOLEAN, jids : SUBSET Jids]]
    BY <1>1, ObserveType DEF TypeInv, TypeOK, CallType
  <1>a. /\ req \in [Requests -> Request]
        /\ req' = [req EXCEPT ![r] = IF next = "idle" THEN Idle ELSE [@ EXCEPT !.at = next]]
    BY <1>1 DEF TypeInv, TypeOK
  <1>3. req' \in [Requests -> Request]
    BY <1>a, IdleType DEF Request
  <1>4. \A q \in Requests : req'[q].op \in {"toggle", "tags"} => req'[q].jid \in Jids
    BY <1>1, IdleType DEF TypeInv, TypeOK, JidsKnown, Request
  <1>5. /\ db' \in Tables /\ saved' \in Tables /\ txn' \in BOOLEAN
        /\ failures' \in 0..MaxFailures
    BY <1>1 DEF TypeInv, TypeOK
  <1>6. UNCHANGED <<call, tagger>>
    BY <1>1
  <1> QED BY <1>2, <1>3, <1>4, <1>5, <1>6 DEF TypeInv, TypeOK, JidsKnown


LEMMA Names ==
    /\ \A op \in {"invite", "removeUser", "createAccount", "deleteAccount", "grant",
                    "revoke", "toggle", "tags"} : op \in Ops
    /\ \A at \in {"idle", "exists", "ownsNone", "dbOwnsNone", "userExists", "dbUser",
                    "dbAccount", "dbOwner", "holders", "visible", "visibleRow", "mayWrite",
                    "isOwner", "session", "addUser", "delGrants", "delRows", "delUser",
                    "addAccount", "delAccount", "delCommit", "addGrant", "removeGrant",
                    "upsert", "commit"} : at \in Steps
  BY DEF Ops, Steps, WriteSteps

LEMMA NewType ==
    ASSUME NEW op \in Ops, NEW step \in Steps, NEW a \in Accounts, NEW u \in Users
    PROVE  New(op, step, a, u) \in Request /\ New(op, step, a, u).op = op
  BY IdleType DEF New, Request, Idle

LEMMA NewToggleType ==
    ASSUME NEW step \in Steps, NEW a \in Accounts, NEW u \in Users,
           NEW me \in Users, NEW j \in Jids, NEW on \in BOOLEAN
    PROVE  LET new == [New("toggle", step, a, u) EXCEPT !.actor = me, !.jid = j, !.on = on]
           IN  new \in Request /\ new.jid \in Jids
  <1> DEFINE n == New("toggle", step, a, u)
  <1>1. n \in Request
    BY Names, NewType
  <1> HIDE DEF n
  <1>2. /\ [n EXCEPT !.actor = me, !.jid = j, !.on = on] \in Request
        /\ [n EXCEPT !.actor = me, !.jid = j, !.on = on].jid = j
    BY <1>1 DEF Request
  <1> QED BY <1>2 DEF n

LEMMA NewTagsType ==
    ASSUME NEW step \in Steps, NEW a \in Accounts, NEW u \in Users, NEW j \in Jids
    PROVE  LET new == [New("tags", step, a, u) EXCEPT !.jid = j]
           IN  new \in Request /\ new.jid \in Jids
  <1> DEFINE n == New("tags", step, a, u)
  <1>1. n \in Request
    BY Names, NewType
  <1> HIDE DEF n
  <1>2. [n EXCEPT !.jid = j] \in Request /\ [n EXCEPT !.jid = j].jid = j
    BY <1>1 DEF Request
  <1> QED BY <1>2 DEF n

LEMMA TypeInit == Init => TypeInv
  <1> SUFFICES ASSUME Init PROVE TypeInv
    OBVIOUS
  <1>1. NoTables \in Tables
    BY DEF NoTables, Tables
  <1>2. db \in Tables /\ saved \in Tables
    BY <1>1, BootstrappedType DEF Init
  <1>3. req \in [Requests -> Request]
    BY IdleType DEF Init
  <1>4. /\ call \in [Calls -> CallType]
        /\ tagger \in [at : {"idle", "mayWrite", "upsert"}, acct : Accounts,
                       who : Users, jid : Jids \cup {"none"}]
        /\ seen \in [Calls -> [held : BOOLEAN, jids : SUBSET Jids]]
        /\ failures \in 0..MaxFailures
    BY BootAssumption DEF Init, NoCall, NoTag, NothingSeen, CallType
  <1>5. JidsKnown
    BY IdleType DEF Init, JidsKnown, NoTag
  <1> QED BY <1>2, <1>3, <1>4, <1>5 DEF TypeInv, TypeOK, Init, CallType

LEMMA TypeNext == TypeInv /\ [Next]_vars => TypeInv'
  <1> SUFFICES ASSUME TypeInv, [Next]_vars PROVE TypeInv'
    OBVIOUS
  <1> USE Names
  <1>a. db \in Tables /\ saved \in Tables /\ req \in [Requests -> Request]
    BY DEF TypeInv, TypeOK
  <1>b. DefaultAccount \in Accounts /\ BootAdmin \in Users /\ Targets \subseteq Accounts
    BY BootAssumption
  <1>c. ASSUME NEW r \in Requests
        PROVE  req[r].acct \in Accounts /\ req[r].who \in Users /\ req[r].on \in BOOLEAN
    BY <1>a DEF Request
  <1>1. ASSUME NEW r \in Requests, InviteUser(r) PROVE TypeInv'
    BY <1>1, <1>b, NewType, ArriveType, CheckType DEF InviteUser
  <1>2. ASSUME NEW r \in Requests, DbAddUser(r) PROVE TypeInv'
    BY <1>2, <1>a, <1>b, <1>c, StatementTypes, WriteType, CommitType DEF DbAddUser
  <1>3. ASSUME NEW r \in Requests, RemoveUser(r) PROVE TypeInv'
    BY <1>3, <1>b, NewType, ArriveType, CheckType DEF RemoveUser
  <1>4. ASSUME NEW r \in Requests, DbRemoveUser(r) PROVE TypeInv'
    BY <1>4, <1>a, <1>b, <1>c, StatementTypes, CheckType, WriteType, CommitType
       DEF DbRemoveUser
  <1>5. ASSUME NEW r \in Requests, CreateAccount(r) PROVE TypeInv'
    BY <1>5, <1>b, NewType, ArriveType, CheckType DEF CreateAccount
  <1>6. ASSUME NEW r \in Requests, DbAddAccount(r) PROVE TypeInv'
    BY <1>6, <1>a, <1>b, <1>c, StatementTypes, CheckType, WriteType, CommitType
       DEF DbAddAccount
  <1>7. ASSUME NEW r \in Requests, DeleteAccount(r) PROVE TypeInv'
    BY <1>7, <1>b, NewType, ArriveType, CheckType DEF DeleteAccount
  <1>8. ASSUME NEW r \in Requests, DbDeleteAccount(r) PROVE TypeInv'
    BY <1>8, <1>a, <1>b, <1>c, StatementTypes, WriteType, CommitType DEF DbDeleteAccount
  <1>9. ASSUME NEW r \in Requests, GrantAccount(r) PROVE TypeInv'
    BY <1>9, <1>b, NewType, ArriveType, CheckType DEF GrantAccount
  <1>10. ASSUME NEW r \in Requests, DbGrantAccount(r) PROVE TypeInv'
    BY <1>10, <1>a, <1>b, <1>c, StatementTypes, CheckType, WriteType, CommitType
       DEF DbGrantAccount
  <1>11. ASSUME NEW r \in Requests, RevokeAccount(r) PROVE TypeInv'
    BY <1>11, <1>b, NewType, ArriveType DEF RevokeAccount
  <1>12. ASSUME NEW r \in Requests, DbRevokeAccount(r) PROVE TypeInv'
    BY <1>12, <1>a, <1>b, <1>c, StatementTypes, CheckType, WriteType, CommitType
       DEF DbRevokeAccount
  <1>13. ASSUME NEW r \in Requests, ToggleAllowed(r) PROVE TypeInv'
    <2>2. ASSUME NEW a \in Targets, NEW me \in Users, NEW viewer \in Users, NEW j \in Jids,
                 NEW on \in BOOLEAN, NEW step \in {"mayWrite", "holders"},
                 Arrive(r, [New("toggle", step, a, viewer) EXCEPT
                              !.actor = me, !.jid = j, !.on = on])
          PROVE  TypeInv'
      <3> DEFINE n == [New("toggle", step, a, viewer) EXCEPT !.actor = me, !.jid = j, !.on = on]
      <3>1. n \in Request /\ n.jid \in Jids
        BY <1>b, NewToggleType
      <3>2. Arrive(r, n)
        BY <2>2
      <3> HIDE DEF n
      <3> QED BY <3>1, <3>2, ArriveType
    <2>3. ASSUME NEW ok, Check(r, ok, "mayWrite") PROVE TypeInv'
      BY <2>3, CheckType
    <2> QED BY <1>13, <2>2, <2>3 DEF ToggleAllowed
  <1>14. ASSUME NEW r \in Requests, DbSetChatAccessAllowed(r) PROVE TypeInv'
    <2>1. CASE At(r, "toggle", "upsert")
      BY <1>14, <2>1, <1>a, <1>c, UpsertTypes, WriteType
         DEF DbSetChatAccessAllowed, At, TypeInv, JidsKnown
    <2>2. CASE ~At(r, "toggle", "upsert")
      BY <1>14, <2>2, CheckType, CommitType DEF DbSetChatAccessAllowed
    <2> QED BY <2>1, <2>2
  <1>15. ASSUME NEW r \in Requests, SaveMetadata(r) PROVE TypeInv'
    <2>1. ASSUME NEW a \in Targets, NEW me \in Users, NEW j \in Jids,
                 NEW step \in {"mayWrite", "visible"},
                 Arrive(r, [New("tags", step, a, me) EXCEPT !.jid = j])
          PROVE  TypeInv'
      <3> DEFINE n == [New("tags", step, a, me) EXCEPT !.jid = j]
      <3>1. n \in Request /\ n.jid \in Jids
        BY <1>b, NewTagsType
      <3>2. Arrive(r, n)
        BY <2>1
      <3> HIDE DEF n
      <3> QED BY <3>1, <3>2, ArriveType
    <2>2. ASSUME NEW ok, NEW next \in {"visibleRow", "mayWrite"}, Check(r, ok, next)
          PROVE  TypeInv'
      BY <2>2, CheckType
    <2> QED BY <1>15, <2>1, <2>2 DEF SaveMetadata
  <1>16. ASSUME NEW r \in Requests, DbUpsertChatAccessTags(r) PROVE TypeInv'
    <2>1. CASE At(r, "tags", "upsert")
      BY <1>16, <2>1, <1>a, <1>c, UpsertTypes, WriteType
         DEF DbUpsertChatAccessTags, At, TypeInv, JidsKnown
    <2>2. CASE ~At(r, "tags", "upsert")
      BY <1>16, <2>2, CheckType, CommitType DEF DbUpsertChatAccessTags
    <2> QED BY <2>1, <2>2
  <1>17. ASSUME NEW r \in Requests, StatementFails(r) PROVE TypeInv'
    <2>1. /\ req' = [req EXCEPT ![r] = Idle]
          /\ UNCHANGED <<db, saved, txn, call, tagger>> /\ Observe
          /\ failures' \in 0..MaxFailures
      BY <1>17, BootAssumption DEF StatementFails, TypeInv, TypeOK
    <2>2. req' \in [Requests -> Request] /\ JidsKnown'
      BY <1>17, <1>a, <2>1, IdleType DEF TypeInv, JidsKnown, NoTag
    <2>3. seen' \in [Calls -> [held : BOOLEAN, jids : SUBSET Jids]]
      BY <2>1, ObserveType DEF TypeInv, TypeOK, CallType
    <2> QED BY <2>1, <2>2, <2>3 DEF TypeInv, TypeOK
  <1>18. CASE AdminRestart
    <2>1. /\ saved' \in Tables /\ db' \in Tables /\ call' = call /\ tagger' = tagger
          /\ failures' = failures /\ Observe
      BY <1>18, <1>a, BootstrappedType DEF AdminRestart, NoMcpStep
    <2>2. seen' \in [Calls -> [held : BOOLEAN, jids : SUBSET Jids]]
      BY <2>1, ObserveType DEF TypeInv, TypeOK, CallType
    <2>3. /\ req' \in [Requests -> Request] /\ txn' \in BOOLEAN
          /\ \A q \in Requests : req'[q].op = "none"
      BY <1>18, IdleType DEF AdminRestart
    <2> QED BY <2>1, <2>2, <2>3 DEF TypeInv, TypeOK, JidsKnown
  <1>19. ASSUME NEW c \in Calls, ListAllowedJidsFor(c) PROVE TypeInv'
    <2>1. /\ db' = db /\ saved' = saved /\ txn' = txn /\ req' = req /\ tagger' = tagger
          /\ failures' = failures /\ Observe
      BY <1>19 DEF ListAllowedJidsFor
    <2>2. AllowedRows(c) \in SUBSET Jids
      BY DEF AllowedRows, AllowedJids
    <2>3. NoCall \in CallType
      BY <1>b DEF NoCall, CallType
    <2>4. call \in [Calls -> CallType]
      BY DEF TypeInv, TypeOK, CallType
    <2>5. call' \in [Calls -> CallType]
      <3>1. ASSUME NEW a \in Targets, NEW u \in Users
            PROVE  [NoCall EXCEPT !.at = "access", !.acct = a, !.who = u] \in CallType
        BY <1>b, <2>3 DEF CallType
      <3>2. ASSUME NEW at \in {"query", "done"} PROVE [call[c] EXCEPT !.at = at] \in CallType
        BY <2>4 DEF CallType
      <3>3. ASSUME NEW R \in SUBSET Jids
            PROVE  [call[c] EXCEPT !.at = "done", !.result = R] \in CallType
        BY <2>4 DEF CallType
      <3>4. \E new \in CallType : call' = [call EXCEPT ![c] = new]
        <4>1. CASE call[c].at = "idle"
          BY <1>19, <4>1, <3>1 DEF ListAllowedJidsFor
        <4>2. CASE call[c].at = "access"
          BY <1>19, <4>2, <3>2 DEF ListAllowedJidsFor
        <4>3. CASE call[c].at = "query"
          BY <1>19, <4>3, <2>2, <2>4, <3>3 DEF ListAllowedJidsFor
        <4>4. CASE call[c].at = "done"
          BY <1>19, <4>4, <2>3 DEF ListAllowedJidsFor
        <4> QED BY <4>1, <4>2, <4>3, <4>4, <2>4 DEF CallType
      <3> QED BY <3>4, <2>4
    <2>6. seen' \in [Calls -> [held : BOOLEAN, jids : SUBSET Jids]]
      BY <2>1, <2>5, <1>a, ObserveType
    <2> QED BY <2>1, <2>5, <2>6 DEF TypeInv, TypeOK, JidsKnown, CallType
  <1>20. CASE TagTool
    <2>1. /\ db' = db /\ saved' = saved /\ txn' = txn /\ req' = req /\ call' = call
          /\ failures' = failures /\ Observe
      BY <1>20 DEF TagTool
    <2>2. seen' \in [Calls -> [held : BOOLEAN, jids : SUBSET Jids]]
      BY <2>1, ObserveType DEF TypeInv, TypeOK, CallType
    <2>3. ASSUME NEW a, NEW u PROVE Visible(saved, a, u) \subseteq Jids
      BY DEF Visible, AllowedJids
    <2>4. /\ tagger' \in [at : {"idle", "mayWrite", "upsert"}, acct : Accounts,
                          who : Users, jid : Jids \cup {"none"}]
          /\ tagger'.at # "idle" => tagger'.jid \in Jids
      BY <1>20, <1>b, <2>3 DEF TagTool, NoTag, TypeInv, TypeOK, JidsKnown
    <2> QED BY <2>1, <2>2, <2>4 DEF TypeInv, TypeOK, JidsKnown
  <1>21. CASE TagToolWrite
    <2>1. /\ txn' = txn /\ req' = req /\ call' = call /\ tagger' = NoTag
          /\ failures' = failures /\ Observe
      BY <1>21 DEF TagToolWrite
    <2>2. /\ tagger.acct \in Accounts /\ tagger.who \in Users /\ tagger.jid \in Jids
      BY <1>21 DEF TagToolWrite, TypeInv, TypeOK, JidsKnown
    <2>3. db' \in Tables /\ saved' \in Tables
      BY <1>21, <1>a, <2>2, UpsertTypes DEF TagToolWrite
    <2>4. seen' \in [Calls -> [held : BOOLEAN, jids : SUBSET Jids]]
      BY <2>1, <2>3, ObserveType DEF TypeInv, TypeOK, CallType
    <2> QED BY <1>b, <2>1, <2>3, <2>4 DEF TypeInv, TypeOK, JidsKnown, NoTag
  <1>22. CASE UNCHANGED vars
    BY <1>22 DEF vars, TypeInv, TypeOK, JidsKnown
  <1> QED
    BY <1>1, <1>2, <1>3, <1>4, <1>5, <1>6, <1>7, <1>8, <1>9, <1>10, <1>11, <1>12, <1>13,
       <1>14, <1>15, <1>16, <1>17, <1>18, <1>19, <1>20, <1>21, <1>22 DEF Next

\* The types of the tables and of everything in flight.
THEOREM TypeCorrect == Spec => []TypeOK
  <1>1. Spec => []TypeInv
    BY TypeInit, TypeNext, PTL DEF Spec
  <1>2. TypeInv => TypeOK
    BY DEF TypeInv
  <1> QED BY <1>1, <1>2, PTL

-----------------------------------------------------------------------------
(* The read path, whatever the admin requests do.                          *)

\* What is known of a read at each of its steps.
ReadInv ==
    \A c \in Calls :
        /\ call[c].at \in {"idle", "access", "query"} => call[c].result = {}
        /\ call[c].at = "query" => seen[c].held
        /\ call[c].result # {} => seen[c].held

\* A step that leaves the read alone only adds to what it has seen.
LEMMA SeenGrows ==
    ASSUME TypeInv, Observe, NEW c \in Calls, call'[c].at = call[c].at, seen[c].held,
           call[c].at # "idle"
    PROVE  seen'[c].held
  BY DEF Observe, TypeInv, TypeOK

LEMMA OnlyCallsRead ==
    ASSUME Next PROVE Observe /\ (call' = call \/ \E c \in Calls : ListAllowedJidsFor(c))
  <1> USE DEF Arrive, Check, Write, Commit, NoMcpStep
  <1>1. ASSUME NEW r \in Requests,
               InviteUser(r) \/ DbAddUser(r) \/ RemoveUser(r) \/ DbRemoveUser(r)
        PROVE  Observe /\ call' = call
    BY <1>1 DEF InviteUser, DbAddUser, RemoveUser, DbRemoveUser
  <1>2. ASSUME NEW r \in Requests,
               CreateAccount(r) \/ DbAddAccount(r) \/ DeleteAccount(r) \/ DbDeleteAccount(r)
        PROVE  Observe /\ call' = call
    BY <1>2 DEF CreateAccount, DbAddAccount, DeleteAccount, DbDeleteAccount
  <1>3. ASSUME NEW r \in Requests,
               GrantAccount(r) \/ DbGrantAccount(r) \/ RevokeAccount(r) \/ DbRevokeAccount(r)
        PROVE  Observe /\ call' = call
    BY <1>3 DEF GrantAccount, DbGrantAccount, RevokeAccount, DbRevokeAccount
  <1>4. ASSUME NEW r \in Requests,
               ToggleAllowed(r) \/ DbSetChatAccessAllowed(r) \/ SaveMetadata(r)
                 \/ DbUpsertChatAccessTags(r) \/ StatementFails(r)
        PROVE  Observe /\ call' = call
    BY <1>4 DEF ToggleAllowed, DbSetChatAccessAllowed, SaveMetadata,
                DbUpsertChatAccessTags, StatementFails
  <1>5. CASE AdminRestart \/ TagTool \/ TagToolWrite
    BY <1>5 DEF AdminRestart, TagTool, TagToolWrite
  <1>6. ASSUME NEW c \in Calls, ListAllowedJidsFor(c) PROVE Observe
    BY <1>6 DEF ListAllowedJidsFor
  <1> QED BY <1>1, <1>2, <1>3, <1>4, <1>5, <1>6 DEF Next

LEMMA ReadNext == TypeInv /\ ReadInv /\ [Next]_vars => ReadInv'
  <1> SUFFICES ASSUME TypeInv, ReadInv, [Next]_vars PROVE ReadInv'
    OBVIOUS
  <1>1. CASE UNCHANGED vars
    BY <1>1 DEF vars, ReadInv
  <1>2. CASE Next /\ call' = call
    <2>1. Observe
      BY <1>2, OnlyCallsRead
    <2>2. ASSUME NEW c \in Calls, seen[c].held, call[c].at # "idle" PROVE seen'[c].held
      BY <1>2, <2>1, <2>2, SeenGrows
    <2> QED BY <1>2, <2>2 DEF ReadInv
  <1>3. ASSUME NEW c \in Calls, ListAllowedJidsFor(c) PROVE ReadInv'
    <2>1. Observe /\ saved' = saved
      BY <1>3 DEF ListAllowedJidsFor
    <2> SUFFICES ASSUME NEW q \in Calls
                 PROVE  /\ call'[q].at \in {"idle", "access", "query"} => call'[q].result = {}
                        /\ call'[q].at = "query" => seen'[q].held
                        /\ call'[q].result # {} => seen'[q].held
      BY DEF ReadInv
    <2>a. call \in [Calls -> CallType]
      BY DEF TypeInv, TypeOK, CallType
    <2>2. CASE q # c
      <3>1. call'[q] = call[q]
        BY <1>3, <2>2, <2>a DEF ListAllowedJidsFor
      <3>2. seen[q].held /\ call[q].at # "idle" => seen'[q].held
        BY <2>1, <3>1, SeenGrows
      <3> QED BY <3>1, <3>2 DEF ReadInv
    <2>3. CASE q = c /\ call[c].at \in {"idle", "done"}
      <3>1. CASE call[c].at = "idle"
        <4>1. PICK a \in Targets, u \in Users :
                 call' = [call EXCEPT ![c] = [NoCall EXCEPT !.at = "access", !.acct = a, !.who = u]]
          BY <1>3, <3>1 DEF ListAllowedJidsFor
        <4>2. call'[c].at = "access" /\ call'[c].result = {}
          BY <4>1, <2>a DEF NoCall
        <4> QED BY <2>3, <4>2
      <3>2. CASE call[c].at = "done"
        <4>1. call'[c] = NoCall
          BY <1>3, <3>2, <2>a DEF ListAllowedJidsFor
        <4> QED BY <2>3, <4>1 DEF NoCall
      <3> QED BY <2>3, <3>1, <3>2
    <2>4. CASE q = c /\ call[c].at = "access"
      <3>1. /\ call'[c].at = IF HasAccess(saved, call[c].acct, call[c].who)
                             THEN "query" ELSE "done"
            /\ call'[c].result = call[c].result
            /\ call'[c].acct = call[c].acct /\ call'[c].who = call[c].who
        BY <1>3, <2>4, <2>a DEF ListAllowedJidsFor, MayRead, CallType
      <3>2. call[c].result = {}
        BY <2>4 DEF ReadInv
      <3>3. call'[c].at = "query" => seen'[c].held
        BY <2>1, <2>4, <3>1 DEF Observe
      <3> QED BY <2>4, <3>1, <3>2, <3>3
    <2>5. CASE q = c /\ call[c].at = "query"
      <3>1. call'[c].at = "done"
        BY <1>3, <2>5, <2>a DEF ListAllowedJidsFor, CallType
      <3>2. seen[c].held
        BY <2>5 DEF ReadInv
      <3>3. seen'[c].held
        BY <2>1, <2>5, <3>1, <3>2 DEF Observe
      <3> QED BY <2>5, <3>1, <3>3
    <2> QED BY <2>2, <2>3, <2>4, <2>5, <2>a DEF CallType
  <1> QED BY <1>1, <1>2, <1>3, OnlyCallsRead

\* With any number of admin requests in flight, statements that fail and
\* restarts, a read returns chats only to someone who held the account during
\* that read (list_allowed_jids_for checks the grant on every read).
THEOREM StaleRowsAreHarmless == Spec => []StaleRowsNeverLeak
  <1>1. Init => ReadInv
    BY DEF Init, ReadInv, NoCall, NothingSeen
  <1>2. ReadInv => StaleRowsNeverLeak
    BY DEF ReadInv, StaleRowsNeverLeak
  <1> QED BY <1>1, <1>2, TypeInit, TypeNext, ReadNext, PTL DEF Spec

-----------------------------------------------------------------------------
(* What each statement does to the consistency of the tables.              *)

LEMMA InsertsConsistent ==
    ASSUME NEW d \in Tables, Consistent(d), NEW a \in Accounts, NEW u \in Users
    PROVE  /\ Consistent(AddUserRow(d, u))
           /\ u \in d.users => Consistent(AddAccountRow(d, a, u))
           /\ u \in d.users /\ Exists(d, a) => Consistent(AddGrant(d, a, u))
  <1> USE BootAssumption DEF Consistent, HoldersOnly, References, HasAccess, Exists, Tables
  <1>1. Consistent(AddUserRow(d, u))
    BY DEF AddUserRow
  <1>2. ASSUME u \in d.users PROVE Consistent(AddAccountRow(d, a, u))
    BY <1>2 DEF AddAccountRow
  <1>3. ASSUME u \in d.users, Exists(d, a) PROVE Consistent(AddGrant(d, a, u))
    <2>1. AddGrant(d, a, u) \in Tables
      BY StatementTypes
    <2>2. /\ AddGrant(d, a, u).users = d.users /\ AddGrant(d, a, u).owner = d.owner
          /\ AddGrant(d, a, u).allowed = d.allowed
          /\ AddGrant(d, a, u).grants = d.grants \cup {<<a, u>>}
      BY DEF AddGrant
    <2> QED BY <1>3, <2>1, <2>2
  <1> QED BY <1>1, <1>2, <1>3

LEMMA UpsertsConsistent ==
    ASSUME NEW d \in Tables, Consistent(d), NEW a \in Accounts, NEW u \in Users,
           NEW j \in Jids, NEW on \in BOOLEAN
    PROVE  /\ Consistent(UpsertTags(d, a, u, j))
           /\ HasAccess(d, a, u) => Consistent(UpsertAllowed(d, a, u, j, on))
  <1> USE DEF Consistent, HoldersOnly, References, HasAccess, Exists
  <1>1. Consistent(UpsertTags(d, a, u, j))
    BY DEF UpsertTags, Tables
  <1>2. ASSUME HasAccess(d, a, u) PROVE Consistent(UpsertAllowed(d, a, u, j, on))
    <2> DEFINE e == UpsertAllowed(d, a, u, j, on)
    <2>1. /\ e.users = d.users /\ e.owner = d.owner /\ e.grants = d.grants
          /\ e.allowed \subseteq d.allowed \cup {<<a, u, j>>}
      BY DEF UpsertAllowed, Tables
    <2> HIDE DEF e
    <2>2. Consistent(e)
      BY <1>2, <2>1
    <2> QED BY <2>2 DEF e
  <1> QED BY <1>1, <1>2

\* db.remove_user: its three deletions, for a user who owns nothing.
LEMMA RemoveUserConsistent ==
    ASSUME NEW d \in Tables, NEW u \in Users, ~OwnsAny(d, u), References(d)
    PROVE  /\ Consistent(d) =>
                LET e == DeleteGrants(d, Accounts, {u})
                IN  /\ References(e) /\ ~OwnsAny(e, u) /\ NoGrantsOf(e, u)
                    /\ HoldersOnlyBut(e, Accounts, {u})
           /\ NoGrantsOf(d, u) /\ HoldersOnlyBut(d, Accounts, {u}) =>
                LET e == DeleteChatAccess(d, Accounts, {u})
                IN  /\ Consistent(e) /\ ~OwnsAny(e, u) /\ NoGrantsOf(e, u)
                    /\ \A k \in e.allowed : k[2] # u
           /\ Consistent(d) /\ NoGrantsOf(d, u) => Consistent(DeleteUserRow(d, u))
  <1> USE DEF Consistent, HoldersOnly, HoldersOnlyBut, References, HasAccess, Exists,
              OwnsAny, NoGrantsOf
  <1>1. ASSUME Consistent(d)
        PROVE  LET e == DeleteGrants(d, Accounts, {u})
               IN  /\ References(e) /\ ~OwnsAny(e, u) /\ NoGrantsOf(e, u)
                   /\ HoldersOnlyBut(e, Accounts, {u})
    <2> DEFINE e == DeleteGrants(d, Accounts, {u})
    <2>1. /\ e.users = d.users /\ e.owner = d.owner /\ e.allowed = d.allowed
          /\ \A g \in Accounts \X Users : g \in e.grants <=> g \in d.grants /\ g[2] # u
          /\ e.grants \subseteq Accounts \X Users
      BY DEF DeleteGrants, Tables
    <2>2. \A k \in d.allowed : k \in Keys
      BY DEF Tables
    <2> HIDE DEF e
    <2>3. References(e) /\ ~OwnsAny(e, u) /\ NoGrantsOf(e, u)
      BY <2>1
    <2>4. ASSUME NEW k \in e.allowed, k[2] # u PROVE HasAccess(e, k[1], k[2])
      BY <1>1, <2>1, <2>2, <2>4 DEF Keys
    <2>5. HoldersOnlyBut(e, Accounts, {u})
      <3>1. \A k \in e.allowed : k[1] \in Accounts
        BY <2>1, <2>2 DEF Keys
      <3> HIDE DEF HasAccess, References, Consistent
      <3> QED BY <2>4, <3>1
    <2> QED BY <2>3, <2>5 DEF e
  <1>2. ASSUME NoGrantsOf(d, u), HoldersOnlyBut(d, Accounts, {u})
        PROVE  LET e == DeleteChatAccess(d, Accounts, {u})
               IN  /\ Consistent(e) /\ ~OwnsAny(e, u) /\ NoGrantsOf(e, u)
                   /\ \A k \in e.allowed : k[2] # u
    <2> DEFINE e == DeleteChatAccess(d, Accounts, {u})
    <2>1. /\ e.users = d.users /\ e.owner = d.owner /\ e.grants = d.grants
          /\ \A k \in e.allowed : k \in d.allowed /\ k \in Keys /\ k[2] # u
      BY DEF DeleteChatAccess, Tables, Keys
    <2> HIDE DEF e
    <2>2. Consistent(e) /\ ~OwnsAny(e, u) /\ NoGrantsOf(e, u) /\ \A k \in e.allowed : k[2] # u
      BY <1>2, <2>1
    <2> QED BY <2>2 DEF e
  <1>3. ASSUME Consistent(d), NoGrantsOf(d, u) PROVE Consistent(DeleteUserRow(d, u))
    BY <1>3, BootAssumption DEF DeleteUserRow, Tables
  <1> QED BY <1>1, <1>2, <1>3

\* db.delete_account: its three deletions.
LEMMA DeleteAccountConsistent ==
    ASSUME NEW d \in Tables, NEW a \in Accounts, References(d)
    PROVE  /\ Consistent(d) =>
                LET e == DeleteGrants(d, {a}, Users)
                IN  /\ References(e) /\ NoGrantsOn(e, a)
                    /\ HoldersOnlyBut(e, {a}, Users)
           /\ NoGrantsOn(d, a) /\ HoldersOnlyBut(d, {a}, Users) =>
                LET e == DeleteChatAccess(d, {a}, Users)
                IN  Consistent(e) /\ NoGrantsOn(e, a) /\ \A k \in e.allowed : k[1] # a
           /\ Consistent(d) /\ NoGrantsOn(d, a) /\ (\A k \in d.allowed : k[1] # a) =>
                Consistent(DeleteAccountRow(d, a))
  <1> USE DEF Consistent, HoldersOnly, HoldersOnlyBut, References, HasAccess, Exists, NoGrantsOn
  <1>1. ASSUME Consistent(d)
        PROVE  LET e == DeleteGrants(d, {a}, Users)
               IN  /\ References(e) /\ NoGrantsOn(e, a)
                   /\ HoldersOnlyBut(e, {a}, Users)
    <2> DEFINE e == DeleteGrants(d, {a}, Users)
    <2>1. /\ e.users = d.users /\ e.owner = d.owner /\ e.allowed = d.allowed
          /\ \A g \in Accounts \X Users : g \in e.grants <=> g \in d.grants /\ g[1] # a
          /\ e.grants \subseteq Accounts \X Users
      BY DEF DeleteGrants, Tables
    <2>2. \A k \in d.allowed : k \in Keys
      BY DEF Tables
    <2> HIDE DEF e
    <2>3. References(e) /\ NoGrantsOn(e, a)
      BY <2>1
    <2>4. ASSUME NEW k \in e.allowed, k[1] # a PROVE HasAccess(e, k[1], k[2])
      BY <1>1, <2>1, <2>2, <2>4 DEF Keys
    <2>5. HoldersOnlyBut(e, {a}, Users)
      <3>1. \A k \in e.allowed : k[2] \in Users
        BY <2>1, <2>2 DEF Keys
      <3> HIDE DEF HasAccess, References, Consistent
      <3> QED BY <2>4, <3>1
    <2> QED BY <2>3, <2>5 DEF e
  <1>2. ASSUME NoGrantsOn(d, a), HoldersOnlyBut(d, {a}, Users)
        PROVE  LET e == DeleteChatAccess(d, {a}, Users)
               IN  Consistent(e) /\ NoGrantsOn(e, a) /\ \A k \in e.allowed : k[1] # a
    <2> DEFINE e == DeleteChatAccess(d, {a}, Users)
    <2>1. /\ e.users = d.users /\ e.owner = d.owner /\ e.grants = d.grants
          /\ \A k \in e.allowed : k \in d.allowed /\ k \in Keys /\ k[1] # a
      BY DEF DeleteChatAccess, Tables, Keys
    <2> HIDE DEF e
    <2>2. Consistent(e) /\ NoGrantsOn(e, a) /\ \A k \in e.allowed : k[1] # a
      BY <1>2, <2>1
    <2> QED BY <2>2 DEF e
  <1>3. ASSUME Consistent(d), NoGrantsOn(d, a), \A k \in d.allowed : k[1] # a
        PROVE  Consistent(DeleteAccountRow(d, a))
    <2> DEFINE e == DeleteAccountRow(d, a)
    <2>1. /\ e.users = d.users /\ e.allowed = d.allowed /\ e.grants = d.grants
          /\ \A b \in Accounts : e.owner[b] = IF b = a THEN Nobody ELSE d.owner[b]
      BY DEF DeleteAccountRow, Tables
    <2>2. (\A k \in d.allowed : k \in Keys) /\ d.grants \subseteq Accounts \X Users
      BY DEF Tables
    <2> HIDE DEF e
    <2>3. References(e)
      BY <1>3, <2>1, <2>2
    <2>4. HoldersOnly(e)
      <3>1. ASSUME NEW k \in e.allowed PROVE HasAccess(e, k[1], k[2])
        <4>1. k \in d.allowed /\ k[1] \in Accounts /\ k[1] # a
          BY <1>3, <2>1, <2>2 DEF Keys
        <4> QED BY <1>3, <2>1, <4>1
      <3> QED BY <3>1
    <2>5. Consistent(e)
      BY <2>3, <2>4
    <2> QED BY <2>5 DEF e
  <1> QED BY <1>1, <1>2, <1>3

\* db.revoke_account: its two deletions, for a viewer who is not the owner.
LEMMA RevokeConsistent ==
    ASSUME NEW d \in Tables, NEW a \in Accounts, NEW u \in Users, References(d)
    PROVE  /\ Consistent(d) =>
                LET e == RemoveGrant(d, a, u)
                IN  References(e) /\ HoldersOnlyBut(e, {a}, {u})
           /\ HoldersOnlyBut(d, {a}, {u}) =>
                Consistent(DeleteChatAccess(d, {a}, {u}))
  <1> USE DEF Consistent, HoldersOnly, HoldersOnlyBut, References, HasAccess, Exists
  <1>1. ASSUME Consistent(d)
        PROVE  LET e == RemoveGrant(d, a, u)
               IN  References(e) /\ HoldersOnlyBut(e, {a}, {u})
    <2> DEFINE e == RemoveGrant(d, a, u)
    <2>1. /\ e.users = d.users /\ e.owner = d.owner /\ e.allowed = d.allowed
          /\ e.grants = d.grants \ {<<a, u>>}
      BY DEF RemoveGrant, Tables
    <2>2. (\A k \in d.allowed : k \in Keys) /\ d.grants \subseteq Accounts \X Users
      BY DEF Tables
    <2> HIDE DEF e
    <2>3. References(e)
      BY <2>1
    <2>4. ASSUME NEW k \in e.allowed, <<k[1], k[2]>> # <<a, u>> PROVE HasAccess(e, k[1], k[2])
      BY <1>1, <2>1, <2>2, <2>4 DEF Keys
    <2>5. HoldersOnlyBut(e, {a}, {u})
      BY <2>1, <2>2, <2>4 DEF Keys
    <2> QED BY <2>3, <2>5 DEF e
  <1>2. ASSUME HoldersOnlyBut(d, {a}, {u})
        PROVE  Consistent(DeleteChatAccess(d, {a}, {u}))
    <2> DEFINE e == DeleteChatAccess(d, {a}, {u})
    <2>1. /\ e.users = d.users /\ e.owner = d.owner /\ e.grants = d.grants
          /\ \A k \in e.allowed : k \in d.allowed /\ k \in Keys /\ ~(k[1] = a /\ k[2] = u)
      BY DEF DeleteChatAccess, Tables, Keys
    <2> HIDE DEF e
    <2>2. Consistent(e)
      BY <1>2, <2>1
    <2> QED BY <2>2 DEF e
  <1> QED BY <1>1, <1>2

-----------------------------------------------------------------------------
(* One admin request at a time, and no statement that raises: the tables   *)
(* are consistent whenever they are committed.                             *)

\* The steps that ask nothing of the tables but that they are clean.
Early == {"idle", "exists", "ownsNone", "dbOwnsNone", "userExists", "dbUser", "dbOwner",
          "holders", "visible", "visibleRow", "mayWrite", "session", "addUser"}

LEMMA CleanStep ==
    ASSUME NEW r \in Requests, Requests = {r}, Consistent(saved), Clean,
           UNCHANGED <<db, saved, txn>>, req'[r].at \in Early
    PROVE  SerialInv'
  <1>1. Consistent(saved)' /\ Clean'
    BY DEF Clean, Consistent, HoldersOnly, References, HasAccess, Exists
  <1>2. Progress(r)'
    BY <1>1 DEF Progress, RemovingUser, DeletingAccount, Revoking, Early
  <1> QED BY <1>1, <1>2 DEF SerialInv

LEMMA ArriveStep ==
    ASSUME TypeInv, SerialInv, NEW r \in Requests, Requests = {r},
           NEW new, new.at \in Early, Arrive(r, new)
    PROVE  SerialInv'
  <1>1. Clean
    BY DEF Arrive, SerialInv, Progress, Idle
  <1>2. UNCHANGED <<db, saved, txn>> /\ req'[r].at \in Early
    BY DEF Arrive, TypeInv, TypeOK
  <1> QED BY <1>1, <1>2, CleanStep DEF SerialInv

LEMMA CheckGives ==
    ASSUME TypeInv, NEW r \in Requests, NEW ok, NEW next, Check(r, ok, next)
    PROVE  /\ UNCHANGED <<db, saved, txn>>
           /\ \/ req'[r].at = "idle"
              \/ /\ ok /\ req'[r].at = next /\ req'[r].op = req[r].op
                 /\ req'[r].acct = req[r].acct /\ req'[r].who = req[r].who
  BY DEF Check, TypeInv, TypeOK, Request, Idle

LEMMA WriteGives ==
    ASSUME TypeInv, NEW r \in Requests, NEW d, NEW next, Write(r, d, next)
    PROVE  /\ db' = d /\ txn' = TRUE /\ saved' = saved
           /\ req'[r].at = next /\ req'[r].op = req[r].op
           /\ req'[r].acct = req[r].acct /\ req'[r].who = req[r].who
  BY DEF Write, TypeInv, TypeOK, Request

LEMMA CommitStep ==
    ASSUME TypeInv, SerialInv, NEW r \in Requests, Requests = {r},
           req[r].at \in {"commit", "delCommit"}, NEW next \in {"idle", "session"},
           Commit(r, next)
    PROVE  SerialInv'
  <1>1. Consistent(db)
    BY DEF SerialInv, Progress
  <1>2. saved' = db /\ db' = db /\ txn' = FALSE /\ req'[r].at \in Early
    BY DEF Commit, TypeInv, TypeOK, Request, Idle, Early
  <1>3. Consistent(saved)' /\ Clean'
    BY <1>1, <1>2 DEF Clean, Consistent, HoldersOnly, References, HasAccess, Exists
  <1>4. Progress(r)'
    BY <1>2, <1>3 DEF Progress, RemovingUser, DeletingAccount, Revoking, Early
  <1> QED BY <1>3, <1>4 DEF SerialInv

\* A write that is followed by a commit leaves consistent tables.
LEMMA LastWrite ==
    ASSUME TypeInv, SerialInv, NEW r \in Requests, Requests = {r},
           req[r].at \in {"addUser", "delUser", "addAccount", "delAccount", "addGrant",
                          "upsert", "delRows"},
           NEW d, Consistent(d), NEW next \in {"commit", "delCommit"}, Write(r, d, next)
    PROVE  SerialInv'
  <1>1. /\ db' = d /\ txn' = TRUE /\ saved' = saved /\ req'[r].at = next
    BY WriteGives
  <1>2. Consistent(saved)' /\ Consistent(db)'
    BY <1>1 DEF SerialInv, Consistent, HoldersOnly, References, HasAccess, Exists
  <1>3. Progress(r)'
    BY <1>1, <1>2 DEF Progress, RemovingUser, DeletingAccount, Revoking
  <1> QED BY <1>2, <1>3 DEF SerialInv

LEMMA SerialAdds ==
    ASSUME TypeInv, SerialInv, NEW r \in Requests, Requests = {r},
           \/ DbAddUser(r)   \/ DbAddAccount(r) \/ DbGrantAccount(r)
           \/ DbSetChatAccessAllowed(r)         \/ DbUpsertChatAccessTags(r)
    PROVE  SerialInv'
  <1> DEFINE a == req[r].acct
             u == req[r].who
  <1>a. /\ db \in Tables /\ saved \in Tables /\ a \in Accounts /\ u \in Users
        /\ req[r].on \in BOOLEAN
    BY DEF TypeInv, TypeOK, Request
  <1>b. Progress(r)
    BY DEF SerialInv
  <1> HIDE DEF a, u
  <1>1. CASE DbAddUser(r)
    <2>1. CASE At(r, "invite", "addUser")
      <3>1. Clean
        BY <1>b, <2>1 DEF Progress, At
      <3>2. Consistent(AddUserRow(db, u))
        BY <3>1, <1>a, InsertsConsistent DEF Clean, SerialInv
      <3> QED BY <1>1, <2>1, <3>2, LastWrite DEF DbAddUser, At, u
    <2> QED BY <1>1, <2>1, CommitStep DEF DbAddUser, At
  <1>2. CASE DbAddAccount(r)
    <2>1. CASE At(r, "createAccount", "addAccount")
      <3>1. Clean /\ u \in db.users
        BY <1>b, <2>1 DEF Progress, At, u
      <3>2. Consistent(AddAccountRow(db, a, u))
        BY <3>1, <1>a, InsertsConsistent DEF Clean, SerialInv
      <3> QED BY <1>2, <2>1, <3>2, LastWrite DEF DbAddAccount, At, a, u
    <2>2. CASE At(r, "createAccount", "commit")
      BY <1>2, <2>2, CommitStep DEF DbAddAccount, At
    <2>3. CASE At(r, "createAccount", "dbUser")
      <3>1. Clean /\ Check(r, u \in db.users, "addAccount")
        BY <1>b, <1>2, <2>3 DEF Progress, At, u, DbAddAccount
      <3>2. /\ UNCHANGED <<db, saved, txn>>
            /\ \/ req'[r].at = "idle"
               \/ /\ u \in db.users /\ req'[r].at = "addAccount"
                  /\ req'[r].op = "createAccount" /\ req'[r].who = u
        BY <3>1, <2>3, CheckGives DEF At, u
      <3>3. CASE req'[r].at = "idle"
        BY <3>1, <3>2, <3>3, CleanStep DEF SerialInv, Early
      <3>4. CASE req'[r].at # "idle"
        <4>1. Consistent(saved)' /\ Clean'
          BY <3>1, <3>2 DEF SerialInv, Clean, Consistent, HoldersOnly, References, HasAccess, Exists
        <4>2. Progress(r)'
          BY <4>1, <3>2, <3>4 DEF Progress, DeletingAccount
        <4> QED BY <4>1, <4>2 DEF SerialInv
      <3> QED BY <3>3, <3>4
    <2> QED BY <1>2, <2>1, <2>2, <2>3 DEF DbAddAccount
  <1>3. CASE DbGrantAccount(r)
    <2>1. CASE At(r, "grant", "addGrant")
      <3>1. Clean /\ u \in db.users /\ Exists(db, a)
        BY <1>b, <2>1 DEF Progress, At, u, a
      <3>2. Consistent(AddGrant(db, a, u))
        BY <3>1, <1>a, InsertsConsistent DEF Clean, SerialInv
      <3> QED BY <1>3, <2>1, <3>2, LastWrite DEF DbGrantAccount, At, a, u
    <2>2. CASE At(r, "grant", "commit")
      BY <1>3, <2>2, CommitStep DEF DbGrantAccount, At
    <2>3. CASE req[r].at \in {"dbUser", "dbAccount"} /\ req[r].op = "grant"
      <3>1. /\ Clean
            /\ \/ req[r].at = "dbUser" /\ Check(r, u \in db.users, "dbAccount")
               \/ req[r].at = "dbAccount" /\ Check(r, Exists(db, a), "addGrant")
        BY <1>b, <1>3, <2>3 DEF Progress, At, u, a, DbGrantAccount
      <3>2. /\ UNCHANGED <<db, saved, txn>>
            /\ \/ req'[r].at = "idle"
               \/ /\ \/ req'[r].at = "dbAccount" /\ u \in db.users
                     \/ req'[r].at = "addGrant" /\ req[r].at = "dbAccount" /\ Exists(db, a)
                  /\ req'[r].op = "grant" /\ req'[r].who = u /\ req'[r].acct = a
        <4>1. CASE req[r].at = "dbUser" /\ Check(r, u \in db.users, "dbAccount")
          <5>1. /\ UNCHANGED <<db, saved, txn>>
                /\ \/ req'[r].at = "idle"
                   \/ /\ u \in db.users /\ req'[r].at = "dbAccount" /\ req'[r].op = req[r].op
                      /\ req'[r].acct = a /\ req'[r].who = u
            BY <4>1, CheckGives DEF u, a
          <5> QED BY <5>1, <2>3
        <4>2. CASE req[r].at = "dbAccount" /\ Check(r, Exists(db, a), "addGrant")
          <5>1. /\ UNCHANGED <<db, saved, txn>>
                /\ \/ req'[r].at = "idle"
                   \/ /\ Exists(db, a) /\ req'[r].at = "addGrant" /\ req'[r].op = req[r].op
                      /\ req'[r].acct = a /\ req'[r].who = u
            BY <4>2, CheckGives DEF u, a
          <5> QED BY <4>2, <5>1, <2>3
        <4> QED BY <3>1, <4>1, <4>2
      <3>3. CASE req'[r].at = "idle"
        BY <3>1, <3>2, <3>3, CleanStep DEF SerialInv, Early
      <3>4. CASE req'[r].at # "idle"
        <4>1. Consistent(saved)' /\ Clean'
          BY <3>1, <3>2 DEF SerialInv, Clean, Consistent, HoldersOnly, References, HasAccess, Exists
        <4>2. req[r].at = "dbAccount" => u \in db.users
          BY <1>b DEF Progress, u
        <4>3. Progress(r)'
          BY <4>1, <4>2, <3>2, <3>4 DEF Progress, Exists
        <4> QED BY <4>1, <4>3 DEF SerialInv
      <3> QED BY <3>3, <3>4
    <2> QED BY <1>3, <2>1, <2>2, <2>3 DEF DbGrantAccount, At
  <1>4. CASE DbSetChatAccessAllowed(r)
    <2>1. CASE At(r, "toggle", "upsert")
      <3>1. Clean /\ HasAccess(db, a, u) /\ req[r].jid \in Jids
        BY <1>b, <2>1 DEF Progress, At, u, a, TypeInv, JidsKnown
      <3>2. Consistent(UpsertAllowed(db, a, u, req[r].jid, req[r].on))
        BY <3>1, <1>a, UpsertsConsistent DEF Clean, SerialInv
      <3> QED BY <1>4, <2>1, <3>2, LastWrite DEF DbSetChatAccessAllowed, At, a, u
    <2>2. CASE At(r, "toggle", "commit")
      BY <1>4, <2>2, CommitStep DEF DbSetChatAccessAllowed, At
    <2>3. CASE req[r].at \in {"mayWrite", "isOwner"} /\ req[r].op = "toggle"
      <3>1. /\ Clean
            /\ \/ req[r].at = "mayWrite" /\ Check(r, HasAccess(db, a, u), "isOwner")
               \/ req[r].at = "isOwner" /\ Check(r, db.owner[a] = req[r].actor, "upsert")
        BY <1>b, <1>4, <2>3 DEF Progress, At, u, a, DbSetChatAccessAllowed
      <3>2. /\ UNCHANGED <<db, saved, txn>>
            /\ \/ req'[r].at = "idle"
               \/ /\ req'[r].at \in {"isOwner", "upsert"}
                  /\ req[r].at = "mayWrite" => HasAccess(db, a, u)
                  /\ req'[r].op = "toggle" /\ req'[r].who = u /\ req'[r].acct = a
        BY <3>1, <2>3, CheckGives DEF u, a
      <3>3. CASE req'[r].at = "idle"
        BY <3>1, <3>2, <3>3, CleanStep DEF SerialInv, Early
      <3>4. CASE req'[r].at # "idle"
        <4>1. Consistent(saved)' /\ Clean'
          BY <3>1, <3>2 DEF SerialInv, Clean, Consistent, HoldersOnly, References, HasAccess, Exists
        <4>2. HasAccess(db, a, u)
          BY <1>b, <2>3, <3>2, <3>4 DEF Progress, u, a
        <4>3. Progress(r)'
          BY <4>1, <4>2, <3>2, <3>4 DEF Progress, HasAccess, Exists
        <4> QED BY <4>1, <4>3 DEF SerialInv
      <3> QED BY <3>3, <3>4
    <2> QED BY <1>4, <2>1, <2>2, <2>3 DEF DbSetChatAccessAllowed, At
  <1>5. CASE DbUpsertChatAccessTags(r)
    <2>1. CASE At(r, "tags", "upsert")
      <3>1. Clean /\ req[r].jid \in Jids
        BY <1>b, <2>1 DEF Progress, At, TypeInv, JidsKnown
      <3>2. Consistent(UpsertTags(db, a, u, req[r].jid))
        BY <3>1, <1>a, UpsertsConsistent DEF Clean, SerialInv
      <3> QED BY <1>5, <2>1, <3>2, LastWrite DEF DbUpsertChatAccessTags, At, a, u
    <2>2. CASE At(r, "tags", "commit")
      BY <1>5, <2>2, CommitStep DEF DbUpsertChatAccessTags, At
    <2>3. CASE At(r, "tags", "mayWrite")
      <3>1. Clean /\ Check(r, HasAccess(db, a, u), "upsert")
        BY <1>b, <1>5, <2>3 DEF Progress, At, u, a, DbUpsertChatAccessTags
      <3>2. /\ UNCHANGED <<db, saved, txn>>
            /\ \/ req'[r].at = "idle"
               \/ /\ HasAccess(db, a, u) /\ req'[r].at = "upsert"
                  /\ req'[r].op = "tags" /\ req'[r].who = u /\ req'[r].acct = a
        BY <3>1, <2>3, CheckGives DEF At, u, a
      <3>3. CASE req'[r].at = "idle"
        BY <3>1, <3>2, <3>3, CleanStep DEF SerialInv, Early
      <3>4. CASE req'[r].at # "idle"
        <4>1. Consistent(saved)' /\ Clean'
          BY <3>1, <3>2 DEF SerialInv, Clean, Consistent, HoldersOnly, References, HasAccess, Exists
        <4>2. Progress(r)'
          BY <4>1, <3>2, <3>4 DEF Progress, HasAccess, Exists
        <4> QED BY <4>1, <4>2 DEF SerialInv
      <3> QED BY <3>3, <3>4
    <2> QED BY <1>5, <2>1, <2>2, <2>3 DEF DbUpsertChatAccessTags
  <1> QED BY <1>1, <1>2, <1>3, <1>4, <1>5

LEMMA SerialRemoveUser ==
    ASSUME TypeInv, SerialInv, NEW r \in Requests, Requests = {r}, DbRemoveUser(r)
    PROVE  SerialInv'
  <1> DEFINE u == req[r].who
  <1>a. db \in Tables /\ u \in Users
    BY DEF TypeInv, TypeOK, Request
  <1>b. Progress(r) /\ RemovingUser(r) /\ Consistent(saved)
    BY DEF SerialInv, Progress, DbRemoveUser, At
  <1>c. req[r].op = "removeUser"
    BY DEF DbRemoveUser, At
  <1> HIDE DEF u
  <1>d. Consistent(saved)' <=> Consistent(saved')
    BY DEF Consistent, HoldersOnly, References, HasAccess, Exists
  <1>1. CASE At(r, "removeUser", "dbOwnsNone")
    <2>1. Clean /\ Check(r, ~OwnsAny(db, u), "delGrants")
      BY <1>b, <1>1 DEF Progress, At, u, DbRemoveUser
    <2>2. /\ UNCHANGED <<db, saved, txn>>
          /\ \/ req'[r].at = "idle"
             \/ /\ ~OwnsAny(db, u) /\ req'[r].at = "delGrants"
                /\ req'[r].op = "removeUser" /\ req'[r].who = u
      BY <2>1, <1>1, CheckGives DEF At, u
    <2>3. CASE req'[r].at = "idle"
      BY <1>b, <2>1, <2>2, <2>3, CleanStep DEF Early
    <2>4. CASE req'[r].at # "idle"
      <3>1. Consistent(saved)' /\ Clean' /\ ~OwnsAny(db, u)'
        BY <1>b, <1>d, <2>1, <2>2, <2>4 DEF Clean, OwnsAny, u
      <3>2. Progress(r)'
        BY <3>1, <2>2, <2>4 DEF Progress, RemovingUser, OwnsAny
      <3> QED BY <3>1, <3>2 DEF SerialInv
    <2> QED BY <2>3, <2>4
  <1>2. CASE At(r, "removeUser", "delGrants")
    <2> DEFINE e == DeleteGrants(db, Accounts, {u})
    <2>1. Clean /\ ~OwnsAny(db, u) /\ Write(r, e, "delRows")
      BY <1>b, <1>2 DEF RemovingUser, At, u, DbRemoveUser
    <2>2. /\ References(e) /\ ~OwnsAny(e, u) /\ NoGrantsOf(e, u) /\ HoldersOnlyBut(e, Accounts, {u})
      BY <1>a, <1>b, <2>1, RemoveUserConsistent DEF Clean, Consistent
    <2>3. /\ db' = e /\ txn' = TRUE /\ saved' = saved /\ req'[r].at = "delRows"
          /\ req'[r].op = "removeUser" /\ req'[r].who = u
      BY <2>1, <1>c, WriteGives DEF u
    <2> HIDE DEF e
    <2>4. Progress(r)'
      <3>1. RemovingUser(r)'
        BY <2>2, <2>3 DEF RemovingUser, References, OwnsAny, NoGrantsOf, HoldersOnlyBut, HasAccess, Exists
      <3> QED BY <3>1, <2>3 DEF Progress
    <2> QED BY <1>b, <1>d, <2>3, <2>4 DEF SerialInv
  <1>3. CASE At(r, "removeUser", "delRows")
    <2> DEFINE e == DeleteChatAccess(db, Accounts, {u})
    <2>1. /\ References(db) /\ ~OwnsAny(db, u) /\ NoGrantsOf(db, u)
          /\ HoldersOnlyBut(db, Accounts, {u}) /\ Write(r, e, "delUser")
      BY <1>b, <1>3 DEF RemovingUser, At, u, DbRemoveUser
    <2>2. /\ Consistent(e) /\ ~OwnsAny(e, u) /\ NoGrantsOf(e, u) /\ \A k \in e.allowed : k[2] # u
      BY <1>a, <2>1, RemoveUserConsistent
    <2>3. /\ db' = e /\ txn' = TRUE /\ saved' = saved /\ req'[r].at = "delUser"
          /\ req'[r].op = "removeUser" /\ req'[r].who = u
      BY <2>1, <1>c, WriteGives DEF u
    <2> HIDE DEF e
    <2>4. Progress(r)'
      <3>1. RemovingUser(r)'
        BY <2>2, <2>3 DEF RemovingUser, Consistent, HoldersOnly, References, OwnsAny, NoGrantsOf,
                          HasAccess, Exists
      <3> QED BY <3>1, <2>3 DEF Progress
    <2> QED BY <1>b, <1>d, <2>3, <2>4 DEF SerialInv
  <1>4. CASE At(r, "removeUser", "delUser")
    <2>1. /\ References(db) /\ ~OwnsAny(db, u) /\ NoGrantsOf(db, u) /\ Consistent(db)
          /\ Write(r, DeleteUserRow(db, u), "commit")
      BY <1>b, <1>4 DEF RemovingUser, At, u, DbRemoveUser
    <2>2. Consistent(DeleteUserRow(db, u))
      BY <1>a, <2>1, RemoveUserConsistent
    <2> QED BY <1>4, <2>1, <2>2, LastWrite DEF At
  <1>5. CASE At(r, "removeUser", "commit")
    BY <1>5, CommitStep DEF DbRemoveUser, At
  <1> QED BY <1>1, <1>2, <1>3, <1>4, <1>5 DEF DbRemoveUser

LEMMA SerialDeleteAccount ==
    ASSUME TypeInv, SerialInv, NEW r \in Requests, Requests = {r}, DbDeleteAccount(r)
    PROVE  SerialInv'
  <1> DEFINE a == req[r].acct
  <1>a. db \in Tables /\ a \in Accounts
    BY DEF TypeInv, TypeOK, Request
  <1>b. Progress(r) /\ DeletingAccount(r) /\ Consistent(saved)
    BY DEF SerialInv, Progress, DbDeleteAccount
  <1>c. req[r].op \in {"createAccount", "deleteAccount"}
    BY DEF DbDeleteAccount
  <1> HIDE DEF a
  <1>d. Consistent(saved)' <=> Consistent(saved')
    BY DEF Consistent, HoldersOnly, References, HasAccess, Exists
  <1>2. CASE req[r].at = "delGrants"
    <2> DEFINE e == DeleteGrants(db, {a}, Users)
    <2>1. Clean /\ Write(r, e, "delRows")
      BY <1>b, <1>2 DEF DeletingAccount, a, DbDeleteAccount
    <2>2. References(e) /\ NoGrantsOn(e, a) /\ HoldersOnlyBut(e, {a}, Users)
      BY <1>a, <1>b, <2>1, DeleteAccountConsistent DEF Clean, Consistent
    <2>3. /\ db' = e /\ txn' = TRUE /\ saved' = saved /\ req'[r].at = "delRows"
          /\ req'[r].op = req[r].op /\ req'[r].acct = a
      BY <2>1, WriteGives DEF a
    <2> HIDE DEF e
    <2>4. Progress(r)'
      <3>1. DeletingAccount(r)'
        BY <2>2, <2>3 DEF DeletingAccount, References, NoGrantsOn, HoldersOnlyBut, HasAccess, Exists
      <3> QED BY <3>1, <2>3, <1>c DEF Progress
    <2> QED BY <1>b, <1>d, <2>3, <2>4 DEF SerialInv
  <1>3. CASE req[r].at = "delRows"
    <2> DEFINE e == DeleteChatAccess(db, {a}, Users)
    <2>1. /\ References(db) /\ NoGrantsOn(db, a)
          /\ HoldersOnlyBut(db, {a}, Users) /\ Write(r, e, "delAccount")
      BY <1>b, <1>3 DEF DeletingAccount, a, DbDeleteAccount
    <2>2. Consistent(e) /\ NoGrantsOn(e, a) /\ \A k \in e.allowed : k[1] # a
      BY <1>a, <2>1, DeleteAccountConsistent
    <2>3. /\ db' = e /\ txn' = TRUE /\ saved' = saved /\ req'[r].at = "delAccount"
          /\ req'[r].op = req[r].op /\ req'[r].acct = a
      BY <2>1, WriteGives DEF a
    <2> HIDE DEF e
    <2>4. Progress(r)'
      <3>1. DeletingAccount(r)'
        BY <2>2, <2>3 DEF DeletingAccount, Consistent, HoldersOnly, References, NoGrantsOn,
                          HasAccess, Exists
      <3> QED BY <3>1, <2>3, <1>c DEF Progress
    <2> QED BY <1>b, <1>d, <2>3, <2>4 DEF SerialInv
  <1>4. CASE req[r].at = "delAccount"
    <2>1. /\ References(db) /\ NoGrantsOn(db, a) /\ Consistent(db)
          /\ (\A k \in db.allowed : k[1] # a)
          /\ Write(r, DeleteAccountRow(db, a), "delCommit")
      BY <1>b, <1>4 DEF DeletingAccount, a, DbDeleteAccount
    <2>2. Consistent(DeleteAccountRow(db, a))
      BY <1>a, <2>1, DeleteAccountConsistent
    <2> QED BY <1>4, <2>1, <2>2, LastWrite
  <1>5. CASE req[r].at = "delCommit"
    BY <1>5, CommitStep DEF DbDeleteAccount
  <1> QED BY <1>2, <1>3, <1>4, <1>5 DEF DbDeleteAccount

LEMMA SerialRevoke ==
    ASSUME TypeInv, SerialInv, NEW r \in Requests, Requests = {r}, DbRevokeAccount(r)
    PROVE  SerialInv'
  <1> DEFINE a == req[r].acct
             u == req[r].who
  <1>a. db \in Tables /\ a \in Accounts /\ u \in Users
    BY DEF TypeInv, TypeOK, Request
  <1>b. Progress(r) /\ Revoking(r) /\ Consistent(saved)
    BY DEF SerialInv, Progress, DbRevokeAccount, At
  <1>c. req[r].op = "revoke"
    BY DEF DbRevokeAccount, At
  <1> HIDE DEF a, u
  <1>d. Consistent(saved)' <=> Consistent(saved')
    BY DEF Consistent, HoldersOnly, References, HasAccess, Exists
  <1>1. CASE At(r, "revoke", "dbOwner")
    <2>1. Clean /\ Check(r, db.owner[a] # u, "removeGrant")
      BY <1>b, <1>1 DEF Progress, At, a, u, DbRevokeAccount
    <2>2. /\ UNCHANGED <<db, saved, txn>>
          /\ \/ req'[r].at = "idle"
             \/ /\ db.owner[a] # u /\ req'[r].at = "removeGrant" /\ req'[r].op = "revoke"
                /\ req'[r].acct = a /\ req'[r].who = u
      BY <2>1, <1>1, CheckGives DEF At, a, u
    <2>3. CASE req'[r].at = "idle"
      BY <1>b, <2>1, <2>2, <2>3, CleanStep DEF Early
    <2>4. CASE req'[r].at # "idle"
      <3>1. Consistent(saved)' /\ Clean'
        BY <1>b, <1>d, <2>1, <2>2, <2>4 DEF Clean
      <3>2. Progress(r)'
        BY <3>1, <2>2, <2>4 DEF Progress, Revoking
      <3> QED BY <3>1, <3>2 DEF SerialInv
    <2> QED BY <2>3, <2>4
  <1>2. CASE At(r, "revoke", "removeGrant")
    <2> DEFINE e == RemoveGrant(db, a, u)
    <2>1. Clean /\ Write(r, e, "delRows")
      BY <1>b, <1>2 DEF Progress, At, a, u, DbRevokeAccount
    <2>2. References(e) /\ HoldersOnlyBut(e, {a}, {u})
      BY <1>a, <1>b, <2>1, RevokeConsistent DEF Clean, Consistent
    <2>3. /\ db' = e /\ txn' = TRUE /\ saved' = saved /\ req'[r].at = "delRows"
          /\ req'[r].op = "revoke" /\ req'[r].acct = a /\ req'[r].who = u
      BY <2>1, <1>c, WriteGives DEF a, u
    <2> HIDE DEF e
    <2>4. Progress(r)'
      <3>1. Revoking(r)'
        BY <2>2, <2>3 DEF Revoking, References, HoldersOnlyBut, HasAccess, Exists
      <3> QED BY <3>1, <2>3 DEF Progress
    <2> QED BY <1>b, <1>d, <2>3, <2>4 DEF SerialInv
  <1>3. CASE At(r, "revoke", "delRows")
    <2>1. /\ References(db) /\ HoldersOnlyBut(db, {a}, {u})
          /\ Write(r, DeleteChatAccess(db, {a}, {u}), "commit")
      BY <1>b, <1>3 DEF Revoking, At, a, u, DbRevokeAccount
    <2>2. Consistent(DeleteChatAccess(db, {a}, {u}))
      BY <1>a, <2>1, RevokeConsistent
    <2> QED BY <1>3, <2>1, <2>2, LastWrite DEF At
  <1>4. CASE At(r, "revoke", "commit")
    BY <1>4, CommitStep DEF DbRevokeAccount, At
  <1> QED BY <1>1, <1>2, <1>3, <1>4 DEF DbRevokeAccount

LEMMA BootstrapConsistent ==
    ASSUME NEW d \in Tables, Consistent(d) PROVE Consistent(Bootstrapped(d))
  <1> DEFINE e == AddUserRow(d, BootAdmin)
  <1>1. e \in Tables /\ Consistent(e)
    BY BootAssumption, StatementTypes, InsertsConsistent
  <1>2. BootAdmin \in e.users
    BY DEF AddUserRow, Tables
  <1> HIDE DEF e
  <1>3. Consistent(AddAccountRow(e, DefaultAccount, BootAdmin))
    BY <1>1, <1>2, BootAssumption, InsertsConsistent
  <1> QED BY <1>3 DEF Bootstrapped, e

\* The MCP server's own write commits at once, and only between transactions.
LEMMA SerialTags ==
    ASSUME TypeInv, SerialInv, NEW r \in Requests, Requests = {r}, TagToolWrite
    PROVE  SerialInv'
  <1> DEFINE e == UpsertTags(saved, tagger.acct, tagger.who, tagger.jid)
  <1>1. UNCHANGED req /\ UNCHANGED txn
    BY DEF TagToolWrite
  <1>2. CASE txn
    <2>1. UNCHANGED <<db, saved, txn, req>>
      BY <1>2 DEF TagToolWrite
    <2> QED
      BY <2>1 DEF SerialInv, Progress, RemovingUser, DeletingAccount, Revoking, Clean, Consistent,
                  HoldersOnly, References, HoldersOnlyBut, NoGrantsOf, NoGrantsOn, OwnsAny,
                  HasAccess, Exists
  <1>3. CASE ~txn
    <2>1. saved' = e /\ db' = e
      BY <1>3 DEF TagToolWrite
    <2>2. Consistent(e)
      BY UpsertsConsistent DEF TagToolWrite, TypeInv, TypeOK, JidsKnown, SerialInv
    <2>3. e.users = saved.users /\ e.owner = saved.owner /\ e.grants = saved.grants
      BY DEF UpsertTags, TypeInv, TypeOK, Tables
    <2> HIDE DEF e
    <2>4. Consistent(saved)' /\ Clean'
      BY <2>1, <2>2, <1>1, <1>3 DEF Clean, Consistent, HoldersOnly, References, HasAccess, Exists
    <2>5. Progress(r)
      BY DEF SerialInv
    <2>6. RemovingUser(r)' \/ req[r].op # "removeUser"
      BY <2>1, <2>3, <2>4, <2>5, <1>1, <1>3 DEF Progress, RemovingUser, Clean, OwnsAny
    <2>7. DeletingAccount(r)' \/ req[r].op \notin {"createAccount", "deleteAccount"}
      BY <2>1, <2>3, <2>4, <2>5, <1>1, <1>3 DEF Progress, DeletingAccount
    <2>8. Revoking(r)' \/ req[r].op # "revoke"
      <3>1. CASE req[r].op = "revoke" /\ req[r].at = "removeGrant"
        BY <3>1, <2>1, <2>3, <2>5, <1>1 DEF Progress, Revoking, Clean
      <3>2. CASE req[r].op = "revoke" /\ req[r].at # "removeGrant"
        BY <3>2, <2>5, <1>1, <1>3 DEF Progress, Revoking
      <3> QED BY <3>1, <3>2
    <2>9. req[r].at \notin {"delCommit", "commit"}
      BY <2>5, <1>3 DEF Progress
    <2>10. req[r].at \in {"addAccount", "dbAccount", "addGrant", "isOwner", "upsert"} => db = saved
      BY <2>5 DEF Progress, Clean
    <2>11. Progress(r)'
      BY <1>1, <2>1, <2>3, <2>4, <2>5, <2>6, <2>7, <2>8, <2>9, <2>10
         DEF Progress, HasAccess, Exists
    <2> QED BY <2>4, <2>11 DEF SerialInv
  <1> QED BY <1>2, <1>3

\* Only a statement that raises counts, and it changes no committed table.
LEMMA FailuresCount ==
    ASSUME TypeInv, [Next]_vars
    PROVE  failures' = failures \/ (failures' = failures + 1 /\ saved' = saved)
  <1> USE DEF Arrive, Check, Write, Commit, NoMcpStep
  <1>1. ASSUME NEW r \in Requests,
               InviteUser(r) \/ DbAddUser(r) \/ RemoveUser(r) \/ DbRemoveUser(r)
        PROVE  failures' = failures
    BY <1>1 DEF InviteUser, DbAddUser, RemoveUser, DbRemoveUser
  <1>2. ASSUME NEW r \in Requests,
               CreateAccount(r) \/ DbAddAccount(r) \/ DeleteAccount(r) \/ DbDeleteAccount(r)
        PROVE  failures' = failures
    BY <1>2 DEF CreateAccount, DbAddAccount, DeleteAccount, DbDeleteAccount
  <1>3. ASSUME NEW r \in Requests,
               GrantAccount(r) \/ DbGrantAccount(r) \/ RevokeAccount(r) \/ DbRevokeAccount(r)
        PROVE  failures' = failures
    BY <1>3 DEF GrantAccount, DbGrantAccount, RevokeAccount, DbRevokeAccount
  <1>4. ASSUME NEW r \in Requests,
               ToggleAllowed(r) \/ DbSetChatAccessAllowed(r) \/ SaveMetadata(r)
                 \/ DbUpsertChatAccessTags(r)
        PROVE  failures' = failures
    BY <1>4 DEF ToggleAllowed, DbSetChatAccessAllowed, SaveMetadata, DbUpsertChatAccessTags
  <1>5. ASSUME NEW r \in Requests, StatementFails(r)
        PROVE  failures' = failures + 1 /\ saved' = saved
    BY <1>5 DEF StatementFails
  <1>6. AdminRestart \/ TagTool \/ TagToolWrite => failures' = failures
    BY DEF AdminRestart, TagTool, TagToolWrite
  <1>7. ASSUME NEW c \in Calls, ListAllowedJidsFor(c) PROVE failures' = failures
    BY <1>7 DEF ListAllowedJidsFor
  <1> QED BY <1>1, <1>2, <1>3, <1>4, <1>5, <1>6, <1>7 DEF Next, vars

\* What has failed stays failed.
LEMMA FailuresGrow ==
    ASSUME TypeInv, [Next]_vars, failures' = 0 PROVE failures = 0
  BY FailuresCount DEF TypeInv, TypeOK

LEMMA SerialNext ==
    ASSUME NEW r \in Requests, Requests = {r}
    PROVE  TypeInv /\ SerialInv /\ [Next]_vars /\ failures' = 0 => SerialInv'
  <1> SUFFICES ASSUME TypeInv, SerialInv, [Next]_vars, failures' = 0 PROVE SerialInv'
    OBVIOUS
  <1>a. Consistent(saved)
    BY DEF SerialInv
  <1>b. ASSUME NEW ok, NEW next \in Early, Clean, Check(r, ok, next) PROVE SerialInv'
    BY <1>a, <1>b, CheckGives, CleanStep DEF Early
  <1>c. ASSUME NEW op, NEW step \in Early, NEW t, NEW v, Arrive(r, New(op, step, t, v))
        PROVE  SerialInv'
    BY <1>c, ArriveStep DEF New, Idle
  <1>d. Progress(r)
    BY DEF SerialInv
  <1>e. ASSUME NEW new, Arrive(r, new) PROVE req[r].at = "idle"
    BY <1>e DEF Arrive, Idle
  <1>1. CASE InviteUser(r)
    BY <1>1, <1>b, <1>c, <1>d DEF InviteUser, At, Early, Progress
  <1>2. CASE RemoveUser(r)
    BY <1>2, <1>b, <1>c, <1>d DEF RemoveUser, At, Early, Progress
  <1>3. CASE GrantAccount(r)
    BY <1>3, <1>b, <1>c, <1>d DEF GrantAccount, At, Early, Progress
  <1>4. CASE RevokeAccount(r)
    BY <1>4, <1>c DEF RevokeAccount, Early
  <1>5. CASE ToggleAllowed(r)
    <2>1. CASE At(r, "toggle", "holders")
      <3>1. Check(r, <<req[r].acct, req[r].who>> \in db.grants, "mayWrite")
        BY <1>5, <2>1, <1>e DEF ToggleAllowed, At
      <3> QED BY <2>1, <3>1, <1>b, <1>d DEF At, Early, Progress
    <2>2. CASE ~At(r, "toggle", "holders")
      <3>1. PICK t \in Targets, me \in Users, v \in Users, j \in Jids, on \in BOOLEAN :
               Arrive(r, [New("toggle", IF v = me THEN "mayWrite" ELSE "holders", t, v)
                            EXCEPT !.actor = me, !.jid = j, !.on = on])
        BY <1>5, <2>2 DEF ToggleAllowed
      <3> DEFINE n == [New("toggle", IF v = me THEN "mayWrite" ELSE "holders", t, v)
                        EXCEPT !.actor = me, !.jid = j, !.on = on]
      <3>2. n.at \in Early
        BY DEF New, Idle, Early
      <3> HIDE DEF n
      <3> QED BY <3>1, <3>2, ArriveStep DEF n
    <2> QED BY <2>1, <2>2
  <1>6. CASE SaveMetadata(r)
    <2>1. CASE At(r, "tags", "visible") \/ At(r, "tags", "visibleRow")
      <3>1. \/ Check(r, HasAccess(db, req[r].acct, req[r].who), "visibleRow")
            \/ Check(r, <<req[r].acct, req[r].who, req[r].jid>> \in db.allowed, "mayWrite")
        BY <1>6, <2>1, <1>e DEF SaveMetadata, At
      <3> QED BY <2>1, <3>1, <1>b, <1>d DEF At, Early, Progress
    <2>2. CASE ~(At(r, "tags", "visible") \/ At(r, "tags", "visibleRow"))
      <3>1. PICK t \in Targets, me \in Users, j \in Jids :
               Arrive(r, [New("tags", IF db.owner[t] = me THEN "mayWrite" ELSE "visible", t, me)
                            EXCEPT !.jid = j])
        BY <1>6, <2>2 DEF SaveMetadata
      <3> DEFINE n == [New("tags", IF db.owner[t] = me THEN "mayWrite" ELSE "visible", t, me)
                        EXCEPT !.jid = j]
      <3>2. n.at \in Early
        BY DEF New, Idle, Early
      <3> HIDE DEF n
      <3> QED BY <3>1, <3>2, ArriveStep DEF n
    <2> QED BY <2>1, <2>2
  <1>7. CASE CreateAccount(r)
    <2>1. CASE At(r, "createAccount", "session")
      <3>1. Clean
        BY <2>1, <1>d DEF At, Progress
      <3>2. PICK failed \in BOOLEAN : Check(r, failed, "delGrants")
        BY <1>7, <2>1 DEF CreateAccount, At, Arrive, Idle
      <3>3. UNCHANGED <<db, saved, txn>> /\ Clean'
        BY <3>1, <3>2, CheckGives DEF Clean
      <3>4. CASE req'[r].at = "idle"
        BY <1>a, <3>1, <3>3, <3>4, CleanStep DEF Early
      <3>5. CASE req'[r].at # "idle"
        <4>1. req'[r].at = "delGrants" /\ req'[r].op = "createAccount"
          BY <2>1, <3>2, <3>5, CheckGives DEF At
        <4>2. Progress(r)'
          BY <3>3, <4>1 DEF Progress, DeletingAccount
        <4> QED BY <1>a, <3>3, <4>2 DEF SerialInv, Consistent, HoldersOnly, References, HasAccess, Exists
      <3> QED BY <3>4, <3>5
    <2>2. CASE ~At(r, "createAccount", "session")
      BY <1>7, <2>2, <1>b, <1>c, <1>d DEF CreateAccount, At, Early, Progress
    <2> QED BY <2>1, <2>2
  <1>8. CASE DeleteAccount(r)
    <2>1. CASE At(r, "deleteAccount", "session")
      <3>1. Clean
        BY <2>1, <1>d DEF At, Progress
      <3>2. PICK ok \in BOOLEAN : Check(r, ok, "delGrants")
        BY <1>8, <2>1 DEF DeleteAccount, At, Arrive, Idle
      <3>3. UNCHANGED <<db, saved, txn>> /\ Clean'
        BY <3>1, <3>2, CheckGives DEF Clean
      <3>4. CASE req'[r].at = "idle"
        BY <1>a, <3>1, <3>3, <3>4, CleanStep DEF Early
      <3>5. CASE req'[r].at # "idle"
        <4>1. req'[r].at = "delGrants" /\ req'[r].op = "deleteAccount"
          BY <2>1, <3>2, <3>5, CheckGives DEF At
        <4>2. Progress(r)'
          BY <3>3, <4>1 DEF Progress, DeletingAccount
        <4> QED BY <1>a, <3>3, <4>2 DEF SerialInv, Consistent, HoldersOnly, References, HasAccess, Exists
      <3> QED BY <3>4, <3>5
    <2>2. CASE ~At(r, "deleteAccount", "session")
      BY <1>8, <2>2, <1>b, <1>c, <1>d DEF DeleteAccount, At, Early, Progress
    <2> QED BY <2>1, <2>2
  <1>9. CASE \/ DbAddUser(r) \/ DbAddAccount(r) \/ DbGrantAccount(r)
             \/ DbSetChatAccessAllowed(r)       \/ DbUpsertChatAccessTags(r)
    BY <1>9, SerialAdds
  <1>10. CASE DbRemoveUser(r) \/ DbDeleteAccount(r) \/ DbRevokeAccount(r)
    BY <1>10, SerialRemoveUser, SerialDeleteAccount, SerialRevoke
  <1>11. CASE StatementFails(r)
    BY <1>11 DEF StatementFails, TypeInv, TypeOK
  <1>12. CASE AdminRestart
    <2>1. Consistent(Bootstrapped(saved))
      BY <1>a, BootstrapConsistent DEF TypeInv, TypeOK
    <2>2. /\ db' = Bootstrapped(saved) /\ saved' = Bootstrapped(saved) /\ ~txn'
          /\ req'[r] = Idle
      BY <1>12 DEF AdminRestart
    <2>3. Consistent(saved)' /\ Clean'
      BY <2>1, <2>2 DEF Clean, Consistent, HoldersOnly, References, HasAccess, Exists
    <2>4. Progress(r)'
      BY <2>2, <2>3 DEF Progress, RemovingUser, DeletingAccount, Revoking, Idle
    <2> QED BY <2>3, <2>4 DEF SerialInv
  <1>13. CASE TagToolWrite
    BY <1>13, SerialTags
  <1>14. CASE UNCHANGED <<db, saved, txn, req>>
    BY <1>14 DEF SerialInv, Progress, RemovingUser, DeletingAccount, Revoking, Clean, Consistent,
                 HoldersOnly, References, HoldersOnlyBut, NoGrantsOf, NoGrantsOn, OwnsAny,
                 HasAccess, Exists
  <1>15. ASSUME NEW c \in Calls, ListAllowedJidsFor(c) PROVE SerialInv'
    BY <1>14, <1>15 DEF ListAllowedJidsFor
  <1>16. CASE TagTool
    BY <1>14, <1>16 DEF TagTool
  <1> QED
    BY <1>1, <1>2, <1>3, <1>4, <1>5, <1>6, <1>7, <1>8, <1>9, <1>10, <1>11, <1>12, <1>13,
       <1>14, <1>15, <1>16 DEF Next, vars

LEMMA SerialInit == ASSUME NEW r \in Requests, Requests = {r} PROVE Init => SerialInv
  <1> SUFFICES ASSUME Init PROVE SerialInv
    OBVIOUS
  <1>1. NoTables \in Tables /\ Consistent(NoTables)
    BY DEF NoTables, Tables, Consistent, HoldersOnly, References, Exists
  <1>2. Consistent(saved) /\ Clean /\ req[r] = Idle
    BY <1>1, BootstrapConsistent DEF Init, Clean
  <1>3. Progress(r)
    BY <1>2 DEF Progress, RemovingUser, DeletingAccount, Revoking, Idle
  <1> QED BY <1>2, <1>3 DEF SerialInv

\* Nothing has failed yet, and so the tables are as SerialInv says.
SerialInvUntilFailure == failures = 0 => SerialInv

LEMMA SerialUntilFailure ==
    ASSUME NEW r \in Requests, Requests = {r}
    PROVE  /\ Init => SerialInvUntilFailure
           /\ TypeInv /\ SerialInvUntilFailure /\ [Next]_vars => SerialInvUntilFailure'
  <1>1. Init => SerialInvUntilFailure
    BY SerialInit DEF SerialInvUntilFailure
  <1>2. TypeInv /\ SerialInvUntilFailure /\ [Next]_vars => SerialInvUntilFailure'
    <2> SUFFICES ASSUME TypeInv, SerialInvUntilFailure, [Next]_vars, failures' = 0
                 PROVE  SerialInv'
      BY DEF SerialInvUntilFailure
    <2>1. failures = 0
      BY FailuresGrow
    <2> QED BY <2>1, SerialNext DEF SerialInvUntilFailure
  <1> QED BY <1>1, <1>2

\* When admin requests are served one at a time and until a statement raises,
\* every committed state is consistent: allowed rows belong to holders, and
\* no account or grant names a user or an account that is gone (db.py's
\* remove_user, delete_account and revoke_account, restarts included).
THEOREM SerialConsistency ==
    ASSUME NEW r \in Requests, Requests = {r}
    PROVE  Spec => [](AllowedRowsBelongToHolders /\ NoDanglingReferences)
  <1>1. SerialInvUntilFailure => AllowedRowsBelongToHolders /\ NoDanglingReferences
    BY DEF SerialInvUntilFailure, SerialInv, Consistent, AllowedRowsBelongToHolders,
           NoDanglingReferences
  <1>2. Init => SerialInvUntilFailure
    BY SerialUntilFailure
  <1>3. TypeInv /\ SerialInvUntilFailure /\ [Next]_vars => SerialInvUntilFailure'
    BY SerialUntilFailure
  <1> QED BY <1>1, <1>2, <1>3, TypeInit, TypeNext, PTL DEF Spec

\* Under the same assumptions the references of metadata.sql hold in every
\* committed state, although SQLite does not enforce them: each account's
\* owner and each grantee is a user, each granted account exists.
THEOREM NothingDangles ==
    ASSUME NEW r \in Requests, Requests = {r}
    PROVE  Spec => []NoDanglingReferences
  BY SerialConsistency, PTL

-----------------------------------------------------------------------------
(* One admin request at a time: a read returns what one state allowed.     *)

ReadSoundInv ==
    \A c \in Calls : /\ call[c].at # "done" => call[c].result = {}
                     /\ call[c].result \subseteq seen[c].jids

LEMMA ReadSoundNext ==
    TypeInv /\ HoldersOnly(saved) /\ ReadSoundInv /\ Next => ReadSoundInv'
  <1> SUFFICES ASSUME TypeInv, HoldersOnly(saved), ReadSoundInv, Next, NEW c \in Calls
               PROVE  /\ call'[c].at # "done" => call'[c].result = {}
                      /\ call'[c].result \subseteq seen'[c].jids
    BY DEF ReadSoundInv
  <1>a. call \in [Calls -> CallType] /\ Observe
    BY OnlyCallsRead DEF TypeInv, TypeOK, CallType
  <1>1. CASE call'[c] = call[c]
    <2>1. CASE call[c].at = "idle"
      BY <1>1, <2>1 DEF ReadSoundInv
    <2>2. CASE call[c].at # "idle"
      <3>1. seen[c].jids \subseteq seen'[c].jids
        BY <1>a, <1>1, <2>2 DEF Observe, TypeInv, TypeOK
      <3> QED BY <1>1, <3>1 DEF ReadSoundInv
    <2> QED BY <2>1, <2>2
  <1>2. CASE call'[c] # call[c]
    <2>1. ListAllowedJidsFor(c)
      <3>1. \E q \in Calls : ListAllowedJidsFor(q)
        BY <1>2, OnlyCallsRead
      <3>2. ASSUME NEW q \in Calls, q # c, ListAllowedJidsFor(q) PROVE call'[c] = call[c]
        BY <3>2, <1>a DEF ListAllowedJidsFor
      <3> QED BY <1>2, <3>1, <3>2
    <2>2. saved' = saved
      BY <2>1 DEF ListAllowedJidsFor
    <2>3. CASE call[c].at = "query"
      <3> DEFINE a == call[c].acct
                 u == call[c].who
      <3>1. /\ call'[c].at = "done" /\ call'[c].acct = a /\ call'[c].who = u
            /\ call'[c].result = AllowedJids(saved, a, u)
        BY <2>1, <2>3, <1>a DEF ListAllowedJidsFor, AllowedRows, CallType
      <3> HIDE DEF a, u
      <3>2. AllowedJids(saved, a, u) \subseteq Visible(saved, a, u)
        BY DEF HoldersOnly, AllowedJids, Visible
      <3>3. seen'[c].jids = seen[c].jids \cup Visible(saved, a, u)
        BY <1>a, <2>2, <2>3, <3>1 DEF Observe
      <3> QED BY <3>1, <3>2, <3>3
    <2>4. CASE call[c].at # "query"
      <3>1. CASE call[c].at = "idle"
        BY <2>1, <3>1, <1>a DEF ListAllowedJidsFor, NoCall
      <3>2. CASE call[c].at = "access"
        BY <2>1, <3>2, <1>a DEF ListAllowedJidsFor, ReadSoundInv, CallType
      <3>3. CASE call[c].at = "done"
        BY <2>1, <3>3, <1>a DEF ListAllowedJidsFor, NoCall
      <3> QED BY <2>1, <2>4, <3>1, <3>2, <3>3 DEF ListAllowedJidsFor
    <2> QED BY <2>3, <2>4
  <1> QED BY <1>1, <1>2

\* With one admin request at a time and until a statement raises, the two
\* reads of list_allowed_jids_for are as good as one: each chat returned was
\* allowed, to a holder of the account, in one committed state of the read.
THEOREM SerialReads ==
    ASSUME NEW r \in Requests, Requests = {r}
    PROVE  Spec => []ReadSound
  <1> DEFINE Sound == failures = 0 => ReadSoundInv
  <1>1. Init => Sound
    BY DEF Init, ReadSoundInv, NoCall, NothingSeen
  <1>2. Sound => ReadSound
    BY DEF ReadSoundInv, ReadSound
  <1>3. TypeInv /\ SerialInvUntilFailure /\ Sound /\ [Next]_vars => Sound'
    <2> SUFFICES ASSUME TypeInv, SerialInvUntilFailure, Sound, [Next]_vars, failures' = 0
                 PROVE  ReadSoundInv'
      OBVIOUS
    <2>1. failures = 0
      BY FailuresGrow
    <2>2. HoldersOnly(saved)
      BY <2>1 DEF SerialInvUntilFailure, SerialInv, Consistent
    <2>3. ReadSoundInv /\ UNCHANGED vars => ReadSoundInv'
      BY DEF ReadSoundInv, vars
    <2> QED BY <2>1, <2>2, <2>3, ReadSoundNext
  <1>4. Init => SerialInvUntilFailure
    BY SerialUntilFailure
  <1>5. TypeInv /\ SerialInvUntilFailure /\ [Next]_vars => SerialInvUntilFailure'
    BY SerialUntilFailure
  <1> HIDE DEF Sound
  <1> QED BY <1>1, <1>2, <1>3, <1>4, <1>5, TypeInit, TypeNext, PTL DEF Spec


-----------------------------------------------------------------------------
(* One admin request at a time: an owner's own rows survive.               *)

\* In `new', the owners of `old' who are still owners have kept their rows on
\* the account, unless it is one of As.
OwnRowsKept(old, new, As) ==
    \A k \in old.rows :
        old.owner[k[1]] = k[2] /\ new.owner[k[1]] = k[2] /\ k[1] \notin As => k \in new.rows

\* An open transaction has removed no owner's rows, but for those of the
\* account whose own row goes next.  Nobody is revoked who owns the account.
RowsInv ==
    \A r \in Requests :
        /\ OwnRowsKept(saved, db, IF req[r].at = "delAccount" THEN {req[r].acct} ELSE {})
        /\ At(r, "revoke", "delRows") => db.owner[req[r].acct] # req[r].who

\* A step that leaves the tables alone, or adds rows to one's own view of them.
LEMMA RowsQuietStep ==
    ASSUME NEW r \in Requests, Requests = {r}, RowsInv, saved' = saved,
           db'.owner = db.owner, db.rows \subseteq db'.rows,
           \/ UNCHANGED req
           \/ req[r].at # "delAccount" /\ req'[r].at \notin {"delAccount", "delRows"}
    PROVE  RowsInv' /\ OwnRowsKept(saved, saved', {})
  <1>1. CASE UNCHANGED req
    BY <1>1 DEF RowsInv, OwnRowsKept, At
  <1>2. CASE req[r].at # "delAccount" /\ req'[r].at \notin {"delAccount", "delRows"}
    BY <1>2 DEF RowsInv, OwnRowsKept, At
  <1> QED BY <1>1, <1>2

\* A step after which the connection sees what is committed.
LEMMA RowsSettledStep ==
    ASSUME NEW r \in Requests, Requests = {r}, db' = saved', OwnRowsKept(saved, saved', {}),
           req'[r].at \notin {"delRows", "delAccount"}
    PROVE  RowsInv' /\ OwnRowsKept(saved, saved', {})
  BY DEF RowsInv, OwnRowsKept, At

LEMMA RowsArriveStep ==
    ASSUME TypeInv, NEW r \in Requests, Requests = {r}, RowsInv,
           NEW new, Arrive(r, new), new.at \notin {"delAccount", "delRows"}
    PROVE  RowsInv' /\ OwnRowsKept(saved, saved', {})
  <1>1. db' = db /\ saved' = saved /\ req[r].at = "idle" /\ req'[r] = new
    BY DEF Arrive, TypeInv, TypeOK, Idle
  <1> QED BY <1>1, RowsQuietStep

LEMMA RowsCheckStep ==
    ASSUME TypeInv, NEW r \in Requests, Requests = {r}, RowsInv, req[r].at # "delAccount",
           NEW ok, NEW next, next \notin {"delAccount", "delRows"}, Check(r, ok, next)
    PROVE  RowsInv' /\ OwnRowsKept(saved, saved', {})
  <1>1. db' = db /\ saved' = saved /\ req'[r].at \notin {"delAccount", "delRows"}
    BY CheckGives
  <1> QED BY <1>1, RowsQuietStep

LEMMA RowsAddStep ==
    ASSUME TypeInv, NEW r \in Requests, Requests = {r}, RowsInv, req[r].at # "delAccount",
           NEW d, d.owner = db.owner, db.rows \subseteq d.rows,
           NEW next, next \notin {"delAccount", "delRows"}, Write(r, d, next)
    PROVE  RowsInv' /\ OwnRowsKept(saved, saved', {})
  <1>1. db' = d /\ saved' = saved /\ req'[r].at = next
    BY WriteGives
  <1> QED BY <1>1, RowsQuietStep

LEMMA RowsCommitStep ==
    ASSUME TypeInv, NEW r \in Requests, Requests = {r}, RowsInv,
           req[r].at \in {"commit", "delCommit"}, NEW next \in {"idle", "session"},
           Commit(r, next)
    PROVE  RowsInv' /\ OwnRowsKept(saved, saved', {})
  <1>1. saved' = db /\ db' = db /\ req'[r].at \in {"idle", "session"}
    BY DEF Commit, TypeInv, TypeOK, Request, Idle
  <1>2. OwnRowsKept(saved, db, {})
    BY DEF RowsInv
  <1> QED BY <1>1, <1>2, RowsSettledStep

\* The statements that add: none touches a row's key but to insert it.
LEMMA RowsAdds ==
    ASSUME TypeInv, SerialInv, NEW r \in Requests, Requests = {r}, RowsInv,
           \/ DbAddUser(r)   \/ DbAddAccount(r) \/ DbGrantAccount(r)
           \/ DbSetChatAccessAllowed(r)         \/ DbUpsertChatAccessTags(r)
    PROVE  RowsInv' /\ OwnRowsKept(saved, saved', {})
  <1> DEFINE Goal == RowsInv' /\ OwnRowsKept(saved, saved', {})
             a == req[r].acct
             u == req[r].who
             j == req[r].jid
             on == req[r].on
  <1>a. db \in Tables /\ a \in Accounts /\ u \in Users
    BY DEF TypeInv, TypeOK, Request
  <1>b. /\ AddUserRow(db, u).owner = db.owner /\ AddUserRow(db, u).rows = db.rows
        /\ AddGrant(db, a, u).owner = db.owner /\ AddGrant(db, a, u).rows = db.rows
    BY <1>a DEF AddUserRow, AddGrant, Tables
  <1>c. /\ UpsertTags(db, a, u, j).owner = db.owner
        /\ UpsertAllowed(db, a, u, j, on).owner = db.owner
        /\ db.rows \subseteq UpsertTags(db, a, u, j).rows
        /\ db.rows \subseteq UpsertAllowed(db, a, u, j, on).rows
    BY <1>a DEF UpsertTags, UpsertAllowed, Tables
  <1> HIDE DEF Goal
  <1>1. CASE DbAddUser(r)
    <2>1. CASE At(r, "invite", "addUser")
      BY <1>1, <2>1, <1>b, RowsAddStep DEF DbAddUser, At, Goal
    <2>2. CASE At(r, "invite", "commit")
      BY <1>1, <2>2, RowsCommitStep DEF DbAddUser, At, Goal
    <2> QED BY <1>1, <2>1, <2>2 DEF DbAddUser
  <1>2. CASE DbAddAccount(r)
    <2>1. CASE At(r, "createAccount", "dbUser")
      BY <1>2, <2>1, RowsCheckStep DEF DbAddAccount, At, Goal
    <2>2. CASE At(r, "createAccount", "addAccount")
      <3> DEFINE d == AddAccountRow(db, a, u)
      <3>1. Write(r, d, "commit") /\ Clean
        BY <1>2, <2>2 DEF DbAddAccount, At, SerialInv, Progress
      <3>2. d.rows = db.rows
        BY <1>a DEF AddAccountRow, Tables
      <3> HIDE DEF d
      <3>3. db' = d /\ saved' = saved /\ req'[r].at = "commit"
        BY <3>1, WriteGives
      <3> QED BY <3>1, <3>2, <3>3 DEF Goal, RowsInv, OwnRowsKept, At, Clean
    <2>3. CASE At(r, "createAccount", "commit")
      BY <1>2, <2>3, RowsCommitStep DEF DbAddAccount, At, Goal
    <2> QED BY <1>2, <2>1, <2>2, <2>3 DEF DbAddAccount
  <1>3. CASE DbGrantAccount(r)
    <2>1. CASE At(r, "grant", "dbUser") \/ At(r, "grant", "dbAccount")
      BY <1>3, <2>1, RowsCheckStep DEF DbGrantAccount, At, Goal
    <2>2. CASE At(r, "grant", "addGrant")
      BY <1>3, <2>2, <1>b, RowsAddStep DEF DbGrantAccount, At, Goal
    <2>3. CASE At(r, "grant", "commit")
      BY <1>3, <2>3, RowsCommitStep DEF DbGrantAccount, At, Goal
    <2> QED BY <1>3, <2>1, <2>2, <2>3 DEF DbGrantAccount
  <1>4. CASE DbSetChatAccessAllowed(r)
    <2>1. CASE At(r, "toggle", "mayWrite") \/ At(r, "toggle", "isOwner")
      BY <1>4, <2>1, RowsCheckStep DEF DbSetChatAccessAllowed, At, Goal
    <2>2. CASE At(r, "toggle", "upsert")
      BY <1>4, <2>2, <1>c, RowsAddStep DEF DbSetChatAccessAllowed, At, Goal
    <2>3. CASE At(r, "toggle", "commit")
      BY <1>4, <2>3, RowsCommitStep DEF DbSetChatAccessAllowed, At, Goal
    <2> QED BY <1>4, <2>1, <2>2, <2>3 DEF DbSetChatAccessAllowed
  <1>5. CASE DbUpsertChatAccessTags(r)
    <2>1. CASE At(r, "tags", "mayWrite")
      BY <1>5, <2>1, RowsCheckStep DEF DbUpsertChatAccessTags, At, Goal
    <2>2. CASE At(r, "tags", "upsert")
      BY <1>5, <2>2, <1>c, RowsAddStep DEF DbUpsertChatAccessTags, At, Goal
    <2>3. CASE At(r, "tags", "commit")
      BY <1>5, <2>3, RowsCommitStep DEF DbUpsertChatAccessTags, At, Goal
    <2> QED BY <1>5, <2>1, <2>2, <2>3 DEF DbUpsertChatAccessTags
  <1> QED BY <1>1, <1>2, <1>3, <1>4, <1>5 DEF Goal

\* db.remove_user: the rows of someone who owns nothing.
LEMMA RowsRemoveUser ==
    ASSUME TypeInv, SerialInv, NEW r \in Requests, Requests = {r}, RowsInv, DbRemoveUser(r)
    PROVE  RowsInv' /\ OwnRowsKept(saved, saved', {})
  <1> DEFINE Goal == RowsInv' /\ OwnRowsKept(saved, saved', {})
             u == req[r].who
  <1>a. db \in Tables /\ u \in Users
    BY DEF TypeInv, TypeOK, Request
  <1> HIDE DEF Goal
  <1>1. CASE At(r, "removeUser", "dbOwnsNone")
    BY <1>1, RowsCheckStep DEF DbRemoveUser, At, Goal
  <1>2. CASE At(r, "removeUser", "delGrants")
    <2> DEFINE d == DeleteGrants(db, Accounts, {u})
    <2>1. d.owner = db.owner /\ d.rows = db.rows
      BY <1>a DEF DeleteGrants, Tables
    <2>2. Write(r, d, "delRows")
      BY <1>2 DEF DbRemoveUser, At
    <2> HIDE DEF d
    <2>3. /\ db' = d /\ saved' = saved /\ req'[r].at = "delRows" /\ req'[r].op = "removeUser"
      BY <1>2, <2>2, WriteGives DEF At
    <2> QED BY <1>2, <2>1, <2>3 DEF Goal, RowsInv, OwnRowsKept, At
  <1>3. CASE At(r, "removeUser", "delRows")
    <2> DEFINE d == DeleteChatAccess(db, Accounts, {u})
    <2>1. d.owner = db.owner /\ d.rows = {k \in db.rows : ~(k[1] \in Accounts /\ k[2] \in {u})}
      BY <1>a DEF DeleteChatAccess, Tables
    <2>2. Write(r, d, "delUser")
      BY <1>3 DEF DbRemoveUser, At
    <2> HIDE DEF d
    <2>3. db' = d /\ saved' = saved /\ req'[r].at = "delUser"
      BY <2>2, WriteGives
    <2>4. \A acct \in Accounts : db.owner[acct] # u
      BY <1>3 DEF SerialInv, Progress, RemovingUser, OwnsAny, At
    <2>5. OwnRowsKept(saved, db, {}) /\ \A k \in saved.rows : k[1] \in Accounts
      BY <1>3 DEF RowsInv, At, TypeInv, TypeOK, Tables, Keys
    <2>6. OwnRowsKept(saved, d, {})
      BY <2>1, <2>4, <2>5 DEF OwnRowsKept
    <2> QED BY <2>3, <2>6 DEF Goal, RowsInv, OwnRowsKept, At
  <1>4. CASE At(r, "removeUser", "delUser")
    <2>1. DeleteUserRow(db, u).owner = db.owner /\ DeleteUserRow(db, u).rows = db.rows
      BY <1>a DEF DeleteUserRow, Tables
    <2> QED BY <1>4, <2>1, RowsAddStep DEF DbRemoveUser, At, Goal
  <1>5. CASE At(r, "removeUser", "commit")
    BY <1>5, RowsCommitStep DEF DbRemoveUser, At, Goal
  <1> QED BY <1>1, <1>2, <1>3, <1>4, <1>5 DEF DbRemoveUser, Goal

\* db.delete_account: the rows go just before the account does, and both are
\* committed at once.
LEMMA RowsDeleteAccount ==
    ASSUME TypeInv, SerialInv, NEW r \in Requests, Requests = {r}, RowsInv, DbDeleteAccount(r)
    PROVE  RowsInv' /\ OwnRowsKept(saved, saved', {})
  <1> DEFINE Goal == RowsInv' /\ OwnRowsKept(saved, saved', {})
             a == req[r].acct
  <1>a. db \in Tables /\ a \in Accounts /\ req[r].op \in {"createAccount", "deleteAccount"}
    BY DEF TypeInv, TypeOK, Request, DbDeleteAccount
  <1> HIDE DEF Goal
  <1>1. CASE req[r].at = "delGrants"
    <2> DEFINE d == DeleteGrants(db, {a}, Users)
    <2>1. d.owner = db.owner /\ d.rows = db.rows
      BY <1>a DEF DeleteGrants, Tables
    <2>2. Write(r, d, "delRows")
      BY <1>1 DEF DbDeleteAccount
    <2> HIDE DEF d
    <2>3. /\ db' = d /\ saved' = saved /\ req'[r].at = "delRows" /\ req'[r].op # "revoke"
      BY <1>a, <2>2, WriteGives
    <2> QED BY <1>1, <2>1, <2>3 DEF Goal, RowsInv, OwnRowsKept, At
  <1>2. CASE req[r].at = "delRows"
    <2> DEFINE d == DeleteChatAccess(db, {a}, Users)
    <2>1. d.owner = db.owner /\ d.rows = {k \in db.rows : ~(k[1] \in {a} /\ k[2] \in Users)}
      BY <1>a DEF DeleteChatAccess, Tables
    <2>2. Write(r, d, "delAccount")
      BY <1>2 DEF DbDeleteAccount
    <2> HIDE DEF d
    <2>3. db' = d /\ saved' = saved /\ req'[r].at = "delAccount" /\ req'[r].acct = req[r].acct
      BY <2>2, WriteGives
    <2>4. OwnRowsKept(saved, db, {})
      BY <1>2 DEF RowsInv
    <2>5. OwnRowsKept(saved, d, {req[r].acct})
      BY <2>1, <2>4 DEF OwnRowsKept
    <2>6. OwnRowsKept(saved, saved', {})
      BY <2>3 DEF OwnRowsKept
    <2>7. RowsInv'
      BY <2>3, <2>5 DEF RowsInv, OwnRowsKept, At
    <2> QED BY <2>6, <2>7 DEF Goal
  <1>3. CASE req[r].at = "delAccount"
    <2> DEFINE d == DeleteAccountRow(db, a)
    <2>1. d.rows = db.rows /\ d.owner = [db.owner EXCEPT ![a] = Nobody]
      BY <1>a DEF DeleteAccountRow, Tables
    <2>2. Write(r, d, "delCommit")
      BY <1>3 DEF DbDeleteAccount
    <2> HIDE DEF d
    <2>3. db' = d /\ saved' = saved /\ req'[r].at = "delCommit"
      BY <2>2, WriteGives
    <2>4. OwnRowsKept(saved, db, {a})
      BY <1>3 DEF RowsInv
    <2>5. \A k \in saved.rows : k[1] \in Accounts /\ k[2] # Nobody
      BY BootAssumption DEF TypeInv, TypeOK, Tables, Keys
    <2>6. db.owner \in [Accounts -> Users \cup {Nobody}]
      BY <1>a DEF Tables
    <2>7. OwnRowsKept(saved, d, {})
      BY <2>1, <2>4, <2>5, <2>6 DEF OwnRowsKept
    <2> QED BY <2>3, <2>7 DEF Goal, RowsInv, OwnRowsKept, At
  <1>4. CASE req[r].at = "delCommit"
    BY <1>4, RowsCommitStep DEF DbDeleteAccount, Goal
  <1> QED BY <1>1, <1>2, <1>3, <1>4 DEF DbDeleteAccount, Goal

\* db.revoke_account: the rows of someone who is not the owner.
LEMMA RowsRevoke ==
    ASSUME TypeInv, SerialInv, NEW r \in Requests, Requests = {r}, RowsInv, DbRevokeAccount(r)
    PROVE  RowsInv' /\ OwnRowsKept(saved, saved', {})
  <1> DEFINE Goal == RowsInv' /\ OwnRowsKept(saved, saved', {})
             a == req[r].acct
             u == req[r].who
  <1>a. db \in Tables /\ a \in Accounts /\ u \in Users
    BY DEF TypeInv, TypeOK, Request
  <1> HIDE DEF Goal
  <1>1. CASE At(r, "revoke", "dbOwner")
    BY <1>1, RowsCheckStep DEF DbRevokeAccount, At, Goal
  <1>2. CASE At(r, "revoke", "removeGrant")
    <2> DEFINE d == RemoveGrant(db, a, u)
    <2>1. d.owner = db.owner /\ d.rows = db.rows
      BY <1>a DEF RemoveGrant, Tables
    <2>2. Write(r, d, "delRows") /\ db.owner[req[r].acct] # req[r].who
      BY <1>2 DEF DbRevokeAccount, At, SerialInv, Progress, Revoking
    <2> HIDE DEF d
    <2>3. /\ db' = d /\ saved' = saved /\ req'[r].at = "delRows"
          /\ req'[r].acct = req[r].acct /\ req'[r].who = req[r].who
      BY <2>2, WriteGives
    <2>4. OwnRowsKept(saved, db, {})
      BY <1>2 DEF RowsInv, At
    <2> QED BY <2>1, <2>2, <2>3, <2>4 DEF Goal, RowsInv, OwnRowsKept, At
  <1>3. CASE At(r, "revoke", "delRows")
    <2> DEFINE d == DeleteChatAccess(db, {a}, {u})
    <2>1. d.owner = db.owner /\ d.rows = {k \in db.rows : ~(k[1] \in {a} /\ k[2] \in {u})}
      BY <1>a DEF DeleteChatAccess, Tables
    <2>2. Write(r, d, "commit")
      BY <1>3 DEF DbRevokeAccount, At
    <2> HIDE DEF d
    <2>3. db' = d /\ saved' = saved /\ req'[r].at = "commit"
      BY <2>2, WriteGives
    <2>4. OwnRowsKept(saved, db, {}) /\ db.owner[a] # u
      BY <1>3 DEF RowsInv, At
    <2>5. OwnRowsKept(saved, d, {})
      BY <2>1, <2>4 DEF OwnRowsKept
    <2> QED BY <2>3, <2>5 DEF Goal, RowsInv, OwnRowsKept, At
  <1>4. CASE At(r, "revoke", "commit")
    BY <1>4, RowsCommitStep DEF DbRevokeAccount, At, Goal
  <1> QED BY <1>1, <1>2, <1>3, <1>4 DEF DbRevokeAccount, Goal

LEMMA RowsNext ==
    ASSUME TypeInv, SerialInv, NEW r \in Requests, Requests = {r}, RowsInv,
           [Next]_vars, failures' = 0
    PROVE  RowsInv' /\ OwnRowsKept(saved, saved', {})
  <1> DEFINE Goal == RowsInv' /\ OwnRowsKept(saved, saved', {})
  <1>a. db \in Tables /\ saved \in Tables
    BY DEF TypeInv, TypeOK
  <1> HIDE DEF Goal
  <1> SUFFICES Goal
    BY DEF Goal
  <1>1. CASE InviteUser(r)
    <2>1. ASSUME NEW u \in Users, Arrive(r, New("invite", "exists", DefaultAccount, u)) PROVE Goal
      BY <2>1, RowsArriveStep DEF New, Idle, Goal
    <2>2. CASE At(r, "invite", "exists")
      BY <1>1, <2>1, <2>2, RowsCheckStep DEF InviteUser, At, Goal
    <2> QED BY <1>1, <2>1, <2>2 DEF InviteUser
  <1>2. CASE RemoveUser(r)
    <2>1. ASSUME NEW u \in Users, Arrive(r, New("removeUser", "userExists", DefaultAccount, u))
          PROVE  Goal
      BY <2>1, RowsArriveStep DEF New, Idle, Goal
    <2>2. ASSUME NEW ok, NEW next \in {"ownsNone", "dbOwnsNone"}, Check(r, ok, next),
                 req[r].at # "delAccount"
          PROVE  Goal
      BY <2>2, RowsCheckStep DEF Goal
    <2> QED BY <1>2, <2>1, <2>2 DEF RemoveUser, At
  <1>3. CASE GrantAccount(r)
    <2>1. ASSUME NEW a \in Targets, NEW u \in Users, Arrive(r, New("grant", "userExists", a, u))
          PROVE  Goal
      BY <2>1, RowsArriveStep DEF New, Idle, Goal
    <2>2. CASE At(r, "grant", "userExists")
      BY <1>3, <2>1, <2>2, RowsCheckStep DEF GrantAccount, At, Goal
    <2> QED BY <1>3, <2>1, <2>2 DEF GrantAccount
  <1>4. CASE RevokeAccount(r)
    BY <1>4, RowsArriveStep DEF RevokeAccount, New, Idle, Goal
  <1>5. CASE ToggleAllowed(r)
    <2>1. ASSUME NEW ok, Check(r, ok, "mayWrite"), req[r].at # "delAccount" PROVE Goal
      BY <2>1, RowsCheckStep DEF Goal
    <2>2. ASSUME NEW a, NEW me, NEW v, NEW j, NEW on, NEW step \in {"mayWrite", "holders"},
                 Arrive(r, [New("toggle", step, a, v) EXCEPT !.actor = me, !.jid = j, !.on = on])
          PROVE  Goal
      <3> DEFINE n == [New("toggle", step, a, v) EXCEPT !.actor = me, !.jid = j, !.on = on]
      <3>1. n.at \notin {"delAccount", "delRows"}
        BY DEF New, Idle
      <3>2. Arrive(r, n)
        BY <2>2
      <3> HIDE DEF n
      <3> QED BY <3>1, <3>2, RowsArriveStep DEF Goal
    <2> QED BY <1>5, <2>1, <2>2 DEF ToggleAllowed, At
  <1>6. CASE SaveMetadata(r)
    <2>1. ASSUME NEW ok, NEW next \in {"visibleRow", "mayWrite"}, Check(r, ok, next),
                 req[r].at # "delAccount"
          PROVE  Goal
      BY <2>1, RowsCheckStep DEF Goal
    <2>2. ASSUME NEW a, NEW me, NEW j, NEW step \in {"mayWrite", "visible"},
                 Arrive(r, [New("tags", step, a, me) EXCEPT !.jid = j])
          PROVE  Goal
      <3> DEFINE n == [New("tags", step, a, me) EXCEPT !.jid = j]
      <3>1. n.at \notin {"delAccount", "delRows"}
        BY DEF New, Idle
      <3>2. Arrive(r, n)
        BY <2>2
      <3> HIDE DEF n
      <3> QED BY <3>1, <3>2, RowsArriveStep DEF Goal
    <2> QED BY <1>6, <2>1, <2>2 DEF SaveMetadata, At
  <1>7. CASE CreateAccount(r)
    <2>1. ASSUME NEW a \in Targets, NEW u \in Users, Arrive(r, New("createAccount", "exists", a, u))
          PROVE  Goal
      BY <2>1, RowsArriveStep DEF New, Idle, Goal
    <2>2. ASSUME NEW ok, NEW next \in {"userExists", "dbUser", "delGrants"}, Check(r, ok, next),
                 req[r].at # "delAccount"
          PROVE  Goal
      BY <2>2, RowsCheckStep DEF Goal
    <2> QED BY <1>7, <2>1, <2>2 DEF CreateAccount, At
  <1>8. CASE DeleteAccount(r)
    <2>1. ASSUME NEW a \in Targets, Arrive(r, New("deleteAccount", "exists", a, BootAdmin))
          PROVE  Goal
      BY <2>1, RowsArriveStep DEF New, Idle, Goal
    <2>2. ASSUME NEW ok, NEW next \in {"session", "delGrants"}, Check(r, ok, next),
                 req[r].at # "delAccount"
          PROVE  Goal
      BY <2>2, RowsCheckStep DEF Goal
    <2> QED BY <1>8, <2>1, <2>2 DEF DeleteAccount, At
  <1>9. CASE \/ DbAddUser(r) \/ DbAddAccount(r) \/ DbGrantAccount(r)
             \/ DbSetChatAccessAllowed(r)       \/ DbUpsertChatAccessTags(r)
    BY <1>9, RowsAdds DEF Goal
  <1>10. CASE DbRemoveUser(r) \/ DbDeleteAccount(r) \/ DbRevokeAccount(r)
    BY <1>10, RowsRemoveUser, RowsDeleteAccount, RowsRevoke DEF Goal
  <1>11. CASE StatementFails(r)
    BY <1>11 DEF StatementFails, TypeInv, TypeOK
  <1>12. CASE AdminRestart
    <2>1. Bootstrapped(saved).rows = saved.rows
      BY <1>a DEF Bootstrapped, AddAccountRow, AddUserRow, Tables
    <2>2. db' = saved' /\ saved' = Bootstrapped(saved) /\ req'[r].at = "idle"
      BY <1>12 DEF AdminRestart, Idle
    <2>3. OwnRowsKept(saved, saved', {})
      BY <2>1, <2>2 DEF OwnRowsKept
    <2> QED BY <2>2, <2>3, RowsSettledStep DEF Goal
  <1>13. CASE TagToolWrite
    <2>1. CASE txn
      BY <1>13, <2>1, RowsQuietStep DEF TagToolWrite, Goal
    <2>2. CASE ~txn
      <3>1. db' = saved' /\ saved' = UpsertTags(saved, tagger.acct, tagger.who, tagger.jid)
            /\ req' = req
        BY <1>13, <2>2 DEF TagToolWrite
      <3>2. OwnRowsKept(saved, saved', {})
        BY <1>a, <3>1 DEF OwnRowsKept, UpsertTags, Tables
      <3>3. ~At(r, "revoke", "delRows")
        BY <2>2 DEF SerialInv, Progress, Revoking, At
      <3>4. RowsInv'
        BY <3>1, <3>3 DEF RowsInv, OwnRowsKept, At
      <3> QED BY <3>2, <3>4 DEF Goal
    <2> QED BY <2>1, <2>2
  <1>14. CASE UNCHANGED <<db, saved, txn, req>>
    BY <1>14, RowsQuietStep DEF Goal
  <1>15. ASSUME NEW c \in Calls, ListAllowedJidsFor(c) PROVE Goal
    BY <1>14, <1>15 DEF ListAllowedJidsFor
  <1>16. CASE TagTool
    BY <1>14, <1>16 DEF TagTool
  <1> QED
    BY <1>1, <1>2, <1>3, <1>4, <1>5, <1>6, <1>7, <1>8, <1>9, <1>10, <1>11, <1>12, <1>13,
       <1>14, <1>15, <1>16 DEF Next, vars

RowsInvUntilFailure == failures = 0 => RowsInv

\* When admin requests are served one at a time and until a statement raises,
\* no step takes a row, and with it tags or an allowed chat, from someone who
\* owns the account before and after it: not a revocation (a no-op for the
\* owner), not the removal of a user, not a restart in mid-deletion.
THEOREM OwnersKeepTheirRows ==
    ASSUME NEW r \in Requests, Requests = {r}
    PROVE  Spec => OwnerRowsSurvive
  <1> DEFINE Kept == failures = 0 => \A k \in saved.rows :
                        saved.owner[k[1]] = k[2] /\ saved'.owner[k[1]] = k[2] => k \in saved'.rows
  <1>1. Init => SerialInvUntilFailure /\ RowsInvUntilFailure
    <2> SUFFICES ASSUME Init PROVE RowsInv
      BY SerialUntilFailure DEF RowsInvUntilFailure
    <2> QED BY DEF Init, RowsInv, OwnRowsKept, Idle, At
  <1>2. TypeInv /\ SerialInvUntilFailure /\ [Next]_vars => SerialInvUntilFailure'
    BY SerialUntilFailure
  <1>3. TypeInv /\ SerialInvUntilFailure /\ RowsInvUntilFailure /\ [Next]_vars
          => RowsInvUntilFailure'
    <2> SUFFICES ASSUME TypeInv, SerialInvUntilFailure, RowsInvUntilFailure, [Next]_vars,
                        failures' = 0
                 PROVE  RowsInv'
      BY DEF RowsInvUntilFailure
    <2>1. failures = 0
      BY FailuresGrow
    <2> QED BY <2>1, RowsNext DEF SerialInvUntilFailure, RowsInvUntilFailure
  <1>4. TypeInv /\ SerialInvUntilFailure /\ RowsInvUntilFailure /\ [Next]_vars => [Kept]_vars
    <2> SUFFICES ASSUME TypeInv, SerialInvUntilFailure, RowsInvUntilFailure, [Next]_vars,
                        failures = 0
                 PROVE  OwnRowsKept(saved, saved', {})
      BY DEF OwnRowsKept
    <2>1. CASE failures' = 0
      BY <2>1, RowsNext DEF SerialInvUntilFailure, RowsInvUntilFailure
    <2>2. CASE failures' # 0
      <3>1. saved' = saved
        BY <2>2, FailuresCount
      <3> QED BY <3>1 DEF OwnRowsKept
    <2> QED BY <2>1, <2>2
  <1> QED BY <1>1, <1>2, <1>3, <1>4, TypeInit, TypeNext, PTL DEF Spec, OwnerRowsSurvive
=============================================================================
