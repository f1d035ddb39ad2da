-------------------------- MODULE KeyLifecycleProofs --------------------------
(***************************************************************************)
(* Proofs about KeyLifecycle, for any number of accounts, keys and         *)
(* requests in flight and any combination of faults: its types, that the   *)
(* key an account uses is never deleted by a rotation or an undo, and that *)
(* it is one of the account's own session that had exactly the policy.     *)
(***************************************************************************)
EXTENDS KeyLifecycle, TLAPS

RowType == Row
KeyType == [life : Lives, acct : Accounts, scope : Scopes]
ReqType == [op : Kinds \cup {"none"}, at : AllSteps, acct : Accounts, key : Keys \cup {NoKey},
            old : Keys \cup {NoKey}, scope : Scopes \cup {"none"}]

\* The steps at which an operation has a new key in its hands, and those at
\* which it knows the account's older one.
InHand == {"readBack", "probe", "store", "discard"}
WithOld == {"fetch", "put", "record", "deleteOld", "revoke"}

\* What a request x can be.  A key in its hands is nobody else's, and what it
\* is about to delete after a rotation is no account's any more.
Fits(x) ==
    /\ x.at \in InHand <=> x.key # NoKey
    /\ x.at \in WithOld => x.old # NoKey
    /\ x.op = "rotate" /\ x.at \in InHand \cup {"issue"} => x.old # NoKey
    /\ x.old # NoKey => keys[x.old].life # "unborn" /\ keys[x.old].acct = x.acct
    /\ x.at = "deleteOld" => ~Stored(x.old)
    /\ x.key # NoKey => keys[x.key].life \in {"live", "external"} /\ ~Stored(x.key)
    /\ x.at \in {"probe", "store"} => keys[x.key].acct = x.acct /\ "policy" \in had[x.key]

\* No key is in two hands, or known as an older key while it is in one.
Apart ==
    \A r, q \in Requests : req[r].key # NoKey =>
        req[q].old # req[r].key /\ (q # r => req[q].key # req[r].key)

Rows ==
    \A a \in Accounts : row[a].key # NoKey =>
        /\ row[a].exists /\ keys[row[a].key].acct = a /\ "policy" \in had[row[a].key]
        /\ keys[row[a].key].life \in {"live", "revoked", "external"}

Scoped == \A k \in Keys : keys[k].life # "unborn" => keys[k].scope \in had[k]

Inv == TypeOK /\ Rows /\ Scoped /\ Apart /\ \A r \in Requests : Fits(req[r])

-----------------------------------------------------------------------------

LEMMA Parts ==
    ASSUME TypeOK
    PROVE  /\ row \in [Accounts -> RowType] /\ keys \in [Keys -> KeyType]
           /\ had \in [Keys -> SUBSET Scopes] /\ sessions \subseteq Accounts
           /\ req \in [Requests -> ReqType] /\ logged \subseteq Keys \cup Accounts
  BY DEF TypeOK, RowType, KeyType, ReqType

LEMMA Retyped ==
    ASSUME row' \in [Accounts -> RowType], keys' \in [Keys -> KeyType],
           had' \in [Keys -> SUBSET Scopes], sessions' \subseteq Accounts,
           req' \in [Requests -> ReqType], logged' \subseteq Keys \cup Accounts
    PROVE  TypeOK'
  BY DEF TypeOK, RowType, KeyType, ReqType

LEMMA IdleType ==
    Idle \in ReqType /\ Idle.at = "idle" /\ Idle.key = NoKey /\ Idle.old = NoKey /\ Idle.op = "none"
  BY KeyAssumption DEF Idle, ReqType, AllSteps

\* Only the request r moves.
OnlyOne(r) ==
    req' \in [Requests -> ReqType] /\ \A q \in Requests : q # r => req'[q] = req[q]

LEMMA Gone ==
    ASSUME TypeOK, NEW r \in Requests, NEW step \in AllSteps, Go(r, step)
    PROVE  /\ OnlyOne(r) /\ req'[r].at = step /\ req'[r].op = req[r].op
           /\ req'[r].acct = req[r].acct /\ req'[r].key = req[r].key /\ req'[r].old = req[r].old
  <1> DEFINE new == [req[r] EXCEPT !.at = step]
  <1>1. req[r] \in ReqType /\ req \in [Requests -> ReqType]
    BY Parts
  <1>2. /\ new \in ReqType /\ new.at = step /\ new.op = req[r].op /\ new.acct = req[r].acct
        /\ new.key = req[r].key /\ new.old = req[r].old
    BY <1>1 DEF ReqType
  <1>3. req' = [req EXCEPT ![r] = new]
    BY DEF Go
  <1> HIDE DEF new
  <1> QED BY <1>1, <1>2, <1>3 DEF OnlyOne

LEMMA Ended ==
    ASSUME TypeOK, NEW r \in Requests, End(r)
    PROVE  OnlyOne(r) /\ req'[r] = Idle
  BY Parts, IdleType DEF End, OnlyOne

LEMMA Aborted ==
    ASSUME TypeOK, NEW r \in Requests, Abort(r)
    PROVE  /\ OnlyOne(r) /\ req'[r].at \in {"idle", "undoSession"}
           /\ req'[r].key = NoKey /\ req'[r].old = NoKey
  <1> DEFINE undo == [Idle EXCEPT !.op = "create", !.at = "undoSession", !.acct = req[r].acct]
             new == IF req[r].op = "create" THEN undo ELSE Idle
  <1>1. req[r] \in ReqType /\ req \in [Requests -> ReqType]
    BY Parts
  <1>2. /\ undo \in ReqType /\ undo.at = "undoSession" /\ undo.key = NoKey /\ undo.old = NoKey
    BY <1>1, IdleType DEF ReqType, AllSteps, Kinds
  <1>3. /\ new \in ReqType /\ new.at \in {"idle", "undoSession"}
        /\ new.key = NoKey /\ new.old = NoKey
    BY <1>2, IdleType
  <1>4. req' = [req EXCEPT ![r] = new]
    BY DEF Abort
  <1> HIDE DEF new
  <1> QED BY <1>1, <1>3, <1>4 DEF OnlyOne

\* WAHA's keys age: what a key once was for cannot change.
Aging ==
    \A k \in Keys : keys[k].life # "unborn" =>
        /\ keys'[k].life # "unborn" /\ keys'[k].acct = keys[k].acct
        /\ had[k] \subseteq had'[k]

\* One request moves.  It takes no key into its hands but a new one, reads an
\* older key only from the table, and stores none but the one in its hands.
LEMMA StepKeeps ==
    ASSUME Inv, NEW r \in Requests, OnlyOne(r), TypeOK', Rows', Scoped', Fits(req[r])', Aging,
           req'[r].key # NoKey => \/ req'[r].key = req[r].key
                                  \/ keys[req'[r].key].life = "unborn",
           req'[r].old # NoKey => req'[r].old = req[r].old \/ Stored(req'[r].old),
           req'[r].key # NoKey => req'[r].old # req'[r].key,
           \A q \in Requests : q # r /\ req[q].key # NoKey =>
               keys'[req[q].key].life \in {"live", "external"},
           \A k \in Keys : Stored(k)' => Stored(k) \/ (k = req[r].key /\ req'[r].key = NoKey)
    PROVE  Inv'
  <1>1. \A q \in Requests : req[q] \in ReqType /\ req'[q] \in ReqType
    BY Parts DEF Inv, OnlyOne
  <1>2. ASSUME NEW q \in Requests, q # r PROVE Fits(req[q])'
    <2>1. req[q] \in ReqType /\ Fits(req[q]) /\ req'[q] = req[q]
      BY <1>1, <1>2 DEF Inv, OnlyOne
    <2>2. req[q].old # NoKey =>
             /\ req[q].old \in Keys /\ keys[req[q].old].life # "unborn"
             /\ keys'[req[q].old].life # "unborn" /\ keys'[req[q].old].acct = req[q].acct
      BY <2>1 DEF Aging, Fits, ReqType
    <2>3. req[q].key # NoKey =>
             /\ req[q].key \in Keys /\ keys[req[q].key].life # "unborn"
             /\ keys'[req[q].key].life \in {"live", "external"}
             /\ keys'[req[q].key].acct = keys[req[q].key].acct
             /\ had[req[q].key] \subseteq had'[req[q].key]
      BY <1>2, <2>1 DEF Aging, Fits, ReqType
    <2>4. req[q].key # NoKey => ~Stored(req[q].key)'
      BY <1>2, <2>1, <2>3 DEF Inv, Apart, Fits
    <2>5. req[q].at = "deleteOld" => ~Stored(req[q].old)'
      <3>1. req[q].at = "deleteOld" => req[q].old # NoKey /\ ~Stored(req[q].old)
        BY <2>1 DEF Fits, WithOld
      <3>2. req[r].key # NoKey => req[q].old # req[r].key
        BY DEF Inv, Apart
      <3> QED BY <2>1, <2>2, <3>1, <3>2, KeyAssumption
    <2>6. req[q].at \in {"probe", "store"} => req[q].key # NoKey
      BY <2>1 DEF Fits, InHand
    <2> QED BY <2>1, <2>2, <2>3, <2>4, <2>5, <2>6 DEF Fits
  <1>3. Apart'
    <2> SUFFICES ASSUME NEW p \in Requests, NEW q \in Requests, req'[p].key # NoKey
                 PROVE  req'[q].old # req'[p].key /\ (q # p => req'[q].key # req'[p].key)
      BY DEF Apart
    <2>1. CASE p # r /\ q # r
      BY <2>1 DEF OnlyOne, Inv, Apart
    <2>2. CASE p # r /\ q = r
      <3>1. req'[p] = req[p] /\ req[p].key \in Keys
        BY <1>1, <2>2 DEF OnlyOne, ReqType
      <3>2. keys[req[p].key].life # "unborn" /\ ~Stored(req[p].key)
        BY <3>1 DEF Inv, Fits
      <3> QED BY <2>2, <3>1, <3>2 DEF Inv, Apart
    <2>3. CASE p = r /\ q # r
      <3>1. req'[q] = req[q]
        BY <2>3 DEF OnlyOne
      <3>2. /\ req[q].old # NoKey => keys[req[q].old].life # "unborn"
            /\ req[q].key # NoKey => keys[req[q].key].life # "unborn"
        BY DEF Inv, Fits
      <3> QED BY <2>3, <3>1, <3>2 DEF Inv, Apart
    <2>4. CASE p = r /\ q = r
      BY <2>4
    <2> QED BY <2>1, <2>2, <2>3, <2>4
  <1> QED BY <1>2, <1>3 DEF Inv

\* The steps at which a request has nothing to do with a particular key.
PlainSteps == AllSteps \ (InHand \cup WithOld \cup {"issue"})

LetsGo(r) ==
    /\ OnlyOne(r) /\ req'[r].at \in PlainSteps /\ req'[r].key = NoKey
    /\ req'[r].old = NoKey \/ (req'[r].old = req[r].old /\ req'[r].acct = req[r].acct)

LEMMA LettingGo ==
    ASSUME Inv, NEW r \in Requests
    PROVE  /\ End(r) \/ Abort(r) => LetsGo(r)
           /\ \A step \in PlainSteps : Go(r, step) /\ req[r].at \notin InHand => LetsGo(r)
           /\ \A op \in Kinds, a \in Accounts, step \in PlainSteps : Arrive(r, op, a, step) => LetsGo(r)
  <1>1. req[r] \in ReqType /\ Fits(req[r]) /\ TypeOK
    BY Parts DEF Inv
  <1>2. "idle" \in PlainSteps /\ "undoSession" \in PlainSteps /\ PlainSteps \subseteq AllSteps
    BY DEF PlainSteps, AllSteps, InHand, WithOld
  <1>3. End(r) \/ Abort(r) => LetsGo(r)
    BY <1>1, <1>2, Ended, Aborted, IdleType DEF LetsGo
  <1>4. ASSUME NEW step \in PlainSteps, Go(r, step), req[r].at \notin InHand PROVE LetsGo(r)
    <2>1. req[r].key = NoKey
      BY <1>1, <1>4 DEF Fits
    <2> QED BY <1>1, <1>2, <1>4, <2>1, Gone DEF LetsGo
  <1>5. ASSUME NEW op \in Kinds, NEW a \in Accounts, NEW step \in PlainSteps, Arrive(r, op, a, step)
        PROVE  LetsGo(r)
    <2> DEFINE new == [Idle EXCEPT !.op = op, !.at = step, !.acct = a]
    <2>1. new \in ReqType /\ new.at = step /\ new.key = NoKey /\ new.old = NoKey
      BY <1>2, IdleType DEF ReqType
    <2>2. req' = [req EXCEPT ![r] = new]
      BY <1>5 DEF Arrive
    <2> HIDE DEF new
    <2> QED BY <1>1, <2>1, <2>2, Parts DEF LetsGo, OnlyOne
  <1> QED BY <1>3, <1>4, <1>5

\* A request that lets go of its key, and tables in which no more keys are stored.
LEMMA LetsGoKeeps ==
    ASSUME Inv, NEW r \in Requests, LetsGo(r), UNCHANGED <<keys, had>>,
           row' \in [Accounts -> RowType], Rows', \A k \in Keys : Stored(k)' => Stored(k),
           sessions' \subseteq Accounts, logged' \subseteq Keys \cup Accounts
    PROVE  Inv'
  <1>1. TypeOK'
    BY Retyped, Parts DEF Inv, LetsGo, OnlyOne
  <1>2. Scoped' /\ Aging
    BY DEF Inv, Scoped, Aging
  <1>3. Fits(req[r])'
    BY DEF Inv, Fits, LetsGo, PlainSteps, InHand, WithOld
  <1>4. \A q \in Requests : req[q].key # NoKey => keys'[req[q].key].life \in {"live", "external"}
    BY DEF Inv, Fits
  <1> QED BY <1>1, <1>2, <1>3, <1>4, StepKeeps DEF LetsGo

LEMMA SilentKeeps ==
    ASSUME Inv, NEW r \in Requests, LetsGo(r), UNCHANGED <<row, keys, had>>,
           sessions' \subseteq Accounts, logged' \subseteq Keys \cup Accounts
    PROVE  Inv'
  <1>1. Rows' /\ row' \in [Accounts -> RowType] /\ \A k \in Keys : Stored(k)' => Stored(k)
    BY Parts DEF Inv, Rows, Stored
  <1> QED BY <1>1, LetsGoKeeps

\* The row of a changes, but for its key, which may go.
LEMMA RowKeeps ==
    ASSUME Inv, NEW r \in Requests, LetsGo(r), UNCHANGED <<keys, had, sessions, logged>>,
           NEW a \in Accounts, NEW new \in RowType, row' = [row EXCEPT ![a] = new],
           new.key # NoKey => new.key = row[a].key /\ new.exists
    PROVE  Inv'
  <1>1. /\ row' \in [Accounts -> RowType] /\ row'[a] = new
        /\ \A b \in Accounts : b # a => row'[b] = row[b]
    BY Parts DEF Inv
  <1>2. Rows' /\ \A k \in Keys : Stored(k)' => Stored(k)
    BY <1>1, KeyAssumption DEF Inv, Rows, Stored
  <1> QED BY <1>1, <1>2, LetsGoKeeps, Parts DEF Inv

-----------------------------------------------------------------------------
(* The actions, one by one.                                                *)

LEMMA Request ==
    ASSUME Inv, NEW r \in Requests
    PROVE  /\ req[r] \in ReqType /\ Fits(req[r]) /\ req[r].acct \in Accounts
           /\ row \in [Accounts -> RowType] /\ row[req[r].acct] \in RowType
           /\ keys \in [Keys -> KeyType] /\ had \in [Keys -> SUBSET Scopes]
           /\ sessions \subseteq Accounts /\ logged \subseteq Keys \cup Accounts
  BY Parts DEF Inv, ReqType

LEMMA PlainStepsAre ==
    {"addRow", "getSession", "postSession", "dropRow", "account", "readKey", "undoSession",
     "deleting", "dropSession", "revokeRead", "forget", "session"} \subseteq PlainSteps
  BY DEF PlainSteps, AllSteps, InHand, WithOld

LEMMA RowTypes ==
    /\ NewRow \in RowType /\ NewRow.key = NoKey /\ NoRow \in RowType /\ NoRow.key = NoKey
    /\ ~NoRow.exists
  BY DEF NewRow, NoRow, RowType, Row

LEMMA CreateAccountKeeps == ASSUME Inv, NEW r \in Requests, CreateAccount(r) PROVE Inv'
  <1>1. CASE \E b \in Targets : Arrive(r, "create", b, "addRow")
    BY <1>1, LettingGo, PlainStepsAre, SilentKeeps, Request, KeyAssumption DEF Arrive, Kinds
  <1>2. CASE At(r, "undoSession") /\ Go(r, "dropRow")
    <2>1. LetsGo(r)
      BY <1>2, LettingGo, PlainStepsAre DEF At, InHand
    <2>2. sessions' \subseteq Accounts /\ logged' \subseteq Keys \cup Accounts /\ UNCHANGED <<row, keys, had>>
      BY <1>2, Request DEF CreateAccount, At, Arrive
    <2> QED BY <2>1, <2>2, SilentKeeps
  <1> QED BY <1>1, <1>2 DEF CreateAccount

LEMMA AddRowKeeps == ASSUME Inv, NEW r \in Requests, AddRow(r) PROVE Inv'
  <1>1. At(r, "addRow") /\ UNCHANGED <<keys, had, sessions, logged>>
    BY DEF AddRow, DatabaseFails
  <1>2. LetsGo(r)
    BY <1>1, LettingGo, PlainStepsAre DEF AddRow, At, InHand
  <1>3. CASE UNCHANGED row
    BY <1>1, <1>2, <1>3, Request, SilentKeeps
  <1>4. CASE row' = [row EXCEPT ![req[r].acct] = NewRow]
    BY <1>1, <1>2, <1>4, Request, RowTypes, RowKeeps
  <1> QED BY <1>3, <1>4 DEF AddRow, DatabaseFails

LEMMA CreateSessionKeeps == ASSUME Inv, NEW r \in Requests, CreateSession(r) PROVE Inv'
  <1>1. UNCHANGED <<row, keys, had, logged>> /\ sessions' \subseteq Accounts
    BY Request DEF CreateSession
  <1>2. req[r].at \notin InHand
    BY DEF CreateSession, At, InHand
  <1>3. End(r) \/ \E step \in {"account", "dropRow", "postSession"} : Go(r, step)
    BY DEF CreateSession
  <1>4. LetsGo(r)
    BY <1>2, <1>3, LettingGo, PlainStepsAre
  <1> QED BY <1>1, <1>4, Request, SilentKeeps

LEMMA DropRowKeeps == ASSUME Inv, NEW r \in Requests, DropRow(r) PROVE Inv'
  <1>1. LetsGo(r) /\ UNCHANGED <<keys, had, sessions, logged>>
    BY LettingGo DEF DropRow, DatabaseFails
  <1>2. CASE UNCHANGED row
    BY <1>1, <1>2, Request, SilentKeeps
  <1>3. CASE row' = [row EXCEPT ![req[r].acct] = NoRow]
    BY <1>1, <1>3, Request, RowTypes, RowKeeps
  <1> QED BY <1>2, <1>3 DEF DropRow, DatabaseFails

LEMMA SessionKeeps == ASSUME Inv, NEW r \in Requests, Session(r) PROVE Inv'
  <1>1. ASSUME NEW b \in Targets, NEW op \in {"connect", "reset"}, Arrive(r, op, b, "session") PROVE Inv'
    <2>1. op \in Kinds /\ b \in Accounts /\ "session" \in PlainSteps
      BY PlainStepsAre, KeyAssumption DEF Kinds
    <2>2. LetsGo(r)
      BY <1>1, <2>1, LettingGo
    <2> QED BY <1>1, <2>2, SilentKeeps, Request DEF Arrive
  <1>2. CASE At(r, "session") /\ End(r) /\ UNCHANGED <<row, keys, had, logged>>
    <2>1. sessions' \subseteq Accounts
      BY <1>2, Request DEF Session, At, Arrive
    <2> QED BY <1>2, <2>1, LettingGo, Request, SilentKeeps
  <1> QED BY <1>1, <1>2 DEF Session

LEMMA DeleteAccountKeeps == ASSUME Inv, NEW r \in Requests, DeleteAccount(r) PROVE Inv'
  <1>1. CASE \E b \in Targets : Arrive(r, "delete", b, "deleting")
    BY <1>1, LettingGo, PlainStepsAre, SilentKeeps, Request, KeyAssumption DEF Arrive, Kinds
  <1>2. CASE req[r].at \in {"deleting", "dropSession"}
    <2>1. UNCHANGED <<row, keys, had, logged>> /\ sessions' \subseteq Accounts
      BY <1>2, Request DEF DeleteAccount, At, Arrive
    <2>2. End(r) \/ \E step \in {"revokeRead", "dropSession", "dropRow"} : Go(r, step)
      BY <1>2 DEF DeleteAccount, At, Arrive
    <2>3. LetsGo(r)
      BY <1>2, <2>2, LettingGo, PlainStepsAre DEF InHand
    <2> QED BY <2>1, <2>3, Request, SilentKeeps
  <1> QED BY <1>1, <1>2 DEF DeleteAccount, At

\* A request that learns the key of its account.
LEMMA LearnsKeeps ==
    ASSUME Inv, NEW r \in Requests, UNCHANGED <<row, keys, had, sessions, logged>>,
           NEW step \in {"fetch", "issue", "revoke"}, req[r].at \notin InHand,
           req' = [req EXCEPT ![r] = [req[r] EXCEPT !.old = row[req[r].acct].key, !.at = step]],
           step # "issue" \/ req[r].op = "rotate" => row[req[r].acct].key # NoKey
    PROVE  Inv'
  <1> DEFINE k == row[req[r].acct].key
             new == [req[r] EXCEPT !.old = k, !.at = step]
  <1>1. k \in Keys \cup {NoKey} /\ step \in AllSteps
    BY Request DEF RowType, Row, AllSteps
  <1>2. /\ new \in ReqType /\ new.at = step /\ new.old = k /\ new.op = req[r].op
        /\ new.acct = req[r].acct /\ new.key = req[r].key
    BY <1>1, Request DEF ReqType
  <1>3. req' = [req EXCEPT ![r] = new]
    OBVIOUS
  <1> HIDE DEF new
  <1>4. OnlyOne(r) /\ req'[r] = new
    BY <1>2, <1>3, Parts DEF OnlyOne, Inv
  <1>5. req[r].key = NoKey
    BY Request DEF Fits
  <1>6. /\ TypeOK' /\ Rows' /\ Scoped' /\ Aging /\ \A l \in Keys : Stored(l)' => Stored(l)
        /\ \A q \in Requests : req[q].key # NoKey => keys'[req[q].key].life \in {"live", "external"}
    BY <1>4, Parts, Retyped DEF OnlyOne, Inv, Rows, Scoped, Aging, Stored, Fits
  <1>7. k # NoKey => keys[k].life # "unborn" /\ keys[k].acct = req[r].acct /\ Stored(k)
    BY Request DEF Inv, Rows, Stored
  <1>8. Fits(req[r])'
    BY <1>2, <1>4, <1>5, <1>7 DEF Fits, InHand, WithOld
  <1> QED BY <1>2, <1>4, <1>5, <1>6, <1>7, <1>8, StepKeeps

LEMMA KeyActionKeeps == ASSUME Inv, NEW r \in Requests, KeyAction(r) PROVE Inv'
  <1>1. CASE \E b \in Targets, new \in {"provision", "rotate", "verify", "repair"} :
               Arrive(r, new, b, "account")
    BY <1>1, LettingGo, PlainStepsAre, SilentKeeps, Request, KeyAssumption DEF Arrive, Kinds
  <1>2. CASE At(r, "account") /\ ~\E b \in Targets, new \in {"provision", "rotate", "verify", "repair"} :
               Arrive(r, new, b, "account")
    <2>1. UNCHANGED <<row, keys, had, sessions, logged>> /\ (Go(r, "readKey") \/ Abort(r))
      BY <1>2 DEF KeyAction, At
    <2>2. LetsGo(r)
      BY <1>2, <2>1, LettingGo, PlainStepsAre DEF At, InHand
    <2> QED BY <2>1, <2>2, Request, SilentKeeps
  <1>3. CASE /\ At(r, "readKey") /\ UNCHANGED <<row, keys, had, sessions, logged>>
             /\ IF (req[r].op \in {"create", "provision"}) = (row[req[r].acct].key # NoKey)
                THEN Abort(r)
                ELSE req' = [req EXCEPT ![r].old = row[req[r].acct].key,
                                        ![r].at = IF req[r].op \in {"verify", "repair"} THEN "fetch" ELSE "issue"]
    <2> DEFINE step == IF req[r].op \in {"verify", "repair"} THEN "fetch" ELSE "issue"
    <2>1. CASE Abort(r)
      BY <1>3, <2>1, LettingGo, Request, SilentKeeps
    <2>2. CASE ~Abort(r)
      <3>1. req' = [req EXCEPT ![r] = [req[r] EXCEPT !.old = row[req[r].acct].key, !.at = step]]
        BY <1>3, <2>2, Parts DEF Inv
      <3>2. /\ step \in {"fetch", "issue", "revoke"}
            /\ step # "issue" \/ req[r].op = "rotate" => row[req[r].acct].key # NoKey
        BY <1>3, <2>2
      <3>3. req[r].at \notin InHand
        BY <1>3 DEF At, InHand
      <3> HIDE DEF step
      <3> QED BY <1>3, <3>1, <3>2, <3>3, LearnsKeeps
    <2> QED BY <2>1, <2>2
  <1> QED BY <1>1, <1>2, <1>3 DEF KeyAction

LEMMA CreateKeyKeeps == ASSUME Inv, NEW r \in Requests, CreateKey(r) PROVE Inv'
  <1>1. At(r, "issue") /\ UNCHANGED <<row, sessions, logged>>
    BY DEF CreateKey
  <1>2. CASE Abort(r) /\ UNCHANGED <<keys, had>>
    BY <1>1, <1>2, LettingGo, Request, SilentKeeps
  <1>3. ASSUME NEW k \in Keys, NEW s \in Scopes, NEW b \in Accounts, keys[k].life = "unborn",
               keys' = [keys EXCEPT ![k] = [life |-> "live", acct |-> b, scope |-> s]],
               had' = [had EXCEPT ![k] = {s}],
               req' = [req EXCEPT ![r].at = "readBack", ![r].key = k] \/ Abort(r)
        PROVE  Inv'
    <2> DEFINE born == [life |-> "live", acct |-> b, scope |-> s]
               new == [req[r] EXCEPT !.at = "readBack", !.key = k]
    <2>1. born \in KeyType /\ born.life = "live" /\ born.scope = s
      BY DEF KeyType, Lives
    <2>2. keys' = [keys EXCEPT ![k] = born]
      BY <1>3
    <2> HIDE DEF born
    <2>3. /\ keys' \in [Keys -> KeyType] /\ keys'[k] = born
          /\ \A j \in Keys : j # k => keys'[j] = keys[j]
      BY <2>1, <2>2, Request
    <2>4. /\ had' \in [Keys -> SUBSET Scopes] /\ had'[k] = {s}
          /\ \A j \in Keys : j # k => had'[j] = had[j]
      BY <1>3, Request
    <2>5. Aging /\ Scoped'
      BY <1>3, <2>1, <2>3, <2>4 DEF Aging, Inv, Scoped
    <2>6. \A a \in Accounts : row[a].key # NoKey => row[a].key \in Keys /\ row[a].key # k
      BY <1>3, Request DEF Inv, Rows, RowType, Row
    <2>7. Rows' /\ ~Stored(k) /\ \A j \in Keys : Stored(j)' => Stored(j)
      BY <1>1, <2>3, <2>4, <2>6, KeyAssumption DEF Inv, Rows, Stored
    <2>8. \A q \in Requests : req[q].key # NoKey => keys'[req[q].key].life \in {"live", "external"}
      <3> SUFFICES ASSUME NEW q \in Requests, req[q].key # NoKey
                   PROVE  keys'[req[q].key].life \in {"live", "external"}
        OBVIOUS
      <3>1. req[q].key \in Keys /\ keys[req[q].key].life \in {"live", "external"}
        BY Request DEF Fits, ReqType
      <3> QED BY <1>3, <2>3, <3>1
    <2>9. req[r].key = NoKey /\ req[r].old # k
      BY <1>1, <1>3, Request, KeyAssumption DEF Fits, At, InHand
    <2>10. CASE req' = [req EXCEPT ![r].at = "readBack", ![r].key = k]
      <3>1. req' = [req EXCEPT ![r] = new]
        BY <2>10, Parts DEF Inv
      <3>2. /\ new \in ReqType /\ new.at = "readBack" /\ new.key = k /\ new.old = req[r].old
            /\ new.op = req[r].op /\ new.acct = req[r].acct
        BY Request DEF ReqType, AllSteps
      <3> HIDE DEF new
      <3>3. OnlyOne(r) /\ req'[r] = new
        BY <3>1, <3>2, Parts DEF OnlyOne, Inv
      <3>4. TypeOK'
        BY <1>1, <2>3, <2>4, <3>3, Request, Retyped DEF OnlyOne
      <3>5. new.old # NoKey => new.old \in Keys /\ keys[new.old].life # "unborn" /\ keys[new.old].acct = new.acct
        BY <3>2, Request DEF Fits, ReqType
      <3>6. new.op = "rotate" => new.old # NoKey
        BY <1>1, <3>2, Request DEF Fits, At
      <3>7. Fits(req[r])'
        BY <2>1, <2>3, <2>5, <2>7, <3>2, <3>3, <3>5, <3>6, KeyAssumption DEF Fits, InHand, WithOld, Aging
      <3> QED BY <1>3, <2>5, <2>7, <2>8, <2>9, <3>2, <3>3, <3>4, <3>7, StepKeeps
    <2>11. CASE Abort(r)
      <3>1. LetsGo(r) /\ TypeOK'
        BY <1>1, <2>3, <2>4, <2>11, LettingGo, Request, Retyped DEF OnlyOne, LetsGo
      <3>2. Fits(req[r])'
        BY <2>11, Aborted DEF Fits, InHand, WithOld, Inv
      <3> QED BY <2>5, <2>7, <2>8, <3>1, <3>2, StepKeeps DEF LetsGo
    <2> QED BY <1>3, <2>10, <2>11
  <1> QED BY <1>2, <1>3 DEF CreateKey

\* A request that goes on with the key in its hands, or ends a wait with none.
LEMMA GoesOnKeeps ==
    ASSUME Inv, NEW r \in Requests, UNCHANGED <<row, keys, had, sessions, logged>>,
           OnlyOne(r), req'[r].key = req[r].key, req'[r].old = req[r].old,
           req'[r].op = req[r].op, req'[r].acct = req[r].acct,
           req[r].at \in InHand, req'[r].at \in InHand,
           req'[r].at \in {"probe", "store"} =>
               keys[req[r].key].acct = req[r].acct /\ "policy" \in had[req[r].key]
    PROVE  Inv'
  <1>1. /\ TypeOK' /\ Rows' /\ Scoped' /\ Aging /\ \A k \in Keys : Stored(k)' => Stored(k)
        /\ \A q \in Requests : req[q].key # NoKey => keys'[req[q].key].life \in {"live", "external"}
    BY Parts, Retyped DEF OnlyOne, Inv, Rows, Scoped, Aging, Stored, Fits
  <1>2. Fits(req[r])'
    BY Request DEF Fits, InHand, WithOld, Stored
  <1>3. req[r].key # NoKey /\ req[r].old # req[r].key
    BY Request DEF Inv, Apart, Fits
  <1> QED BY <1>1, <1>2, <1>3, StepKeeps

LEMMA CheckKeyKeeps == ASSUME Inv, NEW r \in Requests, CheckKey(r) PROVE Inv'
  <1>1. UNCHANGED <<row, keys, had, sessions, logged>> /\ req[r].at \in InHand
    BY DEF CheckKey, At, InHand
  <1>2. req[r].key \in Keys
    BY <1>1, Request DEF Fits, ReqType
  <1>3. CASE ReadsBack(r) /\ req' = [req EXCEPT ![r].at = "probe", ![r].scope = keys[req[r].key].scope]
    <2> DEFINE s == keys[req[r].key].scope
               new == [req[r] EXCEPT !.at = "probe", !.scope = s]
    <2>1. s \in Scopes /\ s = "policy" /\ keys[req[r].key].acct = req[r].acct
      BY <1>2, <1>3, Request DEF ReadsBack, KeyType
    <2>2. s \in had[req[r].key]
      BY <1>2, <1>3 DEF Inv, Scoped, ReadsBack
    <2>3. req' = [req EXCEPT ![r] = new]
      BY <1>3, Parts DEF Inv
    <2>4. /\ new \in ReqType /\ new.at = "probe" /\ new.key = req[r].key /\ new.old = req[r].old
          /\ new.op = req[r].op /\ new.acct = req[r].acct
      BY <2>1, Request DEF ReqType, AllSteps
    <2> HIDE DEF new
    <2>5. OnlyOne(r) /\ req'[r] = new /\ "probe" \in InHand
      BY <2>3, <2>4, Parts DEF OnlyOne, Inv, InHand
    <2> QED BY <1>1, <2>1, <2>2, <2>4, <2>5, GoesOnKeeps
  <1>4. CASE Go(r, "discard")
    <2>1. "discard" \in AllSteps /\ "discard" \in InHand
      BY DEF AllSteps, InHand
    <2>2. /\ OnlyOne(r) /\ req'[r].at = "discard" /\ req'[r].op = req[r].op
          /\ req'[r].acct = req[r].acct /\ req'[r].key = req[r].key /\ req'[r].old = req[r].old
      BY <1>4, <2>1, Gone DEF Inv
    <2> QED BY <1>1, <2>1, <2>2, GoesOnKeeps
  <1>5. CASE At(r, "probe") /\ Go(r, "store")
    <2>1. "store" \in AllSteps /\ "store" \in InHand
      BY DEF AllSteps, InHand
    <2>2. /\ OnlyOne(r) /\ req'[r].at = "store" /\ req'[r].op = req[r].op
          /\ req'[r].acct = req[r].acct /\ req'[r].key = req[r].key /\ req'[r].old = req[r].old
      BY <1>5, <2>1, Gone DEF Inv
    <2>3. keys[req[r].key].acct = req[r].acct /\ "policy" \in had[req[r].key]
      BY <1>5, Request DEF Fits, At
    <2> QED BY <1>1, <2>1, <2>2, <2>3, GoesOnKeeps
  <1> QED BY <1>3, <1>4, <1>5 DEF CheckKey

LEMMA StoreKeeps == ASSUME Inv, NEW r \in Requests, Store(r) PROVE Inv'
  <1> DEFINE a == req[r].acct
             k == req[r].key
             x == req[r].old
             stored == [row[a] EXCEPT !.key = k, !.actions = req[r].scope]
  <1>1. At(r, "store") /\ UNCHANGED <<keys, had, sessions, logged>> /\ req[r].at \in InHand
    BY DEF Store, DatabaseFails, At, InHand
  <1>2. /\ k \in Keys /\ k # NoKey /\ ~Stored(k) /\ keys[k].life \in {"live", "external"}
        /\ keys[k].acct = a /\ "policy" \in had[k] /\ x # k
    BY <1>1, Request DEF Fits, At, ReqType, Inv, Apart
  <1>3. CASE Go(r, "discard") /\ UNCHANGED row
    <2>1. "discard" \in AllSteps /\ "discard" \in InHand
      BY DEF AllSteps, InHand
    <2>2. /\ OnlyOne(r) /\ req'[r].at = "discard" /\ req'[r].op = req[r].op
          /\ req'[r].acct = a /\ req'[r].key = k /\ req'[r].old = x
      BY <1>3, <2>1, Gone DEF Inv
    <2> QED BY <1>1, <1>3, <2>1, <2>2, GoesOnKeeps
  <1>4. CASE /\ row' = IF row[a].exists THEN [row EXCEPT ![a].key = k, ![a].actions = req[r].scope] ELSE row
             /\ IF req[r].op = "rotate"
                THEN req' = [req EXCEPT ![r].at = "deleteOld", ![r].key = NoKey]
                ELSE End(r)
    <2>1. /\ stored \in RowType /\ stored.key = k /\ stored.exists = row[a].exists
          /\ row[a].exists => row' = [row EXCEPT ![a] = stored]
      BY <1>2, <1>4, Request DEF RowType, Row, ReqType
    <2> HIDE DEF stored
    <2>2. /\ row' \in [Accounts -> RowType] /\ \A b \in Accounts : b # a => row'[b] = row[b]
          /\ IF row[a].exists THEN row'[a] = stored ELSE row'[a] = row[a]
      BY <1>4, <2>1, Request
    <2>3. Rows' /\ \A j \in Keys : Stored(j)' => Stored(j) \/ j = k
      <3>1. \A b \in Accounts : \/ row'[b].key = row[b].key /\ row'[b].exists = row[b].exists
                                \/ b = a /\ row'[b].key = k /\ row'[b].exists
        BY <2>1, <2>2
      <3>2. \A j \in Keys : Stored(j)' => Stored(j) \/ j = k
        BY <3>1 DEF Stored
      <3>3. Rows'
        BY <1>1, <1>2, <3>1 DEF Inv, Rows
      <3> QED BY <3>2, <3>3
    <2>4. x # NoKey => x \in Keys /\ keys[x].life # "unborn" /\ keys[x].acct = a
      BY Request DEF Fits, ReqType
    <2>5. ASSUME x # NoKey, NEW b \in Accounts, row'[b].key = x PROVE FALSE
      <3>1. keys[x].acct = b /\ row'[b].exists
        BY <1>1, <2>3, <2>5 DEF Rows
      <3> QED BY <1>2, <2>1, <2>2, <2>4, <2>5, <3>1
    <2>6. Scoped' /\ Aging /\ \A q \in Requests : req[q].key # NoKey => keys'[req[q].key].life \in {"live", "external"}
      BY <1>1 DEF Inv, Scoped, Aging, Fits
    <2>7. CASE req[r].op = "rotate"
      <3> DEFINE new == [req[r] EXCEPT !.at = "deleteOld", !.key = NoKey]
      <3>1. req' = [req EXCEPT ![r] = new]
        BY <1>4, <2>7, Parts DEF Inv
      <3>2. /\ new \in ReqType /\ new.at = "deleteOld" /\ new.key = NoKey /\ new.old = x
            /\ new.acct = a
        BY Request DEF ReqType, AllSteps
      <3> HIDE DEF new
      <3>3. OnlyOne(r) /\ req'[r] = new
        BY <3>1, <3>2, Parts DEF OnlyOne, Inv
      <3>4. TypeOK'
        BY <1>1, <2>2, <3>3, Request, Retyped DEF OnlyOne
      <3>5. x # NoKey
        BY <1>1, <2>7, Request DEF Fits
      <3>6. Fits(req[r])'
        BY <1>1, <2>4, <2>5, <3>2, <3>3, <3>5 DEF Fits, Stored, InHand, WithOld
      <3> QED BY <2>3, <2>6, <3>2, <3>3, <3>4, <3>6, StepKeeps
    <2>8. CASE End(r)
      <3>1. LetsGo(r) /\ TypeOK'
        BY <1>1, <2>2, <2>8, LettingGo, Request, Retyped DEF OnlyOne, LetsGo
      <3>2. Fits(req[r])' /\ req'[r].key = NoKey /\ req'[r].old = NoKey
        BY <2>8, Ended, IdleType DEF Fits, InHand, WithOld, Inv
      <3> QED BY <2>3, <2>6, <3>1, <3>2, StepKeeps DEF LetsGo
    <2> QED BY <1>4, <2>7, <2>8
  <1> QED BY <1>1, <1>3, <1>4 DEF Store, DatabaseFails

\* A key dies that nobody has in their hands, but perhaps the request that now
\* lets go; and if an account has it, then by its deletion or from outside.
LEMMA KillKeeps ==
    ASSUME Inv, NEW r \in Requests, LetsGo(r), UNCHANGED <<row, had, sessions>>,
           logged' \subseteq Keys \cup Accounts, NEW k \in Keys,
           NEW life \in Lives \ {"unborn"}, DeleteKey(k, life) \/ UNCHANGED keys,
           life \in {"revoked", "external"} \/ ~Stored(k),
           \A q \in Requests : q # r => req[q].key # k
    PROVE  Inv'
  <1>1. UNCHANGED keys \/ (keys[k].life = "live" /\ keys' = [keys EXCEPT ![k].life = life])
    BY DEF DeleteKey
  <1>2. CASE UNCHANGED keys
    BY <1>2, Request, SilentKeeps
  <1>3. CASE keys[k].life = "live" /\ keys' = [keys EXCEPT ![k].life = life]
    <2>1. /\ keys' \in [Keys -> KeyType] /\ \A j \in Keys : j # k => keys'[j] = keys[j]
          /\ keys'[k].life = life /\ keys'[k].acct = keys[k].acct /\ keys'[k].scope = keys[k].scope
      BY <1>3, Request DEF KeyType
    <2>2. Aging /\ Scoped'
      BY <1>3, <2>1 DEF Aging, Inv, Scoped
    <2>3. Rows' /\ \A j \in Keys : Stored(j)' => Stored(j)
      BY <2>1, Request DEF Inv, Rows, Stored, RowType, Row
    <2>4. TypeOK'
      BY <2>1, Request, Retyped DEF LetsGo, OnlyOne
    <2>5. \A q \in Requests : q # r /\ req[q].key # NoKey => keys'[req[q].key].life \in {"live", "external"}
      <3> SUFFICES ASSUME NEW q \in Requests, q # r, req[q].key # NoKey
                   PROVE  keys'[req[q].key].life \in {"live", "external"}
        OBVIOUS
      <3>1. req[q].key \in Keys /\ keys[req[q].key].life \in {"live", "external"}
        BY Request DEF Fits, ReqType
      <3> QED BY <2>1, <3>1
    <2>6. req'[r].old # NoKey => /\ req'[r].old = req[r].old /\ req'[r].acct = req[r].acct
                                 /\ keys'[req[r].old].life # "unborn" /\ keys'[req[r].old].acct = req[r].acct
      BY <2>2, Request DEF LetsGo, Fits, Aging, ReqType
    <2>7. Fits(req[r])'
      BY <2>6 DEF Fits, LetsGo, PlainSteps, InHand, WithOld
    <2> QED BY <2>2, <2>3, <2>4, <2>5, <2>7, StepKeeps DEF LetsGo
  <1> QED BY <1>1, <1>2, <1>3

LEMMA DeleteOldKeeps == ASSUME Inv, NEW r \in Requests, DeleteOld(r) PROVE Inv'
  <1> DEFINE k == req[r].old
  <1>1. k \in Keys /\ ~Stored(k) /\ \A q \in Requests : req[q].key # k
    BY Request, KeyAssumption DEF DeleteOld, At, Fits, WithOld, ReqType, Inv, Apart
  <1>2. LetsGo(r) /\ UNCHANGED <<row, had, sessions>>
    BY LettingGo DEF DeleteOld
  <1>3. "rotated" \in Lives \ {"unborn"} /\ (DeleteKey(k, "rotated") \/ UNCHANGED keys)
    BY DEF DeleteOld, Lives
  <1>4. logged' \subseteq Keys \cup Accounts
    BY <1>1, Request DEF DeleteOld
  <1> QED BY <1>1, <1>2, <1>3, <1>4, KillKeeps

LEMMA DiscardKeeps == ASSUME Inv, NEW r \in Requests, Discard(r) PROVE Inv'
  <1> DEFINE k == req[r].key
  <1>1. k \in Keys /\ ~Stored(k) /\ \A q \in Requests : q # r => req[q].key # k
    BY Request, KeyAssumption DEF Discard, At, Fits, InHand, ReqType, Inv, Apart
  <1>2. LetsGo(r) /\ UNCHANGED <<row, had, sessions>>
    BY LettingGo DEF Discard
  <1>3. "discarded" \in Lives \ {"unborn"} /\ (DeleteKey(k, "discarded") \/ UNCHANGED keys)
    BY DEF Discard, Lives
  <1>4. logged' \subseteq Keys \cup Accounts
    BY <1>1, Request DEF Discard
  <1> QED BY <1>1, <1>2, <1>3, <1>4, KillKeeps

LEMMA RevokeKeeps == ASSUME Inv, NEW r \in Requests, Revoke(r) PROVE Inv'
  <1> DEFINE a == req[r].acct
  <1>1. UNCHANGED <<had, sessions, logged>>
    BY DEF Revoke
  <1>2. CASE At(r, "revokeRead")
    <2>1. UNCHANGED <<row, keys>> /\ req[r].at \notin InHand
      BY <1>2 DEF Revoke, At, InHand
    <2>2. CASE row[a].key = NoKey
      BY <1>1, <1>2, <2>1, <2>2, LettingGo, PlainStepsAre, Request, SilentKeeps DEF Revoke, At
    <2>3. CASE row[a].key # NoKey
      <3>1. req' = [req EXCEPT ![r] = [req[r] EXCEPT !.old = row[a].key, !.at = "revoke"]]
        BY <1>2, <2>3, Parts DEF Revoke, At, Inv
      <3> QED BY <1>1, <2>1, <2>3, <3>1, LearnsKeeps
    <2> QED BY <2>2, <2>3
  <1>3. CASE At(r, "revoke")
    <2> DEFINE k == req[r].old
    <2>1. k \in Keys /\ \A q \in Requests : req[q].key # k
      BY <1>3, Request, KeyAssumption DEF At, Fits, WithOld, ReqType, Inv, Apart
    <2>2. UNCHANGED row /\ req[r].at \notin InHand /\ (Go(r, "forget") \/ End(r))
      BY <1>3 DEF Revoke, At, InHand
    <2>3. "revoked" \in Lives \ {"unborn"} /\ (DeleteKey(k, "revoked") \/ UNCHANGED keys)
      BY <1>3 DEF Revoke, Lives, At
    <2>4. LetsGo(r)
      BY <2>2, LettingGo, PlainStepsAre
    <2> QED BY <1>1, <2>1, <2>2, <2>3, <2>4, Request, KillKeeps
  <1>4. CASE At(r, "forget")
    <2>1. /\ UNCHANGED keys /\ req[r].at \notin InHand /\ (Go(r, "dropSession") \/ End(r))
          /\ UNCHANGED row \/ row' = [row EXCEPT ![a].key = NoKey, ![a].actions = "none"]
      BY <1>4 DEF Revoke, At, InHand, DatabaseFails
    <2>2. LetsGo(r)
      BY <2>1, LettingGo, PlainStepsAre
    <2>3. CASE UNCHANGED row
      BY <1>1, <2>1, <2>2, <2>3, Request, SilentKeeps
    <2>4. CASE row' = [row EXCEPT ![a].key = NoKey, ![a].actions = "none"]
      <3> DEFINE new == [row[a] EXCEPT !.key = NoKey, !.actions = "none"]
      <3>1. new \in RowType /\ new.key = NoKey /\ row' = [row EXCEPT ![a] = new]
        BY <2>4, Request DEF RowType, Row
      <3> HIDE DEF new
      <3> QED BY <1>1, <2>1, <2>2, <3>1, Request, RowKeeps
    <2> QED BY <2>1, <2>3, <2>4
  <1> QED BY <1>2, <1>3, <1>4 DEF Revoke

LEMMA RecordKeeps == ASSUME Inv, NEW r \in Requests, Record(r) PROVE Inv'
  <1> DEFINE a == req[r].acct
             new == [row[a] EXCEPT !.actions = req[r].scope]
  <1>1. LetsGo(r) /\ UNCHANGED <<keys, had, sessions, logged>>
    BY LettingGo DEF Record, DatabaseFails
  <1>2. CASE UNCHANGED row
    BY <1>1, <1>2, Request, SilentKeeps
  <1>3. CASE row[a].exists /\ row' = [row EXCEPT ![a].actions = req[r].scope]
    <2>1. /\ new \in RowType /\ new.key = row[a].key /\ new.exists
          /\ row' = [row EXCEPT ![a] = new]
      BY <1>3, Request DEF RowType, Row, ReqType
    <2> HIDE DEF new
    <2> QED BY <1>1, <2>1, Request, RowKeeps
  <1> QED BY <1>2, <1>3 DEF Record, DatabaseFails

\* A key is given another scope: nothing of what the invariant says is lost.
LEMMA Rescoped ==
    ASSUME Inv, NEW k \in Keys, keys[k].life = "live", NEW s \in Scopes, UNCHANGED row,
           keys' = [keys EXCEPT ![k].scope = s], had' = [had EXCEPT ![k] = @ \cup {s}]
    PROVE  /\ keys' \in [Keys -> KeyType] /\ had' \in [Keys -> SUBSET Scopes]
           /\ Rows' /\ Scoped' /\ Aging /\ \A j \in Keys : Stored(j)' <=> Stored(j)
           /\ \A j \in Keys : keys'[j].life = keys[j].life
           /\ \A q \in Requests : req[q].key # NoKey => keys'[req[q].key].life \in {"live", "external"}
  <1>1. keys \in [Keys -> KeyType] /\ had \in [Keys -> SUBSET Scopes] /\ row \in [Accounts -> RowType]
    BY Parts DEF Inv
  <1>2. /\ keys' \in [Keys -> KeyType] /\ had' \in [Keys -> SUBSET Scopes]
        /\ \A j \in Keys : /\ keys'[j].life = keys[j].life /\ keys'[j].acct = keys[j].acct
                           /\ had[j] \subseteq had'[j]
                           /\ j # k => keys'[j] = keys[j] /\ had'[j] = had[j]
        /\ keys'[k].scope = s /\ s \in had'[k]
    BY <1>1 DEF KeyType
  <1>3. Scoped' /\ Aging /\ \A j \in Keys : Stored(j)' <=> Stored(j)
    BY <1>2 DEF Inv, Scoped, Aging, Stored
  <1>4. \A a \in Accounts : row[a].key # NoKey => row[a].key \in Keys
    BY <1>1 DEF RowType, Row
  <1>5. Rows'
    BY <1>2, <1>4 DEF Inv, Rows
  <1>6. \A q \in Requests : req[q].key # NoKey => req[q].key \in Keys
    BY Request DEF ReqType
  <1>7. \A q \in Requests : req[q].key # NoKey => keys[req[q].key].life \in {"live", "external"}
    BY DEF Inv, Fits
  <1> QED BY <1>2, <1>3, <1>5, <1>6, <1>7

\* What a request is stays so when its keys only age.
LEMMA FitsAging ==
    ASSUME Inv, NEW q \in Requests, Aging, req'[q] = req[q], UNCHANGED row,
           req[q].key # NoKey => keys'[req[q].key].life \in {"live", "external"}
    PROVE  Fits(req[q])'
  <1>1. req[q] \in ReqType /\ Fits(req[q])
    BY Request
  <1>2. req[q].old # NoKey => keys'[req[q].old].life # "unborn" /\ keys'[req[q].old].acct = req[q].acct
    BY <1>1 DEF Aging, Fits, ReqType
  <1>3. req[q].at \in {"probe", "store"} =>
           keys'[req[q].key].acct = req[q].acct /\ "policy" \in had'[req[q].key]
    <2>1. req[q].at \in {"probe", "store"} => req[q].key \in Keys /\ keys[req[q].key].life # "unborn"
      BY <1>1 DEF Fits, InHand, ReqType
    <2> QED BY <1>1, <2>1 DEF Aging, Fits
  <1> QED BY <1>1, <1>2, <1>3 DEF Fits, Stored

LEMMA ReapplyKeeps == ASSUME Inv, NEW r \in Requests, Reapply(r) PROVE Inv'
  <1> DEFINE k == req[r].old
  <1>1. /\ UNCHANGED <<row, sessions, logged>> /\ req[r].at \in {"fetch", "put"}
        /\ req[r].at \notin InHand
    BY DEF Reapply, At, InHand
  <1>2. k \in Keys /\ k # NoKey /\ req[r].key = NoKey
    BY <1>1, Request DEF Fits, WithOld, InHand, ReqType
  <1>3. CASE End(r) /\ UNCHANGED <<keys, had>>
    BY <1>1, <1>3, LettingGo, Request, SilentKeeps
  <1>4. ASSUME NEW s \in Scopes, NEW step \in {"record", "put"},
               req' = [req EXCEPT ![r].scope = s, ![r].at = step] \/ End(r),
               Rows', Scoped', Aging, \A j \in Keys : Stored(j)' <=> Stored(j),
               keys' \in [Keys -> KeyType], had' \in [Keys -> SUBSET Scopes],
               \A q \in Requests : req[q].key # NoKey => keys'[req[q].key].life \in {"live", "external"}
        PROVE  Inv'
    <2>1. keys'[k].life # "unborn" /\ keys'[k].acct = req[r].acct
      BY <1>2, <1>4, Request DEF Aging, Fits
    <2>2. CASE End(r)
      <3>1. LetsGo(r) /\ TypeOK'
        BY <1>1, <1>4, <2>2, LettingGo, Request, Retyped DEF OnlyOne, LetsGo
      <3>2. Fits(req[r])' /\ req'[r].key = NoKey /\ req'[r].old = NoKey
        BY <2>2, Ended, IdleType DEF Fits, InHand, WithOld, Inv
      <3> QED BY <1>4, <3>1, <3>2, StepKeeps DEF LetsGo
    <2>3. CASE req' = [req EXCEPT ![r].scope = s, ![r].at = step]
      <3> DEFINE new == [req[r] EXCEPT !.scope = s, !.at = step]
      <3>1. req' = [req EXCEPT ![r] = new]
        BY <2>3, Parts DEF Inv
      <3>2. /\ new \in ReqType /\ new.at = step /\ new.key = NoKey /\ new.old = k
            /\ new.op = req[r].op /\ new.acct = req[r].acct
        BY <1>2, Request DEF ReqType, AllSteps
      <3> HIDE DEF new
      <3>3. OnlyOne(r) /\ req'[r] = new
        BY <3>1, <3>2, Parts DEF OnlyOne, Inv
      <3>4. TypeOK'
        BY <1>1, <1>4, <3>3, Request, Retyped DEF OnlyOne
      <3>5. Fits(req[r])'
        BY <1>2, <2>1, <3>2, <3>3 DEF Fits, InHand, WithOld
      <3> QED BY <1>4, <3>2, <3>3, <3>4, <3>5, StepKeeps
    <2> QED BY <1>4, <2>2, <2>3
  <1>5. CASE /\ At(r, "fetch") /\ UNCHANGED <<keys, had>>
             /\ req' = [req EXCEPT ![r].scope = keys[k].scope,
                                   ![r].at = IF req[r].op = "verify" THEN "record" ELSE "put"]
    <2> DEFINE s == keys[k].scope
               step == IF req[r].op = "verify" THEN "record" ELSE "put"
    <2>1. s \in Scopes /\ step \in {"record", "put"}
      BY <1>2, Request DEF KeyType
    <2>2. req' = [req EXCEPT ![r].scope = s, ![r].at = step]
      BY <1>5
    <2>3. /\ Rows' /\ Scoped' /\ Aging /\ \A j \in Keys : Stored(j)' <=> Stored(j)
          /\ keys' \in [Keys -> KeyType] /\ had' \in [Keys -> SUBSET Scopes]
          /\ \A q \in Requests : req[q].key # NoKey => keys'[req[q].key].life \in {"live", "external"}
      BY <1>1, <1>5, Request DEF Inv, Rows, Scoped, Aging, Stored, Fits
    <2> HIDE DEF s, step
    <2> QED BY <1>4, <2>1, <2>2, <2>3
  <1>6. ASSUME NEW s \in {"policy", keys[k].scope}, keys[k].life = "live",
               keys' = [keys EXCEPT ![k].scope = s], had' = [had EXCEPT ![k] = @ \cup {s}],
               req' = [req EXCEPT ![r].scope = s, ![r].at = "record"] \/ End(r)
        PROVE  Inv'
    <2>1. s \in Scopes
      BY <1>2, Request DEF KeyType, Scopes
    <2>2. /\ Rows' /\ Scoped' /\ Aging /\ \A j \in Keys : Stored(j)' <=> Stored(j)
          /\ keys' \in [Keys -> KeyType] /\ had' \in [Keys -> SUBSET Scopes]
          /\ \A q \in Requests : req[q].key # NoKey => keys'[req[q].key].life \in {"live", "external"}
      BY <1>1, <1>2, <1>6, <2>1, Rescoped
    <2> QED BY <1>4, <1>6, <2>1, <2>2
  <1> QED BY <1>3, <1>5, <1>6 DEF Reapply

LEMMA DashboardKeeps == ASSUME Inv, Dashboard PROVE Inv'
  <1>1. UNCHANGED <<row, sessions, req, logged>>
    BY DEF Dashboard
  <1>2. PICK k \in Keys :
          /\ keys[k].life = "live"
          /\ \/ \E s \in Scopes : /\ keys' = [keys EXCEPT ![k].scope = s]
                                  /\ had' = [had EXCEPT ![k] = @ \cup {s}]
             \/ keys' = [keys EXCEPT ![k].life = "external"] /\ UNCHANGED had
    BY DEF Dashboard, DeleteKey
  <1>3. /\ keys \in [Keys -> KeyType] /\ had \in [Keys -> SUBSET Scopes]
        /\ row \in [Accounts -> RowType] /\ req \in [Requests -> ReqType]
    BY Parts DEF Inv
  <1>4. \A q \in Requests : req[q].key # NoKey =>
           req[q].key \in Keys /\ keys[req[q].key].life \in {"live", "external"}
    BY Request DEF Fits, ReqType
  <1>5. /\ keys' \in [Keys -> KeyType] /\ had' \in [Keys -> SUBSET Scopes]
        /\ Rows' /\ Scoped' /\ Aging
        /\ \A q \in Requests : req[q].key # NoKey => keys'[req[q].key].life \in {"live", "external"}
    <2>1. CASE \E s \in Scopes : /\ keys' = [keys EXCEPT ![k].scope = s]
                                 /\ had' = [had EXCEPT ![k] = @ \cup {s}]
      BY <1>1, <1>2, <2>1, Rescoped
    <2>2. CASE keys' = [keys EXCEPT ![k].life = "external"] /\ UNCHANGED had
      <3>1. /\ keys' \in [Keys -> KeyType]
            /\ \A j \in Keys : /\ keys'[j].acct = keys[j].acct /\ keys'[j].scope = keys[j].scope
                               /\ keys'[j].life = IF j = k THEN "external" ELSE keys[j].life
        BY <1>3, <2>2 DEF KeyType, Lives
      <3>2. Scoped' /\ Aging
        BY <1>2, <2>2, <3>1 DEF Inv, Scoped, Aging
      <3>3. Rows'
        BY <1>1, <1>3, <2>2, <3>1 DEF Inv, Rows, RowType, Row
      <3> QED BY <1>3, <1>4, <2>2, <3>1, <3>2, <3>3
    <2> QED BY <1>2, <2>1, <2>2
  <1>6. TypeOK'
    BY <1>1, <1>3, <1>5, Parts, Retyped DEF Inv
  <1>7. \A r \in Requests : Fits(req[r])'
    BY <1>1, <1>5, FitsAging
  <1>8. Apart'
    BY <1>1 DEF Inv, Apart
  <1> QED BY <1>5, <1>6, <1>7, <1>8 DEF Inv

LEMMA RestartKeeps == ASSUME Inv, AdminRestart PROVE Inv'
  <1>1. UNCHANGED <<row, keys, had, sessions, logged>> /\ req' = [r \in Requests |-> Idle]
    BY DEF AdminRestart
  <1>2. req' \in [Requests -> ReqType] /\ \A r \in Requests : req'[r] = Idle
    BY <1>1, IdleType
  <1>3. TypeOK'
    BY <1>1, <1>2, Parts, Retyped DEF Inv
  <1>4. Rows' /\ Scoped' /\ Apart'
    BY <1>1, <1>2, IdleType DEF Inv, Rows, Scoped, Apart
  <1>5. \A r \in Requests : Fits(req[r])'
    BY <1>2, IdleType DEF Fits, InHand, WithOld
  <1> QED BY <1>3, <1>4, <1>5 DEF Inv

-----------------------------------------------------------------------------

LEMMA Initially == Init => Inv
  <1> SUFFICES ASSUME Init PROVE Inv
    OBVIOUS
  <1>1. \A r \in Requests : req[r] = Idle /\ Idle \in ReqType
    BY IdleType DEF Init
  <1>2. /\ row = [a \in Accounts |-> IF a = DefaultAccount THEN NewRow ELSE NoRow]
        /\ \A a \in Accounts : row[a] \in RowType /\ row[a].key = NoKey
    BY RowTypes DEF Init
  <1>3. keys \in [Keys -> KeyType] /\ \A k \in Keys : keys[k].life = "unborn"
    BY KeyAssumption DEF Init, KeyType, Lives, Scopes
  <1>4. TypeOK
    BY <1>1, <1>2, <1>3 DEF TypeOK, Init, RowType, KeyType, ReqType
  <1>5. Rows /\ Scoped /\ Apart
    BY <1>1, <1>2, <1>3, IdleType DEF Rows, Scoped, Apart
  <1>6. \A r \in Requests : Fits(req[r])
    BY <1>1, IdleType DEF Fits, InHand, WithOld
  <1> QED BY <1>4, <1>5, <1>6 DEF Inv

LEMMA NextKeeps == Inv /\ [Next]_vars => Inv'
  <1> SUFFICES ASSUME Inv, [Next]_vars PROVE Inv'
    OBVIOUS
  <1>1. ASSUME NEW r \in Requests, Step(r) PROVE Inv'
    BY <1>1, CreateAccountKeeps, AddRowKeeps, CreateSessionKeeps, DropRowKeeps, KeyActionKeeps,
       CreateKeyKeeps, CheckKeyKeeps, StoreKeeps, DeleteOldKeeps, DiscardKeeps, ReapplyKeeps,
       RecordKeeps, DeleteAccountKeeps, RevokeKeeps, SessionKeeps DEF Step
  <1>2. CASE UNCHANGED vars
    BY <1>2 DEF vars, Inv, TypeOK, Rows, Scoped, Apart, Fits, Stored
  <1> QED BY <1>1, <1>2, DashboardKeeps, RestartKeeps DEF Next

\* The invariant holds of every behaviour.
LEMMA Invariance == Spec => []Inv
  BY Initially, NextKeeps, PTL DEF Spec

\* Every field keeps its type, whatever fails and however requests interleave.
THEOREM TypeCorrect == Spec => []TypeOK
  <1>1. Inv => TypeOK
    BY DEF Inv
  <1> QED BY <1>1, Invariance, PTL

\* No rotation and no undo ever deletes the key that an account uses: the old
\* key of a rotation (key_manager.rotate) is out of the table before it is
\* deleted, and the key that _discard deletes was never in it.
THEOREM CurrentKeyStays == Spec => []CurrentKeyKept
  <1>1. Inv => CurrentKeyKept
    BY DEF Inv, Rows, CurrentKeyKept
  <1> QED BY <1>1, Invariance, PTL

\* However requests interleave and calls fail, an account only ever gets a key
\* of its own session that WAHA listed with exactly the policy (_read_back).
THEOREM KeysAreVetted == Spec => []OnlyVettedKeys
  <1>1. Inv => OnlyVettedKeys
    BY DEF Inv, Rows, OnlyVettedKeys
  <1> QED BY <1>1, Invariance, PTL

=============================================================================
