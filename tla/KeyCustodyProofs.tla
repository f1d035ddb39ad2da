--------------------------- MODULE KeyCustodyProofs ---------------------------
(***************************************************************************)
(* Proofs about KeyLifecycle for admin requests that come one at a time:   *)
(* what the table says of an account fits its key and its session, and     *)
(* every key WAHA has is an account's, in a request's hands or reported,   *)
(* so that the key manager implements KeyCustody.                          *)
(***************************************************************************)
EXTENDS KeyLifecycleProofs

\* There is one slot for requests.
OneAtATime == \A r, q \in Requests : r = q

Keyless == {"getSession", "postSession", "undoSession", "dropRow", "dropSession"}
Reading == InHand \cup {"issue", "fetch", "put", "record", "revoke", "forget"}

\* What a request x knows of its account is so: nobody else changes the row.
Order(x) ==
    /\ x.at \notin {"idle", "addRow"} => row[x.acct].exists
    /\ x.at = "addRow" => ~row[x.acct].exists
    /\ x.at \in Keyless \/ x.op = "create" => row[x.acct].key = NoKey
    /\ x.at \in Reading => row[x.acct].key = x.old
    /\ x.at = "record" => x.scope \in had[x.old]
    /\ x.at \in {"probe", "store"} => x.scope \in had[x.key]
    /\ x.at = "forget" => x.old # NoKey /\ keys[x.old].life # "live"

Orderly == Inv /\ ActionsReported /\ \A r \in Requests : Order(req[r])

\* A session that a request did not make, or failed to delete, is in the log.
Strayed(x) ==
    x.at \in {"getSession", "postSession", "dropRow"} => (x.acct \in sessions => x.acct \in logged)

Tidy == NoStraySessions /\ \A r \in Requests : Strayed(req[r])

\* What a request x is for at a step; only a rotation replaces a key.
Purpose(x) ==
    /\ x.at \in {"addRow", "getSession", "postSession"} => x.op = "create"
    /\ x.at \in {"account", "readKey"} => x.op \in {"create", "provision", "rotate", "verify", "repair"}
    /\ x.at \in InHand \cup {"issue"} /\ x.op # "rotate" => x.old = NoKey

Known == Orderly /\ NoUnknownKeys /\ \A r \in Requests : Purpose(req[r])

-----------------------------------------------------------------------------
(* What a request is after a step.                                         *)

LEMMA GoneWith ==
    ASSUME Inv, NEW r \in Requests, NEW step, Go(r, step)
    PROVE  /\ req'[r].at = step /\ req'[r].op = req[r].op /\ req'[r].acct = req[r].acct
           /\ req'[r].key = req[r].key /\ req'[r].old = req[r].old /\ req'[r].scope = req[r].scope
  <1> DEFINE new == [req[r] EXCEPT !.at = step]
  <1>1. req[r] \in ReqType /\ req \in [Requests -> ReqType]
    BY Parts DEF Inv
  <1>2. /\ new.at = step /\ new.op = req[r].op /\ new.acct = req[r].acct
        /\ new.key = req[r].key /\ new.old = req[r].old /\ new.scope = req[r].scope
    BY <1>1 DEF ReqType
  <1>3. req' = [req EXCEPT ![r] = new]
    BY DEF Go
  <1> HIDE DEF new
  <1> QED BY <1>1, <1>2, <1>3

LEMMA AbortedWith ==
    ASSUME Inv, NEW r \in Requests, Abort(r)
    PROVE  /\ req[r].op # "create" => req'[r] = Idle
           /\ req[r].op = "create" => /\ req'[r].at = "undoSession" /\ req'[r].acct = req[r].acct
                                      /\ req'[r].key = NoKey /\ req'[r].old = NoKey
  <1> DEFINE undo == [Idle EXCEPT !.op = "create", !.at = "undoSession", !.acct = req[r].acct]
             new == IF req[r].op = "create" THEN undo ELSE Idle
  <1>1. undo.at = "undoSession" /\ undo.acct = req[r].acct /\ undo.key = NoKey /\ undo.old = NoKey
    BY DEF Idle
  <1>2. req' = [req EXCEPT ![r] = new] /\ req \in [Requests -> ReqType]
    BY Parts DEF Abort, Inv
  <1> HIDE DEF undo
  <1> QED BY <1>1, <1>2

LEMMA ArrivedWith ==
    ASSUME Inv, NEW r \in Requests, NEW op, NEW a, NEW step, Arrive(r, op, a, step)
    PROVE  /\ req'[r].at = step /\ req'[r].op = op /\ req'[r].acct = a
           /\ req'[r].key = NoKey /\ req'[r].old = NoKey
           /\ UNCHANGED <<row, keys, had, sessions, logged>>
  <1> DEFINE new == [Idle EXCEPT !.op = op, !.at = step, !.acct = a]
  <1>1. new.at = step /\ new.op = op /\ new.acct = a /\ new.key = NoKey /\ new.old = NoKey
    BY DEF Idle
  <1>2. /\ req' = [req EXCEPT ![r] = new] /\ req \in [Requests -> ReqType]
        /\ UNCHANGED <<row, keys, had, sessions, logged>>
    BY Parts DEF Arrive, Inv
  <1> HIDE DEF new
  <1> QED BY <1>1, <1>2

LEMMA EndedWith ==
    ASSUME Inv, NEW r \in Requests, End(r)
    PROVE  req'[r] = Idle
  BY Ended DEF Inv

LEMMA IdleOrders == ASSUME NEW r \in Requests, req'[r] = Idle PROVE Order(req[r])'
  BY IdleType DEF Order, Keyless, Reading, InHand

\* An undone creation, or nothing.
LEMMA AbortOrders ==
    ASSUME Orderly, NEW r \in Requests, Abort(r), UNCHANGED row,
           req[r].op = "create" => row[req[r].acct].exists
    PROVE  Order(req[r])'
  <1>1. CASE req[r].op # "create"
    BY <1>1, AbortedWith, IdleOrders DEF Orderly
  <1>2. CASE req[r].op = "create"
    BY <1>2, AbortedWith DEF Orderly, Order, Keyless, Reading, InHand
  <1> QED BY <1>1, <1>2

\* Rows whose key stays, or goes, keep what they record.
LEMMA ReportedStays ==
    ASSUME Inv, ActionsReported, Aging,
           \A a \in Accounts : row'[a].key # NoKey =>
               row'[a].key = row[a].key /\ row'[a].actions = row[a].actions
    PROVE  ActionsReported'
  <1>1. \A a \in Accounts : row[a].key # NoKey => row[a].key \in Keys /\ keys[row[a].key].life # "unborn"
    BY Parts DEF Inv, Rows, RowType, Row
  <1> QED BY <1>1 DEF Aging, ActionsReported

\* The common case: neither rows nor keys change.
LEMMA QuietReports ==
    ASSUME Orderly, UNCHANGED <<row, keys, had>> PROVE ActionsReported'
  BY DEF Orderly, ActionsReported

-----------------------------------------------------------------------------
(* The actions, one by one.                                                *)

LEMMA Now ==
    ASSUME Orderly, NEW r \in Requests
    PROVE  /\ Inv /\ ActionsReported /\ Order(req[r]) /\ req[r] \in ReqType /\ Fits(req[r])
           /\ req[r].acct \in Accounts /\ row \in [Accounts -> RowType] /\ row[req[r].acct] \in RowType
           /\ keys \in [Keys -> KeyType] /\ had \in [Keys -> SUBSET Scopes]
  BY Request DEF Orderly

LEMMA NoRowNoKey ==
    ASSUME Inv, NEW a \in Accounts, ~row[a].exists PROVE row[a].key = NoKey
  BY DEF Inv, Rows

LEMMA CreateAccountOrders ==
    ASSUME Orderly, NEW r \in Requests, CreateAccount(r) PROVE ActionsReported' /\ Order(req[r])'
  <1>1. CASE \E b \in Targets : ~row[b].exists /\ Arrive(r, "create", b, "addRow")
    <2>1. PICK b \in Targets : ~row[b].exists /\ Arrive(r, "create", b, "addRow")
      BY <1>1
    <2>2. row[b].key = NoKey
      BY <2>1, NoRowNoKey, KeyAssumption DEF Orderly
    <2>3. Order(req[r])'
      BY <2>1, <2>2, ArrivedWith DEF Orderly, Order, Keyless, Reading, InHand
    <2> QED BY <2>1, <2>3, ArrivedWith, QuietReports DEF Orderly
  <1>2. CASE At(r, "undoSession") /\ Go(r, "dropRow") /\ UNCHANGED <<row, keys, had>>
    <2>1. Order(req[r])'
      BY <1>2, GoneWith, Now DEF At, Order, Keyless, Reading, InHand
    <2> QED BY <1>2, <2>1, QuietReports
  <1> QED BY <1>1, <1>2 DEF CreateAccount

LEMMA AddRowOrders ==
    ASSUME Orderly, NEW r \in Requests, AddRow(r) PROVE ActionsReported' /\ Order(req[r])'
  <1> DEFINE a == req[r].acct
  <1>1. At(r, "addRow") /\ UNCHANGED <<keys, had>> /\ ~row[a].exists
    BY Now DEF AddRow, DatabaseFails, At, Order
  <1>2. CASE UNCHANGED row /\ End(r)
    BY <1>1, <1>2, EndedWith, IdleOrders, QuietReports DEF Orderly
  <1>3. CASE row' = [row EXCEPT ![a] = NewRow] /\ Go(r, "getSession")
    <2>1. /\ row'[a].exists /\ row'[a].key = NoKey
          /\ \A b \in Accounts : b # a => row'[b] = row[b]
      BY <1>3, Now, RowTypes DEF NewRow, NoRow
    <2>2. Aging
      BY <1>1 DEF Aging
    <2>3. ActionsReported'
      BY <2>1, <2>2, Now, ReportedStays
    <2>4. Order(req[r])'
      BY <1>1, <1>3, <2>1, GoneWith, Now DEF Order, Keyless, Reading, InHand
    <2> QED BY <2>3, <2>4
  <1> QED BY <1>1, <1>2, <1>3 DEF AddRow, DatabaseFails

LEMMA CreateSessionOrders ==
    ASSUME Orderly, NEW r \in Requests, CreateSession(r) PROVE ActionsReported' /\ Order(req[r])'
  <1>1. UNCHANGED <<row, keys, had>> /\ req[r].at \in {"getSession", "postSession"}
    BY DEF CreateSession, At
  <1>2. CASE End(r)
    BY <1>1, <1>2, EndedWith, IdleOrders, QuietReports DEF Orderly
  <1>3. ASSUME NEW step \in {"account", "dropRow", "postSession"}, Go(r, step) PROVE Order(req[r])'
    BY <1>1, <1>3, GoneWith, Now DEF Order, Keyless, Reading, InHand
  <1> QED BY <1>1, <1>2, <1>3, QuietReports DEF CreateSession

LEMMA DropRowOrders ==
    ASSUME Orderly, NEW r \in Requests, DropRow(r) PROVE ActionsReported' /\ Order(req[r])'
  <1>1. End(r) /\ UNCHANGED <<keys, had>>
    BY DEF DropRow, DatabaseFails
  <1>2. Order(req[r])'
    BY <1>1, EndedWith, IdleOrders DEF Orderly
  <1>3. CASE UNCHANGED row
    BY <1>1, <1>2, <1>3, QuietReports
  <1>4. CASE row' = [row EXCEPT ![req[r].acct] = NoRow]
    <2>1. Aging /\ \A b \in Accounts : row'[b].key # NoKey => row'[b] = row[b]
      BY <1>1, <1>4, Now, RowTypes DEF Aging
    <2> QED BY <1>2, <2>1, Now, ReportedStays
  <1> QED BY <1>3, <1>4 DEF DropRow, DatabaseFails

LEMMA SessionOrders ==
    ASSUME Orderly, NEW r \in Requests, Session(r) PROVE ActionsReported' /\ Order(req[r])'
  <1>1. ASSUME NEW b \in Targets, NEW op \in {"connect", "reset"}, row[b].exists,
               Arrive(r, op, b, "session")
        PROVE  ActionsReported' /\ Order(req[r])'
    <2>1. Order(req[r])'
      BY <1>1, ArrivedWith DEF Orderly, Order, Keyless, Reading, InHand
    <2> QED BY <1>1, <2>1, ArrivedWith, QuietReports DEF Orderly
  <1>2. CASE End(r) /\ UNCHANGED <<row, keys, had>>
    BY <1>2, EndedWith, IdleOrders, QuietReports DEF Orderly
  <1> QED BY <1>1, <1>2 DEF Session

LEMMA DeleteAccountOrders ==
    ASSUME Orderly, NEW r \in Requests, DeleteAccount(r) PROVE ActionsReported' /\ Order(req[r])'
  <1>1. ASSUME NEW b \in Targets, row[b].exists, Arrive(r, "delete", b, "deleting")
        PROVE  ActionsReported' /\ Order(req[r])'
    <2>1. Order(req[r])'
      BY <1>1, ArrivedWith DEF Orderly, Order, Keyless, Reading, InHand
    <2> QED BY <1>1, <2>1, ArrivedWith, QuietReports DEF Orderly
  <1>2. CASE /\ At(r, "deleting") /\ UNCHANGED <<row, keys, had>>
             /\ Go(r, IF row[req[r].acct].key # NoKey THEN "revokeRead" ELSE "dropSession")
    <2>1. Order(req[r])'
      BY <1>2, GoneWith, Now DEF At, Order, Keyless, Reading, InHand
    <2> QED BY <1>2, <2>1, QuietReports
  <1>3. CASE /\ At(r, "dropSession") /\ UNCHANGED <<row, keys, had>> /\ (End(r) \/ Go(r, "dropRow"))
    <2>1. CASE End(r)
      BY <1>3, <2>1, EndedWith, IdleOrders, QuietReports DEF Orderly
    <2>2. CASE Go(r, "dropRow")
      <3>1. Order(req[r])'
        BY <1>3, <2>2, GoneWith, Now DEF At, Order, Keyless, Reading, InHand
      <3> QED BY <1>3, <3>1, QuietReports
    <2> QED BY <1>3, <2>1, <2>2
  <1> QED BY <1>1, <1>2, <1>3 DEF DeleteAccount

LEMMA KeyActionOrders ==
    ASSUME Orderly, NEW r \in Requests, KeyAction(r) PROVE ActionsReported' /\ Order(req[r])'
  <1> DEFINE k == row[req[r].acct].key
  <1>1. ASSUME NEW b \in Targets, NEW op \in {"provision", "rotate", "verify", "repair"},
               row[b].exists, Arrive(r, op, b, "account")
        PROVE  ActionsReported' /\ Order(req[r])'
    <2>1. Order(req[r])'
      BY <1>1, ArrivedWith DEF Orderly, Order, Keyless, Reading, InHand
    <2> QED BY <1>1, <2>1, ArrivedWith, QuietReports DEF Orderly
  <1>2. CASE At(r, "account") /\ UNCHANGED <<row, keys, had>> /\ (Abort(r) \/ Go(r, "readKey"))
    <2>1. row[req[r].acct].exists
      BY <1>2, Now DEF At, Order
    <2>2. CASE Abort(r)
      BY <1>2, <2>1, <2>2, AbortOrders, QuietReports
    <2>3. CASE Go(r, "readKey")
      <3>1. Order(req[r])'
        BY <1>2, <2>3, GoneWith, Now DEF At, Order, Keyless, Reading, InHand
      <3> QED BY <1>2, <3>1, QuietReports
    <2> QED BY <1>2, <2>2, <2>3
  <1>3. CASE /\ At(r, "readKey") /\ UNCHANGED <<row, keys, had>>
             /\ IF (req[r].op \in {"create", "provision"}) = (k # NoKey)
                THEN Abort(r)
                ELSE req' = [req EXCEPT ![r].old = k,
                                        ![r].at = IF req[r].op \in {"verify", "repair"} THEN "fetch" ELSE "issue"]
    <2>1. row[req[r].acct].exists
      BY <1>3, Now DEF At, Order
    <2>2. CASE Abort(r)
      BY <1>3, <2>1, <2>2, AbortOrders, QuietReports
    <2>3. CASE req' = [req EXCEPT ![r].old = k,
                                  ![r].at = IF req[r].op \in {"verify", "repair"} THEN "fetch" ELSE "issue"]
      <3> DEFINE step == IF req[r].op \in {"verify", "repair"} THEN "fetch" ELSE "issue"
                 new == [req[r] EXCEPT !.old = k, !.at = step]
      <3>1. req' = [req EXCEPT ![r] = new] /\ req \in [Requests -> ReqType] /\ step \in {"fetch", "issue"}
        BY <2>3, Parts, Now DEF Inv
      <3> HIDE DEF step
      <3>2. new.at = step /\ new.old = k /\ new.acct = req[r].acct /\ new.op = req[r].op
        BY Now DEF ReqType
      <3> HIDE DEF new
      <3>3. Order(req[r])'
        BY <1>3, <2>1, <3>1, <3>2, Now DEF Order, Keyless, Reading, InHand
      <3> QED BY <1>3, <3>3, QuietReports
    <2> QED BY <1>3, <2>2, <2>3
  <1> QED BY <1>1, <1>2, <1>3 DEF KeyAction

LEMMA CreateKeyOrders ==
    ASSUME Orderly, NEW r \in Requests, CreateKey(r) PROVE ActionsReported' /\ Order(req[r])'
  <1>1. At(r, "issue") /\ UNCHANGED row /\ row[req[r].acct].exists
    BY Now DEF CreateKey, At, Order
  <1>2. ActionsReported'
    <2> SUFFICES ASSUME NEW a \in Accounts, row[a].key # NoKey PROVE row[a].actions \in had'[row[a].key]
      BY <1>1 DEF ActionsReported
    <2>1. row[a].key \in Keys /\ keys[row[a].key].life # "unborn" /\ row[a].actions \in had[row[a].key]
      BY Now DEF Inv, Rows, RowType, Row, ActionsReported
    <2>2. had'[row[a].key] = had[row[a].key]
      BY <2>1, Now DEF CreateKey
    <2> QED BY <2>1, <2>2
  <1>3. CASE Abort(r)
    BY <1>1, <1>2, <1>3, AbortOrders
  <1>4. ASSUME NEW k \in Keys, req' = [req EXCEPT ![r].at = "readBack", ![r].key = k]
        PROVE  Order(req[r])'
    <2> DEFINE new == [req[r] EXCEPT !.at = "readBack", !.key = k]
    <2>1. req' = [req EXCEPT ![r] = new] /\ req \in [Requests -> ReqType]
      BY <1>4, Parts, Now DEF Inv
    <2>2. /\ new.at = "readBack" /\ new.old = req[r].old /\ new.acct = req[r].acct
          /\ new.op = req[r].op
      BY Now DEF ReqType
    <2> HIDE DEF new
    <2> QED BY <1>1, <2>1, <2>2, Now DEF At, Order, Keyless, Reading, InHand
  <1> QED BY <1>2, <1>3, <1>4 DEF CreateKey

LEMMA CheckKeyOrders ==
    ASSUME Orderly, NEW r \in Requests, CheckKey(r) PROVE ActionsReported' /\ Order(req[r])'
  <1>1. UNCHANGED <<row, keys, had>> /\ req[r].at \in {"readBack", "probe"}
    BY DEF CheckKey, At
  <1>2. CASE ReadsBack(r) /\ req' = [req EXCEPT ![r].at = "probe", ![r].scope = keys[req[r].key].scope]
    <2> DEFINE s == keys[req[r].key].scope
               new == [req[r] EXCEPT !.at = "probe", !.scope = s]
    <2>1. req' = [req EXCEPT ![r] = new] /\ req \in [Requests -> ReqType]
      BY <1>2, Parts, Now DEF Inv
    <2>2. /\ new.at = "probe" /\ new.old = req[r].old /\ new.acct = req[r].acct /\ new.scope = s
          /\ new.op = req[r].op /\ new.key = req[r].key
      BY Now DEF ReqType
    <2>3. s \in had[req[r].key]
      BY <1>1, <1>2, Now DEF Fits, InHand, ReqType, ReadsBack, Inv, Scoped
    <2> HIDE DEF new
    <2>4. Order(req[r])'
      BY <1>1, <2>1, <2>2, <2>3, Now DEF Order, Keyless, Reading, InHand
    <2> QED BY <1>1, <2>4, QuietReports
  <1>3. ASSUME NEW step \in {"store", "discard"}, Go(r, step), step = "store" => At(r, "probe")
        PROVE  ActionsReported' /\ Order(req[r])'
    <2>1. Order(req[r])'
      BY <1>1, <1>3, GoneWith, Now DEF At, Order, Keyless, Reading, InHand
    <2> QED BY <1>1, <2>1, QuietReports
  <1>4. \/ ReadsBack(r) /\ req' = [req EXCEPT ![r].at = "probe", ![r].scope = keys[req[r].key].scope]
        \/ Go(r, "discard")
        \/ At(r, "probe") /\ Go(r, "store")
    BY DEF CheckKey
  <1> QED BY <1>2, <1>3, <1>4

\* The row of the account exists, so the UPDATE finds it.
LEMMA StoreWrites ==
    ASSUME Orderly, NEW r \in Requests, Store(r)
    PROVE  /\ req[r].key \in Keys /\ req[r].key # NoKey /\ row[req[r].acct].exists /\ UNCHANGED <<keys, had>>
           /\ \/ UNCHANGED row /\ Go(r, "discard")
              \/ /\ \A b \in Accounts : b # req[r].acct => row'[b] = row[b]
                 /\ row'[req[r].acct].key = req[r].key /\ row'[req[r].acct].actions = req[r].scope
                 /\ row'[req[r].acct].exists
                 /\ IF req[r].op = "rotate"
                    THEN req' = [req EXCEPT ![r].at = "deleteOld", ![r].key = NoKey]
                    ELSE End(r)
  <1> DEFINE a == req[r].acct
             stored == [row[a] EXCEPT !.key = req[r].key, !.actions = req[r].scope]
  <1>1. /\ req[r].key \in Keys /\ req[r].key # NoKey /\ row[a].exists /\ UNCHANGED <<keys, had>>
        /\ req[r].at = "store"
    BY Now DEF Store, DatabaseFails, At, Order, Fits, InHand, ReqType
  <1>2. CASE UNCHANGED row /\ Go(r, "discard")
    BY <1>1, <1>2
  <1>3. CASE /\ row' = [row EXCEPT ![a].key = req[r].key, ![a].actions = req[r].scope]
             /\ IF req[r].op = "rotate"
                THEN req' = [req EXCEPT ![r].at = "deleteOld", ![r].key = NoKey]
                ELSE End(r)
    <2>1. row' = [row EXCEPT ![a] = stored]
      BY <1>3, Now
    <2>2. stored.key = req[r].key /\ stored.actions = req[r].scope /\ stored.exists
      BY <1>1, Now DEF RowType, Row
    <2> HIDE DEF stored
    <2>3. /\ \A b \in Accounts : b # a => row'[b] = row[b]
          /\ row'[a].key = req[r].key /\ row'[a].actions = req[r].scope /\ row'[a].exists
      BY <2>1, <2>2, Now
    <2> QED BY <1>1, <1>3, <2>3
  <1> QED BY <1>1, <1>2, <1>3 DEF Store, DatabaseFails

LEMMA StoreOrders ==
    ASSUME Orderly, NEW r \in Requests, Store(r) PROVE ActionsReported' /\ Order(req[r])'
  <1> DEFINE a == req[r].acct
  <1>1. /\ req[r].at = "store" /\ row[a].exists /\ UNCHANGED <<keys, had>>
        /\ req[r].scope \in had[req[r].key]
    BY StoreWrites, Now DEF Store, At, Order
  <1>2. CASE UNCHANGED row /\ Go(r, "discard")
    <2>1. Order(req[r])'
      BY <1>1, <1>2, GoneWith, Now DEF Order, Keyless, Reading, InHand
    <2> QED BY <1>1, <1>2, <2>1, QuietReports
  <1>3. CASE /\ \A b \in Accounts : b # a => row'[b] = row[b]
             /\ row'[a].key = req[r].key /\ row'[a].actions = req[r].scope /\ row'[a].exists
             /\ IF req[r].op = "rotate"
                THEN req' = [req EXCEPT ![r].at = "deleteOld", ![r].key = NoKey]
                ELSE End(r)
    <2>1. ActionsReported'
      BY <1>1, <1>3, Now DEF ActionsReported
    <2>2. CASE End(r)
      BY <2>1, <2>2, EndedWith, IdleOrders, Now
    <2>3. CASE req[r].op = "rotate" /\ req' = [req EXCEPT ![r].at = "deleteOld", ![r].key = NoKey]
      <3> DEFINE new == [req[r] EXCEPT !.at = "deleteOld", !.key = NoKey]
      <3>1. req' = [req EXCEPT ![r] = new] /\ req \in [Requests -> ReqType]
        BY <2>3, Parts, Now DEF Inv
      <3>2. new.at = "deleteOld" /\ new.acct = a /\ new.op = "rotate"
        BY <2>3, Now DEF ReqType
      <3> HIDE DEF new
      <3>3. Order(req[r])'
        BY <1>3, <3>1, <3>2 DEF Order, Keyless, Reading, InHand
      <3> QED BY <2>1, <3>3
    <2> QED BY <1>3, <2>2, <2>3
  <1> QED BY <1>2, <1>3, StoreWrites

LEMMA DeletedReports ==
    ASSUME Orderly, UNCHANGED <<row, had>> PROVE ActionsReported'
  BY DEF Orderly, ActionsReported

LEMMA DeleteOldOrders ==
    ASSUME Orderly, NEW r \in Requests, DeleteOld(r) PROVE ActionsReported' /\ Order(req[r])'
  BY EndedWith, IdleOrders, DeletedReports, Now DEF DeleteOld

LEMMA DiscardOrders ==
    ASSUME Orderly, NEW r \in Requests, Discard(r) PROVE ActionsReported' /\ Order(req[r])'
  <1>1. row[req[r].acct].exists
    BY Now DEF Discard, At, Order
  <1> QED BY <1>1, AbortOrders, DeletedReports DEF Discard

LEMMA RevokeOrders ==
    ASSUME Orderly, NEW r \in Requests, Revoke(r) PROVE ActionsReported' /\ Order(req[r])'
  <1> DEFINE a == req[r].acct
  <1>1. UNCHANGED had
    BY DEF Revoke
  <1>2. CASE At(r, "revokeRead") /\ UNCHANGED <<row, keys>>
    <2>1. CASE row[a].key = NoKey /\ Go(r, "dropSession")
      <3>1. Order(req[r])'
        BY <1>2, <2>1, GoneWith, Now DEF At, Order, Keyless, Reading, InHand
      <3> QED BY <1>1, <1>2, <3>1, QuietReports
    <2>2. CASE row[a].key # NoKey /\ req' = [req EXCEPT ![r].at = "revoke", ![r].old = row[a].key]
      <3> DEFINE new == [req[r] EXCEPT !.at = "revoke", !.old = row[a].key]
      <3>1. req' = [req EXCEPT ![r] = new] /\ req \in [Requests -> ReqType]
        BY <2>2, Parts, Now DEF Inv
      <3>2. new.at = "revoke" /\ new.acct = a /\ new.op = req[r].op /\ new.old = row[a].key
        BY Now DEF ReqType
      <3> HIDE DEF new
      <3>3. Order(req[r])'
        BY <1>2, <3>1, <3>2, Now DEF At, Order, Keyless, Reading, InHand
      <3> QED BY <1>1, <1>2, <3>3, QuietReports
    <2> QED BY <1>2, <2>1, <2>2 DEF Revoke, At
  <1>3. CASE At(r, "revoke") /\ UNCHANGED row
    <2>1. ActionsReported'
      BY <1>1, <1>3, DeletedReports
    <2>2. CASE End(r)
      BY <2>1, <2>2, EndedWith, IdleOrders, Now
    <2>3. CASE DeleteKey(req[r].old, "revoked") /\ Go(r, "forget")
      <3>1. req[r].old \in Keys /\ req[r].old # NoKey
        BY <1>3, Now DEF At, Fits, WithOld, ReqType
      <3>2. keys'[req[r].old].life # "live"
        BY <2>3, <3>1, Now DEF DeleteKey, KeyType
      <3>3. Order(req[r])'
        BY <1>3, <2>3, <3>1, <3>2, GoneWith, Now DEF At, Order, Keyless, Reading, InHand
      <3> QED BY <2>1, <3>3
    <2> QED BY <1>3, <2>2, <2>3 DEF Revoke, At, Applied
  <1>4. CASE At(r, "forget") /\ UNCHANGED keys
    <2>1. CASE UNCHANGED row /\ End(r)
      BY <1>1, <1>4, <2>1, EndedWith, IdleOrders, QuietReports, Now
    <2>2. CASE row' = [row EXCEPT ![a].key = NoKey, ![a].actions = "none"] /\ Go(r, "dropSession")
      <3> DEFINE new == [row[a] EXCEPT !.key = NoKey, !.actions = "none"]
      <3>1. new.key = NoKey /\ new.exists = row[a].exists /\ row' = [row EXCEPT ![a] = new]
        BY <2>2, Now DEF RowType, Row
      <3> HIDE DEF new
      <3>2. Aging /\ \A b \in Accounts : row'[b].key # NoKey => row'[b] = row[b]
        BY <1>1, <1>4, <3>1, Now DEF Aging
      <3>3. row'[a].exists /\ row'[a].key = NoKey
        BY <1>4, <3>1, Now DEF At, Order
      <3>4. req'[r].at = "dropSession" /\ req'[r].acct = a
        BY <2>2, GoneWith, Now
      <3>5. Order(req[r])'
        BY <3>3, <3>4 DEF Order, Keyless, Reading, InHand
      <3> QED BY <3>2, <3>5, Now, ReportedStays
    <2> QED BY <1>4, <2>1, <2>2 DEF Revoke, At, DatabaseFails
  <1> QED BY <1>2, <1>3, <1>4 DEF Revoke

LEMMA RecordOrders ==
    ASSUME Orderly, NEW r \in Requests, Record(r) PROVE ActionsReported' /\ Order(req[r])'
  <1> DEFINE a == req[r].acct
             new == [row[a] EXCEPT !.actions = req[r].scope]
  <1>1. /\ req[r].at = "record" /\ UNCHANGED <<keys, had>> /\ row[a].exists
        /\ row[a].key = req[r].old /\ req[r].scope \in had[req[r].old]
    BY Now DEF Record, DatabaseFails, At, Order, Reading
  <1>2. Order(req[r])'
    BY EndedWith, IdleOrders, Now DEF Record
  <1>3. CASE UNCHANGED row
    BY <1>1, <1>2, <1>3, QuietReports
  <1>4. CASE row' = [row EXCEPT ![a].actions = req[r].scope]
    <2>1. /\ new.key = row[a].key /\ new.actions = req[r].scope /\ row' = [row EXCEPT ![a] = new]
      BY <1>4, Now DEF RowType, Row
    <2> HIDE DEF new
    <2>2. ActionsReported'
      BY <1>1, <2>1, Now DEF ActionsReported
    <2> QED BY <1>2, <2>2
  <1> QED BY <1>1, <1>3, <1>4 DEF Record, DatabaseFails

LEMMA ReapplyOrders ==
    ASSUME Orderly, NEW r \in Requests, Reapply(r) PROVE ActionsReported' /\ Order(req[r])'
  <1> DEFINE k == req[r].old
  <1>1. /\ UNCHANGED row /\ req[r].at \in {"fetch", "put"} /\ k \in Keys
        /\ row[req[r].acct].exists /\ row[req[r].acct].key = k
    BY Now DEF Reapply, At, Order, Reading, Fits, WithOld, ReqType
  <1>2. \A j \in Keys : had[j] \subseteq had'[j]
    <2>1. had \in [Keys -> SUBSET Scopes]
      BY Now
    <2>2. had' = had \/ \E s : had' = [had EXCEPT ![k] = @ \cup {s}]
      BY DEF Reapply
    <2> QED BY <2>1, <2>2
  <1>3. ActionsReported'
    BY <1>1, <1>2, Now DEF ActionsReported, RowType, Row
  <1>4. CASE End(r)
    BY <1>3, <1>4, EndedWith, IdleOrders, Now
  <1>5. ASSUME NEW s, NEW step \in {"record", "put"}, s \in had'[k],
               req' = [req EXCEPT ![r].scope = s, ![r].at = step]
        PROVE  Order(req[r])'
    <2> DEFINE new == [req[r] EXCEPT !.scope = s, !.at = step]
    <2>1. req' = [req EXCEPT ![r] = new] /\ req \in [Requests -> ReqType]
      BY <1>5, Parts, Now DEF Inv
    <2>2. /\ new.at = step /\ new.acct = req[r].acct /\ new.op = req[r].op /\ new.old = k
          /\ new.scope = s
      BY Now DEF ReqType
    <2> HIDE DEF new
    <2> QED BY <1>1, <1>5, <2>1, <2>2, Now DEF Order, Keyless, Reading, InHand
  <1>6. CASE /\ keys[k].life = "live" /\ UNCHANGED had
             /\ req' = [req EXCEPT ![r].scope = keys[k].scope,
                                   ![r].at = IF req[r].op = "verify" THEN "record" ELSE "put"]
    <2> DEFINE step == IF req[r].op = "verify" THEN "record" ELSE "put"
    <2>1. step \in {"record", "put"}
      OBVIOUS
    <2>2. keys[k].scope \in had'[k]
      BY <1>1, <1>6, Now DEF Inv, Scoped
    <2>3. req' = [req EXCEPT ![r].scope = keys[k].scope, ![r].at = step]
      BY <1>6
    <2> HIDE DEF step
    <2> QED BY <1>3, <1>5, <2>1, <2>2, <2>3
  <1>7. ASSUME NEW s, had' = [had EXCEPT ![k] = @ \cup {s}],
               req' = [req EXCEPT ![r].scope = s, ![r].at = "record"]
        PROVE  Order(req[r])'
    <2>1. s \in had'[k]
      BY <1>1, <1>7, Now
    <2> QED BY <1>5, <1>7, <2>1
  <1> QED BY <1>3, <1>4, <1>6, <1>7 DEF Reapply

LEMMA DashboardOrders ==
    ASSUME Orderly, Dashboard PROVE ActionsReported' /\ \A r \in Requests : Order(req[r])'
  <1>1. UNCHANGED <<row, req>>
    BY DEF Dashboard
  <1>2. PICK k \in Keys :
          /\ keys[k].life = "live"
          /\ \/ \E s \in Scopes : /\ keys' = [keys EXCEPT ![k].scope = s]
                                  /\ had' = [had EXCEPT ![k] = @ \cup {s}]
             \/ keys' = [keys EXCEPT ![k].life = "external"] /\ UNCHANGED had
    BY DEF Dashboard, DeleteKey
  <1>3. keys \in [Keys -> KeyType] /\ had \in [Keys -> SUBSET Scopes] /\ row \in [Accounts -> RowType]
    BY Parts DEF Orderly, Inv
  <1>4. \A j \in Keys : had[j] \subseteq had'[j] /\ (keys[j].life # "live" => keys'[j].life # "live")
    BY <1>2, <1>3 DEF KeyType
  <1>5. ActionsReported'
    BY <1>1, <1>3, <1>4 DEF Orderly, ActionsReported, RowType, Row
  <1>6. ASSUME NEW r \in Requests PROVE Order(req[r])'
    <2>1. req[r].at = "record" => req[r].old \in Keys
      BY Now DEF Fits, WithOld, ReqType
    <2>2. req[r].at \in {"probe", "store"} => req[r].key \in Keys
      BY Now DEF Fits, InHand, ReqType
    <2>3. req[r].at = "forget" => req[r].old \in Keys
      BY Now DEF Order, ReqType
    <2> QED BY <1>1, <1>4, <2>1, <2>2, <2>3, Now DEF Order
  <1> QED BY <1>5, <1>6

LEMMA OrderlyKeeps ==
    ASSUME OneAtATime PROVE Orderly /\ [Next]_vars => Orderly'
  <1> SUFFICES ASSUME Orderly, [Next]_vars PROVE Orderly'
    OBVIOUS
  <1>1. Inv'
    BY NextKeeps DEF Orderly
  <1>2. ASSUME NEW r \in Requests, Step(r) PROVE ActionsReported' /\ \A q \in Requests : Order(req[q])'
    <2>1. ActionsReported' /\ Order(req[r])'
      BY <1>2, CreateAccountOrders, AddRowOrders, CreateSessionOrders, DropRowOrders,
         KeyActionOrders, CreateKeyOrders, CheckKeyOrders, StoreOrders, DeleteOldOrders,
         DiscardOrders, ReapplyOrders, RecordOrders, DeleteAccountOrders, RevokeOrders,
         SessionOrders DEF Step
    <2>2. \A q \in Requests : q = r
      BY DEF OneAtATime
    <2> QED BY <2>1, <2>2
  <1>3. CASE AdminRestart
    <2>1. \A r \in Requests : req'[r] = Idle
      BY <1>3 DEF AdminRestart
    <2> QED BY <1>1, <1>3, <2>1, IdleOrders, QuietReports DEF AdminRestart, Orderly
  <1>4. CASE UNCHANGED vars
    <2>1. \A r \in Requests : Order(req[r])'
      BY <1>4 DEF vars, Orderly, Order
    <2> QED BY <1>1, <1>4, <2>1, QuietReports DEF Orderly, vars
  <1> QED BY <1>1, <1>2, <1>3, <1>4, DashboardOrders DEF Next, Orderly

LEMMA InitiallyOrderly == Init => Orderly
  <1> SUFFICES ASSUME Init PROVE Orderly
    OBVIOUS
  <1>1. \A r \in Requests : req[r] = Idle
    BY DEF Init
  <1>2. \A a \in Accounts : row[a].key = NoKey
    BY RowTypes DEF Init
  <1> QED BY <1>1, <1>2, Initially, IdleType DEF Orderly, ActionsReported, Order, Keyless, Reading, InHand

LEMMA OrderInvariant ==
    ASSUME OneAtATime PROVE Spec => []Orderly
  BY InitiallyOrderly, OrderlyKeeps, PTL DEF Spec

\* Whatever call or statement fails, and however often the process restarts,
\* the actions recorded for an account's key are ones WAHA reported for it
\* (_store, _read_policy), as long as requests come one at a time.
THEOREM RecordsAreTrue ==
    ASSUME OneAtATime PROVE Spec => []ActionsReported
  <1>1. Orderly => ActionsReported
    BY DEF Orderly
  <1> QED BY <1>1, OrderInvariant, PTL

LEMMA RowsStay ==
    ASSUME Orderly, [Next]_vars, NEW a \in Accounts, row[a].key # NoKey PROVE row'[a].exists
  <1>1. row[a].exists
    BY DEF Orderly, Inv, Rows
  <1>2. CASE UNCHANGED row
    BY <1>1, <1>2
  <1>3. ASSUME NEW r \in Requests, Step(r) PROVE row'[a].exists
    <2> DEFINE b == req[r].acct
    <2>1. CASE DropRow(r)
      <3>1. row[b].key = NoKey
        BY <2>1, Now DEF DropRow, At, Order, Keyless
      <3> QED BY <1>1, <2>1, <3>1, Now DEF DropRow, DatabaseFails
    <2>2. CASE AddRow(r)
      BY <1>1, <2>2, Now DEF AddRow, DatabaseFails
    <2>3. CASE Store(r)
      BY <1>1, <2>3, StoreWrites
    <2>4. CASE Record(r)
      <3> DEFINE new == [row[b] EXCEPT !.actions = req[r].scope]
      <3>1. new.exists = row[b].exists
        BY Now DEF RowType, Row
      <3>2. UNCHANGED row \/ row' = [row EXCEPT ![b] = new]
        BY <2>4, Now DEF Record, DatabaseFails
      <3> HIDE DEF new
      <3> QED BY <1>1, <3>1, <3>2, Now
    <2>5. CASE Revoke(r)
      <3> DEFINE new == [row[b] EXCEPT !.key = NoKey, !.actions = "none"]
      <3>1. new.exists = row[b].exists
        BY Now DEF RowType, Row
      <3>2. UNCHANGED row \/ row' = [row EXCEPT ![b] = new]
        BY <2>5, Now DEF Revoke, DatabaseFails
      <3> HIDE DEF new
      <3> QED BY <1>1, <3>1, <3>2, Now
    <2>6. CASE CreateAccount(r) \/ CreateSession(r) \/ DeleteAccount(r) \/ Session(r)
      BY <1>2, <2>6 DEF CreateAccount, CreateSession, DeleteAccount, Session, Arrive
    <2>7. CASE KeyAction(r) \/ CreateKey(r) \/ CheckKey(r) \/ DeleteOld(r) \/ Discard(r) \/ Reapply(r)
      BY <1>2, <2>7 DEF KeyAction, CreateKey, CheckKey, DeleteOld, Discard, Reapply, Arrive
    <2> QED BY <1>3, <2>1, <2>2, <2>3, <2>4, <2>5, <2>6, <2>7 DEF Step
  <1> QED BY <1>2, <1>3 DEF Next, Dashboard, AdminRestart, vars

\* delete_account and the undo of create_account drop no row whose key has not
\* been deleted in WAHA and forgotten first, whatever fails in between.
THEOREM KeyedRowsStay ==
    ASSUME OneAtATime PROVE Spec => KeyedAccountsStay
  <1>1. Orderly /\ [Next]_vars => \A a \in Accounts : row[a].key # NoKey => row'[a].exists
    BY RowsStay
  <1>2. Orderly /\ [Next]_vars => [\A a \in Accounts : row[a].key # NoKey => row'[a].exists]_vars
    BY <1>1
  <1> QED BY <1>2, OrderInvariant, PTL DEF Spec, KeyedAccountsStay

-----------------------------------------------------------------------------
(* Sessions.                                                               *)

\* Sessions only go, no log entry does, and no row goes: nothing strays.
LEMMA TidyStays ==
    ASSUME Orderly, Tidy, sessions' \subseteq sessions, logged \subseteq logged',
           \A a \in Accounts : row[a].exists => row'[a].exists
    PROVE  NoStraySessions'
  <1>1. \A a \in sessions' : a \in Accounts
    BY Parts DEF Orderly, Inv
  <1> QED BY <1>1 DEF Tidy, NoStraySessions

\* How the outcome of a WAHA call can look when no answer is lost.
LEMMA NotLost ==
    ASSUME "lost" \notin Faults PROVE Outcomes \subseteq {"ok", "refused"}
  BY DEF Outcomes

LEMMA SomeSteps ==
    ASSUME Orderly, Tidy, NEW r \in Requests, Step(r), "lost" \notin Faults
    PROVE  NoStraySessions' /\ Strayed(req[r])'
  <1> DEFINE a == req[r].acct
  <1>1. sessions \subseteq Accounts /\ a \in Accounts /\ row \in [Accounts -> RowType] /\ Inv
    BY Now, Parts DEF Orderly, Inv
  <1>2. CASE CreateAccount(r)
    <2>1. ASSUME NEW b \in Targets, Arrive(r, "create", b, "addRow")
          PROVE  NoStraySessions' /\ Strayed(req[r])'
      BY <1>1, <2>1, ArrivedWith, TidyStays DEF Strayed
    <2>2. CASE At(r, "undoSession") /\ Go(r, "dropRow") /\ UNCHANGED row
      <3>1. row[a].exists
        BY <2>2, Now DEF At, Order
      <3>2. PICK outcome \in {"ok", "refused"} :
               /\ sessions' = IF Applied(outcome) THEN sessions \ {a} ELSE sessions
               /\ logged' = IF outcome = "ok" THEN logged ELSE logged \cup {a}
        BY <1>2, <2>2, <3>1, NotLost DEF CreateAccount, At, Arrive
      <3>3. NoStraySessions'
        BY <2>2, <3>2, TidyStays
      <3>4. Strayed(req[r])'
        BY <1>1, <2>2, <3>2, GoneWith DEF Strayed, Applied
      <3> QED BY <3>3, <3>4
    <2> QED BY <1>2, <2>1, <2>2 DEF CreateAccount
  <1>3. CASE AddRow(r)
    <2>1. ~row[a].exists /\ UNCHANGED <<sessions, logged>>
      BY <1>3, Now DEF AddRow, DatabaseFails, At, Order
    <2>2. a \in sessions => a \in logged
      BY <2>1 DEF Tidy, NoStraySessions
    <2>3. \A b \in Accounts : row[b].exists => row'[b].exists
      BY <1>1, <1>3, <2>1 DEF AddRow, DatabaseFails
    <2>4. NoStraySessions'
      BY <2>1, <2>3, TidyStays
    <2>5. Strayed(req[r])'
      BY <1>1, <1>3, <2>1, <2>2, GoneWith, EndedWith, IdleType DEF AddRow, Strayed
    <2> QED BY <2>4, <2>5
  <1>4. CASE CreateSession(r)
    <2>1. /\ req[r].at \in {"getSession", "postSession"} /\ UNCHANGED <<row, logged>>
          /\ row[a].exists /\ (a \in sessions => a \in logged)
      BY <1>4, Now DEF CreateSession, At, Order, Tidy, Strayed
    <2>2. \/ UNCHANGED sessions /\ \E step \in {"dropRow", "account", "postSession"} : Go(r, step)
          \/ UNCHANGED sessions /\ End(r)
          \/ sessions' = sessions \cup {a} /\ (Go(r, "account") \/ End(r))
      BY <1>4, NotLost DEF CreateSession, Applied
    <2>3. NoStraySessions'
      BY <1>1, <2>1, <2>2 DEF Tidy, NoStraySessions
    <2>4. Strayed(req[r])'
      BY <1>1, <2>1, <2>2, GoneWith, EndedWith, IdleType DEF Strayed
    <2> QED BY <2>3, <2>4
  <1>5. CASE DropRow(r)
    <2>1. End(r) /\ UNCHANGED <<sessions, logged>> /\ (a \in sessions => a \in logged)
      BY <1>5, Now DEF DropRow, DatabaseFails, At, Tidy, Strayed
    <2>2. \A b \in Accounts : b # a => row'[b] = row[b]
      BY <1>1, <1>5 DEF DropRow, DatabaseFails
    <2>3. NoStraySessions'
      BY <1>1, <2>1, <2>2 DEF Tidy, NoStraySessions
    <2> QED BY <1>1, <2>1, <2>3, EndedWith, IdleType DEF Strayed
  <1>6. CASE DeleteAccount(r)
    <2>1. ASSUME NEW b \in Targets, Arrive(r, "delete", b, "deleting")
          PROVE  NoStraySessions' /\ Strayed(req[r])'
      BY <1>1, <2>1, ArrivedWith, TidyStays DEF Strayed
    <2>2. CASE /\ At(r, "deleting") /\ UNCHANGED <<row, sessions, logged>>
               /\ \E step \in {"revokeRead", "dropSession"} : Go(r, step)
      BY <1>1, <2>2, GoneWith, TidyStays DEF Strayed
    <2>3. CASE At(r, "dropSession") /\ UNCHANGED <<row, logged>>
      <3>1. \/ sessions' \subseteq sessions /\ End(r)
            \/ sessions' = sessions \ {a} /\ Go(r, "dropRow")
        BY <1>6, <2>3, NotLost DEF DeleteAccount, At, Arrive, Applied
      <3>2. NoStraySessions'
        BY <2>3, <3>1, TidyStays
      <3>3. Strayed(req[r])'
        BY <1>1, <3>1, GoneWith, EndedWith, IdleType DEF Strayed
      <3> QED BY <3>2, <3>3
    <2> QED BY <1>6, <2>1, <2>2, <2>3 DEF DeleteAccount
  <1>7. CASE Session(r)
    <2>1. ASSUME NEW b \in Targets, NEW op, Arrive(r, op, b, "session")
          PROVE  NoStraySessions' /\ Strayed(req[r])'
      BY <1>1, <2>1, ArrivedWith, TidyStays DEF Strayed
    <2>2. CASE At(r, "session") /\ End(r) /\ UNCHANGED <<row, logged>> /\ sessions' \subseteq sessions \cup {a}
      <3>1. row[a].exists
        BY <2>2, Now DEF At, Order
      <3>2. NoStraySessions'
        BY <2>2, <3>1 DEF Tidy, NoStraySessions
      <3> QED BY <1>1, <2>2, <3>2, EndedWith, IdleType DEF Strayed
    <2> QED BY <1>7, <2>1, <2>2 DEF Session
  <1>8. CASE KeyAction(r) \/ CreateKey(r) \/ CheckKey(r) \/ Store(r) \/ DeleteOld(r)
             \/ Discard(r) \/ Reapply(r) \/ Record(r) \/ Revoke(r)
    <2>1. UNCHANGED sessions /\ logged \subseteq logged'
      BY <1>8 DEF KeyAction, CreateKey, CheckKey, Store, DeleteOld, Discard, Reapply, Record,
                  Revoke, Arrive, DatabaseFails
    <2>2. \A b \in Accounts : row[b].exists => row'[b].exists
      <3>1. CASE UNCHANGED row
        BY <3>1
      <3>2. CASE Store(r)
        BY <3>2, StoreWrites
      <3>3. CASE Record(r)
        <4> DEFINE new == [row[a] EXCEPT !.actions = req[r].scope]
        <4>1. new.exists = row[a].exists
          BY Now DEF RowType, Row
        <4>2. UNCHANGED row \/ row' = [row EXCEPT ![a] = new]
          BY <3>3, <1>1 DEF Record, DatabaseFails
        <4> HIDE DEF new
        <4> QED BY <1>1, <4>1, <4>2
      <3>4. CASE Revoke(r)
        <4> DEFINE new == [row[a] EXCEPT !.key = NoKey, !.actions = "none"]
        <4>1. new.exists = row[a].exists
          BY Now DEF RowType, Row
        <4>2. UNCHANGED row \/ row' = [row EXCEPT ![a] = new]
          BY <3>4, <1>1 DEF Revoke, DatabaseFails
        <4> HIDE DEF new
        <4> QED BY <1>1, <4>1, <4>2
      <3> QED BY <1>8, <3>1, <3>2, <3>3, <3>4 DEF KeyAction, CreateKey, CheckKey, DeleteOld, Discard,
                 Reapply, Arrive
    <2>3. req'[r].at \notin {"getSession", "postSession", "dropRow"}
      <3>1. ASSUME NEW step \in {"readKey", "store", "discard", "forget", "dropSession"}, Go(r, step)
            PROVE  req'[r].at = step
        BY <1>1, <3>1, GoneWith
      <3>2. End(r) \/ Abort(r) => req'[r].at \in {"idle", "undoSession"}
        BY <1>1, EndedWith, AbortedWith, IdleType
      <3>3. ASSUME NEW op, NEW b, Arrive(r, op, b, "account") PROVE req'[r].at = "account"
        BY <1>1, <3>3, ArrivedWith
      <3>4. req \in [Requests -> ReqType] /\ req[r] \in ReqType
        BY Parts, Now DEF Inv
      <3>5. CASE KeyAction(r)
        BY <3>1, <3>2, <3>3, <3>4, <3>5 DEF KeyAction, ReqType
      <3>6. CASE CreateKey(r)
        BY <3>2, <3>4, <3>6 DEF CreateKey, ReqType
      <3>7. CASE CheckKey(r)
        BY <3>1, <3>4, <3>7 DEF CheckKey, ReqType
      <3>8. CASE Store(r)
        BY <3>1, <3>2, <3>4, <3>8 DEF Store, ReqType
      <3>9. CASE DeleteOld(r) \/ Discard(r) \/ Record(r)
        BY <3>2, <3>9 DEF DeleteOld, Discard, Record
      <3>10. CASE Reapply(r)
        <4>1. ASSUME NEW s, NEW step, req' = [req EXCEPT ![r].scope = s, ![r].at = step]
              PROVE  req'[r].at = step
          BY <3>4, <4>1 DEF ReqType
        <4>2. \/ End(r)
              \/ \E s \in {keys[req[r].old].scope}, step \in {"record", "put"} :
                    req' = [req EXCEPT ![r].scope = s, ![r].at = step]
              \/ \E s \in {"policy", keys[req[r].old].scope} :
                    req' = [req EXCEPT ![r].scope = s, ![r].at = "record"]
          BY <3>10 DEF Reapply
        <4> QED BY <3>2, <4>1, <4>2
      <3>11. CASE Revoke(r)
        BY <3>1, <3>2, <3>4, <3>11 DEF Revoke, ReqType
      <3> QED BY <1>8, <3>5, <3>6, <3>7, <3>8, <3>9, <3>10, <3>11
    <2> QED BY <2>1, <2>2, <2>3, TidyStays DEF Strayed
  <1> QED BY <1>2, <1>3, <1>4, <1>5, <1>6, <1>7, <1>8 DEF Step

LEMMA TidyKeeps ==
    ASSUME OneAtATime, "lost" \notin Faults
    PROVE  Orderly /\ Tidy /\ [Next]_vars => Tidy'
  <1> SUFFICES ASSUME Orderly, Tidy, [Next]_vars PROVE Tidy'
    OBVIOUS
  <1>1. ASSUME NEW r \in Requests, Step(r) PROVE Tidy'
    <2>1. NoStraySessions' /\ Strayed(req[r])'
      BY <1>1, SomeSteps
    <2>2. \A q \in Requests : q = r
      BY DEF OneAtATime
    <2> QED BY <2>1, <2>2 DEF Tidy
  <1>2. CASE AdminRestart
    BY <1>2, IdleType DEF AdminRestart, Tidy, NoStraySessions, Strayed
  <1>3. CASE Dashboard \/ UNCHANGED vars
    BY <1>3 DEF Dashboard, vars, Tidy, NoStraySessions, Strayed
  <1> QED BY <1>1, <1>2, <1>3 DEF Next

\* Where no answer of WAHA is lost, a session belongs to an account that exists
\* or is named in the log, at every step of every creation and deletion, under
\* every other fault, crashes included (create_account, delete_account).
THEOREM SessionsHaveAccounts ==
    ASSUME OneAtATime, "lost" \notin Faults PROVE Spec => []NoStraySessions
  <1>1. Init => Tidy
    BY IdleType DEF Init, Tidy, NoStraySessions, Strayed
  <1>2. Tidy => NoStraySessions
    BY DEF Tidy
  <1> QED BY <1>1, <1>2, OrderInvariant, TidyKeeps, PTL DEF Spec

-----------------------------------------------------------------------------
(* Keys.                                                                   *)

LEMMA PurposeKept ==
    ASSUME Inv, NEW r \in Requests, Purpose(req[r]), Step(r) PROVE Purpose(req[r])'
  <1>1. req \in [Requests -> ReqType] /\ req[r] \in ReqType
    BY Parts, Request DEF Inv
  <1>2. req'[r] = Idle => Purpose(req[r])'
    BY IdleType DEF Purpose, InHand
  <1>3. End(r) => Purpose(req[r])'
    BY <1>2, EndedWith
  <1>4. Abort(r) => Purpose(req[r])'
    BY <1>2, AbortedWith DEF Purpose, InHand
  <1>5. ASSUME NEW op, NEW b, Arrive(r, op, b, "account"), op \in {"provision", "rotate", "verify", "repair"}
        PROVE  Purpose(req[r])'
    BY <1>5, ArrivedWith DEF Purpose, InHand
  <1>6. ASSUME NEW op, NEW b, NEW step \in {"session", "deleting"}, Arrive(r, op, b, step)
        PROVE  Purpose(req[r])'
    BY <1>6, ArrivedWith DEF Purpose, InHand
  <1>7. ASSUME NEW step \in {"dropRow", "forget", "dropSession", "revokeRead"}, Go(r, step)
        PROVE  Purpose(req[r])'
    BY <1>7, GoneWith DEF Purpose, InHand
  <1>8. CASE CreateAccount(r)
    <2>1. ASSUME NEW b, Arrive(r, "create", b, "addRow") PROVE Purpose(req[r])'
      BY <2>1, ArrivedWith DEF Purpose, InHand
    <2> QED BY <1>7, <1>8, <2>1 DEF CreateAccount
  <1>9. CASE AddRow(r)
    <2>1. Go(r, "getSession") => Purpose(req[r])'
      BY <1>9, GoneWith DEF AddRow, At, Purpose, InHand
    <2> QED BY <1>3, <1>9, <2>1 DEF AddRow
  <1>10. CASE CreateSession(r)
    <2>1. ASSUME NEW step \in {"account", "postSession"}, Go(r, step) PROVE Purpose(req[r])'
      BY <1>10, <2>1, GoneWith DEF CreateSession, At, Purpose, InHand
    <2> QED BY <1>3, <1>7, <1>10, <2>1 DEF CreateSession
  <1>11. CASE KeyAction(r)
    <2>1. At(r, "account") /\ Go(r, "readKey") => Purpose(req[r])'
      BY GoneWith DEF At, Purpose, InHand
    <2>2. CASE /\ At(r, "readKey")
               /\ ~((req[r].op \in {"create", "provision"}) = (row[req[r].acct].key # NoKey))
               /\ req' = [req EXCEPT ![r].old = row[req[r].acct].key,
                                     ![r].at = IF req[r].op \in {"verify", "repair"} THEN "fetch" ELSE "issue"]
      <3> DEFINE k == row[req[r].acct].key
                 step == IF req[r].op \in {"verify", "repair"} THEN "fetch" ELSE "issue"
                 new == [req[r] EXCEPT !.old = k, !.at = step]
      <3>1. req' = [req EXCEPT ![r] = new] /\ step \in {"fetch", "issue"}
        BY <1>1, <2>2
      <3>2. req[r].op # "rotate" => step = "fetch" \/ k = NoKey
        BY <2>2 DEF At, Purpose
      <3> HIDE DEF step
      <3>3. new.at = step /\ new.old = k /\ new.op = req[r].op
        BY <1>1 DEF ReqType
      <3> HIDE DEF new
      <3> QED BY <1>1, <3>1, <3>2, <3>3 DEF Purpose, InHand
    <2> QED BY <1>4, <1>5, <1>11, <2>1, <2>2 DEF KeyAction
  <1>12. CASE CreateKey(r)
    <2>1. ASSUME NEW k, req' = [req EXCEPT ![r].at = "readBack", ![r].key = k] PROVE Purpose(req[r])'
      <3> DEFINE new == [req[r] EXCEPT !.at = "readBack", !.key = k]
      <3>1. req' = [req EXCEPT ![r] = new]
        BY <1>1, <2>1
      <3>2. new.at = "readBack" /\ new.old = req[r].old /\ new.op = req[r].op
        BY <1>1 DEF ReqType
      <3> HIDE DEF new
      <3> QED BY <1>1, <1>12, <3>1, <3>2 DEF CreateKey, At, Purpose, InHand
    <2> QED BY <1>4, <1>12, <2>1 DEF CreateKey
  <1>13. CASE CheckKey(r)
    <2>1. req[r].at \in {"readBack", "probe"}
      BY <1>13 DEF CheckKey, At
    <2>2. ASSUME NEW step \in {"store", "discard"}, Go(r, step) PROVE Purpose(req[r])'
      BY <2>1, <2>2, GoneWith DEF Purpose, InHand
    <2>3. ASSUME NEW s, req' = [req EXCEPT ![r].at = "probe", ![r].scope = s] PROVE Purpose(req[r])'
      <3> DEFINE new == [req[r] EXCEPT !.at = "probe", !.scope = s]
      <3>1. req' = [req EXCEPT ![r] = new]
        BY <1>1, <2>3
      <3>2. new.at = "probe" /\ new.old = req[r].old /\ new.op = req[r].op
        BY <1>1 DEF ReqType
      <3> HIDE DEF new
      <3> QED BY <1>1, <2>1, <3>1, <3>2 DEF Purpose, InHand
    <2> QED BY <1>13, <2>2, <2>3 DEF CheckKey
  <1>14. CASE Store(r)
    <2>1. At(r, "store") /\ Go(r, "discard") => Purpose(req[r])'
      BY GoneWith DEF At, Purpose, InHand
    <2>2. ASSUME req' = [req EXCEPT ![r].at = "deleteOld", ![r].key = NoKey] PROVE Purpose(req[r])'
      <3>1. req'[r].at = "deleteOld"
        BY <1>1, <2>2 DEF ReqType
      <3> QED BY <3>1 DEF Purpose, InHand
    <2> QED BY <1>3, <1>14, <2>1, <2>2 DEF Store
  <1>15. CASE Reapply(r)
    <2>1. ASSUME NEW s, NEW step \in {"record", "put"}, req' = [req EXCEPT ![r].scope = s, ![r].at = step]
          PROVE  Purpose(req[r])'
      <3>1. req'[r].at = step
        BY <1>1, <2>1 DEF ReqType
      <3> QED BY <2>1, <3>1 DEF Purpose, InHand
    <2>2. \/ End(r)
          \/ \E s \in {keys[req[r].old].scope}, step \in {"record", "put"} :
                req' = [req EXCEPT ![r].scope = s, ![r].at = step]
          \/ \E s \in {"policy", keys[req[r].old].scope} :
                req' = [req EXCEPT ![r].scope = s, ![r].at = "record"]
      BY <1>15 DEF Reapply
    <2> QED BY <1>3, <2>1, <2>2
  <1>16. CASE Revoke(r)
    <2>1. ASSUME NEW k, req' = [req EXCEPT ![r].at = "revoke", ![r].old = k] PROVE Purpose(req[r])'
      <3>1. req'[r].at = "revoke"
        BY <1>1, <2>1 DEF ReqType
      <3> QED BY <3>1 DEF Purpose, InHand
    <2> QED BY <1>3, <1>7, <1>16, <2>1 DEF Revoke
  <1>17. CASE DropRow(r) \/ DeleteOld(r) \/ Discard(r) \/ Record(r) \/ Session(r) \/ DeleteAccount(r)
    BY <1>3, <1>4, <1>6, <1>7, <1>17 DEF DropRow, DeleteOld, Discard, Record, Session, DeleteAccount
  <1> QED BY <1>8, <1>9, <1>10, <1>11, <1>12, <1>13, <1>14, <1>15, <1>16, <1>17 DEF Step

Dead == Lives \ {"unborn", "live"}

\* The step changes nothing about who has the key j in custody.
Same(j) ==
    \/ keys[j].life \in Dead /\ keys'[j].life \in Dead
    \/ /\ keys'[j].life = keys[j].life /\ (Stored(j)' <=> Stored(j)) /\ (Held(j)' <=> Held(j))
       /\ j \in logged => j \in logged'

\* Each key has the custody that the case analysis of CustodyOf gives it.
LEMMA Places ==
    ASSUME NEW k \in Keys, keys[k].life \in Lives
    PROVE  /\ keys[k].life = "unborn" => CustodyOf[k] = "unborn"
           /\ keys[k].life = "live" /\ Stored(k) => CustodyOf[k] = "stored"
           /\ keys[k].life = "live" /\ ~Stored(k) /\ Held(k) => CustodyOf[k] = "held"
           /\ keys[k].life = "live" /\ ~Stored(k) /\ ~Held(k) /\ k \in logged => CustodyOf[k] = "reported"
           /\ keys[k].life \in Dead => CustodyOf[k] = "deleted"
  BY DEF CustodyOf, Dead, Lives

LEMMA PlacesThen ==
    ASSUME NEW k \in Keys, keys'[k].life \in Lives
    PROVE  /\ keys'[k].life = "unborn" => CustodyOf'[k] = "unborn"
           /\ keys'[k].life = "live" /\ Stored(k)' => CustodyOf'[k] = "stored"
           /\ keys'[k].life = "live" /\ ~Stored(k)' /\ Held(k)' => CustodyOf'[k] = "held"
           /\ keys'[k].life = "live" /\ ~Stored(k)' /\ ~Held(k)' /\ k \in logged' => CustodyOf'[k] = "reported"
           /\ keys'[k].life \in Dead => CustodyOf'[k] = "deleted"
  BY DEF CustodyOf, Dead, Lives

LEMMA Alive ==
    ASSUME Inv, Inv', NEW k \in Keys
    PROVE  keys[k].life \in Lives /\ keys'[k].life \in Lives /\ Dead \subseteq Lives
  <1>1. keys \in [Keys -> KeyType] /\ keys' \in [Keys -> KeyType]
    BY DEF Inv, TypeOK, KeyType
  <1> QED BY <1>1 DEF KeyType, Dead

LEMMA SameCustody ==
    ASSUME Inv, Inv', NoUnknownKeys, NEW j \in Keys, Same(j)
    PROVE  /\ CustodyOf'[j] = CustodyOf[j]
           /\ keys'[j].life = "live" => Stored(j)' \/ Held(j)' \/ j \in logged'
  <1>1. keys[j].life \in Lives /\ keys'[j].life \in Lives
    BY Alive
  <1>2. keys[j].life = "live" => Stored(j) \/ Held(j) \/ j \in logged
    BY DEF NoUnknownKeys
  <1>3. CASE keys[j].life \in Dead /\ keys'[j].life \in Dead
    BY <1>1, <1>3, Places, PlacesThen DEF Dead
  <1>4. CASE /\ keys'[j].life = keys[j].life /\ (Stored(j)' <=> Stored(j)) /\ (Held(j)' <=> Held(j))
             /\ j \in logged => j \in logged'
    <2>1. keys[j].life = "unborn" \/ keys[j].life = "live" \/ keys[j].life \in Dead
      BY <1>1 DEF Dead
    <2> QED BY <1>1, <1>2, <1>4, <2>1, Places, PlacesThen
  <1> QED BY <1>3, <1>4 DEF Same

LEMMA CustodyDomain == CustodyOf = [k \in Keys |-> CustodyOf[k]] /\ CustodyOf' = [k \in Keys |-> CustodyOf'[k]]
  BY DEF CustodyOf

\* A step of KeyCustody, or none.
Keeps == NoUnknownKeys' /\ [Custody!Next]_CustodyOf

LEMMA NobodyMoves ==
    ASSUME Inv, Inv', NoUnknownKeys, \A j \in Keys : Same(j) PROVE Keeps
  <1>1. \A j \in Keys : CustodyOf'[j] = CustodyOf[j]
    BY SameCustody
  <1>2. NoUnknownKeys'
    BY SameCustody DEF NoUnknownKeys
  <1>3. CustodyOf' = CustodyOf
    BY <1>1, CustodyDomain
  <1> QED BY <1>2, <1>3 DEF Keeps

\* The custody of a key that lives on, or has just come to life, in its new place.
LEMMA OneMoves ==
    ASSUME Inv, Inv', NoUnknownKeys, NEW k \in Keys, \A j \in Keys : j # k => Same(j),
           keys'[k].life = "live" => Stored(k)' \/ Held(k)' \/ k \in logged'
    PROVE  NoUnknownKeys' /\ CustodyOf' = [CustodyOf EXCEPT ![k] = CustodyOf'[k]]
  <1>1. \A j \in Keys : j # k => CustodyOf'[j] = CustodyOf[j]
    BY SameCustody
  <1>2. NoUnknownKeys'
    BY SameCustody DEF NoUnknownKeys
  <1>3. CustodyOf' = [CustodyOf EXCEPT ![k] = CustodyOf'[k]]
    BY <1>1, CustodyDomain
  <1> QED BY <1>2, <1>3

LEMMA Holds ==
    ASSUME OneAtATime, NEW r \in Requests, NEW j
    PROVE  /\ Held(j) <=> req[r].key = j \/ (req[r].at = "deleteOld" /\ req[r].old = j)
           /\ Held(j)' <=> req'[r].key = j \/ (req'[r].at = "deleteOld" /\ req'[r].old = j)
  BY DEF OneAtATime, Held, At

\* The request does nothing that bears on a key's custody.
Untouched(r) ==
    /\ req'[r].key = req[r].key /\ req[r].at # "deleteOld" /\ req'[r].at # "deleteOld"
    /\ \A a \in Accounts : row'[a].key = row[a].key
    /\ \A j \in Keys : keys'[j].life = keys[j].life
    /\ logged \subseteq logged'

LEMMA UntouchedKeeps ==
    ASSUME OneAtATime, Inv, Inv', NoUnknownKeys, NEW r \in Requests, Untouched(r) PROVE Keeps
  <1>1. \A j \in Keys : (Stored(j)' <=> Stored(j)) /\ (Held(j)' <=> Held(j))
    BY Holds DEF Untouched, Stored
  <1>2. \A j \in Keys : Same(j)
    BY <1>1 DEF Same, Untouched
  <1> QED BY <1>2, NobodyMoves

\* A request that has no key in its hands before or after the step.
LEMMA EmptyHanded ==
    ASSUME Orderly, NEW r \in Requests
    PROVE  /\ req[r].at \notin InHand => req[r].key = NoKey
           /\ End(r) \/ Abort(r) => req'[r].key = NoKey /\ req'[r].at # "deleteOld"
           /\ \A step : Go(r, step) => req'[r].key = req[r].key /\ req'[r].at = step
           /\ \A op, b, step : Arrive(r, op, b, step) =>
                 req'[r].key = NoKey /\ req'[r].at = step /\ req[r].at = "idle"
  <1>1. Inv /\ Fits(req[r])
    BY Now
  <1>2. req[r].at \notin InHand => req[r].key = NoKey
    BY <1>1 DEF Fits
  <1>3. End(r) \/ Abort(r) => req'[r].key = NoKey /\ req'[r].at # "deleteOld"
    BY <1>1, EndedWith, AbortedWith, IdleType
  <1>4. \A step : Go(r, step) => req'[r].key = req[r].key /\ req'[r].at = step
    BY <1>1, GoneWith
  <1>5. ASSUME NEW op, NEW b, NEW step, Arrive(r, op, b, step)
        PROVE  req'[r].key = NoKey /\ req'[r].at = step /\ req[r].at = "idle"
    <2>1. req'[r].key = NoKey /\ req'[r].at = step
      BY <1>1, <1>5, ArrivedWith
    <2> QED BY <1>5, <2>1 DEF Arrive, At
  <1> QED BY <1>2, <1>3, <1>4, <1>5

LEMMA QuietCustody ==
    ASSUME Orderly, NEW r \in Requests,
           \/ CreateAccount(r) \/ AddRow(r) \/ CreateSession(r) \/ DropRow(r) \/ KeyAction(r)
           \/ CheckKey(r) \/ Reapply(r) \/ Record(r) \/ DeleteAccount(r) \/ Session(r)
    PROVE  Untouched(r)
  <1> DEFINE a == req[r].acct
  <1>1. /\ req \in [Requests -> ReqType] /\ req[r] \in ReqType /\ a \in Accounts
        /\ row \in [Accounts -> RowType] /\ keys \in [Keys -> KeyType] /\ Inv
    BY Parts, Now DEF Inv
  <1>2. ASSUME NEW op, NEW b, NEW step \in {"addRow", "account", "session", "deleting"}, Arrive(r, op, b, step)
        PROVE  Untouched(r)
    <2>1. UNCHANGED <<row, keys, logged>>
      BY <1>2 DEF Arrive
    <2>2. req[r].key = NoKey
      BY <1>2, EmptyHanded DEF InHand
    <2> QED BY <1>2, <2>1, <2>2, EmptyHanded DEF Untouched
  <1>3. ASSUME UNCHANGED <<row, keys>>, logged \subseteq logged', req[r].at \notin InHand \cup {"deleteOld"},
               \/ End(r) \/ Abort(r)
               \/ \E step \in {"dropRow", "account", "postSession", "readKey", "revokeRead", "dropSession"} : Go(r, step)
        PROVE  Untouched(r)
    BY <1>3, EmptyHanded DEF Untouched
  <1>4. CASE CreateAccount(r)
    <2>1. CASE \E b \in Targets : Arrive(r, "create", b, "addRow")
      BY <1>2, <2>1
    <2>2. CASE At(r, "undoSession") /\ Go(r, "dropRow") /\ UNCHANGED <<row, keys>> /\ logged \subseteq logged'
      BY <1>3, <2>2 DEF At, InHand
    <2> QED BY <1>4, <2>1, <2>2 DEF CreateAccount
  <1>5. CASE AddRow(r)
    <2>1. req[r].at = "addRow" /\ UNCHANGED <<keys, logged>> /\ (Go(r, "getSession") \/ End(r))
      BY <1>5 DEF AddRow, At, DatabaseFails
    <2>2. req'[r].key = req[r].key /\ req'[r].at # "deleteOld"
      BY <2>1, EmptyHanded DEF InHand
    <2>3. ~row[a].exists => row[a].key = NoKey
      BY <1>1, NoRowNoKey
    <2>4. \A b \in Accounts : row'[b].key = row[b].key
      BY <1>1, <1>5, <2>3, RowTypes DEF AddRow, DatabaseFails
    <2> QED BY <2>1, <2>2, <2>4 DEF Untouched
  <1>6. CASE CreateSession(r)
    <2>1. UNCHANGED <<row, keys, logged>> /\ req[r].at \in {"getSession", "postSession"}
      BY <1>6 DEF CreateSession, At
    <2>2. End(r) \/ \E step \in {"dropRow", "account", "postSession"} : Go(r, step)
      BY <1>6 DEF CreateSession
    <2> QED BY <1>3, <2>1, <2>2 DEF InHand
  <1>7. CASE DropRow(r)
    <2>1. req[r].at = "dropRow" /\ UNCHANGED <<keys, logged>> /\ End(r)
      BY <1>7 DEF DropRow, At, DatabaseFails
    <2>2. row[a].key = NoKey
      BY <2>1, Now DEF Order, Keyless
    <2>3. \A b \in Accounts : row'[b].key = row[b].key
      BY <1>1, <1>7, <2>2, RowTypes DEF DropRow, DatabaseFails
    <2> QED BY <2>1, <2>3, EmptyHanded DEF Untouched, InHand
  <1>8. CASE KeyAction(r)
    <2>1. CASE /\ At(r, "readKey") /\ UNCHANGED <<row, keys, logged>>
               /\ req' = [req EXCEPT ![r].old = row[a].key,
                                     ![r].at = IF req[r].op \in {"verify", "repair"} THEN "fetch" ELSE "issue"]
      <3>1. req'[r].key = req[r].key /\ req'[r].at \in {"fetch", "issue"}
        BY <1>1, <2>1 DEF ReqType
      <3> QED BY <2>1, <3>1 DEF At, Untouched
    <2>2. CASE /\ req[r].at \in {"account", "readKey"} /\ UNCHANGED <<row, keys, logged>>
               /\ Abort(r) \/ Go(r, "readKey")
      BY <1>3, <2>2 DEF InHand
    <2> QED BY <1>2, <1>8, <2>1, <2>2 DEF KeyAction, At
  <1>9. CASE CheckKey(r)
    <2>1. UNCHANGED <<row, keys, logged>> /\ req[r].at \in {"readBack", "probe"}
      BY <1>9 DEF CheckKey, At
    <2>2. ASSUME NEW s, req' = [req EXCEPT ![r].at = "probe", ![r].scope = s]
          PROVE  req'[r].key = req[r].key /\ req'[r].at = "probe"
      BY <1>1, <2>2 DEF ReqType
    <2>3. ASSUME NEW step \in {"store", "discard"}, Go(r, step)
          PROVE  req'[r].key = req[r].key /\ req'[r].at = step
      BY <2>3, EmptyHanded
    <2>4. req'[r].key = req[r].key /\ req'[r].at \in {"probe", "store", "discard"}
      BY <1>9, <2>2, <2>3 DEF CheckKey
    <2> QED BY <2>1, <2>4 DEF Untouched
  <1>10. CASE Reapply(r)
    <2>1. UNCHANGED <<row, logged>> /\ req[r].at \in {"fetch", "put"}
      BY <1>10 DEF Reapply, At
    <2>2. \A j \in Keys : keys'[j].life = keys[j].life
      <3>1. ASSUME NEW s, keys' = [keys EXCEPT ![req[r].old].scope = s]
            PROVE  \A j \in Keys : keys'[j].life = keys[j].life
        BY <1>1, <3>1 DEF KeyType
      <3> QED BY <1>10, <3>1 DEF Reapply
    <2>3. ASSUME NEW s, NEW step \in {"record", "put"}, req' = [req EXCEPT ![r].scope = s, ![r].at = step]
          PROVE  req'[r].key = req[r].key /\ req'[r].at # "deleteOld"
      BY <1>1, <2>3 DEF ReqType
    <2>4. \/ End(r)
          \/ \E s \in {keys[req[r].old].scope}, step \in {"record", "put"} :
                req' = [req EXCEPT ![r].scope = s, ![r].at = step]
          \/ \E s \in {"policy", keys[req[r].old].scope} :
                req' = [req EXCEPT ![r].scope = s, ![r].at = "record"]
      BY <1>10 DEF Reapply
    <2>5. req'[r].key = req[r].key /\ req'[r].at # "deleteOld"
      BY <2>1, <2>3, <2>4, EmptyHanded DEF InHand
    <2> QED BY <2>1, <2>2, <2>5 DEF Untouched
  <1>11. CASE Record(r)
    <2> DEFINE new == [row[a] EXCEPT !.actions = req[r].scope]
    <2>1. req[r].at = "record" /\ UNCHANGED <<keys, logged>> /\ End(r)
      BY <1>11 DEF Record, At, DatabaseFails
    <2>2. new.key = row[a].key
      BY <1>1 DEF RowType, Row
    <2>3. UNCHANGED row \/ row' = [row EXCEPT ![a] = new]
      BY <1>1, <1>11 DEF Record, DatabaseFails
    <2> HIDE DEF new
    <2>4. \A b \in Accounts : row'[b].key = row[b].key
      BY <1>1, <2>2, <2>3
    <2> QED BY <2>1, <2>4, EmptyHanded DEF Untouched, InHand
  <1>12. CASE DeleteAccount(r)
    <2>1. ASSUME NEW b \in Targets, Arrive(r, "delete", b, "deleting") PROVE Untouched(r)
      BY <1>2, <2>1
    <2>2. CASE req[r].at \in {"deleting", "dropSession"}
      <3>1. UNCHANGED <<row, keys, logged>>
        BY <1>12, <2>2 DEF DeleteAccount, At, Arrive
      <3>2. End(r) \/ \E step \in {"revokeRead", "dropSession", "dropRow"} : Go(r, step)
        BY <1>12, <2>2 DEF DeleteAccount, At, Arrive
      <3> QED BY <1>3, <2>2, <3>1, <3>2 DEF InHand
    <2> QED BY <1>12, <2>1, <2>2 DEF DeleteAccount, At
  <1>13. CASE Session(r)
    BY <1>2, <1>3, <1>13 DEF Session, At, InHand
  <1> QED BY <1>4, <1>5, <1>6, <1>7, <1>8, <1>9, <1>10, <1>11, <1>12, <1>13

\* A key that somebody has in custody dies.
LEMMA DeletedKeeps ==
    ASSUME Inv, Inv', NoUnknownKeys, NEW k \in Keys, keys[k].life = "live", keys'[k].life \in Dead,
           \A j \in Keys : j # k => Same(j)
    PROVE  Keeps
  <1>1. keys[k].life \in Lives /\ keys'[k].life \in Lives /\ keys'[k].life # "live"
    BY Alive DEF Dead
  <1>2. NoUnknownKeys' /\ CustodyOf' = [CustodyOf EXCEPT ![k] = CustodyOf'[k]]
    BY <1>1, OneMoves
  <1>3. CustodyOf'[k] = "deleted"
    BY <1>1, PlacesThen
  <1>4. CustodyOf[k] \in {"held", "stored", "reported"}
    BY <1>1, Places DEF NoUnknownKeys
  <1>5. Custody!Delete(k)
    BY <1>2, <1>3, <1>4 DEF Custody!Delete
  <1> QED BY <1>2, <1>5 DEF Keeps, Custody!Next

LEMMA CreateKeyCustody ==
    ASSUME OneAtATime, Faults \cap {"lost", "noValue"} = {}, Orderly, Inv', NoUnknownKeys,
           NEW r \in Requests, CreateKey(r)
    PROVE  Keeps
  <1>1. /\ req[r].at = "issue" /\ req[r].key = NoKey /\ UNCHANGED <<row, logged>>
        /\ keys \in [Keys -> KeyType] /\ Inv
    BY Now DEF CreateKey, At, Fits, InHand
  <1>2. CASE Abort(r) /\ UNCHANGED keys
    <2>1. Untouched(r)
      BY <1>1, <1>2, EmptyHanded DEF Untouched
    <2> QED BY <1>1, <2>1, UntouchedKeeps
  <1>3. ASSUME NEW k \in Keys, NEW s \in Scopes, NEW b \in Accounts, keys[k].life = "unborn",
               keys' = [keys EXCEPT ![k] = [life |-> "live", acct |-> b, scope |-> s]],
               req' = [req EXCEPT ![r].at = "readBack", ![r].key = k]
        PROVE  Keeps
    <2>1. req'[r].at = "readBack" /\ req'[r].key = k
      <3>1. req \in [Requests -> ReqType] /\ req[r] \in ReqType
        BY Parts, Now DEF Inv
      <3> QED BY <1>3, <3>1 DEF ReqType
    <2>2. keys'[k].life = "live" /\ \A j \in Keys : j # k => keys'[j] = keys[j]
      BY <1>1, <1>3
    <2>3. \A j \in Keys : (Stored(j)' <=> Stored(j)) /\ ~Held(j) /\ (Held(j)' <=> j = k)
      BY <1>1, <2>1, Holds, KeyAssumption DEF Stored
    <2>4. \A j \in Keys : j # k => Same(j)
      BY <1>1, <2>2, <2>3 DEF Same
    <2>5. ~Stored(k)
      BY <1>3, KeyAssumption, Now DEF Inv, Rows, Stored
    <2>6. NoUnknownKeys' /\ CustodyOf' = [CustodyOf EXCEPT ![k] = CustodyOf'[k]]
      BY <1>1, <2>3, <2>4, OneMoves
    <2>7. CustodyOf[k] = "unborn" /\ CustodyOf'[k] = "held"
      BY <1>1, <1>3, <2>2, <2>3, <2>5, Alive, Places, PlacesThen
    <2>8. Custody!Create(k)
      BY <2>6, <2>7 DEF Custody!Create
    <2> QED BY <2>6, <2>8 DEF Keeps, Custody!Next
  <1> QED BY <1>2, <1>3 DEF CreateKey

\* The key in the hands of a request, or the one it replaced, is deleted or
\* reported when the request lets go of it.
LEMMA LetGoCustody ==
    ASSUME OneAtATime, Orderly, Inv', NoUnknownKeys, NEW r \in Requests, NEW k \in Keys,
           UNCHANGED row, ~Stored(k), \A j \in Keys : Held(j) => j = k, Held(k),
           req'[r].key = NoKey, req'[r].at # "deleteOld", NEW life \in Dead,
           NEW outcome \in Outcomes,
           IF Applied(outcome) THEN DeleteKey(k, life) ELSE UNCHANGED keys,
           logged' = IF outcome = "ok" THEN logged ELSE logged \cup {k}
    PROVE  Keeps
  <1>1. keys \in [Keys -> KeyType] /\ keys[k].life \in Lives /\ keys'[k].life \in Lives /\ Inv
    BY Now, Alive DEF Orderly
  <1>2. \A j \in Keys : ~Held(j)' /\ (Stored(j)' <=> Stored(j)) /\ (j \in logged => j \in logged')
    BY Holds, KeyAssumption DEF Stored
  <1>3. \A j \in Keys : j # k => keys'[j] = keys[j]
    BY <1>1 DEF DeleteKey
  <1>4. \A j \in Keys : j # k => Same(j)
    BY <1>2, <1>3 DEF Same
  <1>5. CASE keys[k].life = "live" /\ keys'[k].life = life
    BY <1>1, <1>4, <1>5, DeletedKeeps
  <1>6. CASE keys[k].life # "live" /\ UNCHANGED keys
    <2>1. Same(k)
      <3>1. keys[k].life \in Dead \/ keys[k].life = "unborn"
        BY <1>1, <1>6 DEF Dead
      <3>2. Held(k) => keys[k].life # "unborn"
        <4>1. req[r].key = k \/ (req[r].at = "deleteOld" /\ req[r].old = k)
          BY Holds
        <4>2. k # NoKey /\ Fits(req[r])
          BY KeyAssumption, Now
        <4> QED BY <4>1, <4>2 DEF Fits
      <3> QED BY <1>6, <3>1, <3>2 DEF Same
    <2>2. \A j \in Keys : Same(j)
      BY <1>4, <2>1
    <2> QED BY <1>1, <2>2, NobodyMoves
  <1>7. CASE keys[k].life = "live" /\ UNCHANGED keys /\ k \in logged'
    <2>1. NoUnknownKeys' /\ CustodyOf' = [CustodyOf EXCEPT ![k] = CustodyOf'[k]]
      BY <1>1, <1>4, <1>7, OneMoves
    <2>2. CustodyOf[k] = "held" /\ CustodyOf'[k] = "reported"
      BY <1>1, <1>2, <1>7, Places, PlacesThen
    <2>3. Custody!Report(k)
      BY <2>1, <2>2 DEF Custody!Report
    <2> QED BY <2>1, <2>3 DEF Keeps, Custody!Next
  <1>8. \/ keys[k].life = "live" /\ keys'[k].life = life
        \/ keys[k].life # "live" /\ UNCHANGED keys
        \/ keys[k].life = "live" /\ UNCHANGED keys /\ k \in logged'
    <2>1. CASE Applied(outcome)
      BY <1>1, <2>1 DEF DeleteKey, KeyType
    <2>2. CASE ~Applied(outcome)
      BY <2>2 DEF Applied
    <2> QED BY <2>1, <2>2
  <1> QED BY <1>5, <1>6, <1>7, <1>8

LEMMA DeleteOldCustody ==
    ASSUME OneAtATime, Orderly, Inv', NoUnknownKeys, NEW r \in Requests, DeleteOld(r) PROVE Keeps
  <1>1. req[r].at = "deleteOld" /\ Fits(req[r]) /\ req[r] \in ReqType /\ End(r) /\ UNCHANGED row
    BY Now DEF DeleteOld, At
  <1>2. req[r].old \in Keys /\ ~Stored(req[r].old) /\ req[r].key = NoKey
    BY <1>1 DEF Fits, WithOld, InHand, ReqType
  <1>3. Held(req[r].old) /\ \A j \in Keys : Held(j) => j = req[r].old
    BY <1>1, <1>2, Holds, KeyAssumption
  <1>4. req'[r].key = NoKey /\ req'[r].at # "deleteOld" /\ "rotated" \in Dead
    BY <1>1, EmptyHanded DEF Dead, Lives
  <1>5. PICK outcome \in Outcomes :
          /\ IF Applied(outcome) THEN DeleteKey(req[r].old, "rotated") ELSE UNCHANGED keys
          /\ logged' = IF outcome = "ok" THEN logged ELSE logged \cup {req[r].old}
    BY DEF DeleteOld
  <1> QED BY <1>1, <1>2, <1>3, <1>4, <1>5, LetGoCustody

LEMMA DiscardCustody ==
    ASSUME OneAtATime, Orderly, Inv', NoUnknownKeys, NEW r \in Requests, Discard(r) PROVE Keeps
  <1>1. req[r].at = "discard" /\ Fits(req[r]) /\ req[r] \in ReqType /\ Abort(r) /\ UNCHANGED row
    BY Now DEF Discard, At
  <1>2. req[r].key \in Keys /\ ~Stored(req[r].key)
    BY <1>1 DEF Fits, InHand, ReqType
  <1>3. Held(req[r].key) /\ \A j \in Keys : Held(j) => j = req[r].key
    BY <1>1, Holds
  <1>4. req'[r].key = NoKey /\ req'[r].at # "deleteOld" /\ "discarded" \in Dead
    BY <1>1, EmptyHanded DEF Dead, Lives
  <1>5. PICK outcome \in Outcomes :
          /\ IF Applied(outcome) THEN DeleteKey(req[r].key, "discarded") ELSE UNCHANGED keys
          /\ logged' = IF outcome = "ok" THEN logged ELSE logged \cup {req[r].key}
    BY DEF Discard
  <1> QED BY <1>1, <1>2, <1>3, <1>4, <1>5, LetGoCustody

LEMMA StoreCustody ==
    ASSUME OneAtATime, Orderly, Inv', NoUnknownKeys, NEW r \in Requests, Purpose(req[r]), Store(r)
    PROVE  Keeps
  <1>1. PICK k, o, a : k = req[r].key /\ o = req[r].old /\ a = req[r].acct
    OBVIOUS
  <1>2. /\ req[r].at = "store" /\ Fits(req[r]) /\ req[r] \in ReqType /\ Inv /\ a \in Accounts
        /\ req \in [Requests -> ReqType] /\ UNCHANGED <<keys, logged>> /\ row[a].key = o
    BY <1>1, Now, Parts, StoreWrites DEF Store, At, Inv, DatabaseFails, Order, Reading, InHand
  <1>3. k \in Keys /\ k # NoKey /\ ~Stored(k) /\ k # o
    BY <1>1, <1>2 DEF Fits, InHand, ReqType, Inv, Apart
  <1>4. \A j \in Keys : Held(j) <=> j = k
    BY <1>1, <1>2, <1>3, Holds
  <1>5. CASE UNCHANGED row /\ Go(r, "discard")
    <2>1. req'[r].key = req[r].key /\ req'[r].at = "discard"
      BY <1>5, EmptyHanded
    <2>2. Untouched(r)
      BY <1>2, <1>5, <2>1 DEF Untouched
    <2> QED BY <1>2, <2>2, UntouchedKeeps
  <1>6. ASSUME \A b \in Accounts : b # a => row'[b] = row[b], row'[a].key = k,
               \/ req[r].op # "rotate" /\ End(r)
               \/ req[r].op = "rotate" /\ req' = [req EXCEPT ![r].at = "deleteOld", ![r].key = NoKey]
        PROVE  Keeps
    <2>1. Stored(k)' /\ \A j \in Keys : j # k /\ j # o => (Stored(j)' <=> Stored(j))
      BY <1>2, <1>6 DEF Stored
    <2>2. keys[k].life \in Lives /\ keys'[k].life = keys[k].life /\ keys[k].life # "unborn"
      BY <1>1, <1>2, <1>3, Alive DEF Fits
    <2>3. CustodyOf[k] = "held" \/ CustodyOf[k] = "deleted"
      BY <1>3, <1>4, <2>2, Places DEF Dead
    <2>4. CustodyOf'[k] = IF CustodyOf[k] = "held" THEN "stored" ELSE CustodyOf[k]
      <3>1. CASE keys[k].life = "live"
        BY <1>3, <1>4, <2>1, <2>2, <3>1, Places, PlacesThen
      <3>2. CASE keys[k].life \in Dead
        BY <1>3, <2>2, <3>2, Places, PlacesThen
      <3> QED BY <2>2, <3>1, <3>2 DEF Dead
    <2>5. CASE req[r].op # "rotate" /\ End(r)
      <3>1. o = NoKey
        BY <1>1, <1>2, <2>5 DEF Purpose, InHand
      <3>2. \A j \in Keys : ~Held(j)'
        BY <1>2, <2>5, EmptyHanded, Holds, KeyAssumption
      <3>3. \A j \in Keys : j # k => Same(j)
        BY <1>2, <1>4, <2>1, <3>1, <3>2, KeyAssumption DEF Same
      <3>4. NoUnknownKeys' /\ CustodyOf' = [CustodyOf EXCEPT ![k] = CustodyOf'[k]]
        BY <1>2, <1>3, <2>1, <3>3, OneMoves
      <3>5. CASE CustodyOf[k] = "held"
        <4>1. Custody!Store(k)
          BY <2>4, <3>4, <3>5 DEF Custody!Store
        <4> QED BY <1>3, <3>4, <4>1 DEF Keeps, Custody!Next
      <3>6. CASE CustodyOf[k] # "held"
        <4>1. CustodyOf' = CustodyOf
          BY <1>3, <2>4, <3>4, <3>6, CustodyDomain
        <4> QED BY <3>4, <4>1 DEF Keeps
      <3> QED BY <3>5, <3>6
    <2>6. CASE req[r].op = "rotate" /\ req' = [req EXCEPT ![r].at = "deleteOld", ![r].key = NoKey]
      <3>1. req'[r].at = "deleteOld" /\ req'[r].key = NoKey /\ req'[r].old = o
        BY <1>1, <1>2, <2>6 DEF ReqType
      <3>2. o \in Keys /\ keys[o].life \in Lives /\ keys[o].life # "unborn" /\ Stored(o)
        BY <1>1, <1>2, <2>6, Alive DEF Fits, InHand, ReqType, Stored
      <3>3. ~Stored(o)'
        <4>1. \A b \in Accounts : row'[b].key # req'[r].old
          BY <3>1 DEF Inv, Fits, Stored
        <4> QED BY <3>1, <4>1 DEF Stored
      <3>4. \A j \in Keys : Held(j)' <=> j = o
        BY <3>1, <3>2, Holds, KeyAssumption
      <3>5. \A j \in Keys : j # k /\ j # o => Same(j) /\ CustodyOf'[j] = CustodyOf[j]
        <4> SUFFICES ASSUME NEW j \in Keys, j # k, j # o PROVE Same(j) /\ CustodyOf'[j] = CustodyOf[j]
          OBVIOUS
        <4>1. Same(j)
          BY <1>2, <1>4, <2>1, <3>4 DEF Same
        <4> QED BY <1>2, <4>1, SameCustody
      <3>6. NoUnknownKeys'
        BY <1>2, <2>1, <3>4, <3>5, SameCustody DEF NoUnknownKeys
      <3>7. CASE keys[o].life = "live"
        <4>1. CustodyOf[o] = "stored" /\ CustodyOf'[o] = "held"
          BY <1>2, <3>2, <3>3, <3>4, <3>7, Places, PlacesThen
        <4>2. CustodyOf' = [CustodyOf EXCEPT ![k] = IF @ = "held" THEN "stored" ELSE @, ![o] = "held"]
          BY <1>3, <2>4, <3>2, <3>5, <4>1, CustodyDomain
        <4>3. Custody!Replace(k, o)
          BY <2>3, <4>1, <4>2 DEF Custody!Replace
        <4> QED BY <1>3, <3>2, <3>6, <4>3 DEF Keeps, Custody!Next
      <3>8. CASE keys[o].life # "live"
        <4>1. keys[o].life \in Dead /\ keys'[o].life \in Dead
          BY <1>2, <3>2, <3>8 DEF Dead
        <4>2. \A j \in Keys : j # k => CustodyOf'[j] = CustodyOf[j]
          BY <3>2, <3>5, <4>1, Places, PlacesThen DEF Dead
        <4>3. CustodyOf' = [CustodyOf EXCEPT ![k] = CustodyOf'[k]]
          BY <1>3, <4>2, CustodyDomain
        <4>4. CASE CustodyOf[k] = "held"
          <5>1. Custody!Store(k)
            BY <2>4, <4>3, <4>4 DEF Custody!Store
          <5> QED BY <1>3, <3>6, <5>1 DEF Keeps, Custody!Next
        <4>5. CASE CustodyOf[k] # "held"
          <5>1. CustodyOf' = CustodyOf
            BY <1>3, <2>4, <4>3, <4>5, CustodyDomain
          <5> QED BY <3>6, <5>1 DEF Keeps
        <4> QED BY <4>4, <4>5
      <3> QED BY <3>7, <3>8
    <2> QED BY <1>6, <2>5, <2>6
  <1> QED BY <1>1, <1>2, <1>5, <1>6, StoreWrites

LEMMA RevokeCustody ==
    ASSUME OneAtATime, Orderly, Inv', NoUnknownKeys, NEW r \in Requests, Revoke(r) PROVE Keeps
  <1>1. PICK k, a : k = req[r].old /\ a = req[r].acct
    OBVIOUS
  <1>2. /\ req \in [Requests -> ReqType] /\ req[r] \in ReqType /\ Fits(req[r]) /\ Inv /\ Order(req[r])
        /\ a \in Accounts /\ row \in [Accounts -> RowType] /\ keys \in [Keys -> KeyType]
        /\ UNCHANGED logged
    BY <1>1, Now, Parts DEF Inv, Revoke
  <1>3. CASE req[r].at = "revokeRead"
    <2>1. req[r].key = NoKey /\ UNCHANGED <<row, keys>>
      BY <1>2, <1>3 DEF Fits, InHand, Revoke, At
    <2>2. ASSUME NEW x, req' = [req EXCEPT ![r].at = "revoke", ![r].old = x]
          PROVE  req'[r].key = NoKey /\ req'[r].at = "revoke"
      BY <1>2, <2>1, <2>2 DEF ReqType
    <2>3. \/ Go(r, "dropSession")
          \/ \E x \in {row[req[r].acct].key} : req' = [req EXCEPT ![r].at = "revoke", ![r].old = x]
      BY <1>3 DEF Revoke, At
    <2>4. req'[r].key = NoKey /\ req'[r].at # "deleteOld"
      BY <2>1, <2>2, <2>3, EmptyHanded
    <2>5. Untouched(r)
      BY <1>2, <1>3, <2>1, <2>4 DEF Untouched
    <2> QED BY <1>2, <2>5, UntouchedKeeps
  <1>4. CASE req[r].at \in {"revoke", "forget"}
    <2>1. /\ req[r].key = NoKey /\ k \in Keys /\ keys[k].life # "unborn" /\ row[a].key = k
      <3>1. req[r].key = NoKey
        BY <1>2, <1>4 DEF Fits, InHand
      <3>2. k # NoKey /\ row[a].key = k
        BY <1>1, <1>2, <1>4 DEF Fits, WithOld, Order, Reading
      <3> QED BY <1>1, <1>2, <3>1, <3>2 DEF Fits, ReqType
    <2>2. req'[r].key = NoKey /\ req'[r].at # "deleteOld"
      <3>1. End(r) \/ \E step \in {"forget", "dropSession"} : Go(r, step)
        BY <1>4 DEF Revoke, At
      <3> QED BY <2>1, <3>1, EmptyHanded
    <2>3. \A j \in Keys : ~Held(j) /\ ~Held(j)'
      BY <1>4, <2>1, <2>2, Holds, KeyAssumption
    <2>4. CASE req[r].at = "revoke"
      <3>1. /\ UNCHANGED row
            /\ UNCHANGED keys \/ (keys[k].life = "live" /\ keys' = [keys EXCEPT ![k].life = "revoked"])
        BY <1>1, <2>4 DEF Revoke, At, DeleteKey
      <3>2. \A j \in Keys : Stored(j)' <=> Stored(j)
        BY <3>1 DEF Stored
      <3>3. CASE UNCHANGED keys
        <4>1. \A j \in Keys : Same(j)
          BY <1>2, <2>3, <3>2, <3>3 DEF Same
        <4> QED BY <1>2, <4>1, NobodyMoves
      <3>4. CASE keys[k].life = "live" /\ keys' = [keys EXCEPT ![k].life = "revoked"]
        <4>1. keys'[k].life = "revoked" /\ "revoked" \in Dead /\ \A j \in Keys : j # k => keys'[j] = keys[j]
          BY <1>2, <2>1, <3>4 DEF KeyType, Dead, Lives
        <4>2. \A j \in Keys : j # k => Same(j)
          BY <1>2, <2>3, <3>2, <4>1 DEF Same
        <4> QED BY <1>2, <2>1, <3>4, <4>1, <4>2, DeletedKeeps
      <3> QED BY <3>1, <3>3, <3>4
    <2>5. CASE req[r].at = "forget"
      <3>1. UNCHANGED keys /\ \A b \in Accounts : b # a => row'[b] = row[b]
        BY <1>1, <1>2, <2>5 DEF Revoke, At, DatabaseFails
      <3>2. keys[k].life \in Dead
        BY <1>1, <1>2, <2>1, <2>5, Alive DEF Order, Dead
      <3>3. row'[a].key \in {k, NoKey}
        BY <1>1, <1>2, <2>1, <2>5 DEF Revoke, At, DatabaseFails, RowType, Row
      <3>4. \A j \in Keys : j # k => (Stored(j)' <=> Stored(j))
        BY <2>1, <3>1, <3>3, KeyAssumption DEF Stored
      <3>5. \A j \in Keys : Same(j)
        BY <1>2, <2>3, <3>1, <3>2, <3>4 DEF Same
      <3> QED BY <1>2, <3>5, NobodyMoves
    <2> QED BY <1>4, <2>4, <2>5
  <1> QED BY <1>3, <1>4 DEF Revoke, At

LEMMA DashboardCustody ==
    ASSUME Inv, Inv', NoUnknownKeys, Dashboard PROVE Keeps
  <1>1. UNCHANGED <<row, req, logged>> /\ keys \in [Keys -> KeyType]
    BY Parts DEF Dashboard, Inv
  <1>2. \A j \in Keys : (Stored(j)' <=> Stored(j)) /\ (Held(j)' <=> Held(j))
    BY <1>1 DEF Stored, Held, At
  <1>3. PICK k \in Keys :
          /\ keys[k].life = "live"
          /\ \/ \E s \in Scopes : keys' = [keys EXCEPT ![k].scope = s]
             \/ keys' = [keys EXCEPT ![k].life = "external"]
    BY DEF Dashboard, DeleteKey
  <1>4. CASE \E s \in Scopes : keys' = [keys EXCEPT ![k].scope = s]
    <2>1. \A j \in Keys : keys'[j].life = keys[j].life
      BY <1>1, <1>4 DEF KeyType
    <2>2. \A j \in Keys : Same(j)
      BY <1>1, <1>2, <2>1 DEF Same
    <2> QED BY <2>2, NobodyMoves
  <1>5. CASE keys' = [keys EXCEPT ![k].life = "external"]
    <2>1. keys'[k].life = "external" /\ "external" \in Dead /\ \A j \in Keys : j # k => keys'[j] = keys[j]
      BY <1>1, <1>5 DEF KeyType, Dead, Lives
    <2>2. \A j \in Keys : j # k => Same(j)
      BY <1>1, <1>2, <2>1 DEF Same
    <2> QED BY <1>3, <2>1, <2>2, DeletedKeeps
  <1> QED BY <1>3, <1>4, <1>5

\* Every step of the key manager is a step of KeyCustody or leaves custody alone.
LEMMA StepsKeepCustody ==
    ASSUME OneAtATime, Faults \cap {"lost", "noValue", "crash"} = {}, Known, [Next]_vars
    PROVE  Known' /\ [Custody!Next]_CustodyOf
  <1>1. Orderly /\ Inv /\ NoUnknownKeys /\ \A r \in Requests : Purpose(req[r])
    BY DEF Known, Orderly
  <1>2. Orderly' /\ Inv'
    BY <1>1, OrderlyKeeps DEF Orderly
  <1>3. ASSUME NEW r \in Requests, Step(r) PROVE Keeps /\ \A q \in Requests : Purpose(req[q])'
    <2>1. Purpose(req[r])'
      BY <1>1, <1>3, PurposeKept
    <2>2. \A q \in Requests : q = r
      BY DEF OneAtATime
    <2>3. Untouched(r) => Keeps
      BY <1>1, <1>2, UntouchedKeeps
    <2>4. Faults \cap {"lost", "noValue"} = {}
      OBVIOUS
    <2>5. Keeps
      BY <1>1, <1>2, <1>3, <2>3, <2>4, QuietCustody, CreateKeyCustody, StoreCustody, DeleteOldCustody,
         DiscardCustody, RevokeCustody DEF Step
    <2> QED BY <2>1, <2>2, <2>5
  <1>4. CASE Dashboard
    <2>1. \A q \in Requests : Purpose(req[q])'
      BY <1>1, <1>4 DEF Dashboard, Purpose
    <2> QED BY <1>1, <1>2, <1>4, <2>1, DashboardCustody DEF Known, Keeps
  <1>5. ~AdminRestart
    BY DEF AdminRestart
  <1>6. CASE UNCHANGED vars
    <2>1. \A j \in Keys : Same(j)
      BY <1>6 DEF vars, Same, Stored, Held, At
    <2>2. Keeps
      BY <1>1, <1>2, <2>1, NobodyMoves
    <2>3. \A q \in Requests : Purpose(req[q])'
      BY <1>1, <1>6 DEF vars, Purpose
    <2> QED BY <1>2, <2>2, <2>3 DEF Known, Keeps
  <1> QED BY <1>2, <1>3, <1>4, <1>5, <1>6 DEF Next, Known, Keeps

LEMMA InitiallyKnown == Init => Known /\ Custody!Init
  <1> SUFFICES ASSUME Init PROVE Known /\ Custody!Init
    OBVIOUS
  <1>1. \A k \in Keys : keys[k].life = "unborn"
    BY DEF Init
  <1>2. NoUnknownKeys /\ CustodyOf = [k \in Keys |-> "unborn"]
    BY <1>1 DEF NoUnknownKeys, CustodyOf
  <1>3. \A r \in Requests : Purpose(req[r])
    BY IdleType DEF Init, Purpose, InHand
  <1> QED BY <1>2, <1>3, InitiallyOrderly DEF Known, Custody!Init

\* "A failure never leaves a live key we don't know about" (key_manager.py):
\* it holds when WAHA returns the value of every key it creates, no answer is
\* lost, no request is cut short and requests come one at a time; calls and
\* statements may fail, scopes be ignored and keys change in the dashboard.
THEOREM NoKeyUnknown ==
    ASSUME OneAtATime, Faults \cap {"lost", "noValue", "crash"} = {}
    PROVE  Spec => []NoUnknownKeys
  <1>1. Known /\ [Next]_vars => Known'
    BY StepsKeepCustody
  <1>2. Known => NoUnknownKeys
    BY DEF Known
  <1> QED BY <1>1, <1>2, InitiallyKnown, PTL DEF Spec

\* Under the same assumptions the key manager and the Accounts page implement
\* KeyCustody: each call moves at most one key, or swaps two in a rotation.
THEOREM ImplementsCustody ==
    ASSUME OneAtATime, Faults \cap {"lost", "noValue", "crash"} = {}
    PROVE  Spec => CustodyKept
  <1>1. Known /\ [Next]_vars => Known' /\ [Custody!Next]_CustodyOf
    BY StepsKeepCustody
  <1> QED BY <1>1, InitiallyKnown, PTL DEF Spec, CustodyKept, Custody!Spec

=============================================================================
