---------------------------- MODULE KeyLifecycle ----------------------------
(***************************************************************************)
(* The scoped WAHA key of an account: key_manager.py over the WAHA key API *)
(* (waha_keys.py), and the Accounts page handlers that create and delete   *)
(* accounts, their WAHA sessions and their keys.                           *)
(*                                                                         *)
(* Every step is one call: to WAHA, whose effect and answer are separate   *)
(* (a call can fail without effect, or take effect and lose its answer),   *)
(* or to the database, where a method commits what it changes.  Requests   *)
(* interleave between calls; what a request holds in memory (the key it    *)
(* just created, the key it read) dies with the process.                   *)
(***************************************************************************)
EXTENDS FiniteSets

CONSTANTS
    Accounts,       \* account ids; session_name_for gives each its session
    Keys,           \* WAHA key ids (bound: how many keys are ever created)
    Requests,       \* slots for admin requests in flight
    NoKey,
    DefaultAccount, \* made at start-up, cannot be deleted
    Targets,        \* bound: the accounts that requests act on
    Active,         \* bound: the kinds of request that arrive
    CanStore,       \* are BOTSAPP_SECRET_KEY and the WAHA admin key set?
    Faults          \* what may go wrong: see below

Kinds == {"create", "delete", "provision", "rotate", "verify", "repair", "connect", "reset"}

ASSUME KeyAssumption ==
    /\ DefaultAccount \in Accounts
    /\ Targets \subseteq Accounts
    /\ NoKey \notin Keys
    /\ Active \subseteq Kinds
    /\ CanStore \in BOOLEAN
    /\ Faults \subseteq
         { "refused",   \* a WAHA call fails and changes nothing
           "lost",      \* a WAHA call takes effect and its answer is lost
           "ignores",   \* WAHA does not apply the requested scope
           "noValue",   \* WAHA creates a key and does not return its value
           "db",        \* a database method raises and changes nothing
           "crash",     \* the admin process is restarted
           "dashboard" }\* someone edits or deletes a key in WAHA itself

VARIABLES
    row,      \* the accounts table
    keys,     \* WAHA's keys
    had,      \* history: every scope a key has had in WAHA
    sessions, \* accounts whose WAHA session exists
    req,      \* the admin requests in flight
    logged    \* keys and sessions the log names as left behind in WAHA

vars == <<row, keys, had, sessions, req, logged>>

-----------------------------------------------------------------------------

\* A key's actions, as far as drift_from_policy tells them apart.
Scopes == {"policy", "wide"}

\* "dead" keys are told apart by who deleted them.
Lives == {"unborn", "live", "discarded", "rotated", "revoked", "external"}

NoRow == [exists |-> FALSE, key |-> NoKey, actions |-> "none"]
NewRow == [NoRow EXCEPT !.exists = TRUE]

Idle == [op |-> "none", at |-> "idle", acct |-> DefaultAccount,
         key |-> NoKey, old |-> NoKey, scope |-> "none"]

At(r, step) == req[r].at = step

Go(r, step) == req' = [req EXCEPT ![r].at = step]
End(r)      == req' = [req EXCEPT ![r] = Idle]

\* An operation of the key manager raises: create_account undoes the session
\* and the row, _key_action shows the error.
Abort(r) ==
    req' = [req EXCEPT ![r] =
               IF req[r].op = "create"
               THEN [Idle EXCEPT !.op = "create", !.at = "undoSession", !.acct = req[r].acct]
               ELSE Idle]

\* The outcomes of a WAHA call that changes something.
Outcomes == {"ok"} \cup (Faults \cap {"refused", "lost"})
Applied(outcome) == outcome # "refused"

\* DELETE /api/keys/{id}: a key that is already gone is not an error.
DeleteKey(k, life) ==
    keys' = IF keys[k].life = "live" THEN [keys EXCEPT ![k].life = life] ELSE keys

Arrive(r, op, a, step) ==
    /\ At(r, "idle")
    /\ op \in Active
    /\ req' = [req EXCEPT ![r] = [Idle EXCEPT !.op = op, !.at = step, !.acct = a]]
    /\ UNCHANGED <<row, keys, had, sessions, logged>>

DatabaseFails == "db" \in Faults /\ UNCHANGED <<row, keys, had, sessions, logged>>

-----------------------------------------------------------------------------
(* accounts.py: create_account.                                            *)

\* ON CONFLICT DO NOTHING: a row that is there by now stays as it is.
AddRow(r) ==
    LET a == req[r].acct IN
    /\ At(r, "addRow")
    /\ \/ /\ row' = IF row[a].exists THEN row ELSE [row EXCEPT ![a] = NewRow]
          /\ Go(r, "getSession")
          /\ UNCHANGED <<keys, had, sessions, logged>>
       \/ DatabaseFails /\ End(r)

\* BridgeRegistry.create_session: it needs the row, and WAHAClient looks
\* before it creates; a look that fails reads as "not there".
CreateSession(r) ==
    LET a == req[r].acct
        made == IF CanStore THEN Go(r, "account") ELSE End(r) IN
    /\ UNCHANGED <<row, keys, had, logged>>
    /\ \/ /\ At(r, "getSession")
          /\ UNCHANGED sessions
          /\ \/ ~row[a].exists /\ Go(r, "dropRow")
             \/ row[a].exists /\ a \in sessions /\ made
             \/ row[a].exists /\ (a \in sessions => "refused" \in Faults) /\ Go(r, "postSession")
       \/ /\ At(r, "postSession")
          \* WAHA refuses a name it already has.
          /\ \/ a \in sessions /\ Go(r, "dropRow") /\ UNCHANGED sessions
             \/ /\ a \notin sessions
                /\ \E outcome \in Outcomes :
                      /\ sessions' = IF Applied(outcome) THEN sessions \cup {a} ELSE sessions
                      /\ IF outcome = "ok" THEN made ELSE Go(r, "dropRow")

\* Mutant: the row goes first, and the registry can no longer find the session.
CreateAccountRowFirst(r) ==
    \/ \E a \in Targets : ~row[a].exists /\ Arrive(r, "create", a, "addRow")
    \/ At(r, "undoSession") /\ Go(r, "dropRow") /\ UNCHANGED <<row, keys, had, sessions, logged>>

\* The arrival, and the undo when the key could not be provisioned.
CreateAccount(r) ==
    LET a == req[r].acct IN
    \/ \E b \in Targets : ~row[b].exists /\ Arrive(r, "create", b, "addRow")
    \/ /\ At(r, "undoSession")
       /\ \/ /\ ~row[a].exists
             /\ logged' = logged \cup {a}
             /\ UNCHANGED sessions
          \/ /\ row[a].exists
             /\ \E outcome \in Outcomes :
                   /\ sessions' = IF Applied(outcome) THEN sessions \ {a} ELSE sessions
                   /\ logged' = IF outcome = "ok" THEN logged ELSE logged \cup {a}
       /\ Go(r, "dropRow")
       /\ UNCHANGED <<row, keys, had>>

\* db.delete_account, the last step of a deletion and of an undone creation.
DropRow(r) ==
    LET a == req[r].acct IN
    /\ At(r, "dropRow")
    /\ End(r)
    /\ \/ row' = [row EXCEPT ![a] = NoRow] /\ UNCHANGED <<keys, had, sessions, logged>>
       \/ DatabaseFails

-----------------------------------------------------------------------------
(* key_manager.py: provision and rotate.                                   *)

\* _key_action, and the two reads that begin every operation.
KeyAction(r) ==
    LET a == req[r].acct  op == req[r].op IN
    \/ \E b \in Targets, new \in {"provision", "rotate", "verify", "repair"} :
          CanStore /\ row[b].exists /\ Arrive(r, new, b, "account")
    \/ /\ At(r, "account")
       /\ IF row[a].exists THEN Go(r, "readKey") ELSE Abort(r)
       /\ UNCHANGED <<row, keys, had, sessions, logged>>
    \/ /\ At(r, "readKey")
       /\ IF (op \in {"create", "provision"}) = (row[a].key # NoKey)
          THEN Abort(r)
          ELSE req' = [req EXCEPT ![r].old = row[a].key,
                                  ![r].at = IF op \in {"verify", "repair"} THEN "fetch" ELSE "issue"]
       /\ UNCHANGED <<row, keys, had, sessions, logged>>

\* POST /api/keys.  A key whose answer is lost, or comes without its value
\* (WahaKeyApi raises before _issue sees the id), is known to nobody.
CreateKey(r) ==
    /\ At(r, "issue")
    /\ UNCHANGED <<row, sessions, logged>>
    /\ \/ "refused" \in Faults /\ Abort(r) /\ UNCHANGED <<keys, had>>
       \/ \E k \in Keys, s \in Scopes, b \in Accounts :
             /\ keys[k].life = "unborn"
             /\ "ignores" \notin Faults => s = "policy" /\ b = req[r].acct
             /\ keys' = [keys EXCEPT ![k] = [life |-> "live", acct |-> b, scope |-> s]]
             /\ had' = [had EXCEPT ![k] = {s}]
             /\ \/ req' = [req EXCEPT ![r].at = "readBack", ![r].key = k]
                \/ Faults \cap {"lost", "noValue"} # {} /\ Abort(r)

\* Mutants: a key that is not read back; one whose session is not compared.
CheckNothing(r) == keys[req[r].key].life = "live"
CheckScopeOnly(r) == keys[req[r].key].life = "live" /\ keys[req[r].key].scope = "policy"

\* What WAHA lists must be a key of this session with exactly the policy.
ReadsBack(r) ==
    LET k == req[r].key IN
    keys[k].life = "live" /\ keys[k].acct = req[r].acct /\ keys[k].scope = "policy"

\* The read-back and the smoke test; anything wrong discards the key.
CheckKey(r) ==
    /\ \/ At(r, "readBack") /\ ReadsBack(r)
             /\ req' = [req EXCEPT ![r].at = "probe", ![r].scope = keys[req[r].key].scope]
       \/ At(r, "readBack") /\ (ReadsBack(r) => "refused" \in Faults) /\ Go(r, "discard")
       \/ At(r, "probe") /\ keys[req[r].key].life = "live" /\ Go(r, "store")
       \/ At(r, "probe") /\ (keys[req[r].key].life = "live" => "refused" \in Faults)
             /\ Go(r, "discard")
    /\ UNCHANGED <<row, keys, had, sessions, logged>>

\* Mutants: the key to delete afterwards is the new one; the actions recorded
\* for the old key stay.
StoreKeepOld(r) ==
    LET a == req[r].acct IN
    /\ At(r, "store")
    /\ row' = [row EXCEPT ![a].key = req[r].key, ![a].actions = req[r].scope]
    /\ req' = [req EXCEPT ![r].at = "deleteOld", ![r].old = req[r].key]
    /\ UNCHANGED <<keys, had, sessions, logged>>

StoreKeyOnly(r) ==
    LET a == req[r].acct IN
    /\ At(r, "store")
    /\ row' = IF row[a].exists THEN [row EXCEPT ![a].key = req[r].key] ELSE row
    /\ IF req[r].op = "rotate" THEN Go(r, "deleteOld") ELSE End(r)
    /\ UNCHANGED <<keys, had, sessions, logged>>

\* _store: an UPDATE, which changes nothing when the row is gone.
Store(r) ==
    LET a == req[r].acct IN
    /\ At(r, "store")
    /\ \/ /\ row' = IF row[a].exists
                    THEN [row EXCEPT ![a].key = req[r].key, ![a].actions = req[r].scope]
                    ELSE row
          /\ IF req[r].op = "rotate"
             THEN req' = [req EXCEPT ![r].at = "deleteOld", ![r].key = NoKey]
             ELSE End(r)
          /\ UNCHANGED <<keys, had, sessions, logged>>
       \/ DatabaseFails /\ Go(r, "discard")

\* rotate deletes the old key last; a failure is logged and reported.
DeleteOld(r) ==
    /\ At(r, "deleteOld")
    /\ \E outcome \in Outcomes :
          /\ IF Applied(outcome) THEN DeleteKey(req[r].old, "rotated") ELSE UNCHANGED keys
          /\ logged' = IF outcome = "ok" THEN logged ELSE logged \cup {req[r].old}
    /\ End(r)
    /\ UNCHANGED <<row, had, sessions>>

\* Mutants: an undo that starts over when it fails; one that does not log the
\* key that it could not delete.
DiscardRetry(r) ==
    /\ At(r, "discard")
    /\ \E outcome \in Outcomes :
          IF outcome = "ok"
          THEN DeleteKey(req[r].key, "discarded") /\ Abort(r)
          ELSE Go(r, "readBack") /\ UNCHANGED keys
    /\ UNCHANGED <<row, had, sessions, logged>>

DiscardQuietly(r) ==
    /\ At(r, "discard")
    /\ \E outcome \in Outcomes :
          IF Applied(outcome) THEN DeleteKey(req[r].key, "discarded") ELSE UNCHANGED keys
    /\ Abort(r)
    /\ UNCHANGED <<row, had, sessions, logged>>

\* _discard never raises; the operation then fails.
Discard(r) ==
    /\ At(r, "discard")
    /\ \E outcome \in Outcomes :
          /\ IF Applied(outcome) THEN DeleteKey(req[r].key, "discarded") ELSE UNCHANGED keys
          /\ logged' = IF outcome = "ok" THEN logged ELSE logged \cup {req[r].key}
    /\ Abort(r)
    /\ UNCHANGED <<row, had, sessions>>

-----------------------------------------------------------------------------
(* key_manager.py: verify and repair.                                      *)

\* GET /api/keys, then for repair the PUT that sends the policy.
Reapply(r) ==
    LET k == req[r].old IN
    /\ UNCHANGED <<row, sessions, logged>>
    /\ \/ /\ At(r, "fetch")
          /\ UNCHANGED <<keys, had>>
          /\ \/ /\ keys[k].life = "live"
                /\ req' = [req EXCEPT ![r].scope = keys[k].scope,
                                      ![r].at = IF req[r].op = "verify" THEN "record" ELSE "put"]
             \/ (keys[k].life = "live" => "refused" \in Faults) /\ End(r)
       \/ /\ At(r, "put")
          /\ \/ /\ (keys[k].life = "live" => "refused" \in Faults)
                /\ End(r) /\ UNCHANGED <<keys, had>>
             \/ /\ keys[k].life = "live"
                /\ \E s \in {"policy"} \cup (IF "ignores" \in Faults THEN {keys[k].scope} ELSE {}) :
                      /\ keys' = [keys EXCEPT ![k].scope = s]
                      /\ had' = [had EXCEPT ![k] = @ \cup {s}]
                      /\ \/ req' = [req EXCEPT ![r].scope = s, ![r].at = "record"]
                         \/ "lost" \in Faults /\ End(r)

\* Mutant: bound parameters change places.
RecordSwapped(r) ==
    LET a == req[r].acct IN
    /\ At(r, "record")
    /\ row' = IF row[a].exists THEN [row EXCEPT ![a].actions = req[r].old] ELSE row
    /\ End(r)
    /\ UNCHANGED <<keys, had, sessions, logged>>

\* set_account_key_actions finds the row by account, whatever its key is now.
Record(r) ==
    LET a == req[r].acct IN
    /\ At(r, "record")
    /\ \/ /\ row' = IF row[a].exists THEN [row EXCEPT ![a].actions = req[r].scope] ELSE row
          /\ UNCHANGED <<keys, had, sessions, logged>>
       \/ DatabaseFails
    /\ End(r)

-----------------------------------------------------------------------------
(* accounts.py: delete_account, and key_manager.revoke.                    *)

Revoke(r) ==
    LET a == req[r].acct IN
    /\ UNCHANGED <<had, sessions, logged>>
    /\ \/ /\ At(r, "revokeRead")
          /\ IF row[a].key = NoKey THEN Go(r, "dropSession")
             ELSE req' = [req EXCEPT ![r].at = "revoke", ![r].old = row[a].key]
          /\ UNCHANGED <<row, keys>>
       \/ /\ At(r, "revoke")
          /\ \E outcome \in Outcomes :
                /\ IF Applied(outcome) THEN DeleteKey(req[r].old, "revoked") ELSE UNCHANGED keys
                /\ IF outcome = "ok" THEN Go(r, "forget") ELSE End(r)
          /\ UNCHANGED row
       \/ /\ At(r, "forget")
          /\ \/ row' = [row EXCEPT ![a].key = NoKey, ![a].actions = "none"] /\ Go(r, "dropSession")
             \/ DatabaseFails /\ End(r)
          /\ UNCHANGED keys

\* Mutant: a deletion that forgets to delete the key in WAHA.
DeleteAccountOnly(r) ==
    \/ \E b \in Targets \ {DefaultAccount} :
          row[b].exists /\ Arrive(r, "delete", b, "dropSession")
    \/ /\ At(r, "dropSession")
       /\ sessions' = sessions \ {req[r].acct}
       /\ Go(r, "dropRow")
       /\ UNCHANGED <<row, keys, had, logged>>

\* The key first, then the session, then the row; a failure stops here.
DeleteAccount(r) ==
    LET a == req[r].acct IN
    \/ \E b \in Targets \ {DefaultAccount} :
          row[b].exists /\ Arrive(r, "delete", b, "deleting")
    \/ /\ At(r, "deleting")
       /\ Go(r, IF row[a].key # NoKey THEN "revokeRead" ELSE "dropSession")
       /\ UNCHANGED <<row, keys, had, sessions, logged>>
    \/ /\ At(r, "dropSession")
       /\ \/ ~row[a].exists /\ End(r) /\ UNCHANGED sessions
          \/ /\ row[a].exists
             /\ \E outcome \in Outcomes :
                   /\ sessions' = IF Applied(outcome) THEN sessions \ {a} ELSE sessions
                   /\ IF outcome = "ok" THEN Go(r, "dropRow") ELSE End(r)
       /\ UNCHANGED <<row, keys, had, logged>>

\* session_connect makes a session that is missing; session_reset deletes it.
Session(r) ==
    LET a == req[r].acct IN
    \/ \E b \in Targets, op \in {"connect", "reset"} :
          row[b].exists /\ Arrive(r, op, b, "session")
    \/ /\ At(r, "session")
       /\ \E outcome \in Outcomes :
             sessions' = IF ~Applied(outcome) THEN sessions
                         ELSE IF req[r].op = "connect" THEN sessions \cup {a} ELSE sessions \ {a}
       /\ End(r)
       /\ UNCHANGED <<row, keys, had, logged>>

-----------------------------------------------------------------------------

\* WAHA's own dashboard (external).
Dashboard ==
    /\ "dashboard" \in Faults
    /\ \E k \in Keys :
          /\ keys[k].life = "live"
          /\ \/ \E s \in Scopes : /\ keys' = [keys EXCEPT ![k].scope = s]
                                  /\ had' = [had EXCEPT ![k] = @ \cup {s}]
             \/ DeleteKey(k, "external") /\ UNCHANGED had
    /\ UNCHANGED <<row, sessions, req, logged>>

\* Nothing is persisted about a request in flight.
AdminRestart ==
    /\ "crash" \in Faults
    /\ req' = [r \in Requests |-> Idle]
    /\ UNCHANGED <<row, keys, had, sessions, logged>>

Init ==
    /\ row = [a \in Accounts |-> IF a = DefaultAccount THEN NewRow ELSE NoRow]
    /\ keys = [k \in Keys |-> [life |-> "unborn", acct |-> DefaultAccount, scope |-> "policy"]]
    /\ had = [k \in Keys |-> {}]
    /\ sessions = {}
    /\ req = [r \in Requests |-> Idle]
    /\ logged = {}

Step(r) ==
    \/ CreateAccount(r) \/ AddRow(r)    \/ CreateSession(r) \/ DropRow(r)
    \/ KeyAction(r)     \/ CreateKey(r) \/ CheckKey(r)      \/ Store(r)
    \/ DeleteOld(r)     \/ Discard(r)   \/ Reapply(r)       \/ Record(r)
    \/ DeleteAccount(r) \/ Revoke(r)    \/ Session(r)

Next ==
    \/ \E r \in Requests : Step(r)
    \/ Dashboard
    \/ AdminRestart

Spec == Init /\ [][Next]_vars

\* Every call returns: WAHA's are bounded by aiohttp's timeout, the database's
\* by SQLite's.  So a request that has arrived goes on.
FairSpec == Spec /\ \A r \in Requests : WF_vars(~At(r, "idle") /\ Step(r))

-----------------------------------------------------------------------------
(* Properties.                                                             *)

Row == [exists : BOOLEAN, key : Keys \cup {NoKey}, actions : Scopes \cup {"none"}]

AllSteps ==
    {"idle", "addRow", "getSession", "postSession", "undoSession", "dropRow", "account",
     "readKey", "issue", "readBack", "probe", "store", "deleteOld", "discard", "fetch",
     "put", "record", "deleting", "revokeRead", "revoke", "forget", "dropSession", "session"}

TypeOK ==
    /\ row \in [Accounts -> Row]
    /\ keys \in [Keys -> [life : Lives, acct : Accounts, scope : Scopes]]
    /\ had \in [Keys -> SUBSET Scopes]
    /\ sessions \subseteq Accounts
    /\ req \in [Requests -> [op : Kinds \cup {"none"}, at : AllSteps, acct : Accounts,
                             key : Keys \cup {NoKey}, old : Keys \cup {NoKey},
                             scope : Scopes \cup {"none"}]]
    /\ logged \subseteq Keys \cup Accounts

Stored(k) == \E a \in Accounts : row[a].key = k
Held(k)   == \E r \in Requests : req[r].key = k \/ (At(r, "deleteOld") /\ req[r].old = k)

\* "A failure never leaves a live key we don't know about" (key_manager.py):
\* a key that is live in WAHA is an account's, or in the hands of a request
\* that will store or delete it, or named in the log as left behind.
NoUnknownKeys ==
    \A k \in Keys : keys[k].life = "live" => Stored(k) \/ Held(k) \/ k \in logged

\* "So a failure leaves nothing half-made" (accounts.py): a WAHA session
\* belongs to an account that exists, or the log names it.
NoStraySessions ==
    \A a \in sessions : row[a].exists \/ a \in logged

\* The key an account uses was never deleted by a rotation or an undo: only
\* the account's own deletion, or WAHA's dashboard, can have removed it.
CurrentKeyKept ==
    \A a \in Accounts : row[a].key # NoKey => keys[row[a].key].life \in {"live", "revoked", "external"}

\* An account only ever uses a key of its own session that WAHA reported with
\* exactly the read-only policy, even when WAHA does not honour the request.
OnlyVettedKeys ==
    \A a \in Accounts : row[a].key # NoKey =>
        keys[row[a].key].acct = a /\ "policy" \in had[row[a].key]

\* "What is stored is what WAHA reported, never what we asked for": the
\* recorded actions are ones that this account's key has had in WAHA.
ActionsReported ==
    \A a \in Accounts : row[a].key # NoKey => row[a].actions \in had[row[a].key]

\* Deletion order: the key is deleted in WAHA and forgotten before the row
\* goes, so no row is deleted while it holds a key.
KeyedAccountsStay ==
    [][\A a \in Accounts : row[a].key # NoKey => row'[a].exists]_vars

\* A key in the hands of a request does not stay there: the operation stores
\* it, deletes it, or gives up and logs it.
HeldKeysSettle == \A k \in Keys : Held(k) ~> ~Held(k)

-----------------------------------------------------------------------------
(* The key manager implements KeyCustody.                                  *)

CustodyOf ==
    [k \in Keys |->
        CASE keys[k].life = "unborn" -> "unborn"
          [] keys[k].life = "live" /\ Stored(k) -> "stored"
          [] keys[k].life = "live" /\ ~Stored(k) /\ Held(k) -> "held"
          [] keys[k].life = "live" /\ ~Stored(k) /\ ~Held(k) /\ k \in logged -> "reported"
          [] keys[k].life = "live" /\ ~Stored(k) /\ ~Held(k) /\ k \notin logged -> "lost"
          [] OTHER -> "deleted"]

Custody == INSTANCE KeyCustody WITH custody <- CustodyOf

\* Every step of the key manager is a step, or a stutter, of KeyCustody.
CustodyKept == Custody!Spec

=============================================================================
