---------------------------- MODULE BridgeRegistry ---------------------------
(***************************************************************************)
(* The WAHA clients of the two processes (bridge_registry.py over the HTTP *)
(* session of waha_client.py): one client per account and process, built   *)
(* with the admin key in the admin UI and with the account's scoped key in *)
(* the MCP server, replaced when that key changes and closed later.        *)
(*                                                                         *)
(* Requests interleave at their awaits: the two database reads, each HTTP  *)
(* request, each close.  Everything between two awaits is one step; the    *)
(* registry's lock is never held across one.  Time passes in ticks.        *)
(***************************************************************************)
EXTENDS Naturals, FiniteSets

CONSTANTS
    Accounts,  \* account ids; each has a WAHA session of its own
    Secrets,   \* ciphertexts of stored keys
    Clients,   \* WAHAClient objects (bound: how many exist at a time)
    Calls,     \* slots for tool calls and admin requests
    AdminCalls,\* bound: the slots that admin requests may take
    Targets,   \* bound: the accounts that the admin UI acts on
    NoClient,
    Grace,     \* _STALE_CLIENT_GRACE_SECONDS, in ticks
    MaxCall    \* bound: how long a tool call holds on to its client, in ticks

ASSUME RegistryAssumption ==
    /\ NoClient \notin Clients
    /\ Accounts # {}  \* the bootstrap makes one
    /\ Targets \subseteq Accounts /\ AdminCalls \subseteq Calls
    /\ Grace \in Nat \ {0}
    /\ MaxCall \in Nat

VARIABLES
    stored,  \* the accounts table: "noRow", "noKey", or a ciphertext
    cache,   \* _clients of both processes
    client,  \* the clients: the key they were built with, their HTTP session
    closing, \* _closing: evicted clients, with the ticks left of their grace
    call,    \* calls in flight
    seen,    \* history: the keys an account had stored while a call looked
    phase,   \* the MCP process: "up", or the two halves of close()
    doomed   \* the clients that close() has yet to close

vars == <<stored, cache, client, closing, call, seen, phase, doomed>>

-----------------------------------------------------------------------------

Processes == {"mcp", "admin"}

Unused == [of |-> "mcp", key |-> "none", http |-> FALSE]

Idle == [at |-> "idle", of |-> "mcp", acct |-> CHOOSE a \in Accounts : TRUE,
         key |-> "none", client |-> NoClient, deletes |-> FALSE, age |-> 0]

At(r, step) == call[r].at = step
Go(r, step) == call' = [call EXCEPT ![r].at = step]
End(r)      == call' = [call EXCEPT ![r] = Idle]

\* The value of closing for a client that nobody has evicted.
NotEvicted == Grace + 1

Waiting == {c \in Clients : closing[c] # NotEvicted}
Cached  == {cache[<<a, p>>] : a \in Accounts, p \in Processes} \ {NoClient}
Holds(r) == {call[r].client} \ {NoClient}
Held(p)  == UNION {Holds(r) : r \in {s \in Calls : call[s].of = p}}

\* Nothing refers to the client any more and no HTTP session of it is open.
Free == {c \in Clients : ~client[c].http}
           \ (Cached \cup Waiting \cup Held("mcp") \cup Held("admin") \cup doomed)

\* WAHAClient.close: a request that is under way on the session fails.  A
\* client that no call holds any more is as good as new.
Close(c) ==
    client' = [client EXCEPT ![c] = IF \E r \in Calls : call'[r].client = c
                                    THEN [@ EXCEPT !.http = FALSE] ELSE Unused]

\* A call reads the account's key some time between its first step and its
\* last look; all it can have read is what was stored in the meantime.
Observe ==
    seen' = [r \in Calls |->
        CASE call'[r].of = "mcp" /\ call'[r].at \in {"account", "key", "lookup"} ->
                 (IF At(r, "idle") THEN {} ELSE seen[r]) \cup ({stored'[call'[r].acct]} \cap Secrets)
          [] call'[r].at \in {"hold", "flight", "drop"} -> seen[r]
          [] OTHER -> {}]

Registry == <<cache, client, closing, phase, doomed>>

-----------------------------------------------------------------------------
(* The admin UI changes the stored keys (KeyLifecycle): a new key, none, a *)
(* new account, or none.                                                   *)

StoreKey ==
    /\ \E a \in Targets, k \in Secrets \cup {"noKey", "noRow"} :
          stored' = [stored EXCEPT ![a] = k]
    /\ UNCHANGED Registry /\ UNCHANGED call /\ Observe

-----------------------------------------------------------------------------
(* for_account, called by a tool, a page, create_session or delete_session.*)

Begin(r) ==
    /\ At(r, "idle")
    /\ \E p \in Processes, a \in Accounts, deletes \in BOOLEAN :
          /\ p = "mcp" => phase = "up" /\ ~deletes
          /\ p = "admin" => r \in AdminCalls /\ a \in Targets
          /\ call' = [call EXCEPT ![r] = [Idle EXCEPT !.at = "account", !.of = p, !.acct = a,
                                                      !.deletes = deletes]]
    /\ UNCHANGED stored /\ UNCHANGED Registry /\ Observe

\* The MCP server goes on to the scoped key, the admin UI has the admin key.
ReadAccount(r) ==
    /\ At(r, "account")
    /\ \/ stored[call[r].acct] = "noRow" /\ End(r)
       \/ /\ stored[call[r].acct] # "noRow"
          /\ IF call[r].of = "mcp" THEN Go(r, "key")
             ELSE call' = [call EXCEPT ![r].at = "lookup", ![r].key = "admin"]
    /\ UNCHANGED stored /\ UNCHANGED Registry /\ Observe

ReadKey(r) ==
    /\ At(r, "key")
    /\ \/ stored[call[r].acct] \in {"noRow", "noKey"} /\ End(r)
       \/ /\ stored[call[r].acct] \in Secrets
          /\ call' = [call EXCEPT ![r].at = "lookup", ![r].key = stored[call[r].acct]]
    /\ UNCHANGED stored /\ UNCHANGED Registry /\ Observe

\* Mutant: any client of the account will do.
AnyClient(r) == cache[<<call[r].acct, call[r].of>>] # NoClient

\* _cached_client: the fingerprint is the ciphertext the client was built from.
Hit(r) ==
    LET c == cache[<<call[r].acct, call[r].of>>] IN
    c # NoClient /\ client[c].key = call[r].key

\* Mutants: the stale client is closed at once; it is dropped unclosed.
EvictAtOnce(c) ==
    /\ closing' = IF c = NoClient THEN closing ELSE [closing EXCEPT ![c] = 0]
Drop(c) == UNCHANGED closing

\* _client hands the client it replaces to _close_after_grace.
Evict(c) ==
    closing' = IF c = NoClient THEN closing ELSE [closing EXCEPT ![c] = Grace]

\* Mutant: the entry that was cached before.
TakeOld(r, c) ==
    call' = [call EXCEPT ![r].at = "hold", ![r].age = 0,
                         ![r].client = cache[<<call[r].acct, call[r].of>>]]

Take(r, c) == call' = [call EXCEPT ![r].at = "hold", ![r].client = c, ![r].age = 0]

\* _client, for a key that can be decrypted.
Lookup(r) ==
    LET a == call[r].acct  p == call[r].of IN
    /\ At(r, "lookup")
    /\ \/ Hit(r) /\ Take(r, cache[<<a, p>>]) /\ UNCHANGED Registry
       \/ ~Hit(r) /\ p = "mcp" /\ End(r) /\ UNCHANGED Registry
       \/ LET c == CHOOSE c \in Free : TRUE IN
             /\ ~Hit(r) /\ Free # {}
             /\ client' = [client EXCEPT ![c] = [Unused EXCEPT !.of = p, !.key = call[r].key]]
             /\ cache' = [cache EXCEPT ![<<a, p>>] = c]
             /\ Evict(cache[<<a, p>>])
             /\ Take(r, c)
             /\ UNCHANGED <<phase, doomed>>
    /\ UNCHANGED stored /\ Observe

-----------------------------------------------------------------------------
(* Using the client: any number of HTTP requests, each of which opens the  *)
(* client's HTTP session if it is not open (_get_http) and any of which may *)
(* fail, which ends the call.                                              *)

Use(r) ==
    /\ \/ /\ At(r, "hold") /\ call[r].age < MaxCall /\ Go(r, "flight")
          /\ client' = [client EXCEPT ![call[r].client].http = TRUE]
       \/ At(r, "flight") /\ Go(r, "hold") /\ UNCHANGED client
       \/ At(r, "hold") /\ call[r].deletes /\ Go(r, "drop") /\ UNCHANGED client
       \/ call[r].at \in {"hold", "flight"} /\ End(r) /\ UNCHANGED client
    /\ UNCHANGED <<stored, cache, closing, phase, doomed>> /\ Observe

\* The end of delete_session: the account's client in this process is dropped
\* and closed, whoever else uses it.
DeleteSession(r) ==
    LET a == call[r].acct  c == cache[<<a, "admin">>] IN
    /\ At(r, "drop") /\ End(r)
    /\ cache' = [cache EXCEPT ![<<a, "admin">>] = NoClient]
    /\ IF c = NoClient THEN UNCHANGED client ELSE Close(c)
    /\ UNCHANGED <<stored, closing, phase, doomed>> /\ Observe

-----------------------------------------------------------------------------

\* Time passes, but for a tool call that has held its client as long as it may.
Tick ==
    LET Timed == {r \in Calls : call[r].of = "mcp" /\ call[r].client # NoClient} IN
    /\ \A r \in Timed : call[r].age < MaxCall
    /\ call' = [r \in Calls |-> IF r \in Timed THEN [call[r] EXCEPT !.age = @ + 1] ELSE call[r]]
    /\ closing' = [c \in Clients |-> IF closing[c] \in 1..Grace THEN closing[c] - 1 ELSE closing[c]]
    /\ call' # call \/ closing' # closing
    /\ UNCHANGED <<stored, cache, client, phase, doomed>> /\ Observe

\* _close_after_grace wakes up, and its done-callback forgets it.
CloseAfterGrace(c) ==
    /\ closing[c] = 0
    /\ closing' = [closing EXCEPT ![c] = NotEvicted]
    /\ UNCHANGED <<stored, cache, call, phase, doomed>>
    /\ Close(c) /\ Observe

McpCache == {cache[<<a, "mcp">>] : a \in Accounts} \ {NoClient}

\* Mutant: clients that wait out their grace are left to themselves.
NoneWaiting == {}

\* What close() turns to when the cached clients are closed.
ToFinish == Waiting

\* close() of the MCP server, which has stopped serving: the cached clients,
\* then those waiting out their grace, one after the other; then it starts
\* again.  The admin UI only ever evicts through delete_session.
Shutdown ==
    /\ UNCHANGED <<stored, call>>
    /\ \/ /\ phase = "up" /\ \A r \in Calls : call[r].of = "mcp" => At(r, "idle")
          /\ phase' = "closeCached" /\ doomed' = McpCache
          /\ cache' = [x \in Accounts \X Processes |-> IF x[2] = "mcp" THEN NoClient ELSE cache[x]]
          /\ UNCHANGED <<client, closing>>
       \/ \E c \in doomed : doomed' = doomed \ {c} /\ Close(c) /\ UNCHANGED <<phase, cache, closing>>
       \/ /\ phase = "closeCached" /\ doomed = {}
          /\ phase' = "closeWaiting" /\ doomed' = ToFinish
          /\ closing' = [c \in Clients |-> NotEvicted]
          /\ UNCHANGED <<cache, client>>
       \/ phase = "closeWaiting" /\ doomed = {} /\ phase' = "up" /\ UNCHANGED <<cache, client, closing, doomed>>
    /\ Observe

Init ==
    /\ stored \in [Accounts -> {"noKey", "noRow"}]
    /\ cache = [x \in Accounts \X Processes |-> NoClient]
    /\ client = [c \in Clients |-> Unused]
    /\ closing = [c \in Clients |-> NotEvicted]
    /\ call = [r \in Calls |-> Idle]
    /\ seen = [r \in Calls |-> {}]
    /\ phase = "up"
    /\ doomed = {}

Progress(r) ==
    ReadAccount(r) \/ ReadKey(r) \/ Lookup(r) \/ Use(r) \/ DeleteSession(r)

Next ==
    \/ StoreKey
    \/ \E r \in Calls : Begin(r) \/ Progress(r)
    \/ Tick
    \/ \E c \in Clients : CloseAfterGrace(c)
    \/ Shutdown

Spec == Init /\ [][Next]_vars

-----------------------------------------------------------------------------

\* The kinds of values each variable takes.
TypeOK ==
    /\ stored \in [Accounts -> Secrets \cup {"noKey", "noRow"}]
    /\ cache \in [Accounts \X Processes -> Clients \cup {NoClient}]
    /\ client \in [Clients -> [of : Processes, key : Secrets \cup {"admin", "none"}, http : BOOLEAN]]
    /\ closing \in [Clients -> 0..NotEvicted]
    /\ \A r \in Calls :
          /\ call[r].at \in {"idle", "account", "key", "lookup", "hold", "flight", "drop"}
          /\ call[r].of \in Processes /\ call[r].acct \in Accounts
          /\ call[r].client \in Clients \cup {NoClient}
          /\ call[r].at \in {"hold", "flight", "drop"} <=> call[r].client # NoClient
          /\ call[r].age \in 0..MaxCall
    /\ phase \in {"up", "closeCached", "closeWaiting"}
    /\ doomed \subseteq Clients

\* A tool call talks to WAHA with the key of its own account, and with one that
\* the account had stored at some point while the call looked it up: a rotation,
\* even one between the two database reads or followed by a lookup that puts the
\* older client back into the cache, never leaves a call with a replaced key.
ServesStoredKey ==
    \A r \in Calls : call[r].of = "mcp" /\ call[r].client # NoClient =>
        client[call[r].client].of = "mcp" /\ client[call[r].client].key \in seen[r]

\* In the MCP server every open HTTP session belongs to a client that is cached,
\* waits out its grace, or is about to be closed by close(): none is left open
\* by rotations, by concurrent lookups, or by a shutdown.
NoLeakedClient ==
    \A c \in Clients : client[c].of = "mcp" /\ client[c].http =>
        c \in McpCache \cup Waiting \cup doomed

\* Evicting a client never closes the HTTP session under a tool call that was
\* already using it and takes less than the grace period.
NotCutOff ==
    [][\A c \in Clients : client[c].of = "mcp" /\ client[c].http /\ ~client'[c].http =>
           \A r \in Calls : call[r].client # c]_vars

=============================================================================
