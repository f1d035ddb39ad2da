------------------------- MODULE BridgeRegistryProofs -------------------------
(***************************************************************************)
(* Proofs about BridgeRegistry, for any number of accounts, keys, clients  *)
(* and calls and any grace period: its types, that no call talks to WAHA   *)
(* with a replaced key, and, when calls are shorter than the grace period, *)
(* that no client leaks and none is closed under a call.                   *)
(***************************************************************************)
EXTENDS BridgeRegistry, TLAPS

Slots == Accounts \X Processes
Looking == {"account", "key", "lookup"}
Using == {"hold", "flight", "drop"}

ClientType == [of : Processes, key : Secrets \cup {"admin", "none"}, http : BOOLEAN]
CallType == [at : {"idle"} \cup Looking \cup Using, of : Processes, acct : Accounts,
             key : Secrets \cup {"admin", "none"}, client : Clients \cup {NoClient},
             deletes : BOOLEAN, age : 0..MaxCall]

Types ==
    /\ stored \in [Accounts -> Secrets \cup {"noKey", "noRow"}]
    /\ cache \in [Slots -> Clients \cup {NoClient}]
    /\ client \in [Clients -> ClientType]
    /\ closing \in [Clients -> 0..NotEvicted]
    /\ call \in [Calls -> CallType]
    /\ phase \in {"up", "closeCached", "closeWaiting"}
    /\ doomed \subseteq Clients

\* A cached client is cached once, by the process it was built for, and nobody
\* is about to close it.
Apart ==
    /\ \A x \in Slots : cache[x] # NoClient =>
          client[cache[x]].of = x[2] /\ closing[cache[x]] = NotEvicted /\ cache[x] \notin doomed
    /\ \A x, y \in Slots : cache[x] = cache[y] /\ cache[x] # NoClient => x = y
    /\ phase = "up" => doomed = {}

\* What a call x, for which the keys s were stored while it looked, can be.
\* A client that was evicted under a tool call has been so for no longer than
\* the call has had it.
Fits(x, s) ==
    /\ x.at \in Using <=> x.client # NoClient
    /\ x.of = "mcp" /\ x.at # "idle" => phase = "up"
    /\ x.client # NoClient => client[x.client].of = x.of
    /\ x.of = "mcp" /\ x.at = "lookup" => x.key \in s
    /\ x.of = "mcp" /\ x.client # NoClient =>
          client[x.client].key \in s /\ closing[x.client] + x.age >= Grace

Inv == Types /\ Apart /\ \A r \in Calls : Fits(call[r], seen[r])

\* The client of a tool call is one that somebody will close.
Home ==
    \A r \in Calls : call[r].of = "mcp" /\ call[r].client # NoClient =>
        call[r].client \in McpCache \cup Waiting

-----------------------------------------------------------------------------

LEMMA IdleType ==
    /\ Idle \in CallType /\ Idle.at = "idle" /\ Idle.client = NoClient /\ Idle.of = "mcp"
    /\ \A s : Fits(Idle, s) /\ Fits(Idle, s)'
  <1>1. (CHOOSE a \in Accounts : TRUE) \in Accounts /\ 0 \in 0..MaxCall
    BY RegistryAssumption
  <1>2. Idle \in CallType /\ Idle.at = "idle" /\ Idle.client = NoClient /\ Idle.of = "mcp"
    BY <1>1 DEF Idle, CallType, Processes
  <1> QED BY <1>2 DEF Fits, Using

LEMMA UnusedType == Unused \in ClientType
  BY DEF Unused, ClientType, Processes

\* What a call has seen after a step.
LEMMA Seen ==
    ASSUME Observe, NEW r \in Calls
    PROVE  /\ call'[r].at \in Using => seen'[r] = seen[r]
           /\ call'[r].of = "mcp" /\ call'[r].at \in Looking =>
                 /\ {stored'[call'[r].acct]} \cap Secrets \subseteq seen'[r]
                 /\ call[r].at # "idle" => seen[r] \subseteq seen'[r]
  <1>1. CASE call'[r].of = "mcp" /\ call'[r].at \in Looking
    <2>1. seen'[r] = (IF At(r, "idle") THEN {} ELSE seen[r])
                        \cup ({stored'[call'[r].acct]} \cap Secrets)
      BY <1>1 DEF Observe, Looking
    <2> QED BY <1>1, <2>1 DEF At, Looking, Using
  <1>2. CASE call'[r].at \in Using
    BY <1>2 DEF Observe, Looking, Using
  <1> QED BY <1>1, <1>2

\* The same client still, whether or not its HTTP session is open.
Same(c) == client'[c].of = client[c].of /\ client'[c].key = client[c].key

\* A call that a step leaves alone fits as before.
LEMMA OthersFit ==
    ASSUME Inv, Observe, NEW q \in Calls, call'[q] = call[q],
           call[q].of = "mcp" /\ call[q].at # "idle" => phase' = phase,
           call[q].client # NoClient =>
               /\ Same(call[q].client)
               /\ closing'[call[q].client] \in {closing[call[q].client], Grace, NotEvicted}
    PROVE  Fits(call[q], seen[q])'
  <1>1. call[q] \in CallType /\ Fits(call[q], seen[q])
    BY DEF Inv, Types
  <1>2. call[q].at \in Using => seen'[q] = seen[q]
    BY Seen
  <1>3. call[q].of = "mcp" /\ call[q].at = "lookup" => seen[q] \subseteq seen'[q]
    BY Seen DEF Looking
  <1>4. ASSUME call[q].of = "mcp", call[q].client # NoClient
        PROVE  closing'[call[q].client] + call[q].age >= Grace
    <2>1. call[q].age \in Nat /\ Grace \in Nat
      BY <1>1, RegistryAssumption DEF CallType
    <2>2. closing[call[q].client] + call[q].age >= Grace
      BY <1>1, <1>4 DEF Fits
    <2> QED BY <1>4, <2>1, <2>2 DEF NotEvicted
  <1> QED BY <1>1, <1>2, <1>3, <1>4 DEF Fits, Same

\* The call r becomes new; the registry stays, but for a session that opens.
LEMMA MoveKeeps ==
    ASSUME Inv, Observe, NEW r \in Calls, NEW new \in CallType,
           call' = [call EXCEPT ![r] = new], UNCHANGED <<stored, cache, closing, phase, doomed>>,
           client' \in [Clients -> ClientType], \A c \in Clients : Same(c),
           Fits(new, seen'[r])
    PROVE  Inv'
  <1>1. /\ call' \in [Calls -> CallType] /\ call'[r] = new
        /\ \A q \in Calls : q # r => call'[q] = call[q]
    BY DEF Inv, Types
  <1>2. Types'
    BY <1>1 DEF Inv, Types, NotEvicted
  <1>3. Apart'
    <2>1. \A x \in Slots : cache[x] # NoClient => cache[x] \in Clients
      BY DEF Inv, Types
    <2> QED BY <2>1 DEF Inv, Apart, Same, NotEvicted
  <1>4. Fits(call[r], seen[r])'
    <2>1. new.client # NoClient => new.client \in Clients
      BY DEF CallType
    <2> QED BY <1>1, <2>1 DEF Fits, Same
  <1>5. ASSUME NEW q \in Calls, q # r PROVE Fits(call[q], seen[q])'
    <2>1. call[q].client # NoClient =>
            call[q].client \in Clients /\ closing'[call[q].client] = closing[call[q].client]
      BY DEF Inv, Types, CallType
    <2> QED BY <1>1, <1>5, <2>1, OthersFit
  <1> QED BY <1>2, <1>3, <1>4, <1>5 DEF Inv

LEMMA EndKeeps ==
    ASSUME Inv, Observe, NEW r \in Calls, End(r), UNCHANGED stored, UNCHANGED Registry
    PROVE  Inv'
  BY IdleType, MoveKeeps DEF End, Registry, Inv, Types, Same

-----------------------------------------------------------------------------
(* The actions, one by one.                                                *)

LEMMA StoreKeyKeeps == ASSUME Inv, StoreKey PROVE Inv'
  <1>1. UNCHANGED <<cache, client, closing, call, phase, doomed>> /\ Observe
    BY DEF StoreKey, Registry
  <1>2. stored' \in [Accounts -> Secrets \cup {"noKey", "noRow"}]
    BY RegistryAssumption DEF StoreKey, Inv, Types
  <1>3. Types' /\ Apart'
    BY <1>1, <1>2 DEF Inv, Types, Apart, NotEvicted
  <1>4. ASSUME NEW q \in Calls PROVE Fits(call[q], seen[q])'
    BY <1>1, OthersFit DEF Same
  <1> QED BY <1>3, <1>4 DEF Inv

LEMMA BeginKeeps == ASSUME Inv, NEW r \in Calls, Begin(r) PROVE Inv'
  <1>1. PICK p \in Processes, a \in Accounts, deletes \in BOOLEAN :
           /\ p = "mcp" => phase = "up" /\ ~deletes
           /\ call' = [call EXCEPT ![r] = [Idle EXCEPT !.at = "account", !.of = p, !.acct = a,
                                                       !.deletes = deletes]]
    BY RegistryAssumption DEF Begin
  <1> DEFINE new == [Idle EXCEPT !.at = "account", !.of = p, !.acct = a, !.deletes = deletes]
  <1>2. /\ new \in CallType /\ new.at = "account" /\ new.of = p /\ new.client = NoClient
    BY IdleType DEF CallType, Looking
  <1>3. Fits(new, seen'[r])
    BY <1>1, <1>2 DEF Fits, Using
  <1> HIDE DEF new
  <1>4. call' = [call EXCEPT ![r] = new] /\ Observe /\ UNCHANGED stored /\ UNCHANGED Registry
    BY <1>1 DEF Begin, new
  <1> QED BY <1>2, <1>3, <1>4, MoveKeeps DEF Registry, Inv, Types, Same

\* A call that goes on looking, with the key it has read.
LEMMA LookOn ==
    ASSUME Inv, Observe, NEW r \in Calls, NEW step \in Looking,
           NEW key \in Secrets \cup {"admin", "none"}, call[r].at \in Looking,
           call' = [call EXCEPT ![r] = [call[r] EXCEPT !.at = step, !.key = key]],
           call[r].of = "mcp" /\ step = "lookup" =>
               key \in Secrets /\ stored[call[r].acct] = key,
           UNCHANGED stored, UNCHANGED Registry
    PROVE  Inv'
  <1> DEFINE new == [call[r] EXCEPT !.at = step, !.key = key]
  <1>1. call[r] \in CallType /\ Fits(call[r], seen[r]) /\ call[r].client = NoClient
    BY DEF Inv, Types, Fits, Using, Looking
  <1>2. /\ new \in CallType /\ new.at = step /\ new.key = key /\ new.of = call[r].of
        /\ new.client = NoClient /\ new.acct = call[r].acct
    BY <1>1 DEF CallType
  <1>3. call' = [call EXCEPT ![r] = new] /\ call'[r] = new
    BY DEF Inv, Types
  <1> HIDE DEF new
  <1>4. new.of = "mcp" /\ step = "lookup" => key \in seen'[r]
    BY <1>2, <1>3, Seen
  <1>5. Fits(new, seen'[r])
    BY <1>1, <1>2, <1>4 DEF Fits, Using, Looking
  <1> QED BY <1>2, <1>3, <1>5, MoveKeeps DEF Registry, Inv, Types, Same

LEMMA ReadAccountKeeps == ASSUME Inv, NEW r \in Calls, ReadAccount(r) PROVE Inv'
  <1>1. /\ call[r].at = "account" /\ Observe /\ UNCHANGED stored /\ UNCHANGED Registry
        /\ call[r] \in CallType
    BY DEF ReadAccount, At, Inv, Types
  <1>2. CASE End(r)
    BY <1>1, <1>2, EndKeeps
  <1>3. CASE call[r].of = "mcp" /\ Go(r, "key")
    <2>1. call' = [call EXCEPT ![r] = [call[r] EXCEPT !.at = "key", !.key = call[r].key]]
      BY <1>1, <1>3 DEF Go, CallType, Inv, Types
    <2>2. call[r].key \in Secrets \cup {"admin", "none"}
      BY <1>1 DEF CallType
    <2> QED BY <1>1, <2>1, <2>2, LookOn DEF Looking
  <1>4. CASE call[r].of # "mcp" /\ call' = [call EXCEPT ![r].at = "lookup", ![r].key = "admin"]
    <2>1. call' = [call EXCEPT ![r] = [call[r] EXCEPT !.at = "lookup", !.key = "admin"]]
      BY <1>4 DEF Inv, Types
    <2> QED BY <1>1, <1>4, <2>1, LookOn DEF Looking
  <1> QED BY <1>2, <1>3, <1>4 DEF ReadAccount

LEMMA ReadKeyKeeps == ASSUME Inv, NEW r \in Calls, ReadKey(r) PROVE Inv'
  <1>1. /\ call[r].at = "key" /\ Observe /\ UNCHANGED stored /\ UNCHANGED Registry
    BY DEF ReadKey, At
  <1>2. CASE End(r)
    BY <1>1, <1>2, EndKeeps
  <1>3. CASE /\ stored[call[r].acct] \in Secrets
             /\ call' = [call EXCEPT ![r].at = "lookup", ![r].key = stored[call[r].acct]]
    <2> DEFINE key == stored[call[r].acct]
    <2>1. call' = [call EXCEPT ![r] = [call[r] EXCEPT !.at = "lookup", !.key = key]]
      BY <1>3 DEF Inv, Types
    <2>2. key \in Secrets
      BY <1>3
    <2> QED BY <1>1, <2>1, <2>2, LookOn DEF Looking
  <1> QED BY <1>2, <1>3 DEF ReadKey

\* A free client is cached nowhere, not evicted, not doomed, and held by nobody.
LEMMA FreeClient ==
    ASSUME Inv, NEW c \in Free
    PROVE  /\ c \in Clients /\ ~client[c].http /\ closing[c] = NotEvicted /\ c \notin doomed
           /\ c # NoClient
           /\ \A x \in Slots : cache[x] # c
           /\ \A r \in Calls : call[r].client # c
  <1>1. c \in Clients /\ ~client[c].http /\ c # NoClient
    BY RegistryAssumption DEF Free
  <1>2. closing[c] = NotEvicted /\ c \notin doomed
    BY <1>1 DEF Free, Waiting
  <1>3. ASSUME NEW x \in Slots PROVE cache[x] # c
    <2>1. PICK a \in Accounts, p \in Processes : x = <<a, p>>
      BY DEF Slots
    <2> QED BY <1>1, <2>1 DEF Free, Cached
  <1>4. ASSUME NEW r \in Calls PROVE call[r].client # c
    <2>1. call[r].of \in Processes
      BY DEF Inv, Types, CallType
    <2>2. Holds(r) \subseteq Held("mcp") \cup Held("admin")
      BY <2>1 DEF Held, Processes
    <2> QED BY <1>1, <2>2 DEF Free, Holds
  <1> QED BY <1>1, <1>2, <1>3, <1>4

LEMMA HitKeeps ==
    ASSUME Inv, Observe, NEW r \in Calls, call[r].at = "lookup", Hit(r),
           Take(r, cache[<<call[r].acct, call[r].of>>]), UNCHANGED stored, UNCHANGED Registry
    PROVE  Inv'
  <1> DEFINE x == <<call[r].acct, call[r].of>>
             c == cache[x]
             new == [call[r] EXCEPT !.at = "hold", !.client = c, !.age = 0]
  <1>1. call[r] \in CallType /\ Fits(call[r], seen[r]) /\ x \in Slots
    BY DEF Inv, Types, CallType, Slots
  <1>2. c # NoClient /\ c \in Clients /\ client[c].key = call[r].key
    BY <1>1 DEF Hit, Inv, Types
  <1>3. client[c].of = call[r].of /\ closing[c] = NotEvicted
    BY <1>1, <1>2 DEF Inv, Apart
  <1>4. 0 \in 0..MaxCall /\ NotEvicted + 0 >= Grace
    BY RegistryAssumption DEF NotEvicted
  <1>5. /\ new \in CallType /\ new.at = "hold" /\ new.of = call[r].of /\ new.client = c
        /\ new.age = 0
    BY <1>1, <1>2, <1>4 DEF CallType, Using
  <1>6. call' = [call EXCEPT ![r] = new]
    BY DEF Take, Inv, Types
  <1> HIDE DEF new
  <1>7. call'[r] = new
    BY <1>6 DEF Inv, Types
  <1>8. seen'[r] = seen[r]
    BY <1>5, <1>7, Seen DEF Using
  <1>9. Fits(new, seen'[r])
    <2>1. call[r].of = "mcp" => client[c].key \in seen[r] /\ phase = "up"
      BY <1>1, <1>2 DEF Fits
    <2> QED BY <1>2, <1>3, <1>4, <1>5, <1>8, <2>1 DEF Fits, Using
  <1> QED BY <1>5, <1>6, <1>9, MoveKeeps DEF Registry, Inv, Types, Same

\* A new client c takes the place of the cached one, which begins its grace.
LEMMA RenewKeeps ==
    ASSUME Inv, Observe, NEW r \in Calls, call[r].at = "lookup", NEW c \in Free,
           NEW x \in Slots, x = <<call[r].acct, call[r].of>>,
           client' = [client EXCEPT ![c] = [Unused EXCEPT !.of = call[r].of, !.key = call[r].key]],
           cache' = [cache EXCEPT ![x] = c], Evict(cache[x]), Take(r, c),
           UNCHANGED <<stored, phase, doomed>>
    PROVE  Inv'
  <1> DEFINE new == [call[r] EXCEPT !.at = "hold", !.client = c, !.age = 0]
             made == [Unused EXCEPT !.of = call[r].of, !.key = call[r].key]
  <1>1. call[r] \in CallType /\ Fits(call[r], seen[r]) /\ x[2] = call[r].of
    <2>1. call[r] \in CallType /\ Fits(call[r], seen[r])
      BY DEF Inv, Types
    <2>2. x[2] = call[r].of
      OBVIOUS
    <2> QED BY <2>1, <2>2
  <1>2. made \in ClientType /\ made.of = call[r].of /\ made.key = call[r].key
    BY <1>1, UnusedType DEF ClientType, CallType
  <1>3. /\ new \in CallType /\ new.at = "hold" /\ new.of = call[r].of /\ new.client = c
        /\ new.age = 0
    <2>1. c \in Clients /\ 0 \in 0..MaxCall
      BY FreeClient, RegistryAssumption
    <2> QED BY <1>1, <2>1 DEF CallType, Using
  <1>4. call' = [call EXCEPT ![r] = new] /\ client' = [client EXCEPT ![c] = made]
    BY DEF Take, Inv, Types
  <1> HIDE DEF new, made
  <1>5. /\ call' \in [Calls -> CallType] /\ call'[r] = new
        /\ \A q \in Calls : q # r => call'[q] = call[q]
    BY <1>3, <1>4 DEF Inv, Types
  <1>6. /\ client' \in [Clients -> ClientType] /\ client'[c] = made
        /\ \A d \in Clients : d # c => client'[d] = client[d]
    BY <1>2, <1>4, FreeClient DEF Inv, Types
  <1>7. /\ cache' \in [Slots -> Clients \cup {NoClient}] /\ cache'[x] = c
        /\ \A y \in Slots : y # x => cache'[y] = cache[y]
    BY FreeClient DEF Inv, Types
  <1>8. /\ closing' \in [Clients -> 0..NotEvicted]
        /\ \A d \in Clients : closing'[d] = IF d = cache[x] THEN Grace ELSE closing[d]
    <2>1. Grace \in 0..NotEvicted
      BY RegistryAssumption DEF NotEvicted
    <2>2. closing \in [Clients -> 0..NotEvicted] /\ NoClient \notin Clients
      BY RegistryAssumption DEF Inv, Types
    <2> QED BY <2>1, <2>2 DEF Evict
  <1>9. closing'[c] = NotEvicted
    BY <1>8, FreeClient
  <1>10. Types'
    BY <1>5, <1>6, <1>7, <1>8 DEF Inv, Types, NotEvicted
  <1>11. Apart'
    <2>1. ASSUME NEW y \in Slots, y # x, cache[y] # NoClient
          PROVE  /\ cache[y] \in Clients /\ cache[y] # c /\ cache[y] # cache[x]
                 /\ client'[cache[y]] = client[cache[y]] /\ closing'[cache[y]] = closing[cache[y]]
      BY <2>1, <1>6, <1>8, FreeClient DEF Inv, Types, Apart
    <2>2. \A y \in Slots : cache'[y] # NoClient =>
             client'[cache'[y]].of = y[2] /\ closing'[cache'[y]] = NotEvicted /\ cache'[y] \notin doomed'
      BY <2>1, <1>1, <1>2, <1>6, <1>7, <1>9, FreeClient DEF Inv, Apart
    <2>3. \A y, z \in Slots : cache'[y] = cache'[z] /\ cache'[y] # NoClient => y = z
      BY <2>1, <1>7, FreeClient DEF Inv, Apart
    <2> QED BY <2>2, <2>3 DEF Inv, Apart, NotEvicted
  <1>12. Fits(call[r], seen[r])'
    <2>1. seen'[r] = seen[r]
      BY <1>3, <1>5, Seen DEF Using
    <2>2. NotEvicted + 0 >= Grace
      BY RegistryAssumption DEF NotEvicted
    <2>3. call[r].of = "mcp" => call[r].key \in seen[r] /\ phase = "up"
      BY <1>1 DEF Fits
    <2> QED BY <1>2, <1>3, <1>5, <1>6, <1>9, <2>1, <2>2, <2>3, FreeClient DEF Fits, Using
  <1>13. ASSUME NEW q \in Calls, q # r PROVE Fits(call[q], seen[q])'
    <2>1. call[q].client # NoClient => call[q].client \in Clients /\ call[q].client # c
      BY FreeClient DEF Inv, Types, CallType
    <2> QED BY <1>5, <1>6, <1>8, <1>13, <2>1, OthersFit DEF Same
  <1> QED BY <1>10, <1>11, <1>12, <1>13 DEF Inv

LEMMA LookupKeeps == ASSUME Inv, NEW r \in Calls, Lookup(r) PROVE Inv'
  <1> DEFINE x == <<call[r].acct, call[r].of>>
  <1>1. call[r].at = "lookup" /\ Observe /\ UNCHANGED stored /\ x \in Slots
    BY DEF Lookup, At, Inv, Types, CallType, Slots
  <1>2. CASE Hit(r) /\ Take(r, cache[x]) /\ UNCHANGED Registry
    BY <1>1, <1>2, HitKeeps
  <1>3. CASE End(r) /\ UNCHANGED Registry
    BY <1>1, <1>3, EndKeeps
  <1>4. CASE LET c == CHOOSE c \in Free : TRUE IN
             /\ ~Hit(r) /\ Free # {}
             /\ client' = [client EXCEPT ![c] = [Unused EXCEPT !.of = call[r].of, !.key = call[r].key]]
             /\ cache' = [cache EXCEPT ![x] = c]
             /\ Evict(cache[x])
             /\ Take(r, c)
             /\ UNCHANGED <<phase, doomed>>
    <2> DEFINE c == CHOOSE c \in Free : TRUE
    <2>1. c \in Free
      BY <1>4
    <2>2. /\ client' = [client EXCEPT ![c] = [Unused EXCEPT !.of = call[r].of, !.key = call[r].key]]
          /\ cache' = [cache EXCEPT ![x] = c] /\ Evict(cache[x]) /\ Take(r, c)
          /\ UNCHANGED <<stored, phase, doomed>>
      BY <1>1, <1>4
    <2> HIDE DEF c
    <2> QED BY <1>1, <2>1, <2>2, RenewKeeps
  <1> QED BY <1>2, <1>3, <1>4 DEF Lookup

\* Closing c leaves every other client alone, and whoever holds c keeps it.
LEMMA Closes ==
    ASSUME Inv, NEW c \in Clients, Close(c)
    PROVE  /\ client' \in [Clients -> ClientType] /\ ~client'[c].http
           /\ \A d \in Clients : d # c => client'[d] = client[d]
           /\ \A r \in Calls : call'[r].client # NoClient /\ call'[r].client \in Clients =>
                 Same(call'[r].client)
  <1> DEFINE closed == IF \E r \in Calls : call'[r].client = c
                       THEN [client[c] EXCEPT !.http = FALSE] ELSE Unused
  <1>1. closed \in ClientType /\ ~closed.http
    BY UnusedType DEF Inv, Types, ClientType, Unused
  <1>2. (\E r \in Calls : call'[r].client = c) =>
           closed.of = client[c].of /\ closed.key = client[c].key
    BY DEF Inv, Types, ClientType
  <1>3. client' = [client EXCEPT ![c] = closed]
    BY DEF Close
  <1> HIDE DEF closed
  <1>4. /\ client' \in [Clients -> ClientType] /\ client'[c] = closed
        /\ \A d \in Clients : d # c => client'[d] = client[d]
    BY <1>1, <1>3 DEF Inv, Types
  <1> QED BY <1>1, <1>2, <1>4 DEF Same

\* A step of the registry alone: it closes clients, evicts or forgets them.
LEMMA RegistryKeeps ==
    ASSUME Inv, Observe, Types', Apart', UNCHANGED call,
           \A q \in Calls : call[q].of = "mcp" /\ call[q].at # "idle" => phase' = phase,
           \A q \in Calls : call[q].client # NoClient => Same(call[q].client),
           \A c \in Clients : closing'[c] \in {closing[c], Grace, NotEvicted}
    PROVE  Inv'
  <1>1. ASSUME NEW q \in Calls PROVE Fits(call[q], seen[q])'
    <2>1. call[q].client # NoClient => call[q].client \in Clients
      BY DEF Inv, Types, CallType
    <2> QED BY <2>1, OthersFit
  <1> QED BY <1>1 DEF Inv

LEMMA UseKeeps == ASSUME Inv, NEW r \in Calls, Use(r) PROVE Inv'
  <1>1. Observe /\ UNCHANGED <<stored, cache, closing, phase, doomed>>
    BY DEF Use
  <1>2. /\ call[r] \in CallType /\ Fits(call[r], seen[r])
        /\ client \in [Clients -> ClientType]
    BY DEF Inv, Types
  <1>3. ASSUME NEW step \in Using, Go(r, step), call[r].at \in Using,
               client' \in [Clients -> ClientType], \A c \in Clients : Same(c)
        PROVE  Inv'
    <2> DEFINE new == [call[r] EXCEPT !.at = step]
    <2>1. /\ new \in CallType /\ new.at = step /\ new.of = call[r].of /\ new.age = call[r].age
          /\ new.client = call[r].client
      BY <1>2, <1>3 DEF CallType
    <2>2. call' = [call EXCEPT ![r] = new] /\ call'[r] = new
      BY <1>3 DEF Go, Inv, Types
    <2> HIDE DEF new
    <2>3. seen'[r] = seen[r]
      BY <1>1, <2>1, <2>2, Seen
    <2>4. step # "lookup" /\ call[r].at # "idle" /\ new.at \in Using
      BY <1>3, <2>1 DEF Using
    <2>5. call[r].client # NoClient /\ client[call[r].client].of = call[r].of
      BY <1>2, <1>3 DEF Fits
    <2>6. call[r].of = "mcp" =>
             /\ phase = "up" /\ client[call[r].client].key \in seen[r]
             /\ closing[call[r].client] + call[r].age >= Grace
      BY <1>2, <2>4, <2>5 DEF Fits
    <2>7. Fits(new, seen'[r])
      BY <2>1, <2>3, <2>4, <2>5, <2>6 DEF Fits
    <2> QED BY <1>1, <1>3, <2>1, <2>2, <2>7, MoveKeeps
  <1>4. CASE /\ At(r, "hold") /\ Go(r, "flight")
             /\ client' = [client EXCEPT ![call[r].client].http = TRUE]
    <2> DEFINE c == call[r].client
    <2>1. c \in Clients
      BY <1>2, <1>4 DEF At, Fits, Using, CallType
    <2>2. client' = [client EXCEPT ![c] = [client[c] EXCEPT !.http = TRUE]]
      BY <1>4
    <2>3. /\ [client[c] EXCEPT !.http = TRUE] \in ClientType
          /\ [client[c] EXCEPT !.http = TRUE].of = client[c].of
          /\ [client[c] EXCEPT !.http = TRUE].key = client[c].key
      BY <1>2, <2>1 DEF ClientType
    <2> DEFINE open == [client[c] EXCEPT !.http = TRUE]
    <2>4. /\ client' = [client EXCEPT ![c] = open] /\ open \in ClientType
          /\ open.of = client[c].of /\ open.key = client[c].key
      BY <2>2, <2>3
    <2> HIDE DEF open
    <2>5. client' \in [Clients -> ClientType] /\ \A d \in Clients : Same(d)
      BY <1>2, <2>1, <2>4 DEF Same
    <2> QED BY <1>3, <1>4, <2>5 DEF At, Using
  <1>5. CASE call[r].at \in Using /\ (Go(r, "hold") \/ Go(r, "drop")) /\ UNCHANGED client
    BY <1>2, <1>3, <1>5 DEF Using, Same
  <1>6. CASE End(r) /\ UNCHANGED client
    BY <1>1, <1>6, EndKeeps DEF Registry
  <1> QED BY <1>4, <1>5, <1>6 DEF Use, At, Using

LEMMA DeleteSessionKeeps == ASSUME Inv, NEW r \in Calls, DeleteSession(r) PROVE Inv'
  <1> DEFINE x == <<call[r].acct, "admin">>
             c == cache[x]
  <1>1. /\ End(r) /\ Observe /\ UNCHANGED <<stored, closing, phase, doomed>>
        /\ cache' = [cache EXCEPT ![x] = NoClient]
        /\ IF c = NoClient THEN UNCHANGED client ELSE Close(c)
    BY DEF DeleteSession
  <1>2. x \in Slots
    BY DEF Inv, Types, CallType, Slots, Processes
  <1> HIDE DEF x
  <1>3. c # NoClient => c \in Clients
    BY <1>2 DEF Inv, Types
  <1>4. /\ call' \in [Calls -> CallType] /\ call'[r] = Idle
        /\ \A q \in Calls : q # r => call'[q] = call[q]
    BY <1>1, IdleType DEF End, Inv, Types
  <1>5. /\ client' \in [Clients -> ClientType]
        /\ \A d \in Clients : d # c => client'[d] = client[d]
    BY <1>1, <1>3, Closes DEF Inv, Types
  <1>6. /\ cache' \in [Slots -> Clients \cup {NoClient}] /\ cache'[x] = NoClient
        /\ \A y \in Slots : y # x => cache'[y] = cache[y]
    BY <1>1, <1>2 DEF Inv, Types
  <1>7. Types'
    BY <1>1, <1>4, <1>5, <1>6 DEF Inv, Types, NotEvicted
  <1>8. Apart'
    <2>1. ASSUME NEW y \in Slots, cache'[y] # NoClient
          PROVE  y # x /\ cache'[y] = cache[y] /\ client'[cache[y]] = client[cache[y]]
      <3>1. y # x /\ cache'[y] = cache[y] /\ cache[y] \in Clients
        BY <1>6, <2>1 DEF Inv, Types
      <3>2. cache[y] # c
        BY <1>2, <2>1, <3>1 DEF Inv, Apart
      <3> QED BY <1>5, <3>1, <3>2
    <2> QED BY <1>1, <2>1 DEF Inv, Apart, NotEvicted
  <1>9. Fits(call[r], seen[r])'
    BY <1>4, IdleType
  <1>10. ASSUME NEW q \in Calls, q # r PROVE Fits(call[q], seen[q])'
    <2>1. call[q].client # NoClient => call[q].client \in Clients
      BY DEF Inv, Types, CallType
    <2>2. call[q].client # NoClient => Same(call[q].client)
      BY <1>1, <1>3, <1>4, <1>10, <2>1, Closes DEF Same
    <2> QED BY <1>1, <1>4, <1>10, <2>1, <2>2, OthersFit
  <1> QED BY <1>7, <1>8, <1>9, <1>10 DEF Inv

LEMMA TickKeeps == ASSUME Inv, Tick PROVE Inv'
  <1> DEFINE Timed(r) == call[r].of = "mcp" /\ call[r].client # NoClient
             older(r) == [call[r] EXCEPT !.age = @ + 1]
  <1>1. /\ \A r \in Calls : Timed(r) => call[r].age < MaxCall
        /\ call' = [r \in Calls |-> IF Timed(r) THEN older(r) ELSE call[r]]
        /\ closing' = [c \in Clients |-> IF closing[c] \in 1..Grace THEN closing[c] - 1 ELSE closing[c]]
        /\ UNCHANGED <<stored, cache, client, phase, doomed>> /\ Observe
    BY DEF Tick
  <1>2. ASSUME NEW r \in Calls
        PROVE  /\ call[r] \in CallType /\ call'[r] \in CallType /\ Fits(call[r], seen[r])
               /\ call'[r].at = call[r].at /\ call'[r].of = call[r].of /\ call'[r].key = call[r].key
               /\ call'[r].client = call[r].client
               /\ call'[r].age = IF Timed(r) THEN call[r].age + 1 ELSE call[r].age
    <2>1. call[r] \in CallType /\ Fits(call[r], seen[r])
      BY DEF Inv, Types
    <2>2. CASE Timed(r)
      <3>1. call[r].age + 1 \in 0..MaxCall
        BY <1>1, <2>1, <2>2, RegistryAssumption DEF CallType
      <3>2. call'[r] = older(r)
        BY <1>1, <2>2
      <3> QED BY <2>1, <2>2, <3>1, <3>2 DEF CallType
    <2>3. CASE ~Timed(r)
      BY <1>1, <2>1, <2>3
    <2> QED BY <2>1, <2>2, <2>3
  <1>3. ASSUME NEW c \in Clients
        PROVE  /\ closing'[c] \in 0..NotEvicted
               /\ closing[c] = NotEvicted => closing'[c] = NotEvicted
               /\ closing'[c] + 1 >= closing[c]
               /\ closing[c] \in Nat /\ closing'[c] \in Nat
    BY <1>1, RegistryAssumption DEF NotEvicted, Inv, Types
  <1>4. Types'
    <2>1. call' \in [Calls -> CallType]
      BY <1>1, <1>2
    <2>2. closing' \in [Clients -> 0..NotEvicted]
      BY <1>1, <1>3
    <2> QED BY <1>1, <2>1, <2>2 DEF Inv, Types, NotEvicted
  <1>5. Apart'
    <2>1. \A x \in Slots : cache[x] # NoClient => cache[x] \in Clients
      BY DEF Inv, Types
    <2> QED BY <1>1, <1>3, <2>1 DEF Inv, Apart, NotEvicted
  <1>6. ASSUME NEW r \in Calls PROVE Fits(call[r], seen[r])'
    <2>1. call'[r].at \in Using => seen'[r] = seen[r]
      BY <1>1, Seen
    <2>2. call'[r].of = "mcp" /\ call'[r].at = "lookup" => seen[r] \subseteq seen'[r]
      BY <1>1, <1>2, Seen DEF Looking
    <2>3. ASSUME Timed(r) PROVE closing'[call[r].client] + call'[r].age >= Grace
      <3>1. call[r].client \in Clients /\ call[r].age \in Nat /\ Grace \in Nat
        BY <1>2, <2>3, RegistryAssumption DEF CallType
      <3>2. closing[call[r].client] + call[r].age >= Grace /\ call'[r].age = call[r].age + 1
        BY <1>2, <2>3 DEF Fits
      <3>3. /\ closing'[call[r].client] + 1 >= closing[call[r].client]
            /\ closing[call[r].client] \in Nat /\ closing'[call[r].client] \in Nat
        BY <1>3, <3>1
      <3> QED BY <3>1, <3>2, <3>3
    <2>4. call[r].at \in Using <=> call[r].client # NoClient
      BY <1>2 DEF Fits
    <2> QED BY <1>1, <1>2, <2>1, <2>2, <2>3, <2>4 DEF Fits
  <1> QED BY <1>4, <1>5, <1>6 DEF Inv

LEMMA CloseAfterGraceKeeps == ASSUME Inv, NEW c \in Clients, CloseAfterGrace(c) PROVE Inv'
  <1>1. /\ closing[c] = 0 /\ closing' = [closing EXCEPT ![c] = NotEvicted]
        /\ UNCHANGED <<stored, cache, call, phase, doomed>> /\ Close(c) /\ Observe
    BY DEF CloseAfterGrace
  <1>2. /\ client' \in [Clients -> ClientType]
        /\ \A d \in Clients : d # c => client'[d] = client[d]
    BY <1>1, Closes
  <1>3. NotEvicted \in 0..NotEvicted /\ NotEvicted # 0
    BY RegistryAssumption DEF NotEvicted
  <1>4. /\ closing' \in [Clients -> 0..NotEvicted]
        /\ \A d \in Clients : closing'[d] \in {closing[d], NotEvicted}
    BY <1>1, <1>3 DEF Inv, Types
  <1>5. Types'
    BY <1>1, <1>2, <1>4 DEF Inv, Types, NotEvicted
  <1>6. Apart'
    <2>1. ASSUME NEW x \in Slots, cache[x] # NoClient
          PROVE  client'[cache[x]] = client[cache[x]] /\ closing'[cache[x]] = NotEvicted
      <3>1. cache[x] \in Clients /\ closing[cache[x]] = NotEvicted
        BY <2>1 DEF Inv, Types, Apart
      <3>2. cache[x] # c
        BY <1>1, <1>3, <3>1
      <3> QED BY <1>2, <1>4, <3>1, <3>2
    <2> QED BY <1>1, <2>1 DEF Inv, Apart, NotEvicted
  <1>7. \A q \in Calls : call[q].client # NoClient => Same(call[q].client)
    BY <1>1, Closes DEF Inv, Types, CallType
  <1> QED BY <1>1, <1>4, <1>5, <1>6, <1>7, RegistryKeeps

LEMMA ShutdownKeeps == ASSUME Inv, Shutdown PROVE Inv'
  <1>1. UNCHANGED <<stored, call>> /\ Observe
    BY DEF Shutdown
  <1>2. \A x \in Slots : cache[x] # NoClient => cache[x] \in Clients
    BY DEF Inv, Types
  <1>3. \A q \in Calls : Fits(call[q], seen[q])
    BY DEF Inv
  <1>4. CASE /\ phase = "up" /\ \A r \in Calls : call[r].of = "mcp" => At(r, "idle")
             /\ phase' = "closeCached" /\ doomed' = McpCache
             /\ cache' = [x \in Accounts \X Processes |-> IF x[2] = "mcp" THEN NoClient ELSE cache[x]]
             /\ UNCHANGED <<client, closing>>
    <2>1. ASSUME NEW c \in McpCache
          PROVE  \E y \in Slots : y[2] = "mcp" /\ cache[y] = c /\ c # NoClient
      <3>1. PICK a \in Accounts : c = cache[<<a, "mcp">>] /\ c # NoClient
        BY DEF McpCache
      <3>2. <<a, "mcp">> \in Slots
        BY DEF Slots, Processes
      <3> QED BY <3>1, <3>2
    <2>2. McpCache \subseteq Clients
      BY <1>2, <2>1
    <2>3. cache' \in [Slots -> Clients \cup {NoClient}]
      BY <1>2, <1>4 DEF Slots
    <2>4. Types'
      BY <1>1, <1>4, <2>2, <2>3 DEF Inv, Types, NotEvicted
    <2>5. \A x \in Slots : cache'[x] # NoClient => x[2] # "mcp" /\ cache'[x] = cache[x]
      BY <1>4 DEF Slots
    <2>6. \A x \in Slots : cache'[x] # NoClient => cache'[x] \notin McpCache
      BY <2>1, <2>5 DEF Inv, Apart
    <2>7. Apart'
      <3>1. ASSUME NEW x \in Slots, cache'[x] # NoClient
            PROVE  /\ client'[cache'[x]].of = x[2] /\ closing'[cache'[x]] = Grace + 1
                   /\ cache'[x] \notin doomed'
        BY <1>4, <2>5, <2>6, <3>1 DEF Inv, Apart, NotEvicted
      <3>2. ASSUME NEW x \in Slots, NEW y \in Slots, cache'[x] = cache'[y], cache'[x] # NoClient
            PROVE  x = y
        <4>1. cache'[x] = cache[x] /\ cache'[y] = cache[y]
          BY <2>5, <3>2
        <4> QED BY <3>2, <4>1 DEF Inv, Apart
      <3> QED BY <1>4, <3>1, <3>2 DEF Apart, NotEvicted
    <2>8. \A q \in Calls : call[q].of = "mcp" /\ call[q].at # "idle" => phase' = phase
      BY <1>4 DEF At
    <2> QED BY <1>1, <1>4, <2>4, <2>7, <2>8, RegistryKeeps DEF Same
  <1>5. CASE \E c \in doomed : /\ doomed' = doomed \ {c} /\ Close(c)
                               /\ UNCHANGED <<phase, cache, closing>>
    <2>1. PICK c \in doomed : doomed' = doomed \ {c} /\ Close(c)
      BY <1>5
    <2>2. c \in Clients /\ UNCHANGED <<phase, cache, closing>>
      BY <1>5 DEF Inv, Types
    <2>3. /\ client' \in [Clients -> ClientType]
          /\ \A d \in Clients : d # c => client'[d] = client[d]
      BY <2>1, <2>2, Closes
    <2>4. Types'
      BY <1>1, <2>1, <2>2, <2>3 DEF Inv, Types, NotEvicted
    <2>5. \A x \in Slots : cache[x] # NoClient => client'[cache[x]] = client[cache[x]]
      BY <1>2, <2>3 DEF Inv, Apart
    <2>6. Apart'
      BY <2>1, <2>2, <2>5 DEF Inv, Apart, NotEvicted
    <2>7. \A q \in Calls : call[q].client # NoClient => Same(call[q].client)
      BY <1>1, <2>1, <2>2, Closes DEF Inv, Types, CallType
    <2> QED BY <1>1, <2>2, <2>4, <2>6, <2>7, RegistryKeeps
  <1>6. CASE /\ phase = "closeCached" /\ doomed = {}
             /\ phase' = "closeWaiting" /\ doomed' = ToFinish
             /\ closing' = [c \in Clients |-> NotEvicted]
             /\ UNCHANGED <<cache, client>>
    <2>1. NotEvicted \in 0..NotEvicted /\ ToFinish \subseteq Clients
      BY RegistryAssumption DEF NotEvicted, ToFinish, Waiting
    <2>2. Types'
      BY <1>1, <1>6, <2>1 DEF Inv, Types, NotEvicted
    <2>3. \A x \in Slots : cache[x] # NoClient =>
             cache[x] \notin ToFinish /\ closing'[cache[x]] = NotEvicted
      BY <1>2, <1>6 DEF Inv, Apart, ToFinish, Waiting
    <2>4. Apart'
      BY <1>6, <2>3 DEF Inv, Apart, NotEvicted
    <2>5. \A q \in Calls : call[q].of = "mcp" /\ call[q].at # "idle" => phase' = phase
      BY <1>3, <1>6 DEF Fits
    <2> QED BY <1>1, <1>6, <2>2, <2>4, <2>5, RegistryKeeps DEF Same
  <1>7. CASE /\ phase = "closeWaiting" /\ doomed = {} /\ phase' = "up"
             /\ UNCHANGED <<cache, client, closing, doomed>>
    <2>1. Types' /\ Apart'
      BY <1>1, <1>7 DEF Inv, Types, Apart, NotEvicted
    <2>2. \A q \in Calls : call[q].of = "mcp" /\ call[q].at # "idle" => phase' = phase
      BY <1>3, <1>7 DEF Fits
    <2> QED BY <1>1, <1>7, <2>1, <2>2, RegistryKeeps DEF Same
  <1> QED BY <1>4, <1>5, <1>6, <1>7 DEF Shutdown

LEMMA InitInv == Init => Inv
  <1> SUFFICES ASSUME Init PROVE Inv
    OBVIOUS
  <1>1. NotEvicted \in 0..NotEvicted
    BY RegistryAssumption DEF NotEvicted
  <1>2. Types
    BY <1>1, IdleType, UnusedType DEF Init, Types, Slots
  <1>3. Apart /\ \A r \in Calls : Fits(call[r], seen[r])
    BY IdleType DEF Init, Apart, Slots
  <1> QED BY <1>2, <1>3 DEF Inv

LEMMA NextKeeps == Inv /\ [Next]_vars => Inv'
  <1> SUFFICES ASSUME Inv, [Next]_vars PROVE Inv'
    OBVIOUS
  <1>1. CASE StoreKey
    BY <1>1, StoreKeyKeeps
  <1>2. CASE \E r \in Calls : Begin(r) \/ Progress(r)
    BY <1>2, BeginKeeps, ReadAccountKeeps, ReadKeyKeeps, LookupKeeps, UseKeeps, DeleteSessionKeeps
    DEF Progress
  <1>3. CASE Tick
    BY <1>3, TickKeeps
  <1>4. CASE \E c \in Clients : CloseAfterGrace(c)
    BY <1>4, CloseAfterGraceKeeps
  <1>5. CASE Shutdown
    BY <1>5, ShutdownKeeps
  <1>6. CASE UNCHANGED vars
    BY <1>6 DEF vars, Inv, Types, Apart, Fits, NotEvicted
  <1> QED BY <1>1, <1>2, <1>3, <1>4, <1>5, <1>6 DEF Next

LEMMA Invariance == Spec => []Inv
  BY InitInv, NextKeeps, PTL DEF Spec

\* Every variable keeps its type: the cache of both processes, the clients, the
\* calls that hold them, and what close() is about to close.
THEOREM TypeCorrect == Spec => []TypeOK
  <1>1. Inv => TypeOK
    <2> SUFFICES ASSUME Inv PROVE TypeOK
      OBVIOUS
    <2>1. \A r \in Calls : call[r] \in CallType /\ (call[r].at \in Using <=> call[r].client # NoClient)
      BY DEF Inv, Types, Fits
    <2> QED BY <2>1 DEF Inv, Types, TypeOK, Slots, ClientType, CallType, Looking, Using
  <1> QED BY <1>1, Invariance, PTL

\* A tool call only ever uses a key that its account had stored while the call
\* looked it up: however rotations, deletions and lookups interleave, no call
\* is served by a client of an older key (bridge_registry.py: _client).
THEOREM ReplacedKeysUnused == Spec => []ServesStoredKey
  <1>1. Inv => ServesStoredKey
    BY DEF Inv, Fits, ServesStoredKey
  <1> QED BY <1>1, Invariance, PTL

-----------------------------------------------------------------------------
(* Calls that are shorter than the grace period: their clients are never   *)
(* closed under them, so they open no HTTP session that nobody closes.     *)

Tended == Inv /\ Home /\ NoLeakedClient

\* The clients that the registry will close by itself.
Kept == McpCache \cup Waiting

\* q is a tool call with client c, before or after the step.
Has(q, c) == call[q].of = "mcp" /\ call[q].client = c

\* No tool call loses the HTTP session it uses.
NotCut ==
    \A c \in Clients : client[c].of = "mcp" /\ client[c].http /\ ~client'[c].http =>
        \A r \in Calls : call[r].client # c

\* Tool calls keep their clients, or take one that is cached.
Holding ==
    \A q \in Calls : call'[q].of = "mcp" /\ call'[q].client # NoClient =>
        Has(q, call'[q].client) \/ call'[q].client \in McpCache'

\* Only a tool call opens the HTTP session of a client of the MCP server.
Opening ==
    \A c \in Clients : client'[c].of = "mcp" /\ client'[c].http =>
        (client[c].of = "mcp" /\ client[c].http) \/ \E q \in Calls : Has(q, c)

LEMMA HeldClient ==
    ASSUME Inv, NEW r \in Calls, call[r].client # NoClient
    PROVE  /\ call[r].client \in Clients /\ client[call[r].client].of = call[r].of
           /\ call[r].at \in Using
           /\ call[r].of = "mcp" => phase = "up" /\ doomed = {}
  <1>1. call[r] \in CallType /\ Fits(call[r], seen[r])
    BY DEF Inv, Types
  <1> QED BY <1>1 DEF Fits, CallType, Using, Inv, Apart

\* A step that forgets no client leaves nothing open behind.
LEMMA SteadyTended ==
    ASSUME Tended, Inv', Kept \subseteq Kept', doomed \subseteq doomed', Holding, Opening
    PROVE  Tended'
  <1>1. ASSUME NEW q \in Calls, NEW c, Has(q, c), c # NoClient PROVE c \in Kept
    BY <1>1 DEF Has, Tended, Home, Kept
  <1>2. Home'
    <2> SUFFICES ASSUME NEW q \in Calls, call'[q].of = "mcp", call'[q].client # NoClient
                 PROVE  call'[q].client \in Kept'
      BY DEF Home, Kept
    <2> QED BY <1>1 DEF Holding, Kept
  <1>3. NoLeakedClient'
    <2> SUFFICES ASSUME NEW c \in Clients, client'[c].of = "mcp", client'[c].http
                 PROVE  c \in Kept' \cup doomed'
      BY DEF NoLeakedClient, Kept
    <2>1. c # NoClient
      BY RegistryAssumption
    <2>2. c \in Kept \cup doomed
      BY <1>1, <2>1 DEF Opening, Tended, NoLeakedClient, Kept
    <2> QED BY <2>2
  <1> QED BY <1>2, <1>3 DEF Tended

\* The cached clients of the MCP server, by their slots.
LEMMA McpSlots ==
    ASSUME NEW c
    PROVE  c \in McpCache <=> \E x \in Slots : x[2] = "mcp" /\ cache[x] = c /\ c # NoClient
  <1>1. ASSUME c \in McpCache
        PROVE  \E x \in Slots : x[2] = "mcp" /\ cache[x] = c /\ c # NoClient
    <2>1. PICK a \in Accounts : c = cache[<<a, "mcp">>] /\ c # NoClient
      BY <1>1 DEF McpCache
    <2>2. <<a, "mcp">> \in Slots
      BY DEF Slots, Processes
    <2> QED BY <2>1, <2>2
  <1>2. ASSUME NEW x \in Slots, x[2] = "mcp", cache[x] = c, c # NoClient PROVE c \in McpCache
    <2>1. PICK a \in Accounts : x = <<a, "mcp">>
      BY <1>2 DEF Slots
    <2> QED BY <1>2, <2>1 DEF McpCache
  <1> QED BY <1>1, <1>2

\* A step of one call that leaves the registry as it is.
LEMMA CallTended ==
    ASSUME Tended, Inv', UNCHANGED <<cache, closing, doomed>>, NEW r \in Calls, NEW new,
           call' = [call EXCEPT ![r] = new],
           new.of = "mcp" /\ new.client # NoClient => Has(r, new.client) \/ new.client \in McpCache,
           Opening
    PROVE  Tended'
  <1>1. Kept' = Kept /\ McpCache' = McpCache
    BY DEF Kept, McpCache, Waiting, NotEvicted
  <1>2. Holding
    BY <1>1 DEF Holding, Has, Tended, Inv, Types
  <1> QED BY <1>1, <1>2, SteadyTended

LEMMA SilentTended ==
    ASSUME Tended, Inv', UNCHANGED Registry, NEW r \in Calls, NEW new,
           call' = [call EXCEPT ![r] = new],
           new.of = "mcp" /\ new.client # NoClient => Has(r, new.client) \/ new.client \in McpCache
    PROVE  Tended' /\ NotCut
  BY CallTended DEF Registry, Opening, NotCut

LEMMA EndTended ==
    ASSUME Tended, Inv', UNCHANGED Registry, NEW r \in Calls, End(r)
    PROVE  Tended' /\ NotCut
  BY IdleType, SilentTended DEF End

LEMMA LookingTended ==
    ASSUME Tended, NEW r \in Calls, Begin(r) \/ ReadAccount(r) \/ ReadKey(r)
    PROVE  Tended' /\ NotCut
  <1>1. Inv' /\ UNCHANGED Registry
    BY BeginKeeps, ReadAccountKeeps, ReadKeyKeeps DEF Tended, Begin, ReadAccount, ReadKey
  <1>2. CASE End(r)
    BY <1>1, <1>2, EndTended
  <1>3. CASE Begin(r)
    <2>1. PICK p \in Processes, a \in Accounts, deletes \in BOOLEAN :
             call' = [call EXCEPT ![r] = [Idle EXCEPT !.at = "account", !.of = p, !.acct = a,
                                                      !.deletes = deletes]]
      BY <1>3 DEF Begin
    <2> DEFINE new == [Idle EXCEPT !.at = "account", !.of = p, !.acct = a, !.deletes = deletes]
    <2>2. new.client = NoClient
      BY IdleType DEF CallType
    <2> QED BY <1>1, <2>1, <2>2, SilentTended
  <1>4. CASE (ReadAccount(r) \/ ReadKey(r)) /\ ~End(r)
    <2>1. call[r].client = NoClient /\ call[r] \in CallType
      BY <1>4 DEF ReadAccount, ReadKey, At, Tended, Inv, Types, Fits, Using
    <2>2. PICK step, key :
             call' = [call EXCEPT ![r] = [call[r] EXCEPT !.at = step, !.key = key]]
      <3>1. CASE Go(r, "key")
        <4>1. call' = [call EXCEPT ![r] = [call[r] EXCEPT !.at = "key", !.key = call[r].key]]
          BY <2>1, <3>1 DEF Go, CallType, Tended, Inv, Types
        <4> QED BY <4>1
      <3>2. CASE call' = [call EXCEPT ![r].at = "lookup", ![r].key = "admin"]
        <4>1. call' = [call EXCEPT ![r] = [call[r] EXCEPT !.at = "lookup", !.key = "admin"]]
          BY <3>2 DEF Tended, Inv, Types
        <4> QED BY <4>1
      <3>3. CASE call' = [call EXCEPT ![r].at = "lookup", ![r].key = stored[call[r].acct]]
        <4>1. call' = [call EXCEPT ![r] = [call[r] EXCEPT !.at = "lookup", !.key = stored[call[r].acct]]]
          BY <3>3 DEF Tended, Inv, Types
        <4> QED BY <4>1
      <3> QED BY <1>4, <3>1, <3>2, <3>3 DEF ReadAccount, ReadKey
    <2> DEFINE new == [call[r] EXCEPT !.at = step, !.key = key]
    <2>3. new.client = NoClient
      BY <2>1 DEF CallType
    <2> QED BY <1>1, <2>2, <2>3, SilentTended
  <1> QED BY <1>2, <1>3, <1>4

LEMMA LookupTended == ASSUME Tended, NEW r \in Calls, Lookup(r) PROVE Tended' /\ NotCut
  <1> DEFINE x == <<call[r].acct, call[r].of>>
  <1>1. Inv' /\ x \in Slots /\ call[r] \in CallType
    BY LookupKeeps DEF Tended, Inv, Types, CallType, Slots
  <1>2. CASE Hit(r) /\ Take(r, cache[x]) /\ UNCHANGED Registry
    <2> DEFINE new == [call[r] EXCEPT !.at = "hold", !.client = cache[x], !.age = 0]
    <2>1. call' = [call EXCEPT ![r] = new]
      BY <1>2 DEF Take, Tended, Inv, Types
    <2>2. new.of = call[r].of /\ new.client = cache[x] /\ cache[x] # NoClient
      BY <1>1, <1>2 DEF CallType, Hit
    <2>3. new.of = "mcp" => new.client \in McpCache
      <3>1. call[r].of = "mcp" => x[2] = "mcp"
        OBVIOUS
      <3> HIDE DEF x
      <3> QED BY <1>1, <2>2, <3>1, McpSlots
    <2> HIDE DEF new
    <2> QED BY <1>1, <1>2, <2>1, <2>3, SilentTended
  <1>3. CASE End(r) /\ UNCHANGED Registry
    BY <1>1, <1>3, EndTended
  <1>4. CASE LET c == CHOOSE c \in Free : TRUE IN
             /\ ~Hit(r) /\ Free # {}
             /\ client' = [client EXCEPT ![c] = [Unused EXCEPT !.of = call[r].of, !.key = call[r].key]]
             /\ cache' = [cache EXCEPT ![x] = c]
             /\ Evict(cache[x])
             /\ Take(r, c)
             /\ UNCHANGED <<phase, doomed>>
    <2> DEFINE c == CHOOSE c \in Free : TRUE
               new == [call[r] EXCEPT !.at = "hold", !.client = c, !.age = 0]
               made == [Unused EXCEPT !.of = call[r].of, !.key = call[r].key]
    <2>1. c \in Free
      BY <1>4
    <2>2. /\ client' = [client EXCEPT ![c] = made] /\ cache' = [cache EXCEPT ![x] = c]
          /\ Evict(cache[x]) /\ call' = [call EXCEPT ![r] = new] /\ UNCHANGED doomed
      BY <1>4 DEF Take, Tended, Inv, Types
    <2>3. ~made.http
      BY DEF Unused
    <2>4. new.of = call[r].of /\ new.client = c /\ x[2] = call[r].of
      BY <1>1 DEF CallType
    <2> HIDE DEF c, new, made, x
    <2>5. c \in Clients /\ ~client[c].http /\ c # NoClient /\ \A q \in Calls : call[q].client # c
      BY <2>1, FreeClient DEF Tended
    <2>6. /\ \A d \in Clients : d # c => client'[d] = client[d]
          /\ client'[c] = made /\ cache'[x] = c
          /\ \A y \in Slots : y # x => cache'[y] = cache[y]
      BY <1>1, <2>2, <2>5 DEF Tended, Inv, Types
    <2>7. Kept \subseteq Kept'
      <3>1. ASSUME NEW d \in Waiting PROVE d \in Waiting'
        <4>1. closing'[d] \in {closing[d], Grace} /\ d \in Clients /\ Grace # NotEvicted
          BY <2>2, RegistryAssumption DEF Evict, Tended, Inv, Types, Waiting, NotEvicted
        <4> QED BY <3>1, <4>1 DEF Waiting, NotEvicted
      <3>2. ASSUME NEW d \in McpCache PROVE d \in McpCache' \cup Waiting'
        <4>1. PICK y \in Slots : y[2] = "mcp" /\ cache[y] = d /\ d # NoClient
          BY McpSlots
        <4>2. CASE y = x
          <5>1. closing'[d] = Grace /\ Grace # NotEvicted /\ d \in Clients
            BY <2>2, <4>1, <4>2, RegistryAssumption DEF Evict, Tended, Inv, Types, NotEvicted
          <5> QED BY <5>1 DEF Waiting, NotEvicted
        <4>3. CASE y # x
          <5>1. cache'[y] = d
            BY <2>6, <4>1, <4>3
          <5>2. PICK a \in Accounts : y = <<a, "mcp">>
            BY <4>1 DEF Slots
          <5> QED BY <4>1, <5>1, <5>2 DEF McpCache
        <4> QED BY <4>2, <4>3
      <3> QED BY <3>1, <3>2 DEF Kept
    <2>8. Holding
      <3>1. ASSUME call'[r].of = "mcp" PROVE call'[r].client \in McpCache'
        <4>1. call'[r] = new
          BY <2>2 DEF Tended, Inv, Types
        <4>2. x[2] = "mcp"
          BY <2>4, <3>1, <4>1
        <4>3. PICK a \in Accounts : x = <<a, "mcp">>
          BY <1>1, <4>2 DEF Slots
        <4> QED BY <2>4, <2>5, <2>6, <4>1, <4>3 DEF McpCache
      <3>2. \A q \in Calls : q # r => call'[q] = call[q]
        BY <2>2 DEF Tended, Inv, Types
      <3> QED BY <3>1, <3>2 DEF Holding, Has
    <2>9. Opening /\ NotCut
      BY <2>3, <2>5, <2>6 DEF Opening, NotCut
    <2> QED BY <1>1, <2>2, <2>7, <2>8, <2>9, SteadyTended
  <1> QED BY <1>2, <1>3, <1>4 DEF Lookup

LEMMA UseTended == ASSUME Tended, NEW r \in Calls, Use(r) PROVE Tended' /\ NotCut
  <1>1. Inv' /\ UNCHANGED <<cache, closing, doomed>> /\ call[r] \in CallType
    BY UseKeeps DEF Tended, Use, Inv, Types
  <1>2. ASSUME NEW step, Go(r, step), Opening PROVE Tended'
    <2> DEFINE new == [call[r] EXCEPT !.at = step]
    <2>1. call' = [call EXCEPT ![r] = new]
      BY <1>2 DEF Go, Tended, Inv, Types
    <2>2. new.of = call[r].of /\ new.client = call[r].client
      BY <1>1 DEF CallType
    <2> HIDE DEF new
    <2> QED BY <1>1, <1>2, <2>1, <2>2, CallTended DEF Has
  <1>3. CASE /\ At(r, "hold") /\ Go(r, "flight")
             /\ client' = [client EXCEPT ![call[r].client].http = TRUE]
    <2> DEFINE c == call[r].client
    <2>1. c \in Clients /\ client[c].of = call[r].of
      <3>1. c # NoClient
        BY <1>3 DEF Tended, Inv, Fits, At, Using
      <3> QED BY <3>1, HeldClient DEF Tended
    <2>2. /\ \A d \in Clients : d # c => client'[d] = client[d]
          /\ client'[c] = [client[c] EXCEPT !.http = TRUE]
      BY <1>3, <2>1 DEF Tended, Inv, Types
    <2>3. client'[c].http /\ client'[c].of = client[c].of
      BY <2>1, <2>2 DEF Tended, Inv, Types, ClientType
    <2>4. client'[c].of = "mcp" => Has(r, c)
      BY <2>1, <2>3 DEF Has
    <2> HIDE DEF c
    <2>5. Opening
      BY <2>2, <2>4 DEF Opening
    <2>6. NotCut
      BY <2>2, <2>3 DEF NotCut
    <2> QED BY <1>2, <1>3, <2>5, <2>6
  <1>4. CASE (Go(r, "hold") \/ Go(r, "drop")) /\ UNCHANGED client
    BY <1>2, <1>4 DEF Opening, NotCut
  <1>5. CASE End(r) /\ UNCHANGED client
    <2>1. UNCHANGED Registry
      BY <1>5 DEF Use, Registry
    <2> QED BY <1>1, <1>5, <2>1, EndTended
  <1> QED BY <1>3, <1>4, <1>5 DEF Use

LEMMA DeleteSessionTended ==
    ASSUME Tended, NEW r \in Calls, DeleteSession(r) PROVE Tended' /\ NotCut
  <1> DEFINE x == <<call[r].acct, "admin">>
             c == cache[x]
  <1>1. /\ End(r) /\ UNCHANGED <<closing, doomed>> /\ cache' = [cache EXCEPT ![x] = NoClient]
        /\ IF c = NoClient THEN UNCHANGED client ELSE Close(c)
    BY DEF DeleteSession
  <1>2. x \in Slots /\ x[2] = "admin"
    BY DEF Tended, Inv, Types, CallType, Slots, Processes
  <1>3. \A a \in Accounts : cache'[<<a, "mcp">>] = cache[<<a, "mcp">>]
    <2>1. \A a \in Accounts : <<a, "mcp">> \in Slots /\ <<a, "mcp">> # x
      BY DEF Slots, Processes
    <2> QED BY <1>1, <2>1 DEF Tended, Inv, Types
  <1> HIDE DEF x
  <1>4. c # NoClient => c \in Clients /\ client[c].of = "admin"
    BY <1>2 DEF Tended, Inv, Types, Apart
  <1>5. Kept' = Kept
    BY <1>1, <1>3 DEF Kept, McpCache, Waiting, NotEvicted
  <1>6. Holding
    <2>1. call'[r] = Idle /\ \A q \in Calls : q # r => call'[q] = call[q]
      BY <1>1 DEF End, Tended, Inv, Types
    <2> QED BY <2>1, IdleType DEF Holding, Has
  <1>7. /\ \A d \in Clients : d # c => client'[d] = client[d]
        /\ c # NoClient => ~client'[c].http
    BY <1>1, <1>4, Closes DEF Tended
  <1>8. Opening /\ NotCut
    <2>1. \A d \in Clients : d # NoClient
      BY RegistryAssumption
    <2> QED BY <1>4, <1>7, <2>1 DEF Opening, NotCut
  <1> QED BY <1>1, <1>5, <1>6, <1>8, SteadyTended, DeleteSessionKeeps DEF Tended

LEMMA TickTended == ASSUME Tended, Tick PROVE Tended' /\ NotCut
  <1> DEFINE Timed(r) == call[r].of = "mcp" /\ call[r].client # NoClient
             older(r) == [call[r] EXCEPT !.age = @ + 1]
  <1>1. /\ call' = [r \in Calls |-> IF Timed(r) THEN older(r) ELSE call[r]]
        /\ closing' = [c \in Clients |-> IF closing[c] \in 1..Grace THEN closing[c] - 1 ELSE closing[c]]
        /\ UNCHANGED <<cache, client, doomed>>
    BY DEF Tick
  <1>2. Kept \subseteq Kept'
    <2>1. ASSUME NEW c \in Waiting PROVE c \in Waiting'
      BY <1>1, <2>1, RegistryAssumption DEF Waiting, NotEvicted, Tended, Inv, Types
    <2>2. McpCache' = McpCache
      BY <1>1 DEF McpCache
    <2> QED BY <2>1, <2>2 DEF Kept
  <1>3. Holding
    <2> SUFFICES ASSUME NEW q \in Calls PROVE call'[q].of = call[q].of /\ call'[q].client = call[q].client
      BY DEF Holding, Has
    <2>1. call[q] \in CallType
      BY DEF Tended, Inv, Types
    <2>2. older(q).of = call[q].of /\ older(q).client = call[q].client
      BY <2>1 DEF CallType
    <2> HIDE DEF older
    <2> QED BY <1>1, <2>2
  <1> QED BY <1>1, <1>2, <1>3, SteadyTended, TickKeeps DEF Tended, Opening, NotCut

\* Here it matters that a call is over before the grace of its client is.
LEMMA CloseAfterGraceTended ==
    ASSUME MaxCall < Grace, Tended, NEW c \in Clients, CloseAfterGrace(c)
    PROVE  Tended' /\ NotCut
  <1>1. /\ closing[c] = 0 /\ closing' = [closing EXCEPT ![c] = NotEvicted]
        /\ UNCHANGED <<cache, call, doomed>> /\ Close(c)
    BY DEF CloseAfterGrace
  <1>2. /\ \A d \in Clients : d # c => client'[d] = client[d]
        /\ ~client'[c].http
    BY <1>1, Closes DEF Tended
  <1>3. ASSUME NEW q \in Calls PROVE ~Has(q, c)
    <2> SUFFICES ASSUME Has(q, c) PROVE FALSE
      OBVIOUS
    <2>1. call[q].age \in 0..MaxCall /\ c # NoClient
      BY RegistryAssumption DEF Tended, Inv, Types, CallType
    <2>2. closing[c] + call[q].age >= Grace
      BY <2>1 DEF Has, Tended, Inv, Fits
    <2> QED BY <1>1, <2>1, <2>2, RegistryAssumption
  <1>4. \A d \in Kept : d # c => d \in Kept'
    BY <1>1 DEF Kept, McpCache, Waiting, NotEvicted, Tended, Inv, Types
  <1>5. Home'
    <2> SUFFICES ASSUME NEW q \in Calls, call[q].of = "mcp", call[q].client # NoClient
                 PROVE  call[q].client \in Kept'
      BY <1>1 DEF Home, Kept
    <2> QED BY <1>3, <1>4 DEF Has, Tended, Home, Kept
  <1>6. NoLeakedClient'
    <2> SUFFICES ASSUME NEW d \in Clients, client'[d].of = "mcp", client'[d].http
                 PROVE  d \in Kept' \cup doomed'
      BY DEF NoLeakedClient, Kept
    <2>1. d # c /\ client'[d] = client[d]
      BY <1>2
    <2> QED BY <1>1, <1>4, <2>1 DEF Tended, NoLeakedClient, Kept
  <1>7. NotCut
    <2>1. ASSUME NEW q \in Calls, call[q].client = c PROVE client[c].of # "mcp"
      <3>1. call[q].client # NoClient
        BY <2>1, RegistryAssumption
      <3> QED BY <1>3, <2>1, <3>1, HeldClient DEF Has, Tended
    <2> QED BY <1>2, <2>1 DEF NotCut
  <1> QED BY <1>5, <1>6, <1>7, CloseAfterGraceKeeps DEF Tended

LEMMA ShutdownTended == ASSUME Tended, Shutdown PROVE Tended' /\ NotCut
  <1>1. UNCHANGED call /\ Inv'
    BY ShutdownKeeps DEF Shutdown, Tended
  <1>2. ASSUME \A q \in Calls : call[q].of = "mcp" => call[q].client = NoClient PROVE Home'
    BY <1>1, <1>2 DEF Home
  <1>3. ASSUME phase # "up", NEW q \in Calls, call[q].client # NoClient
        PROVE  call[q].of # "mcp" /\ client[call[q].client].of # "mcp"
    BY <1>3, HeldClient DEF Tended
  <1>4. CASE /\ phase = "up" /\ \A r \in Calls : call[r].of = "mcp" => At(r, "idle")
             /\ doomed' = McpCache /\ UNCHANGED <<client, closing>>
    <2>1. \A q \in Calls : call[q].of = "mcp" => call[q].client = NoClient
      BY <1>4 DEF At, Tended, Inv, Fits, Using
    <2>2. doomed = {} /\ Waiting' = Waiting
      BY <1>4 DEF Tended, Inv, Apart, Waiting, NotEvicted
    <2>3. NoLeakedClient' /\ NotCut
      BY <1>4, <2>2 DEF Tended, NoLeakedClient, NotCut
    <2> QED BY <1>1, <1>2, <2>1, <2>3 DEF Tended
  <1>5. CASE \E c \in doomed : /\ doomed' = doomed \ {c} /\ Close(c)
                               /\ UNCHANGED <<phase, cache, closing>>
    <2>1. PICK c \in doomed : doomed' = doomed \ {c} /\ Close(c)
      BY <1>5
    <2>2. c \in Clients /\ phase # "up" /\ Kept' = Kept
      BY <1>5 DEF Tended, Inv, Types, Apart, Kept, McpCache, Waiting, NotEvicted
    <2>3. /\ \A d \in Clients : d # c => client'[d] = client[d]
          /\ ~client'[c].http
      BY <2>1, <2>2, Closes DEF Tended
    <2>4. NoLeakedClient'
      BY <2>1, <2>2, <2>3 DEF Tended, NoLeakedClient, Kept
    <2>5. NotCut
      <3> SUFFICES ASSUME NEW d \in Clients, client[d].of = "mcp", client[d].http, ~client'[d].http,
                          NEW q \in Calls, call[q].client = d
                   PROVE  FALSE
        BY DEF NotCut
      <3>1. call[q].client # NoClient
        BY RegistryAssumption
      <3> QED BY <1>3, <2>2, <3>1
    <2> QED BY <1>1, <1>2, <1>3, <2>2, <2>4, <2>5 DEF Tended
  <1>6. CASE /\ phase = "closeCached" /\ doomed = {} /\ doomed' = ToFinish /\ UNCHANGED <<cache, client>>
    <2>1. McpCache' = McpCache
      BY <1>6 DEF McpCache
    <2>2. NoLeakedClient' /\ NotCut
      BY <1>6, <2>1 DEF Tended, NoLeakedClient, NotCut, ToFinish
    <2> QED BY <1>1, <1>2, <1>3, <1>6, <2>2 DEF Tended
  <1>7. CASE /\ phase = "closeWaiting" /\ UNCHANGED <<cache, client, closing, doomed>>
    <2>1. Kept' = Kept
      BY <1>7 DEF Kept, McpCache, Waiting, NotEvicted
    <2>2. NoLeakedClient' /\ NotCut
      BY <1>7, <2>1 DEF Tended, NoLeakedClient, NotCut, Kept
    <2> QED BY <1>1, <1>2, <1>3, <1>7, <2>2 DEF Tended
  <1> QED BY <1>4, <1>5, <1>6, <1>7 DEF Shutdown

LEMMA NextTended ==
    ASSUME MaxCall < Grace, Tended, [Next]_vars PROVE Tended' /\ (NotCut \/ UNCHANGED vars)
  <1>1. CASE StoreKey
    <2>1. UNCHANGED call /\ UNCHANGED Registry
      BY <1>1 DEF StoreKey
    <2> QED BY <1>1, <2>1, StoreKeyKeeps
        DEF Tended, Home, NoLeakedClient, NotCut, Registry, McpCache, Waiting, NotEvicted
  <1>2. CASE \E r \in Calls : Begin(r) \/ Progress(r)
    BY <1>2, LookingTended, LookupTended, UseTended, DeleteSessionTended DEF Progress
  <1>3. CASE Tick
    BY <1>3, TickTended
  <1>4. CASE \E c \in Clients : CloseAfterGrace(c)
    BY <1>4, CloseAfterGraceTended
  <1>5. CASE Shutdown
    BY <1>5, ShutdownTended
  <1>6. CASE UNCHANGED vars
    BY <1>6, NextKeeps DEF vars, Tended, Home, NoLeakedClient, McpCache, Waiting, NotEvicted
  <1> QED BY <1>1, <1>2, <1>3, <1>4, <1>5, <1>6 DEF Next

LEMMA InitTended == Init => Tended
  <1> SUFFICES ASSUME Init PROVE Tended
    OBVIOUS
  <1>1. Home /\ NoLeakedClient
    BY IdleType DEF Init, Home, NoLeakedClient, Unused
  <1> QED BY <1>1, InitInv DEF Tended

\* When tool calls are shorter than the grace period, every HTTP session that
\* is open in the MCP server belongs to a client that is cached, waits out its
\* grace or is about to be closed, at a shutdown too (bridge_registry.py:
\* _client, _close_after_grace, close).
THEOREM NothingLeaks == ASSUME MaxCall < Grace PROVE Spec => []NoLeakedClient
  <1>1. Tended /\ [Next]_vars => Tended'
    BY NextTended
  <1>2. Tended => NoLeakedClient
    BY DEF Tended
  <1> QED BY <1>1, <1>2, InitTended, PTL DEF Spec

\* Under the same assumption no HTTP session is closed under a tool call that
\* uses it, by an eviction, by delete_session or by close().
THEOREM NobodyCutOff == ASSUME MaxCall < Grace PROVE Spec => NotCutOff
  <1>1. Tended /\ [Next]_vars => Tended'
    BY NextTended
  <1>2. Tended /\ [Next]_vars =>
          [\A c \in Clients : client[c].of = "mcp" /\ client[c].http /\ ~client'[c].http =>
               \A r \in Calls : call[r].client # c]_vars
    BY NextTended DEF NotCut
  <1> QED BY <1>1, <1>2, InitTended, PTL DEF Spec, NotCutOff

=============================================================================
