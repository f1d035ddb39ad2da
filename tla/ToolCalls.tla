------------------------------ MODULE ToolCalls ------------------------------
(***************************************************************************)
(* The calls that one person makes to the MCP server (tools.py), from the  *)
(* two middlewares (app.py, tool_scopes.py) through resolve_scope          *)
(* (scope.py) and the allowlist (message_store.py) to the answer.          *)
(*                                                                         *)
(* A call awaits several times: each read of the database and each request *)
(* to WAHA is a step, and in between the owner, an administrator, WhatsApp *)
(* or another call may change what the next step reads.  That a lookup in  *)
(* the tables is itself two reads is the subject of AccessControl, and how *)
(* a client is found for an account that of BridgeRegistry.                *)
(***************************************************************************)
EXTENDS Paging, Sequences

CONSTANTS
    Accounts,    \* account ids
    Jids,        \* chats
    Groups,      \* the chats that are groups
    Communities, \* the groups that are parents of other groups
    Tags,
    Calls,       \* slots for calls
    Requests,    \* what may be asked: see Blank
    Recent,      \* WAHA's chat list, by activity
    Feed,        \* WAHA's messages, newest first: [chat, real, hit, media]
    MaxGroupChoices,
    None, NoKey,
    Targets,     \* bound: the accounts that others act on
    MaxChanges   \* bound: how often the world changes under the calls

\* The arguments of a tool.  A query stands for the chats whose name it
\* matches (and, for groups, whose size fits), None for the empty one, and hit
\* says of a message that it contains the text searched for.  communities is
\* list_groups' exclude_communities=False.  The answer is the client's reply to
\* choose_group's question, None when the question was not put yet.
Blank == [tool |-> "list_chats", account |-> None, jid |-> None, message |-> 0,
          query |-> None, communities |-> FALSE, tags |-> {}, limit |-> 1, offset |-> 0,
          answer |-> None]

Remote == {"list_chats", "list_messages", "search_messages", "list_groups", "choose_group",
           "list_communities", "get_group_info", "get_media"}
Local  == {"get_chat_metadata", "add_tag", "remove_tag", "clear_tags"}
Outbound == {"send_message"}

Replies == {"cancel", "decline", "empty", "none"}

Request ==
    [tool : Remote \cup Local \cup Outbound, account : Accounts \cup {None},
     jid : Jids \cup {None}, message : 0 .. Len(Feed), query : {None} \cup SUBSET Jids,
     communities : BOOLEAN, tags : SUBSET Tags, limit : Int, offset : Int,
     answer : Replies \cup Groups \cup {None}]

\* The chats that the query leaves.
Named(q) == IF q.query = None THEN Jids ELSE q.query

ASSUME ToolAssumption ==
    /\ Communities \subseteq Groups /\ Groups \subseteq Jids
    /\ Recent \in Seq(Jids)
    /\ Feed \in Seq([chat : Jids, real : BOOLEAN, hit : BOOLEAN, media : BOOLEAN])
    /\ Requests \subseteq Request
    /\ \A q \in Requests : q.tool = "get_media" => q.message \in DOMAIN Feed
    /\ MaxGroupChoices \in Nat /\ MaxChanges \in Nat
    /\ None \notin Accounts \cup Jids \cup Calls /\ Targets \subseteq Accounts

VARIABLES
    listed,  \* the caller is in the users table
    held,    \* the accounts that the caller owns or was granted
    allowed, \* the caller's rows with is_allowed = 1, as <<account, jid>>
    tags,    \* the tags of the caller's rows
    keys,    \* the WAHA actions that each account's stored key allows
    member,  \* the groups that each account is in, as WAHA tells
    call,    \* the calls in flight, and the last answer of each slot
    seen,    \* history: the worlds that there were during a call
    changes  \* bound: how often the world has changed

world == <<listed, held, allowed, tags, keys, member>>
vars  == <<world, call, seen, changes>>

-----------------------------------------------------------------------------

Actions == {"read", "send"}

\* capabilities.required_for: the tags of a tool that are WAHA actions.
Required(tool) == CASE tool \in Remote   -> {"read"}
                    [] tool \in Outbound -> {"send"}
                    [] tool \in Local    -> {}

World == [listed |-> listed, held |-> held, allowed |-> allowed, tags |-> tags,
          keys |-> keys, member |-> member]

\* capabilities.allows: an account without a key allows nothing.
Allows(w, a, required) == required \subseteq IF w.keys[a] = NoKey THEN {} ELSE w.keys[a]

\* list_allowed_jids_for, and the chats that search_by_tags_for finds.
Visible(w, a)   == {j \in Jids : a \in w.held /\ <<a, j>> \in w.allowed}
Tagged(w, a, T) == {j \in Visible(w, a) : w.tags[<<a, j>>] \cap T # {}}

Idle == [req |-> Blank, at |-> "idle", using |-> None, allowed |-> {}, groups |-> {},
         found |-> {}, left |-> {}, current |-> {}, outcome |-> "none", shown |-> {},
         page |-> [items |-> {}, next |-> NoMore], smooth |-> TRUE]

At(c, step)   == call[c].at = step
Go(c, step)   == call' = [call EXCEPT ![c].at = step]
End(c, what)  == call' = [call EXCEPT ![c].at = "done", ![c].outcome = what]
Refuse(c)     == End(c, "refused")
Show(c, what, jids) ==
    call' = [call EXCEPT ![c].at = "done", ![c].outcome = what, ![c].shown = jids]
Fail(c) ==
    call' = [call EXCEPT ![c].at = "done", ![c].outcome = "failed", ![c].smooth = FALSE]
ShowPage(c, page, jids, smooth) ==
    call' = [call EXCEPT ![c].at = "done", ![c].outcome = "page", ![c].page = page,
                         ![c].shown = jids, ![c].smooth = smooth]

Busy(c) == call[c].at \notin {"idle", "done"}

\* A call that is under way sees the new world; the one that made it does not count.
Observe(except) ==
    seen' = [c \in Calls |-> IF Busy(c) /\ c # except THEN seen[c] \cup {World'} ELSE seen[c]]

\* A step that only reads.
Reads == UNCHANGED world /\ UNCHANGED <<seen, changes>>

-----------------------------------------------------------------------------
(* The world changes: on the admin UI's pages (AccessControl, KeyLifecycle) *)
(* and on WhatsApp.                                                        *)

Changes == changes < MaxChanges /\ changes' = changes + 1 /\ UNCHANGED call /\ Observe(None)

RowsOf(a) == {a} \X Jids

ToggleAllowed(a, j) ==
    /\ a \in held
    /\ allowed' = IF <<a, j>> \in allowed THEN allowed \ {<<a, j>>} ELSE allowed \cup {<<a, j>>}
    /\ UNCHANGED <<listed, held, tags, keys, member>>
    /\ Changes

GrantAccount(a) ==
    /\ listed /\ a \notin held
    /\ held' = held \cup {a}
    /\ UNCHANGED <<listed, allowed, tags, keys, member>>
    /\ Changes

\* The grants go, and with each of them everything the viewer had been shown.
RevokeAccounts(A) ==
    /\ held' = held \ A
    /\ allowed' = allowed \ UNION {RowsOf(a) : a \in A}
    /\ tags' = [r \in DOMAIN tags |-> IF r[1] \in A THEN {} ELSE tags[r]]

RevokeAccount(a) ==
    /\ a \in held
    /\ RevokeAccounts({a})
    /\ UNCHANGED <<listed, keys, member>>
    /\ Changes

RemoveUser ==
    /\ listed
    /\ listed' = FALSE
    /\ RevokeAccounts(Accounts)
    /\ UNCHANGED <<keys, member>>
    /\ Changes

SaveMetadata(a, j) ==
    /\ a \in held
    /\ \E T \in SUBSET Tags : tags' = [tags EXCEPT ![<<a, j>>] = T]
    /\ UNCHANGED <<listed, held, allowed, keys, member>>
    /\ Changes

\* A key is made, replaced, revoked, or found to allow something else.
ChangeKey(a) ==
    /\ \E k \in {NoKey, {}, {"read"}} \ {keys[a]} : keys' = [keys EXCEPT ![a] = k]
    /\ UNCHANGED <<listed, held, allowed, tags, member>>
    /\ Changes

JoinOrLeaveGroup(a, j) ==
    /\ member' = IF <<a, j>> \in member THEN member \ {<<a, j>>} ELSE member \cup {<<a, j>>}
    /\ UNCHANGED <<listed, held, allowed, tags, keys>>
    /\ Changes

WorldChanges ==
    \/ \E a \in Targets, j \in Jids : ToggleAllowed(a, j) \/ SaveMetadata(a, j)
    \/ \E a \in Targets : GrantAccount(a) \/ RevokeAccount(a) \/ ChangeKey(a)
    \/ \E a \in Targets, j \in Groups : JoinOrLeaveGroup(a, j)
    \/ RemoveUser

-----------------------------------------------------------------------------
(* The way in: two middlewares and resolve_scope.                          *)

Arrive(c) ==
    /\ At(c, "idle")
    /\ \E q \in Requests : call' = [call EXCEPT ![c] = [Idle EXCEPT !.req = q, !.at = "auth"]]
    /\ seen' = [seen EXCEPT ![c] = {World}]
    /\ UNCHANGED world /\ UNCHANGED changes

\* The answer is sent.
Return(c) ==
    /\ At(c, "done")
    /\ call' = [call EXCEPT ![c] = Idle]
    /\ seen' = [seen EXCEPT ![c] = {}]
    /\ UNCHANGED world /\ UNCHANGED changes

\* AuthMiddleware: only people in the users table, and no outbound tool ever.
Authorize(c) ==
    /\ At(c, "auth")
    /\ IF listed /\ call[c].req.tool \notin Outbound THEN Go(c, "servable") ELSE Refuse(c)
    /\ Reads

\* WahaScopeMiddleware.on_call_tool: some account of the caller can serve it.
Servable(required) == required = {} \/ \E a \in held : Allows(World, a, required)

CheckServable(c) ==
    /\ At(c, "servable")
    /\ IF Servable(Required(call[c].req.tool)) THEN Go(c, "resolve") ELSE Refuse(c)
    /\ Reads

\* Mutant: an account is taken at its word.
ResolvesAny(q, a) == q.account = a \/ (q.account = None /\ held = {a})

\* The account asked for, or the only one there is.
Resolves(q, a) == a \in held /\ (q.account = a \/ (q.account = None /\ held = {a}))

\* Mutant: the middleware's check, any account of the caller, is thought to be enough.
MayServeAny(a, required) == \E b \in held : Allows(World, b, required)

MayServe(a, required) == Allows(World, a, required)

ResolveScope(c) ==
    /\ At(c, "resolve")
    /\ LET q == call[c].req
       IN  \/ \E a \in Accounts :
                /\ Resolves(q, a) /\ MayServe(a, Required(q.tool))
                /\ call' = [call EXCEPT ![c].at = "bridge", ![c].using = a]
           \/ /\ ~\E a \in Accounts : Resolves(q, a) /\ MayServe(a, Required(q.tool))
              /\ Refuse(c)
    /\ Reads

\* A tool that reads one chat or writes its tags checks that chat; get_media
\* has yet to find out which; the tag search returns allowed chats only; every
\* other tool fetches the allowlist to filter with.
FirstRead(q) ==
    CASE q.tool = "get_media" -> "chatOf"
      [] q.tool = "list_chats" /\ q.tags # {} -> "search"
      [] q.tool = "list_chats" /\ q.tags = {} -> "allowed"
      [] q.tool = "search_messages" /\ q.jid = None -> "allowed"
      [] q.tool \in {"list_groups", "list_communities", "choose_group"} -> "allowed"
      [] OTHER -> "require"

TakeBridge(c) ==
    /\ At(c, "bridge")
    /\ IF keys[call[c].using] = NoKey THEN Refuse(c) ELSE Go(c, FirstRead(call[c].req))
    /\ Reads

-----------------------------------------------------------------------------
(* The reads of the database.                                              *)

Sees(c)       == Visible(World, call[c].using)
SeesTagged(c) == Tagged(World, call[c].using, call[c].req.tags)

\* list_allowed_jids before the fetch that it filters.
ReadAllowed(c) ==
    /\ At(c, "allowed")
    /\ call' = [call EXCEPT ![c].at = "fetch", ![c].allowed = Sees(c)]
    /\ Reads

\* get_message_chat_jid: the id names the chat; otherwise WAHA's chats are
\* scanned, which may not find it.
FindChat(c) ==
    /\ At(c, "chatOf")
    /\ LET q == call[c].req
       IN  \/ call' = [call EXCEPT ![c].at = "require", ![c].req.jid = Feed[q.message].chat]
           \/ call' = [call EXCEPT ![c].at = "require", ![c].smooth = FALSE]
    /\ Reads

NextRead(tool) == CASE tool \in {"get_chat_metadata", "add_tag", "remove_tag"} -> "tags"
                    [] tool = "clear_tags" -> "save"
                    [] OTHER -> "fetch"

\* The check of one chat: _require_allowed of tools.py and of message_store.py.
RequireAllowed(c) ==
    /\ At(c, "require")
    /\ LET q == call[c].req
       IN  IF q.jid \in Sees(c)
           THEN call' = [call EXCEPT ![c].at = NextRead(q.tool), ![c].allowed = Sees(c)]
           ELSE Refuse(c)
    /\ Reads

\* Mutant: no row is read as one empty tag, as splitting an empty text would.
EmptyTag(a, j) == IF a \in held THEN tags[<<a, j>>] ELSE {None}

\* get_chat_metadata, and the first half of add_tag and remove_tag.
TagsOf(a, j) == IF a \in held THEN tags[<<a, j>>] ELSE {}

ReadTags(c) ==
    /\ At(c, "tags")
    /\ LET q == call[c].req
       IN  IF q.tool = "get_chat_metadata" THEN Show(c, "shown", {q.jid})
           ELSE call' = [call EXCEPT ![c].at = "save", ![c].current = TagsOf(call[c].using, q.jid)]
    /\ Reads

\* Mutant: remove_tag takes the tag for the list to save.
NewTagsSwapped(r) == CASE r.req.tool = "add_tag"    -> r.current \cup r.req.tags
                       [] r.req.tool = "remove_tag" -> r.req.tags \ r.current
                       [] r.req.tool = "clear_tags" -> {}

NewTags(r) == CASE r.req.tool = "add_tag"    -> r.current \cup r.req.tags
                [] r.req.tool = "remove_tag" -> r.current \ r.req.tags
                [] r.req.tool = "clear_tags" -> {}

\* upsert_chat_access_tags refuses someone who lost the account in the meantime.
SaveTags(c) ==
    /\ At(c, "save")
    /\ LET r == call[c]
       IN  IF r.using \in held
           THEN /\ tags' = [tags EXCEPT ![<<r.using, r.req.jid>>] = NewTags(r)]
                /\ Show(c, "saved", {r.req.jid})
           ELSE UNCHANGED tags /\ Refuse(c)
    /\ UNCHANGED <<listed, held, allowed, keys, member, changes>>
    /\ Observe(c)

-----------------------------------------------------------------------------
(* WAHA's answers, and what the tools make of them.                        *)

\* Without a query WAHA's list as far as AllowlistedMessageStore asks for it,
\* with one what search_chats finds among the chats it looks at.
FoundChats(q) ==
    IF q.query = None THEN Slice(DOMAIN Recent, 0, FetchAll)
    ELSE Slice({i \in Slice(DOMAIN Recent, 0, ChatCap) : Recent[i] \in q.query}, 0, FetchAll)

\* get_chats and search_chats of AllowlistedMessageStore.
FetchChats(c) ==
    /\ At(c, "fetch") /\ call[c].req.tool = "list_chats"
    /\ LET r    == call[c]
           n    == Clamp(r.req.limit)
           rows == {i \in FoundChats(r.req) : Recent[i] \in r.allowed}
           page == Page(Slice(rows, r.req.offset, n + 1), n, r.req.offset)
       IN  ShowPage(c, page, {Recent[i] : i \in page.items}, r.smooth)
    /\ Reads

Chat(j)  == {i \in DOMAIN Feed : Feed[i].chat = j}
Real(S)  == {i \in S : Feed[i].real}
Hits(S)  == {i \in Real(S) : Feed[i].hit}
Chats(S) == {Feed[i].chat : i \in S}

\* WAHA answers with the beginning of a list.  What it makes of a limit that is
\* not positive, which an offset far below zero leads to, is not known.
Answers(S, limit) ==
    IF limit > 0 THEN {Slice(S, 0, limit)} ELSE {Slice(S, 0, k) : k \in 0 .. Cardinality(S)}

\* Mutant: the noise is dropped after the page is cut.
MessageRowsOfPage(raw, n, offset) == Real(Slice(raw, offset, n))

\* WAHAClient.list_messages: the noise is dropped before the page is cut.
MessageRows(raw, n, offset) == Slice(Real(raw), offset, n)

FetchMessages(c) ==
    /\ At(c, "fetch") /\ call[c].req.tool = "list_messages"
    /\ LET q == call[c].req
           n == Clamp(q.limit)
       IN  \E raw \in Answers(Chat(q.jid), FetchCount(n + 1, q.offset)) :
              LET page == Page(MessageRows(raw, n + 1, q.offset), n, q.offset)
              IN  ShowPage(c, page, Chats(page.items), call[c].smooth)
    /\ Reads

\* search_messages asks for the messages of each chat it looks at, all at once,
\* and passes over the chats that WAHA does not answer for.
Searched(q) ==
    IF q.jid = None THEN {Recent[i] : i \in Slice(DOMAIN Recent, 0, ChatCap)} ELSE {q.jid}

HitsIn(js) == UNION {Hits(Slice(Chat(j), 0, FetchCap)) : j \in js}

\* The newest hits, as many as AllowlistedMessageStore asks for.
FoundMessages(q, js) == IF q.jid = None THEN Slice(HitsIn(js), 0, FetchAll) ELSE HitsIn(js)

SearchMessages(c) ==
    /\ At(c, "fetch") /\ call[c].req.tool = "search_messages"
    /\ \E silent \in SUBSET Searched(call[c].req) :
          LET q    == call[c].req
              n    == Clamp(q.limit)
              hits == FoundMessages(q, Searched(q) \ silent)
              rows == {i \in hits : Feed[i].chat \in call[c].allowed}
              page == Page(Slice(rows, q.offset, n + 1), n, q.offset)
          IN  ShowPage(c, page, Chats(page.items), silent = {})
    /\ Reads

FetchGroupInfo(c) ==
    /\ At(c, "fetch") /\ call[c].req.tool = "get_group_info"
    /\ <<call[c].using, call[c].req.jid>> \in member
    /\ Show(c, "shown", {call[c].req.jid})
    /\ Reads

FetchMedia(c) ==
    /\ At(c, "fetch") /\ call[c].req.tool = "get_media"
    /\ Feed[call[c].req.message].media
    /\ Show(c, "shown", {call[c].req.jid})
    /\ Reads

\* What every tool reports as an error: WAHA refuses, does not answer, or does
\* not know the group or the media.
WahaFails(c) ==
    /\ At(c, "fetch")
    /\ call[c].req.tool = "search_messages" => call[c].req.jid = None
    /\ Fail(c)
    /\ Reads

\* list_chats by tags: one chat after the other.  One that WAHA does not
\* answer for is left out; one hidden in the meantime ends the call.
GetChat(c, j) ==
    /\ At(c, "matches") /\ j \in call[c].left
    /\ \/ /\ j \in Sees(c)
          /\ \E answers \in BOOLEAN :
                call' = [call EXCEPT ![c].left = @ \ {j}, ![c].smooth = @ /\ answers,
                                     ![c].current = IF answers THEN @ \cup {j} ELSE @]
       \/ j \notin Sees(c) /\ Refuse(c)
    /\ Reads

\* The matches come by the time of their last change, which is left out: any
\* of them can be on the page.
ListMatches(c) ==
    /\ At(c, "matches") /\ call[c].left = {}
    /\ LET r    == call[c]
           n    == Clamp(r.req.limit)
           page == Page(Slice(1 .. Cardinality(r.current), r.req.offset, n + 1), n, r.req.offset)
       IN  \E jids \in SUBSET r.current :
              /\ Cardinality(jids) = Cardinality(page.items)
              /\ ShowPage(c, page, jids, r.smooth)
    /\ Reads

-----------------------------------------------------------------------------
(* Groups: _find_groups, and list_communities with the same three reads.   *)

\* Mutant: what the tag search found needs no further check.
MatchesOrTagged(r, groups, found) ==
    IF r.req.tags # {} THEN found ELSE {j \in groups : j \in r.allowed /\ j \in Named(r.req)}

\* list_communities wants communities only; the others leave them out, but for
\* a list_groups that is asked to include them.
OfKind(q, j) ==
    /\ q.tool = "list_communities" => j \in Communities
    /\ j \in Communities => q.tool = "list_communities" \/ (q.tool = "list_groups" /\ q.communities)

Matches(r, groups, found) ==
    {j \in groups : /\ j \in r.allowed /\ j \in Named(r.req) /\ OfKind(r.req, j)
                    /\ r.req.tags # {} => j \in found}

\* Mutant: the reply is trusted.
TrustChoice(c, answer, matches) ==
    CASE answer = "cancel" -> Show(c, "cancelled", matches)
      [] answer \in {"decline", "empty"} -> End(c, "cancelled")
      [] answer = "none" -> End(c, "none_chosen")
      [] OTHER -> Show(c, "selected", {answer})

\* choose_group's second round: the reply is looked up in the matches of now.
ResolveChoice(c, answer, matches) ==
    CASE answer = "cancel" -> Show(c, "cancelled", matches)
      [] answer \in {"decline", "empty"} -> End(c, "cancelled")
      [] answer = "none" -> End(c, "none_chosen")
      [] answer \in matches -> Show(c, "selected", {answer})
      [] OTHER -> End(c, "stale")

ChooseGroup(c, answer, matches) ==
    CASE answer # None -> ResolveChoice(c, answer, matches)
      [] answer = None /\ matches = {} -> End(c, "no_match")
      [] answer = None /\ Cardinality(matches) = 1 -> Show(c, "selected", matches)
      [] answer = None /\ Cardinality(matches) > MaxGroupChoices -> End(c, "too_many")
      [] OTHER -> Show(c, "asked", matches)

AnswerGroups(c, groups, found) ==
    LET matches == Matches(call[c], groups, found)
    IN  IF call[c].req.tool = "choose_group" THEN ChooseGroup(c, call[c].req.answer, matches)
        ELSE Show(c, "shown", matches)

FetchGroups(c) ==
    /\ At(c, "fetch") /\ call[c].req.tool \in {"list_groups", "list_communities", "choose_group"}
    /\ LET groups == {j \in Groups : <<call[c].using, j>> \in member}
       IN  IF call[c].req.tags = {} THEN AnswerGroups(c, groups, {})
           ELSE call' = [call EXCEPT ![c].at = "search", ![c].groups = groups]
    /\ Reads

\* search_by_tags: the group tools have their list, list_chats goes on to
\* look at one match after the other.
SearchByTags(c) ==
    /\ At(c, "search")
    /\ IF call[c].req.tool = "list_chats"
       THEN call' = [call EXCEPT ![c].at = "matches", ![c].found = SeesTagged(c),
                                 ![c].left = SeesTagged(c)]
       ELSE AnswerGroups(c, call[c].groups, SeesTagged(c))
    /\ Reads

-----------------------------------------------------------------------------

WayIn(c)    == Arrive(c) \/ Authorize(c) \/ CheckServable(c) \/ ResolveScope(c) \/ TakeBridge(c)
               \/ Return(c)
Database(c) == ReadAllowed(c) \/ FindChat(c) \/ RequireAllowed(c) \/ ReadTags(c) \/ SaveTags(c)
Waha(c)     == \/ FetchChats(c) \/ FetchMessages(c) \/ SearchMessages(c) \/ FetchGroupInfo(c)
               \/ FetchMedia(c) \/ FetchGroups(c) \/ SearchByTags(c) \/ ListMatches(c)
               \/ WahaFails(c)
               \/ \E j \in Jids : GetChat(c, j)

Next == WorldChanges \/ \E c \in Calls : WayIn(c) \/ Database(c) \/ Waha(c)

Init ==
    /\ listed = TRUE
    /\ held \in SUBSET Accounts
    /\ allowed \in SUBSET (held \X Jids)
    /\ tags \in [Accounts \X Jids -> SUBSET Tags]
    /\ keys \in [Accounts -> (SUBSET Actions) \cup {NoKey}]
    /\ member \in SUBSET (Accounts \X Groups)
    /\ call = [c \in Calls |-> Idle]
    /\ seen = [c \in Calls |-> {}]
    /\ changes = 0

Spec == Init /\ [][Next]_vars

-----------------------------------------------------------------------------
(* Properties.                                                             *)

Steps == {"idle", "auth", "servable", "resolve", "bridge", "chatOf", "require", "allowed",
          "tags", "save", "fetch", "search", "matches", "done"}
Outcomes == {"none", "refused", "failed", "shown", "page", "saved", "asked", "selected",
             "no_match", "too_many", "none_chosen", "cancelled", "stale"}

Worlds ==
    [listed : BOOLEAN, held : SUBSET Accounts, allowed : SUBSET (Accounts \X Jids),
     tags : [Accounts \X Jids -> SUBSET Tags], keys : [Accounts -> (SUBSET Actions) \cup {NoKey}],
     member : SUBSET (Accounts \X Groups)]

CallRecord ==
    [req : Request, at : Steps, using : Accounts \cup {None}, allowed : SUBSET Jids,
     groups : SUBSET Groups, found : SUBSET Jids, left : SUBSET Jids,
     current : SUBSET (Jids \cup Tags), outcome : Outcomes, shown : SUBSET Jids,
     page : [items : SUBSET Nat, next : {NoMore} \cup Int], smooth : BOOLEAN]

TypeOK ==
    /\ World \in Worlds
    /\ call \in [Calls -> CallRecord]
    /\ seen \in [Calls -> SUBSET Worlds]
    /\ changes \in 0 .. MaxChanges

\* The privacy boundary (scope.py:13-15, message_store.py:11-13): whatever an
\* answer shows, listed, searched, chosen, tagged or downloaded, was visible to
\* the caller on the account used, all of it at one moment of that very call.
ShownWasAllowed ==
    \A c \in Calls : At(c, "done") /\ call[c].shown # {} =>
        \E w \in seen[c] : call[c].shown \subseteq Visible(w, call[c].using)

\* A call that got through resolve_scope uses an account that the caller held
\* and whose own key allowed what the tool needs, both at one moment of the
\* call: the middleware's check, a union over accounts, is not enough
\* (tool_scopes.py:13-16).
ScopeVetted ==
    \A c \in Calls : call[c].using # None =>
        \E w \in seen[c] : /\ call[c].using \in w.held
                           /\ Allows(w, call[c].using, Required(call[c].req.tool))

\* Groups that are listed, offered or chosen were the account's groups, and
\* carried the tags asked for, during the call: choose_group's reply is looked
\* up in the matches of the second round (tools.py:570-571).
GroupsAreCurrent ==
    \A c \in Calls :
        LET r == call[c]
        IN  /\ At(c, "done") /\ r.shown # {}
            /\ r.req.tool \in {"list_groups", "list_communities", "choose_group"}
            => /\ \E w \in seen[c] : \A j \in r.shown : <<r.using, j>> \in w.member
               /\ r.req.tags # {} => \E w \in seen[c] : r.shown \subseteq Tagged(w, r.using, r.req.tags)

OfOneChat(q) == \/ q.tool \in Local \cup {"list_messages", "get_group_info", "get_media"}
                \/ q.tool = "search_messages" /\ q.jid # None
ChatOf(q) == IF q.tool = "get_media" THEN Feed[q.message].chat ELSE q.jid

Entitled(q, w) ==
    /\ w.listed /\ q.tool \notin Outbound
    /\ \E a \in w.held : /\ q.account = a \/ (q.account = None /\ w.held = {a})
                         /\ Allows(w, a, Required(q.tool)) /\ w.keys[a] # NoKey
                         /\ OfOneChat(q) => ChatOf(q) \in Visible(w, a)

\* What sort of group each tool is about (tools.py:507-508, 689-690).
Sought(q) == CASE q.tool = "list_communities" -> Communities
               [] q.tool = "list_groups" /\ q.communities -> Groups
               [] OTHER -> Groups \ Communities

Eligible(q, w, a) ==
    {j \in Visible(w, a) \cap Sought(q) \cap Named(q) :
        /\ <<a, j>> \in w.member
        /\ q.tags # {} => w.tags[<<a, j>>] \cap q.tags # {}}

\* When nothing changes during a call and WAHA answers, the many checks on the
\* way amount to one: it is refused exactly when the caller is not entitled,
\* group tools show exactly the eligible groups, and choose_group decides for
\* the user only when there is no choice (tools.py:621-626).
QuietCallsKeepPromises ==
    \A c \in Calls : At(c, "done") /\ call[c].smooth /\ Cardinality(seen[c]) = 1 =>
        LET r == call[c]
            w == CHOOSE v \in seen[c] : TRUE
            G == Eligible(r.req, w, r.using)
        IN  /\ r.outcome = "refused" <=> ~Entitled(r.req, w)
            /\ r.outcome # "refused" =>
               /\ r.req.tool \in {"list_groups", "list_communities"} => r.shown = G
               /\ r.req.tool = "choose_group" =>
                    CASE r.outcome = "asked"    -> r.shown = G /\ Cardinality(G) \in 2 .. MaxGroupChoices
                      [] r.outcome = "selected" -> r.shown = IF r.req.answer = None THEN G
                                                             ELSE {r.req.answer} \cap G
                      [] r.outcome = "stale"    -> r.req.answer \notin G
                      [] r.outcome = "no_match" -> G = {}
                      [] OTHER -> r.outcome = "too_many" \/ r.req.answer \in Replies

\* The whole list that a page is cut from, as a reference: no caps.
Listing(r) ==
    CASE r.req.tool = "list_messages"   -> Real(Chat(r.req.jid))
      [] r.req.tool = "search_messages" ->
            {i \in DOMAIN Feed : /\ Feed[i].real /\ Feed[i].hit /\ Feed[i].chat \in r.allowed
                                 /\ r.req.jid # None => Feed[i].chat = r.req.jid}
      [] r.req.tool = "list_chats" /\ r.req.tags = {} ->
            {i \in DOMAIN Recent : Recent[i] \in r.allowed \cap Named(r.req)}
      [] OTHER -> 1 .. Cardinality(r.found)

\* What the caps leave of it: those of list_messages and of search_messages on
\* the messages of a chat, of the searches on the chats they look at, and of
\* AllowlistedMessageStore on the rows that it filters.
Fetched(r) ==
    CASE r.req.tool = "list_messages" ->
            Real(Slice(Chat(r.req.jid), 0, FetchCount(Clamp(r.req.limit) + 1, r.req.offset)))
      [] r.req.tool = "search_messages" ->
            {i \in FoundMessages(r.req, Searched(r.req)) : Feed[i].chat \in r.allowed}
      [] r.req.tool = "list_chats" /\ r.req.tags = {} ->
            {i \in FoundChats(r.req) : Recent[i] \in r.allowed}
      [] OTHER -> Listing(r)

\* The caps leave the page and the row to spare, or there is nothing else.  The
\* searched messages have to hold every hit, since a later one may be newer.  An
\* offset below zero, which no tool refuses, counts from the end of what the
\* caps leave: what it gives is a page of no list.
Reaches(r) ==
    /\ r.req.offset >= 0
    /\ r.req.tool = "search_messages" => Listing(r) \subseteq HitsIn(Searched(r.req))
    /\ \/ Fetched(r) = Listing(r)
       \/ Cardinality(Fetched(r)) >= r.req.offset + Clamp(r.req.limit) + 1

\* The list as it stands: the position at each of its places.
InOrder(S) ==
    CHOOSE s \in [1 .. Cardinality(S) -> S] :
        \A j, k \in 1 .. Cardinality(S) : j < k => s[j] < s[k]

\* A page is the slice of the whole list that the caller asked for, and
\* next_offset is null exactly at its end (tools.py:195-197), provided that the
\* caps leave that much and the offset is not negative.
PagesTruthful ==
    \A c \in Calls :
        LET r    == call[c]
            all  == InOrder(Listing(r))
            size == Cardinality(Listing(r))
            end  == r.req.offset + Clamp(r.req.limit)
        IN  At(c, "done") /\ r.outcome = "page" /\ r.smooth /\ Reaches(r) =>
              /\ r.page.items = {all[k] : k \in r.req.offset + 1 .. IF end < size THEN end ELSE size}
              /\ r.page.next = IF end < size THEN end ELSE NoMore

\* Adding or removing a tag leaves the chat's other tags and all other chats'
\* tags as they are (tools.py:1045, 1079), unless the owner of the tags edits
\* the same chat's during the call.
TagsMerged ==
    [][\A c \in Calls :
          LET q   == call[c].req
              row == <<call[c].using, q.jid>>
          IN  /\ At(c, "save") /\ call'[c].outcome = "saved"
              /\ \A w \in seen[c] : w.tags[row] = tags[row]
              => /\ \A other \in DOMAIN tags \ {row} : tags'[other] = tags[other]
                 /\ tags'[row] = CASE q.tool = "add_tag"    -> tags[row] \cup q.tags
                                   [] q.tool = "remove_tag" -> tags[row] \ q.tags
                                   [] q.tool = "clear_tags" -> {}]_vars

=============================================================================
