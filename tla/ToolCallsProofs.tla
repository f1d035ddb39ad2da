--------------------------- MODULE ToolCallsProofs ---------------------------
(* Theorems about ToolCalls, for every value of its constants.             *)
EXTENDS ToolCalls, FiniteSetTheorems, TLAPS

-----------------------------------------------------------------------------
(* The inductive invariant: what a call record may look like, and for which *)
(* of its parts there is a world of that call that vouches for it.         *)

OneChat    == {"list_messages", "get_group_info", "get_media"}
GroupTools == {"list_groups", "list_communities", "choose_group"}
Early      == {"idle", "auth", "servable", "resolve"}
OfOthers   == {"chatOf", "require", "tags", "save", "matches"}

Control(r) ==
    /\ r.at \in Early => r.using = None /\ r.allowed = {} /\ r.found = {} /\ r.groups = {}
    /\ r.at # "done" => r.shown = {}
    /\ r.req.tool = "get_media" => r.req.message \in DOMAIN Feed
    /\ r.at = "chatOf" => r.req.tool = "get_media"
    /\ r.at \in OfOthers => r.req.tool \notin GroupTools
    /\ r.at = "allowed" => r.req.tool \notin OneChat
    /\ r.at \in {"tags", "save"} => r.req.jid \in r.allowed
    /\ r.at = "fetch" /\ r.req.tool \in OneChat => r.req.jid \in r.allowed
    /\ r.at = "tags" => r.req.tool \in {"get_chat_metadata", "add_tag", "remove_tag"}
    /\ r.at = "save" => r.req.tool \in {"add_tag", "remove_tag", "clear_tags"} /\ r.current \subseteq Tags
    /\ r.at \notin {"save", "matches", "done"} => r.current = {}
    /\ r.at = "matches" => r.current \cup r.left \subseteq r.found

InView(r, S, J)   == J = {} \/ \E w \in S : J \subseteq Visible(w, r.using)
Joined(r, S, J)   == J = {} \/ \E w \in S : \A j \in J : <<r.using, j>> \in w.member
Carrying(r, S, J) == \/ J = {} \/ r.req.tags = {}
                     \/ \E w \in S : J \subseteq Tagged(w, r.using, r.req.tags)
Vetted(r, S)      == r.using # None => \E w \in S : /\ r.using \in w.held
                                                    /\ Allows(w, r.using, Required(r.req.tool))

Evidence(r, S) ==
    /\ Vetted(r, S)
    /\ InView(r, S, r.allowed) /\ InView(r, S, r.found) /\ InView(r, S, r.shown)
    /\ Joined(r, S, r.groups)
    /\ r.at = "done" /\ r.req.tool \in GroupTools =>
         Joined(r, S, r.shown) /\ Carrying(r, S, r.shown)

Witnessed(c) == Busy(c) => World \in seen[c]

IInv ==
    /\ TypeOK
    /\ \A c \in Calls : Control(call[c]) /\ Evidence(call[c], seen[c]) /\ Witnessed(c)

-----------------------------------------------------------------------------
(* Pages.                                                                  *)

\* A slice of a list is a part of it.
LEMMA SliceSubset ==
    ASSUME NEW S, NEW o, NEW n PROVE Slice(S, o, n) \subseteq S
  BY DEF Slice

\* Where no bound is negative, a slice is what Python's is on paper.
LEMMA SliceNat ==
    ASSUME NEW S, NEW o \in Nat, NEW n \in Nat
    PROVE  Slice(S, o, n) = {i \in S : Rank(S, i) \in o + 1 .. o + n}
  <1>1. o >= 0 /\ o + n >= 0
    OBVIOUS
  <1>2. Bound(o, Cardinality(S)) = o /\ Bound(o + n, Cardinality(S)) = o + n
    BY <1>1 DEF Bound
  <1> QED BY <1>2 DEF Slice

LEMMA ClampType ==
    ASSUME NEW l \in Int PROVE Clamp(l) \in Nat \ {0}
  BY PagingAssumption DEF Clamp

LEMMA PageType ==
    ASSUME NEW rows \in SUBSET Nat, NEW l \in Nat, NEW o \in Int
    PROVE  /\ Page(rows, l, o) \in [items : SUBSET Nat, next : {NoMore} \cup Int]
           /\ Page(rows, l, o).items \subseteq rows
  <1> DEFINE i == Slice(rows, 0, l)
             x == IF Cardinality(rows) > l THEN o + l ELSE NoMore
  <1>1. i \subseteq rows
    BY SliceSubset
  <1>2. x \in {NoMore} \cup Int
    OBVIOUS
  <1> HIDE DEF i, x
  <1> QED BY <1>1, <1>2 DEF Page, i, x

LEMMA FeedType ==
    ASSUME NEW i \in DOMAIN Feed PROVE Feed[i].chat \in Jids /\ i \in Nat
  <1> DEFINE M == [chat : Jids, real : BOOLEAN, hit : BOOLEAN, media : BOOLEAN]
  <1>1. Feed \in Seq(M)
    BY ToolAssumption
  <1>2. \A x \in M : x.chat \in Jids
    OBVIOUS
  <1> HIDE DEF M
  <1>3. Feed[i] \in M /\ i \in Nat
    BY <1>1
  <1> QED BY <1>2, <1>3

LEMMA RecentType ==
    ASSUME NEW i \in DOMAIN Recent PROVE Recent[i] \in Jids /\ i \in Nat
  <1>1. Recent \in Seq(Jids)
    BY ToolAssumption
  <1> QED BY <1>1

-----------------------------------------------------------------------------
(* Steps in general.                                                       *)

\* What vouches for a part of a call still does when more has been seen.
LEMMA EvidenceGrows ==
    ASSUME NEW r, NEW S, NEW T, S \subseteq T, Evidence(r, S)
    PROVE  Evidence(r, T)
  BY DEF Evidence, Vetted, InView, Joined, Carrying

\* Another call's record in the slots, the worlds of that call in seen.
LEMMA Slots ==
    ASSUME TypeOK, NEW c \in Calls, NEW r \in CallRecord, call' = [call EXCEPT ![c] = r]
    PROVE  /\ call' \in [Calls -> CallRecord]
           /\ call'[c] = r
           /\ \A d \in Calls \ {c} : call'[d] = call[d]
  BY DEF TypeOK

\* A step that only reads has to account for its own call.
LEMMA ReadStep ==
    ASSUME IInv, Reads, NEW c \in Calls, NEW r \in CallRecord,
           call' = [call EXCEPT ![c] = r],
           Busy(c), Control(r), Evidence(r, seen[c])
    PROVE  IInv'
  <1>1. /\ call' \in [Calls -> CallRecord]
        /\ call'[c] = r
        /\ \A d \in Calls \ {c} : call'[d] = call[d]
    BY Slots DEF IInv
  <1>2. World' = World /\ seen' = seen /\ changes' = changes
    BY DEF Reads, world, World
  <1>3. TypeOK'
    BY <1>1, <1>2 DEF IInv, TypeOK
  <1>4. ASSUME NEW d \in Calls
        PROVE  Control(call[d])' /\ Evidence(call[d], seen[d])' /\ Witnessed(d)'
    <2>1. CASE d = c
      <3>1. Control(call'[d]) /\ Evidence(call'[d], seen'[d])
        BY <1>1, <1>2, <2>1
      <3>2. World \in seen[c]
        BY DEF IInv, Witnessed
      <3>3. Witnessed(d)'
        BY <1>2, <2>1, <3>2 DEF Witnessed
      <3> QED BY <3>1, <3>3
    <2>2. CASE d # c
      <3>1. call'[d] = call[d] /\ seen'[d] = seen[d]
        BY <1>1, <1>2, <2>2
      <3>2. Control(call'[d]) /\ Evidence(call'[d], seen'[d])
        BY <3>1 DEF IInv
      <3>3. Witnessed(d)'
        BY <1>2, <3>1 DEF IInv, Witnessed, Busy
      <3> QED BY <3>2, <3>3
    <2> QED BY <2>1, <2>2
  <1> QED BY <1>3, <1>4 DEF IInv

\* The call's own record.
LEMMA OwnRecord ==
    ASSUME IInv, NEW c \in Calls
    PROVE  call[c] \in CallRecord /\ Control(call[c]) /\ Evidence(call[c], seen[c])
  BY DEF IInv, TypeOK

\* A call that ends without showing anything: refused, failed, without a choice.
LEMMA EndStep ==
    ASSUME IInv, Reads, NEW c \in Calls, Busy(c), NEW what \in Outcomes, NEW smooth \in BOOLEAN,
           call' = [call EXCEPT ![c] = [call[c] EXCEPT !.at = "done", !.outcome = what,
                                                       !.smooth = smooth]]
    PROVE  IInv'
  <1> DEFINE o == call[c]
             r == [o EXCEPT !.at = "done", !.outcome = what, !.smooth = smooth]
  <1>1. o \in CallRecord /\ Control(o) /\ Evidence(o, seen[c]) /\ o.at # "done"
    BY OwnRecord DEF Busy
  <1> HIDE DEF o
  <1>2. r \in CallRecord
    BY <1>1 DEF CallRecord, Steps
  <1>3. /\ r.at = "done" /\ r.using = o.using /\ r.req = o.req /\ r.allowed = o.allowed
        /\ r.found = o.found /\ r.current = o.current /\ r.groups = o.groups /\ r.shown = o.shown
    BY <1>1 DEF CallRecord
  <1>4. o.shown = {}
    BY <1>1 DEF Control
  <1> HIDE DEF r
  <1>5. Control(r)
    BY <1>1, <1>3 DEF Control, Early, OfOthers
  <1>6. Evidence(r, seen[c])
    BY <1>1, <1>3, <1>4 DEF Evidence, Vetted, InView, Joined, Carrying
  <1>7. call' = [call EXCEPT ![c] = r]
    BY DEF r, o
  <1> QED BY <1>2, <1>5, <1>6, <1>7, ReadStep

\* A call that ends and shows chats J: all of them from the allowlist that it
\* read, or all of them found by tags.
LEMMA ShowStep ==
    ASSUME IInv, Reads, NEW c \in Calls, Busy(c), NEW what \in Outcomes, NEW smooth \in BOOLEAN,
           NEW page \in [items : SUBSET Nat, next : {NoMore} \cup Int], NEW J \in SUBSET Jids,
           J \subseteq call[c].allowed \/ J \subseteq call[c].found,
           call[c].req.tool \in GroupTools => Joined(call[c], seen[c], J) /\ Carrying(call[c], seen[c], J),
           call' = [call EXCEPT ![c] = [call[c] EXCEPT !.at = "done", !.outcome = what, !.shown = J,
                                                       !.page = page, !.smooth = smooth]]
    PROVE  IInv'
  <1> DEFINE o == call[c]
             r == [o EXCEPT !.at = "done", !.outcome = what, !.shown = J, !.page = page, !.smooth = smooth]
  <1>1. o \in CallRecord /\ Control(o) /\ Evidence(o, seen[c]) /\ o.at # "done"
    BY OwnRecord DEF Busy
  <1>0. J \subseteq o.allowed \/ J \subseteq o.found
    OBVIOUS
  <1>8. o.req.tool \in GroupTools => Joined(o, seen[c], J) /\ Carrying(o, seen[c], J)
    OBVIOUS
  <1> HIDE DEF o
  <1>2. r \in CallRecord
    BY <1>1 DEF CallRecord, Steps
  <1>3. /\ r.at = "done" /\ r.using = o.using /\ r.req = o.req /\ r.allowed = o.allowed
        /\ r.found = o.found /\ r.current = o.current /\ r.groups = o.groups /\ r.shown = J
    BY <1>1 DEF CallRecord
  <1> HIDE DEF r
  <1>4. Control(r)
    BY <1>1, <1>3 DEF Control, Early, OfOthers
  <1>5. InView(o, seen[c], o.allowed) /\ InView(o, seen[c], o.found)
    BY <1>1 DEF Evidence
  <1>6. InView(o, seen[c], J)
    BY <1>0, <1>5 DEF InView
  <1>7. Evidence(r, seen[c])
    BY <1>1, <1>3, <1>6, <1>8 DEF Evidence, Vetted, InView, Joined, Carrying
  <1>9. call' = [call EXCEPT ![c] = r]
    BY DEF r, o
  <1> QED BY <1>2, <1>4, <1>7, <1>9, ReadStep

\* The same with the spec's own ways to end a call.
LEMMA EndCall ==
    ASSUME IInv, Reads, NEW c \in Calls, Busy(c), NEW what \in Outcomes,
           End(c, what) \/ (what = "failed" /\ Fail(c))
    PROVE  IInv'
  <1> DEFINE o == call[c]
  <1>1. o \in CallRecord /\ call \in [Calls -> CallRecord]
    BY OwnRecord DEF IInv, TypeOK
  <1>2. o.smooth \in BOOLEAN
    BY <1>1 DEF CallRecord
  <1>3. CASE End(c, what)
    <2>1. call' = [call EXCEPT ![c] = [o EXCEPT !.at = "done", !.outcome = what]]
      BY <1>3 DEF End
    <2> HIDE DEF o
    <2>2. [o EXCEPT !.at = "done", !.outcome = what]
            = [o EXCEPT !.at = "done", !.outcome = what, !.smooth = o.smooth]
      BY <1>1 DEF CallRecord
    <2>3. call' = [call EXCEPT ![c] = [o EXCEPT !.at = "done", !.outcome = what, !.smooth = o.smooth]]
      BY <2>1, <2>2
    <2> QED BY <1>2, <2>3, EndStep DEF o
  <1>4. CASE what = "failed" /\ Fail(c)
    <2>1. call' = [call EXCEPT ![c] = [o EXCEPT !.at = "done", !.outcome = what, !.smooth = FALSE]]
      BY <1>4 DEF Fail
    <2> QED BY <2>1, EndStep
  <1> QED BY <1>3, <1>4

LEMMA ShowPageCall ==
    ASSUME IInv, Reads, NEW c \in Calls, Busy(c), call[c].req.tool \notin GroupTools,
           NEW smooth \in BOOLEAN, NEW page \in [items : SUBSET Nat, next : {NoMore} \cup Int],
           NEW J \in SUBSET Jids, J \subseteq call[c].allowed \/ J \subseteq call[c].found,
           ShowPage(c, page, J, smooth)
    PROVE  IInv'
  <1>1. "page" \in Outcomes
    BY DEF Outcomes
  <1>2. call' = [call EXCEPT ![c] = [call[c] EXCEPT !.at = "done", !.outcome = "page", !.shown = J,
                                                    !.page = page, !.smooth = smooth]]
    <2> DEFINE o == call[c]
    <2>1. o \in CallRecord
      BY OwnRecord
    <2>2. call' = [call EXCEPT ![c] = [o EXCEPT !.at = "done", !.outcome = "page", !.page = page,
                                                !.shown = J, !.smooth = smooth]]
      BY DEF ShowPage
    <2> HIDE DEF o
    <2>3. [o EXCEPT !.at = "done", !.outcome = "page", !.page = page, !.shown = J, !.smooth = smooth]
            = [o EXCEPT !.at = "done", !.outcome = "page", !.shown = J, !.page = page, !.smooth = smooth]
      BY <2>1 DEF CallRecord
    <2> QED BY <2>2, <2>3 DEF o
  <1> QED BY <1>1, <1>2, ShowStep

LEMMA ShowCall ==
    ASSUME IInv, Reads, NEW c \in Calls, Busy(c), NEW what \in Outcomes, NEW J \in SUBSET Jids,
           J \subseteq call[c].allowed \/ J \subseteq call[c].found,
           call[c].req.tool \in GroupTools => Joined(call[c], seen[c], J) /\ Carrying(call[c], seen[c], J),
           Show(c, what, J)
    PROVE  IInv'
  <1> DEFINE o == call[c]
  <1>1. o \in CallRecord
    BY OwnRecord
  <1>2. o.smooth \in BOOLEAN /\ o.page \in [items : SUBSET Nat, next : {NoMore} \cup Int]
    BY <1>1 DEF CallRecord
  <1>3. call' = [call EXCEPT ![c] = [o EXCEPT !.at = "done", !.outcome = what, !.shown = J]]
    BY DEF Show
  <1>4. [o EXCEPT !.at = "done", !.outcome = what, !.shown = J]
          = [o EXCEPT !.at = "done", !.outcome = what, !.shown = J, !.page = o.page, !.smooth = o.smooth]
    <2> HIDE DEF o
    <2> QED BY <1>1 DEF CallRecord
  <1>5. call' = [call EXCEPT ![c] = [o EXCEPT !.at = "done", !.outcome = what, !.shown = J,
                                              !.page = o.page, !.smooth = o.smooth]]
    BY <1>3, <1>4
  <1> QED BY <1>2, <1>5, ShowStep

\* A call that goes on to the next step and keeps what it has.
LEMMA GoStep ==
    ASSUME IInv, Reads, NEW c \in Calls, Busy(c), NEW step \in Steps \ {"done"},
           Go(c, step), Control([call[c] EXCEPT !.at = step])
    PROVE  IInv'
  <1> DEFINE o == call[c]
             r == [o EXCEPT !.at = step]
  <1>1. o \in CallRecord /\ Evidence(o, seen[c])
    BY OwnRecord
  <1>2. Control(r) /\ call' = [call EXCEPT ![c] = r]
    BY DEF Go
  <1> HIDE DEF o
  <1>3. r \in CallRecord
    BY <1>1 DEF CallRecord
  <1>4. /\ r.at # "done" /\ r.using = o.using /\ r.req = o.req /\ r.allowed = o.allowed
        /\ r.found = o.found /\ r.current = o.current /\ r.groups = o.groups /\ r.shown = o.shown
    BY <1>1 DEF CallRecord
  <1> HIDE DEF r
  <1>5. Evidence(r, seen[c])
    BY <1>1, <1>4 DEF Evidence, Vetted, InView, Joined
  <1> QED BY <1>2, <1>3, <1>5, ReadStep

-----------------------------------------------------------------------------
(* The way in.                                                             *)

LEMMA AuthorizeStep ==
    ASSUME IInv, NEW c \in Calls, Authorize(c) \/ CheckServable(c) PROVE IInv'
  <1> DEFINE o == call[c]
  <1>1. o \in CallRecord /\ Control(o) /\ o.at \in {"auth", "servable"} /\ Reads
    BY OwnRecord DEF Authorize, CheckServable, At
  <1>2. Busy(c)
    BY <1>1 DEF Busy
  <1>3. CASE Refuse(c)
    BY <1>1, <1>2, <1>3, EndCall DEF Refuse, Outcomes
  <1>4. ASSUME NEW step \in {"servable", "resolve"}, Go(c, step) PROVE IInv'
    <2> DEFINE r == [o EXCEPT !.at = step]
    <2>1. Control(r)
      <3> HIDE DEF o
      <3>1. /\ r.at = step /\ r.using = o.using /\ r.req = o.req /\ r.allowed = o.allowed
            /\ r.found = o.found /\ r.current = o.current /\ r.groups = o.groups /\ r.shown = o.shown
        BY <1>1 DEF CallRecord
      <3> HIDE DEF r
      <3> QED BY <1>1, <1>4, <3>1 DEF Control, Early, OfOthers
    <2>2. step \in Steps \ {"done"}
      BY DEF Steps
    <2> QED BY <1>1, <1>2, <1>4, <2>1, <2>2, GoStep
  <1> QED BY <1>3, <1>4 DEF Authorize, CheckServable

LEMMA ResolveScopeStep ==
    ASSUME IInv, NEW c \in Calls, ResolveScope(c) PROVE IInv'
  <1> DEFINE o == call[c]
  <1>1. o \in CallRecord /\ Control(o) /\ Evidence(o, seen[c]) /\ o.at = "resolve" /\ Reads
    BY OwnRecord DEF ResolveScope, At
  <1>2. Busy(c) /\ World \in seen[c]
    BY <1>1 DEF Busy, IInv, Witnessed
  <1>3. CASE Refuse(c)
    BY <1>1, <1>2, <1>3, EndCall DEF Refuse, Outcomes
  <1>4. ASSUME NEW a \in Accounts, Resolves(o.req, a), MayServe(a, Required(o.req.tool)),
               call' = [call EXCEPT ![c].at = "bridge", ![c].using = a]
        PROVE  IInv'
    <2> DEFINE r == [o EXCEPT !.at = "bridge", !.using = a]
    <2>1. call' = [call EXCEPT ![c] = r]
      BY <1>4
    <2>2. a \in World.held /\ Allows(World, a, Required(o.req.tool))
      BY <1>4 DEF Resolves, MayServe, World
    <2> HIDE DEF o
    <2>3. r \in CallRecord
      BY <1>1 DEF CallRecord, Steps
    <2>4. /\ r.at = "bridge" /\ r.using = a /\ r.req = o.req /\ r.allowed = o.allowed
          /\ r.found = o.found /\ r.current = o.current /\ r.groups = o.groups /\ r.shown = o.shown
      BY <1>1 DEF CallRecord
    <2> HIDE DEF r
    <2>5. o.allowed = {} /\ o.found = {} /\ o.groups = {} /\ o.shown = {}
      BY <1>1 DEF Control, Early
    <2>6. Control(r)
      BY <1>1, <2>4, <2>5 DEF Control, Early, OfOthers
    <2>7. Evidence(r, seen[c])
      BY <1>2, <2>2, <2>4, <2>5 DEF Evidence, Vetted, InView, Joined
    <2> QED BY <1>1, <1>2, <2>1, <2>3, <2>6, <2>7, ReadStep
  <1> QED BY <1>3, <1>4 DEF ResolveScope

LEMMA TakeBridgeStep ==
    ASSUME IInv, NEW c \in Calls, TakeBridge(c) PROVE IInv'
  <1> DEFINE o    == call[c]
             step == FirstRead(o.req)
             r    == [o EXCEPT !.at = step]
  <1>1. o \in CallRecord /\ Control(o) /\ o.at = "bridge" /\ Reads
    BY OwnRecord DEF TakeBridge, At
  <1>2. Busy(c)
    BY <1>1 DEF Busy
  <1>3. CASE Refuse(c)
    BY <1>1, <1>2, <1>3, EndCall DEF Refuse, Outcomes
  <1>4. CASE Go(c, step)
    <2>1. /\ step \in {"chatOf", "search", "allowed", "require"}
          /\ step = "chatOf" => o.req.tool = "get_media"
          /\ step \in {"chatOf", "require"} => o.req.tool \notin GroupTools
          /\ step = "allowed" => o.req.tool \notin OneChat
      BY DEF FirstRead, GroupTools, OneChat
    <2> HIDE DEF o, step
    <2>2. /\ r.at = step /\ r.using = o.using /\ r.req = o.req /\ r.allowed = o.allowed
          /\ r.found = o.found /\ r.current = o.current /\ r.groups = o.groups /\ r.shown = o.shown
      BY <1>1 DEF CallRecord
    <2>3. step \in Steps \ {"done"}
      BY <2>1 DEF Steps
    <2> HIDE DEF r
    <2>4. Control(r)
      BY <1>1, <2>1, <2>2 DEF Control, Early, OfOthers
    <2> QED BY <1>1, <1>2, <1>4, <2>3, <2>4, GoStep DEF r, o
  <1> QED BY <1>3, <1>4 DEF TakeBridge

-----------------------------------------------------------------------------
(* The reads of the database.                                              *)

LEMMA VisibleType ==
    ASSUME NEW w, NEW a, NEW T
    PROVE  /\ Visible(w, a) \in SUBSET Jids /\ Tagged(w, a, T) \in SUBSET Jids
           /\ Tagged(w, a, T) \subseteq Visible(w, a)
  BY DEF Visible, Tagged

LEMMA ReadAllowedStep ==
    ASSUME IInv, NEW c \in Calls, ReadAllowed(c) PROVE IInv'
  <1> DEFINE o == call[c]
             J == Sees(c)
             r == [o EXCEPT !.at = "fetch", !.allowed = J]
  <1>1. o \in CallRecord /\ Control(o) /\ Evidence(o, seen[c]) /\ o.at = "allowed" /\ Reads
    BY OwnRecord DEF ReadAllowed, At
  <1>2. Busy(c) /\ World \in seen[c]
    BY <1>1 DEF Busy, IInv, Witnessed
  <1>3. J \in SUBSET Jids /\ J = Visible(World, o.using)
    BY VisibleType DEF Sees
  <1>4. call' = [call EXCEPT ![c] = r]
    BY DEF ReadAllowed
  <1> HIDE DEF o, J
  <1>5. r \in CallRecord
    BY <1>1, <1>3 DEF CallRecord, Steps
  <1>6. /\ r.at = "fetch" /\ r.using = o.using /\ r.req = o.req /\ r.allowed = J
        /\ r.found = o.found /\ r.current = o.current /\ r.groups = o.groups /\ r.shown = o.shown
    BY <1>1 DEF CallRecord
  <1> HIDE DEF r
  <1>7. Control(r)
    BY <1>1, <1>6 DEF Control, Early, OfOthers
  <1>8. Evidence(r, seen[c])
    BY <1>1, <1>2, <1>3, <1>6 DEF Evidence, Vetted, InView, Joined
  <1> QED BY <1>1, <1>2, <1>4, <1>5, <1>7, <1>8, ReadStep

LEMMA FindChatStep ==
    ASSUME IInv, NEW c \in Calls, FindChat(c) PROVE IInv'
  <1> DEFINE o == call[c]
             j == Feed[o.req.message].chat
             q == [o.req EXCEPT !.jid = j]
             r == [o EXCEPT !.at = "require", !.req = q]
             s == [o EXCEPT !.at = "require", !.smooth = FALSE]
  <1>1. o \in CallRecord /\ Control(o) /\ Evidence(o, seen[c]) /\ o.at = "chatOf" /\ Reads
    BY OwnRecord DEF FindChat, At
  <1>2. Busy(c)
    BY <1>1 DEF Busy
  <1>3. \/ call' = [call EXCEPT ![c].at = "require", ![c].req.jid = j]
        \/ call' = [call EXCEPT ![c].at = "require", ![c].smooth = FALSE]
    BY DEF FindChat
  <1> HIDE DEF o
  <1>4. CASE call' = [call EXCEPT ![c].at = "require", ![c].req.jid = j]
    <2>1. call' = [call EXCEPT ![c] = r]
      BY <1>4 DEF o
    <2>2. j \in Jids
      BY <1>1, FeedType DEF Control
    <2>3. o.req \in Request
      BY <1>1 DEF CallRecord
    <2> HIDE DEF j
    <2>4. q \in Request /\ q.tool = o.req.tool /\ q.message = o.req.message /\ q.tags = o.req.tags
      BY <2>2, <2>3 DEF Request
    <2> HIDE DEF q
    <2>5. r \in CallRecord
      BY <1>1, <2>4 DEF CallRecord, Steps
    <2>6. /\ r.at = "require" /\ r.using = o.using /\ r.req = q /\ r.allowed = o.allowed
          /\ r.found = o.found /\ r.current = o.current /\ r.groups = o.groups /\ r.shown = o.shown
      BY <1>1 DEF CallRecord
    <2> HIDE DEF r
    <2>7. Control(r)
      BY <1>1, <2>4, <2>6 DEF Control, Early, OfOthers
    <2>8. Evidence(r, seen[c])
      BY <1>1, <2>4, <2>6 DEF Evidence, Vetted, InView, Joined
    <2> QED BY <1>1, <1>2, <2>1, <2>5, <2>7, <2>8, ReadStep
  <1>5. CASE call' = [call EXCEPT ![c].at = "require", ![c].smooth = FALSE]
    <2>1. call' = [call EXCEPT ![c] = s]
      BY <1>5 DEF o
    <2>2. s \in CallRecord
      BY <1>1 DEF CallRecord, Steps
    <2>3. /\ s.at = "require" /\ s.using = o.using /\ s.req = o.req /\ s.allowed = o.allowed
          /\ s.found = o.found /\ s.current = o.current /\ s.groups = o.groups /\ s.shown = o.shown
      BY <1>1 DEF CallRecord
    <2> HIDE DEF s
    <2>4. Control(s)
      BY <1>1, <2>3 DEF Control, Early, OfOthers
    <2>5. Evidence(s, seen[c])
      BY <1>1, <2>3 DEF Evidence, Vetted, InView, Joined
    <2> QED BY <1>1, <1>2, <2>1, <2>2, <2>4, <2>5, ReadStep
  <1> QED BY <1>3, <1>4, <1>5

LEMMA RequireAllowedStep ==
    ASSUME IInv, NEW c \in Calls, RequireAllowed(c) PROVE IInv'
  <1> DEFINE o    == call[c]
             J    == Sees(c)
             step == NextRead(o.req.tool)
             r    == [o EXCEPT !.at = step, !.allowed = J]
  <1>1. o \in CallRecord /\ Control(o) /\ Evidence(o, seen[c]) /\ o.at = "require" /\ Reads
    BY OwnRecord DEF RequireAllowed, At
  <1>2. Busy(c) /\ World \in seen[c]
    BY <1>1 DEF Busy, IInv, Witnessed
  <1>3. CASE Refuse(c)
    BY <1>1, <1>2, <1>3, EndCall DEF Refuse, Outcomes
  <1>4. CASE o.req.jid \in J /\ call' = [call EXCEPT ![c].at = step, ![c].allowed = J]
    <2>1. J \in SUBSET Jids /\ J = Visible(World, o.using) /\ o.req.jid \in J
      BY <1>4, VisibleType DEF Sees
    <2>2. /\ step \in {"tags", "save", "fetch"}
          /\ step = "tags" => o.req.tool \in {"get_chat_metadata", "add_tag", "remove_tag"}
          /\ step = "save" => o.req.tool = "clear_tags"
      BY DEF NextRead
    <2>3. call' = [call EXCEPT ![c] = r]
      BY <1>4
    <2> HIDE DEF o, J, step
    <2>4. r \in CallRecord
      BY <1>1, <2>1, <2>2 DEF CallRecord, Steps
    <2>5. /\ r.at = step /\ r.using = o.using /\ r.req = o.req /\ r.allowed = J
          /\ r.found = o.found /\ r.current = o.current /\ r.groups = o.groups /\ r.shown = o.shown
      BY <1>1 DEF CallRecord
    <2> HIDE DEF r
    <2>6. Control(r)
      BY <1>1, <2>1, <2>2, <2>5 DEF Control, Early, OfOthers
    <2>7. Evidence(r, seen[c])
      BY <1>1, <1>2, <2>1, <2>2, <2>5 DEF Evidence, Vetted, InView, Joined
    <2> QED BY <1>1, <1>2, <2>3, <2>4, <2>6, <2>7, ReadStep
  <1> QED BY <1>3, <1>4 DEF RequireAllowed

LEMMA ReadTagsStep ==
    ASSUME IInv, NEW c \in Calls, ReadTags(c) PROVE IInv'
  <1> DEFINE o == call[c]
             T == TagsOf(o.using, o.req.jid)
             r == [o EXCEPT !.at = "save", !.current = T]
  <1>1. o \in CallRecord /\ Control(o) /\ Evidence(o, seen[c]) /\ o.at = "tags" /\ Reads
    BY OwnRecord DEF ReadTags, At
  <1>2. Busy(c)
    BY <1>1 DEF Busy
  <1>3. /\ o.req.jid \in o.allowed /\ o.req.tool \notin GroupTools
        /\ o.allowed \in SUBSET Jids /\ o.using \in Accounts \cup {None}
    BY <1>1 DEF Control, OfOthers, CallRecord
  <1>4. CASE Show(c, "shown", {o.req.jid})
    <2>1. {o.req.jid} \in SUBSET Jids /\ {o.req.jid} \subseteq o.allowed
      BY <1>3
    <2>2. "shown" \in Outcomes
      BY DEF Outcomes
    <2> QED BY <1>1, <1>2, <1>3, <1>4, <2>1, <2>2, ShowCall
  <1>5. CASE /\ o.req.tool # "get_chat_metadata"
             /\ call' = [call EXCEPT ![c].at = "save", ![c].current = T]
    <2>1. call' = [call EXCEPT ![c] = r]
      BY <1>5
    <2>2. T \in SUBSET Tags
      <3>1. tags \in [Accounts \X Jids -> SUBSET Tags] /\ held \in SUBSET Accounts
        BY DEF IInv, TypeOK, World, Worlds
      <3> QED BY <1>3, <3>1 DEF TagsOf
    <2> HIDE DEF o, T
    <2>3. r \in CallRecord
      BY <1>1, <2>2 DEF CallRecord, Steps
    <2>4. /\ r.at = "save" /\ r.using = o.using /\ r.req = o.req /\ r.allowed = o.allowed
          /\ r.found = o.found /\ r.current = T /\ r.groups = o.groups /\ r.shown = o.shown
      BY <1>1 DEF CallRecord
    <2> HIDE DEF r
    <2>5. Control(r)
      BY <1>1, <1>5, <2>2, <2>4 DEF Control, Early, OfOthers
    <2>6. Evidence(r, seen[c])
      BY <1>1, <2>4 DEF Evidence, Vetted, InView, Joined
    <2> QED BY <1>1, <1>2, <2>1, <2>3, <2>5, <2>6, ReadStep
  <1> QED BY <1>4, <1>5 DEF ReadTags

-----------------------------------------------------------------------------
(* WAHA's answers.                                                         *)

\* What is found are chats of WAHA's list.
LEMMA FoundType ==
    ASSUME NEW q PROVE FoundChats(q) \subseteq DOMAIN Recent
  <1>1. CASE q.query = None
    BY <1>1, SliceSubset DEF FoundChats
  <1>2. CASE q.query # None
    <2> DEFINE near == Slice(DOMAIN Recent, 0, ChatCap)
               fits == {i \in near : Recent[i] \in q.query}
    <2>1. near \subseteq DOMAIN Recent
      BY SliceSubset
    <2>2. fits \subseteq DOMAIN Recent
      BY <2>1
    <2> HIDE DEF fits
    <2>3. Slice(fits, 0, FetchAll) \subseteq DOMAIN Recent
      BY <2>2, SliceSubset
    <2> QED BY <1>2, <2>3 DEF FoundChats, fits
  <1> QED BY <1>1, <1>2

LEMMA FetchChatsStep ==
    ASSUME IInv, NEW c \in Calls, FetchChats(c) PROVE IInv'
  <1> DEFINE o    == call[c]
             n    == Clamp(o.req.limit)
             rows == {i \in FoundChats(o.req) : Recent[i] \in o.allowed}
             part == Slice(rows, o.req.offset, n + 1)
             page == Page(part, n, o.req.offset)
             J    == {Recent[i] : i \in page.items}
  <1>1. o \in CallRecord /\ o.at = "fetch" /\ o.req.tool = "list_chats" /\ Reads
    BY OwnRecord DEF FetchChats, At
  <1>2. ShowPage(c, page, J, o.smooth)
    BY DEF FetchChats
  <1>3. n \in Nat /\ o.req.offset \in Int /\ o.smooth \in BOOLEAN /\ o.allowed \in SUBSET Jids
    <2>1. o.req.limit \in Int /\ o.req.offset \in Int
      BY <1>1 DEF CallRecord, Request
    <2> QED BY <1>1, <2>1, ClampType DEF CallRecord
  <1>4. Busy(c) /\ o.req.tool \notin GroupTools
    BY <1>1 DEF Busy, GroupTools
  <1> HIDE DEF o, n
  <1>5. \A i \in rows : i \in Nat /\ Recent[i] \in o.allowed
    BY FoundType, RecentType
  <1> HIDE DEF rows
  <1>6. part \subseteq rows /\ part \in SUBSET Nat
    BY <1>5, SliceSubset
  <1> HIDE DEF part
  <1>7. page \in [items : SUBSET Nat, next : {NoMore} \cup Int] /\ page.items \subseteq rows
    BY <1>3, <1>6, PageType
  <1> HIDE DEF page
  <1>8. J \in SUBSET Jids /\ J \subseteq o.allowed
    BY <1>3, <1>5, <1>7
  <1> HIDE DEF J
  <1> QED BY <1>1, <1>2, <1>3, <1>4, <1>7, <1>8, ShowPageCall DEF o

\* Whatever WAHA makes of the limit, it answers with a part of the list.
LEMMA AnswerPart ==
    ASSUME NEW S, NEW limit, NEW raw \in Answers(S, limit) PROVE raw \subseteq S
  BY SliceSubset DEF Answers

\* list_messages shows one chat's messages only.
LEMMA RowsOfChat ==
    ASSUME NEW j, NEW raw \in SUBSET Chat(j), NEW n, NEW offset
    PROVE  \A i \in MessageRows(raw, n, offset) : i \in DOMAIN Feed /\ Feed[i].chat = j
  <1>1. Real(raw) \subseteq raw
    BY DEF Real
  <1>2. MessageRows(raw, n, offset) \subseteq Real(raw)
    BY SliceSubset DEF MessageRows
  <1>3. \A i \in Chat(j) : i \in DOMAIN Feed /\ Feed[i].chat = j
    BY DEF Chat
  <1> QED BY <1>1, <1>2, <1>3

LEMMA FetchMessagesStep ==
    ASSUME IInv, NEW c \in Calls, FetchMessages(c) PROVE IInv'
  <1> DEFINE o == call[c]
             n == Clamp(o.req.limit)
  <1>1. /\ o \in CallRecord /\ Control(o) /\ Reads
        /\ o.at = "fetch" /\ o.req.tool = "list_messages"
    BY OwnRecord DEF FetchMessages, At
  <1>2. PICK raw \in Answers(Chat(o.req.jid), FetchCount(n + 1, o.req.offset)) :
          LET page == Page(MessageRows(raw, n + 1, o.req.offset), n, o.req.offset)
          IN  ShowPage(c, page, Chats(page.items), o.smooth)
    BY DEF FetchMessages
  <1> DEFINE rows == MessageRows(raw, n + 1, o.req.offset)
             page == Page(rows, n, o.req.offset)
             J    == Chats(page.items)
  <1>3. n \in Nat /\ o.req.offset \in Int /\ o.smooth \in BOOLEAN /\ o.allowed \in SUBSET Jids
    <2>1. o.req.limit \in Int /\ o.req.offset \in Int
      BY <1>1 DEF CallRecord, Request
    <2> QED BY <1>1, <2>1, ClampType DEF CallRecord
  <1>4. Busy(c) /\ o.req.tool \notin GroupTools /\ o.req.jid \in o.allowed
    BY <1>1 DEF Busy, GroupTools, Control, OneChat
  <1>5. ShowPage(c, page, J, o.smooth)
    BY <1>2
  <1>6. raw \in SUBSET Chat(o.req.jid)
    BY AnswerPart
  <1> HIDE DEF o, n
  <1>7. \A i \in rows : i \in DOMAIN Feed /\ Feed[i].chat = o.req.jid
    BY <1>6, RowsOfChat
  <1> HIDE DEF rows
  <1>8. rows \in SUBSET Nat
    BY <1>7, FeedType
  <1>9. page \in [items : SUBSET Nat, next : {NoMore} \cup Int] /\ page.items \subseteq rows
    BY <1>3, <1>8, PageType
  <1> HIDE DEF page
  <1>10. J \subseteq {o.req.jid}
    BY <1>7, <1>9 DEF Chats
  <1> HIDE DEF J
  <1>11. J \in SUBSET Jids /\ J \subseteq o.allowed
    BY <1>3, <1>4, <1>10
  <1> QED BY <1>1, <1>3, <1>4, <1>5, <1>9, <1>11, ShowPageCall DEF o

\* What is searched are messages.
LEMMA HitsType ==
    ASSUME NEW q, NEW js
    PROVE  FoundMessages(q, js) \subseteq HitsIn(js) /\ HitsIn(js) \subseteq DOMAIN Feed
  <1>1. ASSUME NEW j PROVE Hits(Slice(Chat(j), 0, FetchCap)) \subseteq DOMAIN Feed
    <2>1. Slice(Chat(j), 0, FetchCap) \subseteq DOMAIN Feed
      BY SliceSubset DEF Chat
    <2> QED BY <2>1 DEF Hits, Real
  <1>2. HitsIn(js) \subseteq DOMAIN Feed
    BY <1>1 DEF HitsIn
  <1>3. FoundMessages(q, js) \subseteq HitsIn(js)
    BY SliceSubset DEF FoundMessages
  <1> QED BY <1>2, <1>3

LEMMA SearchMessagesStep ==
    ASSUME IInv, NEW c \in Calls, SearchMessages(c) PROVE IInv'
  <1> DEFINE o == call[c]
             n == Clamp(o.req.limit)
             hits(silent) == FoundMessages(o.req, Searched(o.req) \ silent)
             rows(silent) == {i \in hits(silent) : Feed[i].chat \in o.allowed}
             part(silent) == Slice(rows(silent), o.req.offset, n + 1)
             page(silent) == Page(part(silent), n, o.req.offset)
  <1>1. o \in CallRecord /\ Reads /\ o.at = "fetch" /\ o.req.tool = "search_messages"
    BY OwnRecord DEF SearchMessages, At
  <1>2. PICK silent \in SUBSET Searched(o.req) :
          ShowPage(c, page(silent), Chats(page(silent).items), silent = {})
    BY DEF SearchMessages
  <1>3. n \in Nat /\ o.req.offset \in Int /\ o.allowed \in SUBSET Jids
    <2>1. o.req.limit \in Int /\ o.req.offset \in Int
      BY <1>1 DEF CallRecord, Request
    <2> QED BY <1>1, <2>1, ClampType DEF CallRecord
  <1>4. Busy(c) /\ o.req.tool \notin GroupTools
    BY <1>1 DEF Busy, GroupTools
  <1> DEFINE H == hits(silent)
             R == {i \in H : Feed[i].chat \in o.allowed}
             P == Slice(R, o.req.offset, n + 1)
             G == Page(P, n, o.req.offset)
             J == Chats(G.items)
             whole == silent = {}
  <1>5. ShowPage(c, G, J, whole) /\ whole \in BOOLEAN
    BY <1>2
  <1> HIDE DEF o, n, whole
  <1>6. H \subseteq DOMAIN Feed
    BY HitsType
  <1> HIDE DEF H
  <1>7. \A i \in R : i \in Nat /\ Feed[i].chat \in o.allowed
    BY <1>6, FeedType
  <1> HIDE DEF R
  <1>8. P \subseteq R /\ P \in SUBSET Nat
    BY <1>7, SliceSubset
  <1> HIDE DEF P
  <1>9. G \in [items : SUBSET Nat, next : {NoMore} \cup Int] /\ G.items \subseteq R
    BY <1>3, <1>8, PageType
  <1> HIDE DEF G
  <1>10. J \in SUBSET Jids /\ J \subseteq o.allowed
    BY <1>3, <1>7, <1>9 DEF Chats
  <1> HIDE DEF J
  <1> QED BY <1>1, <1>4, <1>5, <1>9, <1>10, ShowPageCall DEF o

LEMMA FetchOneStep ==
    ASSUME IInv, NEW c \in Calls, FetchGroupInfo(c) \/ FetchMedia(c) PROVE IInv'
  <1> DEFINE o == call[c]
  <1>1. /\ o \in CallRecord /\ Control(o) /\ Reads
        /\ o.at = "fetch" /\ o.req.tool \in {"get_group_info", "get_media"}
        /\ Show(c, "shown", {o.req.jid})
    BY OwnRecord DEF FetchGroupInfo, FetchMedia, At
  <1>2. Busy(c) /\ o.req.tool \notin GroupTools /\ o.req.jid \in o.allowed
    BY <1>1 DEF Busy, GroupTools, Control, OneChat
  <1>3. {o.req.jid} \in SUBSET Jids /\ {o.req.jid} \subseteq o.allowed /\ "shown" \in Outcomes
    BY <1>1, <1>2 DEF CallRecord, Outcomes
  <1> QED BY <1>1, <1>2, <1>3, ShowCall

LEMMA WahaFailsStep ==
    ASSUME IInv, NEW c \in Calls, WahaFails(c) PROVE IInv'
  <1>1. Busy(c) /\ Reads /\ Fail(c)
    BY DEF WahaFails, At, Busy
  <1>2. "failed" \in Outcomes
    BY DEF Outcomes
  <1> QED BY <1>1, <1>2, EndCall

LEMMA GetChatStep ==
    ASSUME IInv, NEW c \in Calls, NEW j \in Jids, GetChat(c, j) PROVE IInv'
  <1> DEFINE o == call[c]
  <1>1. /\ o \in CallRecord /\ Control(o) /\ Evidence(o, seen[c]) /\ Reads
        /\ o.at = "matches" /\ j \in o.left
    BY OwnRecord DEF GetChat, At
  <1>2. Busy(c)
    BY <1>1 DEF Busy
  <1>3. CASE Refuse(c)
    BY <1>1, <1>2, <1>3, EndCall DEF Refuse, Outcomes
  <1>4. ASSUME NEW answers \in BOOLEAN,
               call' = [call EXCEPT ![c].left = @ \ {j}, ![c].smooth = @ /\ answers,
                                    ![c].current = IF answers THEN @ \cup {j} ELSE @]
        PROVE  IInv'
    <2> DEFINE L == o.left \ {j}
               M == o.smooth /\ answers
               K == IF answers THEN o.current \cup {j} ELSE o.current
               r == [o EXCEPT !.left = L, !.smooth = M, !.current = K]
    <2>1. call' = [call EXCEPT ![c] = r]
      BY <1>4
    <2>2. o.left \in SUBSET Jids /\ o.current \in SUBSET (Jids \cup Tags)
      BY <1>1 DEF CallRecord
    <2>3. o.current \cup o.left \subseteq o.found
      BY <1>1 DEF Control
    <2>4. L \in SUBSET Jids /\ K \in SUBSET (Jids \cup Tags) /\ K \cup L \subseteq o.found
      BY <1>1, <2>2, <2>3
    <2>5. M \in BOOLEAN
      OBVIOUS
    <2> HIDE DEF o, L, K, M
    <2>6. r \in CallRecord
      BY <1>1, <2>4, <2>5 DEF CallRecord
    <2>7. /\ r.at = o.at /\ r.using = o.using /\ r.req = o.req /\ r.allowed = o.allowed
          /\ r.found = o.found /\ r.current = K /\ r.left = L /\ r.groups = o.groups
          /\ r.shown = o.shown
      BY <1>1 DEF CallRecord
    <2> HIDE DEF r
    <2>8. Control(r)
      BY <1>1, <2>4, <2>7 DEF Control, Early, OfOthers
    <2>9. Evidence(r, seen[c])
      BY <1>1, <2>7 DEF Evidence, Vetted, InView, Joined
    <2> QED BY <1>1, <1>2, <2>1, <2>6, <2>8, <2>9, ReadStep
  <1> QED BY <1>3, <1>4 DEF GetChat

LEMMA ListMatchesStep ==
    ASSUME IInv, NEW c \in Calls, ListMatches(c) PROVE IInv'
  <1> DEFINE o    == call[c]
             n    == Clamp(o.req.limit)
             all  == 1 .. Cardinality(o.current)
             part == Slice(all, o.req.offset, n + 1)
             page == Page(part, n, o.req.offset)
  <1>1. /\ o \in CallRecord /\ Control(o) /\ Reads /\ o.at = "matches"
    BY OwnRecord DEF ListMatches, At
  <1>2. PICK J \in SUBSET o.current : ShowPage(c, page, J, o.smooth)
    BY DEF ListMatches
  <1>3. n \in Nat /\ o.req.offset \in Int /\ o.smooth \in BOOLEAN /\ o.found \in SUBSET Jids
    <2>1. o.req.limit \in Int /\ o.req.offset \in Int
      BY <1>1 DEF CallRecord, Request
    <2> QED BY <1>1, <2>1, ClampType DEF CallRecord
  <1>4. Busy(c) /\ o.req.tool \notin GroupTools
    BY <1>1 DEF Busy, Control, OfOthers
  <1>5. J \in SUBSET Jids /\ J \subseteq o.found
    BY <1>1, <1>2, <1>3 DEF Control
  <1> HIDE DEF o, n
  <1>6. all \subseteq Nat
    OBVIOUS
  <1> HIDE DEF all
  <1>7. part \in SUBSET Nat
    BY <1>6, SliceSubset
  <1> HIDE DEF part
  <1>8. page \in [items : SUBSET Nat, next : {NoMore} \cup Int]
    BY <1>3, <1>7, PageType
  <1> HIDE DEF page
  <1> QED BY <1>1, <1>2, <1>3, <1>4, <1>5, <1>8, ShowPageCall DEF o

-----------------------------------------------------------------------------
(* Groups.                                                                 *)

\* However the matches are answered, what is shown are matches.
LEMMA AnswerStep ==
    ASSUME IInv, Reads, NEW c \in Calls, Busy(c), NEW groups \in SUBSET Groups, NEW found,
           Joined(call[c], seen[c], groups),
           call[c].req.tags # {} => \E w \in seen[c] :
                                      found = Tagged(w, call[c].using, call[c].req.tags),
           AnswerGroups(c, groups, found)
    PROVE  IInv'
  <1> DEFINE o == call[c]
             matches == Matches(o, groups, found)
  <1>1. matches \subseteq o.allowed /\ matches \subseteq groups
    BY DEF Matches
  <1>2. o.req.tags # {} => matches \subseteq found
    BY DEF Matches
  <1>3. matches \in SUBSET Jids
    BY <1>1, ToolAssumption
  <1> DEFINE shows(J) == \E what \in Outcomes : Show(c, what, J)
             ends     == \E what \in Outcomes : End(c, what)
  <1>4. (\E J : J \subseteq matches /\ shows(J)) \/ ends
    <2> HIDE DEF matches
    <2>1. {"cancelled", "none_chosen", "selected", "stale", "no_match", "too_many", "asked", "shown"}
             \subseteq Outcomes
      BY DEF Outcomes
    <2>2. ASSUME NEW answer, ResolveChoice(c, answer, matches)
          PROVE  (\E J : J \subseteq matches /\ shows(J)) \/ ends
      BY <2>1, <2>2 DEF ResolveChoice
    <2>3. ASSUME NEW answer, ChooseGroup(c, answer, matches)
          PROVE  (\E J : J \subseteq matches /\ shows(J)) \/ ends
      BY <2>1, <2>2, <2>3 DEF ChooseGroup
    <2>4. CASE ChooseGroup(c, o.req.answer, matches)
      BY <2>3, <2>4
    <2>5. CASE Show(c, "shown", matches)
      BY <2>1, <2>5
    <2> QED BY <2>4, <2>5 DEF AnswerGroups, matches
  <1>5. CASE ends
    BY <1>5, EndCall
  <1>6. ASSUME NEW J, J \subseteq matches, shows(J) PROVE IInv'
    <2>1. PICK what \in Outcomes : Show(c, what, J)
      BY <1>6
    <2>2. J \in SUBSET Jids /\ J \subseteq o.allowed
      BY <1>1, <1>3, <1>6
    <2>3. Joined(o, seen[c], J)
      <3> HIDE DEF o
      <3>1. Joined(o, seen[c], groups)
        BY DEF o
      <3> QED BY <1>1, <1>6, <3>1 DEF Joined
    <2>4. Carrying(o, seen[c], J)
      BY <1>2, <1>6 DEF Carrying
    <2> QED BY <2>1, <2>2, <2>3, <2>4, ShowCall
  <1> QED BY <1>4, <1>5, <1>6

LEMMA FetchGroupsStep ==
    ASSUME IInv, NEW c \in Calls, FetchGroups(c) PROVE IInv'
  <1> DEFINE o == call[c]
             groups == {j \in Groups : <<o.using, j>> \in member}
             r == [o EXCEPT !.at = "search", !.groups = groups]
  <1>1. o \in CallRecord /\ Control(o) /\ Evidence(o, seen[c]) /\ o.at = "fetch" /\ Reads
    BY OwnRecord DEF FetchGroups, At
  <1>2. Busy(c) /\ World \in seen[c]
    BY <1>1 DEF Busy, IInv, Witnessed
  <1>3. Joined(o, seen[c], groups) /\ groups \in SUBSET Groups
    BY <1>2 DEF Joined, World
  <1>4. CASE o.req.tags = {} /\ AnswerGroups(c, groups, {})
    <2> HIDE DEF groups
    <2> QED BY <1>1, <1>2, <1>3, <1>4, AnswerStep
  <1>5. CASE call' = [call EXCEPT ![c].at = "search", ![c].groups = groups]
    <2>1. call' = [call EXCEPT ![c] = r]
      BY <1>5
    <2> HIDE DEF o, groups
    <2>2. r \in CallRecord
      BY <1>1, <1>3 DEF CallRecord, Steps
    <2>3. /\ r.at = "search" /\ r.using = o.using /\ r.req = o.req /\ r.allowed = o.allowed
          /\ r.found = o.found /\ r.current = o.current /\ r.groups = groups /\ r.shown = o.shown
      BY <1>1 DEF CallRecord
    <2> HIDE DEF r
    <2>4. Control(r)
      BY <1>1, <2>3 DEF Control, Early, OfOthers
    <2>5. Evidence(r, seen[c])
      BY <1>1, <1>3, <2>3 DEF Evidence, Vetted, InView, Joined
    <2> QED BY <1>1, <1>2, <2>1, <2>2, <2>4, <2>5, ReadStep
  <1> QED BY <1>4, <1>5 DEF FetchGroups

LEMMA SearchByTagsStep ==
    ASSUME IInv, NEW c \in Calls, SearchByTags(c) PROVE IInv'
  <1> DEFINE o == call[c]
             J == SeesTagged(c)
             r == [o EXCEPT !.at = "matches", !.found = J, !.left = J]
  <1>1. o \in CallRecord /\ Control(o) /\ Evidence(o, seen[c]) /\ o.at = "search" /\ Reads
    BY OwnRecord DEF SearchByTags, At
  <1>2. Busy(c) /\ World \in seen[c]
    BY <1>1 DEF Busy, IInv, Witnessed
  <1>3. J = Tagged(World, o.using, o.req.tags)
    BY DEF SeesTagged
  <1>4. CASE o.req.tool = "list_chats" /\ call' = [call EXCEPT ![c].at = "matches", ![c].found = J,
                                                            ![c].left = J]
    <2>1. call' = [call EXCEPT ![c] = r]
      BY <1>4
    <2> HIDE DEF o, J
    <2>2. J \in SUBSET Jids /\ J \subseteq Visible(World, o.using)
      BY <1>3, VisibleType
    <2>3. r \in CallRecord
      BY <1>1, <2>2 DEF CallRecord, Steps
    <2>4. /\ r.at = "matches" /\ r.using = o.using /\ r.req = o.req /\ r.allowed = o.allowed
          /\ r.found = J /\ r.left = J /\ r.current = o.current /\ r.groups = o.groups
          /\ r.shown = o.shown
      BY <1>1 DEF CallRecord
    <2> HIDE DEF r
    <2>5. Control(r)
      BY <1>1, <1>4, <2>4 DEF Control, Early, OfOthers, GroupTools
    <2>6. Evidence(r, seen[c])
      BY <1>1, <1>2, <2>2, <2>4 DEF Evidence, Vetted, InView, Joined
    <2> QED BY <1>1, <1>2, <2>1, <2>3, <2>5, <2>6, ReadStep
  <1>5. CASE AnswerGroups(c, o.groups, J)
    <2>1. o.groups \in SUBSET Groups /\ Joined(o, seen[c], o.groups)
      BY <1>1 DEF CallRecord, Evidence
    <2>2. \E w \in seen[c] : J = Tagged(w, o.using, o.req.tags)
      BY <1>2, <1>3
    <2> HIDE DEF J
    <2> QED BY <1>1, <1>2, <1>5, <2>1, <2>2, AnswerStep
  <1> QED BY <1>4, <1>5 DEF SearchByTags

-----------------------------------------------------------------------------
(* The world changes.                                                      *)

WorldParts ==
    /\ listed \in BOOLEAN /\ held \in SUBSET Accounts
    /\ allowed \in SUBSET (Accounts \X Jids)
    /\ tags \in [Accounts \X Jids -> SUBSET Tags]
    /\ keys \in [Accounts -> (SUBSET Actions) \cup {NoKey}]
    /\ member \in SUBSET (Accounts \X Groups)

LEMMA Parts == World \in Worlds <=> WorldParts
  BY DEF World, Worlds, WorldParts

LEMMA WorldStep ==
    ASSUME IInv, Changes, WorldParts' PROVE IInv'
  <1>1. call' = call /\ Observe(None) /\ World' \in Worlds /\ None \notin Calls
    BY ToolAssumption DEF Changes, World, Worlds, WorldParts
  <1>2. changes' \in 0 .. MaxChanges
    BY ToolAssumption DEF IInv, TypeOK, Changes
  <1>3. seen' \in [Calls -> SUBSET Worlds]
    BY <1>1 DEF Observe, IInv, TypeOK
  <1>4. TypeOK'
    BY <1>1, <1>2, <1>3 DEF IInv, TypeOK
  <1>5. ASSUME NEW c \in Calls
        PROVE  Control(call[c])' /\ Evidence(call[c], seen[c])' /\ Witnessed(c)'
    <2>1. call'[c] = call[c] /\ seen[c] \subseteq seen'[c]
      BY <1>1 DEF Observe
    <2>2. Control(call[c]) /\ Evidence(call[c], seen[c])
      BY DEF IInv
    <2>3. Evidence(call[c], seen'[c])
      BY <2>1, <2>2, EvidenceGrows
    <2>4. Witnessed(c)'
      BY <1>1 DEF Witnessed, Busy, Observe
    <2> QED BY <2>1, <2>2, <2>3, <2>4
  <1> QED BY <1>4, <1>5 DEF IInv

LEMMA WorldChangesStep ==
    ASSUME IInv, WorldChanges PROVE IInv'
  <1>1. WorldParts
    BY Parts DEF IInv, TypeOK
  <1>2. Groups \subseteq Jids /\ Targets \subseteq Accounts
    BY ToolAssumption
  <1>3. ASSUME NEW a \in Targets, NEW j \in Jids, ToggleAllowed(a, j) PROVE IInv'
    <2>1. WorldParts' /\ Changes
      BY <1>1, <1>2, <1>3 DEF ToggleAllowed, WorldParts
    <2> QED BY <2>1, WorldStep
  <1>4. ASSUME NEW a \in Targets, NEW j \in Jids, SaveMetadata(a, j) PROVE IInv'
    <2>1. WorldParts' /\ Changes
      BY <1>1, <1>2, <1>4 DEF SaveMetadata, WorldParts
    <2> QED BY <2>1, WorldStep
  <1>5. ASSUME NEW a \in Targets, GrantAccount(a) PROVE IInv'
    <2>1. WorldParts' /\ Changes
      BY <1>1, <1>2, <1>5 DEF GrantAccount, WorldParts
    <2> QED BY <2>1, WorldStep
  <1>6. ASSUME NEW A, RevokeAccounts(A)
        PROVE  /\ held' \in SUBSET Accounts /\ allowed' \in SUBSET (Accounts \X Jids)
               /\ tags' \in [Accounts \X Jids -> SUBSET Tags]
    BY <1>1, <1>6 DEF RevokeAccounts, WorldParts
  <1>7. ASSUME NEW a \in Targets, RevokeAccount(a) PROVE IInv'
    <2>1. WorldParts' /\ Changes
      BY <1>1, <1>6, <1>7 DEF RevokeAccount, WorldParts
    <2> QED BY <2>1, WorldStep
  <1>8. CASE RemoveUser
    <2>1. WorldParts' /\ Changes
      BY <1>1, <1>6, <1>8 DEF RemoveUser, WorldParts
    <2> QED BY <2>1, WorldStep
  <1>9. ASSUME NEW a \in Targets, ChangeKey(a) PROVE IInv'
    <2>1. WorldParts' /\ Changes
      BY <1>1, <1>2, <1>9 DEF ChangeKey, WorldParts, Actions
    <2> QED BY <2>1, WorldStep
  <1>10. ASSUME NEW a \in Targets, NEW j \in Groups, JoinOrLeaveGroup(a, j) PROVE IInv'
    <2>1. WorldParts' /\ Changes
      BY <1>1, <1>2, <1>10 DEF JoinOrLeaveGroup, WorldParts
    <2> QED BY <2>1, WorldStep
  <1> QED BY <1>3, <1>4, <1>5, <1>7, <1>8, <1>9, <1>10 DEF WorldChanges

-----------------------------------------------------------------------------
(* The other steps of a call.                                              *)

LEMMA ArriveStep ==
    ASSUME IInv, NEW c \in Calls, Arrive(c) PROVE IInv'
  <1>1. PICK q \in Requests : call' = [call EXCEPT ![c] = [Idle EXCEPT !.req = q, !.at = "auth"]]
    BY DEF Arrive
  <1> DEFINE r == [Idle EXCEPT !.req = q, !.at = "auth"]
  <1>2. q \in Request /\ (q.tool = "get_media" => q.message \in DOMAIN Feed)
    BY ToolAssumption
  <1>3. /\ r.at = "auth" /\ r.using = None /\ r.req = q /\ r.allowed = {} /\ r.found = {}
        /\ r.current = {} /\ r.groups = {} /\ r.shown = {}
    BY DEF Idle
  <1>4. r \in CallRecord
    BY <1>2 DEF Idle, CallRecord, Steps, Outcomes
  <1> HIDE DEF r
  <1>5. call' = [call EXCEPT ![c] = r]
    BY <1>1 DEF r
  <1>6. /\ call' \in [Calls -> CallRecord] /\ call'[c] = r
        /\ \A d \in Calls \ {c} : call'[d] = call[d]
    BY <1>4, <1>5, Slots DEF IInv
  <1>7. /\ World' = World /\ World \in Worlds /\ changes' = changes
        /\ seen' = [seen EXCEPT ![c] = {World}] /\ seen \in [Calls -> SUBSET Worlds]
    BY DEF Arrive, world, World, IInv, TypeOK
  <1>8. TypeOK'
    <2>1. seen' \in [Calls -> SUBSET Worlds]
      BY <1>7
    <2> QED BY <1>6, <1>7, <2>1 DEF IInv, TypeOK
  <1>9. ASSUME NEW d \in Calls
        PROVE  Control(call[d])' /\ Evidence(call[d], seen[d])' /\ Witnessed(d)'
    <2>1. CASE d = c
      <3>1. Control(r)
        BY <1>2, <1>3 DEF Control, Early, OfOthers
      <3>2. Evidence(r, {World})
        BY <1>3 DEF Evidence, Vetted, InView, Joined
      <3>3. seen'[d] = {World}
        BY <1>7, <2>1
      <3> QED BY <1>6, <1>7, <2>1, <3>1, <3>2, <3>3 DEF Witnessed
    <2>2. CASE d # c
      <3>1. call'[d] = call[d] /\ seen'[d] = seen[d]
        BY <1>6, <1>7, <2>2
      <3>2. Control(call'[d]) /\ Evidence(call'[d], seen'[d])
        BY <3>1 DEF IInv
      <3>3. Witnessed(d)'
        BY <1>7, <3>1 DEF IInv, Witnessed, Busy
      <3> QED BY <3>2, <3>3
    <2> QED BY <2>1, <2>2
  <1> QED BY <1>8, <1>9 DEF IInv

LEMMA IdleFacts ==
    /\ Idle \in CallRecord /\ Control(Idle) /\ Idle.at = "idle"
    /\ \A S : Evidence(Idle, S)
  <1>1. /\ Idle.at = "idle" /\ Idle.using = None /\ Idle.req = Blank /\ Idle.allowed = {}
        /\ Idle.found = {} /\ Idle.current = {} /\ Idle.groups = {} /\ Idle.shown = {}
    BY DEF Idle
  <1>2. Blank \in Request /\ Blank.tool = "list_chats"
    <2>1. 0 \in 0 .. Len(Feed)
      BY ToolAssumption
    <2> QED BY <2>1 DEF Blank, Request, Remote
  <1>3. Idle \in CallRecord
    BY <1>2 DEF Idle, CallRecord, Steps, Outcomes
  <1>4. Control(Idle)
    BY <1>1, <1>2 DEF Control, Early, OfOthers
  <1>5. \A S : Evidence(Idle, S)
    BY <1>1 DEF Evidence, Vetted, InView, Joined
  <1> QED BY <1>1, <1>3, <1>4, <1>5

LEMMA ReturnStep ==
    ASSUME IInv, NEW c \in Calls, Return(c) PROVE IInv'
  <1>1. call' = [call EXCEPT ![c] = Idle] /\ seen' = [seen EXCEPT ![c] = {}]
        /\ World' = World /\ changes' = changes
    BY DEF Return, world, World
  <1>2. /\ call' \in [Calls -> CallRecord] /\ call'[c] = Idle
        /\ \A d \in Calls \ {c} : call'[d] = call[d]
    BY <1>1, IdleFacts, Slots DEF IInv
  <1>3. seen \in [Calls -> SUBSET Worlds] /\ World \in Worlds
    BY DEF IInv, TypeOK
  <1>4. TypeOK'
    <2>1. seen' \in [Calls -> SUBSET Worlds]
      BY <1>1, <1>3
    <2> QED BY <1>1, <1>2, <2>1 DEF IInv, TypeOK
  <1>5. ASSUME NEW d \in Calls
        PROVE  Control(call[d])' /\ Evidence(call[d], seen[d])' /\ Witnessed(d)'
    <2>1. CASE d = c
      <3>1. ~Busy(d)'
        BY <1>2, <2>1, IdleFacts DEF Busy
      <3> QED BY <1>2, <2>1, <3>1, IdleFacts DEF Witnessed
    <2>2. CASE d # c
      <3>1. call'[d] = call[d] /\ seen'[d] = seen[d]
        BY <1>1, <1>2, <1>3, <2>2
      <3>2. Control(call'[d]) /\ Evidence(call'[d], seen'[d])
        BY <3>1 DEF IInv
      <3>3. Witnessed(d)'
        BY <1>1, <3>1 DEF IInv, Witnessed, Busy
      <3> QED BY <3>2, <3>3
    <2> QED BY <2>1, <2>2
  <1> QED BY <1>4, <1>5 DEF IInv

\* The one step of a call that changes the world ends the call.
LEMMA SaveTagsStep ==
    ASSUME IInv, NEW c \in Calls, SaveTags(c) PROVE IInv'
  <1> DEFINE o == call[c]
  <1>1. o \in CallRecord /\ Control(o) /\ Evidence(o, seen[c]) /\ o.at = "save"
    BY OwnRecord DEF SaveTags, At
  <1>2. /\ o.req.jid \in o.allowed /\ o.req.tool \notin GroupTools
        /\ o.req.tool \in {"add_tag", "remove_tag", "clear_tags"} /\ o.current \subseteq Tags
        /\ o.req.tags \subseteq Tags /\ o.shown = {}
    BY <1>1 DEF Control, OfOthers, CallRecord, Request
  <1>3. NewTags(o) \in SUBSET Tags
    <2> HIDE DEF o
    <2> QED BY <1>2 DEF NewTags
  <1>4. WorldParts' /\ Observe(c) /\ changes' = changes
    <2>1. WorldParts
      BY Parts DEF IInv, TypeOK
    <2>2. tags' = [tags EXCEPT ![<<o.using, o.req.jid>>] = NewTags(o)] \/ tags' = tags
      BY DEF SaveTags
    <2> HIDE DEF o
    <2>3. tags' \in [Accounts \X Jids -> SUBSET Tags]
      BY <1>3, <2>1, <2>2 DEF WorldParts
    <2> QED BY <2>1, <2>3 DEF WorldParts, SaveTags
  <1>5. \E r \in CallRecord : /\ call' = [call EXCEPT ![c] = r] /\ r.at = "done"
                             /\ Control(r) /\ Evidence(r, seen[c])
    <2>1. \E J \in {{}, {o.req.jid}}, what \in {"saved", "refused"} :
            call' = [call EXCEPT ![c] = [o EXCEPT !.at = "done", !.outcome = what, !.shown = J]]
      <3>1. CASE Show(c, "saved", {o.req.jid})
        BY <3>1 DEF Show
      <3>2. CASE Refuse(c)
        <4>1. call' = [call EXCEPT ![c] = [o EXCEPT !.at = "done", !.outcome = "refused"]]
          BY <3>2 DEF Refuse, End
        <4> HIDE DEF o
        <4>2. [o EXCEPT !.at = "done", !.outcome = "refused"]
                = [o EXCEPT !.at = "done", !.outcome = "refused", !.shown = {}]
          BY <1>1, <1>2 DEF CallRecord
        <4> QED BY <4>1, <4>2
      <3> QED BY <3>1, <3>2 DEF SaveTags
    <2>2. PICK J \in {{}, {o.req.jid}}, what \in {"saved", "refused"} :
            call' = [call EXCEPT ![c] = [o EXCEPT !.at = "done", !.outcome = what, !.shown = J]]
      BY <2>1
    <2> DEFINE r == [o EXCEPT !.at = "done", !.outcome = what, !.shown = J]
    <2>3. call' = [call EXCEPT ![c] = r]
      BY <2>2
    <2> HIDE DEF o
    <2>4. r \in CallRecord
      BY <1>1, <1>2 DEF CallRecord, Steps, Outcomes
    <2>5. /\ r.at = "done" /\ r.using = o.using /\ r.req = o.req /\ r.allowed = o.allowed
          /\ r.found = o.found /\ r.current = o.current /\ r.groups = o.groups /\ r.shown = J
      BY <1>1 DEF CallRecord
    <2> HIDE DEF r
    <2>6. Control(r)
      BY <1>1, <2>5 DEF Control, Early, OfOthers
    <2>7. InView(o, seen[c], o.allowed) /\ J \subseteq o.allowed
      BY <1>1, <1>2 DEF Evidence
    <2>8. Evidence(r, seen[c])
      BY <1>1, <1>2, <2>5, <2>7 DEF Evidence, Vetted, InView, Joined
    <2> QED BY <2>3, <2>4, <2>5, <2>6, <2>8
  <1>6. PICK r \in CallRecord : /\ call' = [call EXCEPT ![c] = r] /\ r.at = "done"
                              /\ Control(r) /\ Evidence(r, seen[c])
    BY <1>5
  <1>7. /\ call' \in [Calls -> CallRecord] /\ call'[c] = r
        /\ \A d \in Calls \ {c} : call'[d] = call[d]
    BY <1>6, Slots DEF IInv
  <1>8. World' \in Worlds /\ seen \in [Calls -> SUBSET Worlds]
    BY <1>4 DEF IInv, TypeOK, World, Worlds, WorldParts
  <1>9. seen' = [d \in Calls |-> IF Busy(d) /\ d # c THEN seen[d] \cup {World'} ELSE seen[d]]
    BY <1>4 DEF Observe
  <1>10. TypeOK'
    <2>1. seen' \in [Calls -> SUBSET Worlds]
      BY <1>8, <1>9
    <2> QED BY <1>4, <1>7, <1>8, <2>1 DEF IInv, TypeOK
  <1>11. ASSUME NEW d \in Calls
         PROVE  Control(call[d])' /\ Evidence(call[d], seen[d])' /\ Witnessed(d)'
    <2>1. CASE d = c
      <3>1. call'[d] = r /\ seen'[d] = seen[c] /\ ~Busy(d)'
        BY <1>6, <1>7, <1>9, <2>1 DEF Busy
      <3> QED BY <1>6, <3>1 DEF Witnessed
    <2>2. CASE d # c
      <3>1. call'[d] = call[d] /\ seen[d] \subseteq seen'[d]
        BY <1>7, <1>9, <2>2
      <3>2. Control(call[d]) /\ Evidence(call[d], seen[d])
        BY DEF IInv
      <3>3. Evidence(call[d], seen'[d])
        BY <3>1, <3>2, EvidenceGrows
      <3>4. Witnessed(d)'
        BY <1>9, <2>2, <3>1 DEF Witnessed, Busy
      <3> QED BY <3>1, <3>2, <3>3, <3>4
    <2> QED BY <2>1, <2>2
  <1> QED BY <1>10, <1>11 DEF IInv

-----------------------------------------------------------------------------
(* The theorems.                                                           *)

LEMMA InitInv == Init => IInv
  <1> SUFFICES ASSUME Init PROVE IInv
    OBVIOUS
  <1>1. WorldParts
    BY DEF Init, WorldParts
  <1>2. World \in Worlds
    BY <1>1, Parts
  <1>3. call \in [Calls -> CallRecord] /\ \A c \in Calls : call[c] = Idle
    BY IdleFacts DEF Init
  <1>4. seen \in [Calls -> SUBSET Worlds] /\ changes \in 0 .. MaxChanges
    BY ToolAssumption DEF Init
  <1>5. TypeOK
    BY <1>2, <1>3, <1>4 DEF TypeOK
  <1>6. ASSUME NEW c \in Calls
        PROVE  Control(call[c]) /\ Evidence(call[c], seen[c]) /\ Witnessed(c)
    BY <1>3, IdleFacts DEF Witnessed, Busy
  <1> QED BY <1>5, <1>6 DEF IInv

LEMMA NextInv == IInv /\ [Next]_vars => IInv'
  <1> SUFFICES ASSUME IInv, [Next]_vars PROVE IInv'
    OBVIOUS
  <1>1. CASE WorldChanges
    BY <1>1, WorldChangesStep
  <1>2. ASSUME NEW c \in Calls, WayIn(c) PROVE IInv'
    BY <1>2, ArriveStep, AuthorizeStep, ResolveScopeStep, TakeBridgeStep, ReturnStep DEF WayIn
  <1>3. ASSUME NEW c \in Calls, Database(c) PROVE IInv'
    BY <1>3, ReadAllowedStep, FindChatStep, RequireAllowedStep, ReadTagsStep, SaveTagsStep
    DEF Database
  <1>4. ASSUME NEW c \in Calls, Waha(c) PROVE IInv'
    BY <1>4, FetchChatsStep, FetchMessagesStep, SearchMessagesStep, FetchOneStep, FetchGroupsStep,
       SearchByTagsStep, ListMatchesStep, WahaFailsStep, GetChatStep
    DEF Waha
  <1>5. CASE UNCHANGED vars
    <2>1. call' = call /\ seen' = seen /\ changes' = changes /\ World' = World
      BY <1>5 DEF vars, world, World
    <2> QED BY <2>1 DEF IInv, TypeOK, Witnessed, Busy
  <1> QED BY <1>1, <1>2, <1>3, <1>4, <1>5 DEF Next

LEMMA Invariant == Spec => []IInv
  BY InitInv, NextInv, PTL DEF Spec

\* Every call, and what the history keeps of it, is well formed: the step that
\* follows a tool's check can rely on what the check left in the call.
THEOREM TypeCorrect == Spec => []TypeOK
  <1>1. IInv => TypeOK
    BY DEF IInv
  <1> QED BY <1>1, Invariant, PTL

\* The privacy boundary of tools.py, for any number of accounts, chats and
\* concurrent calls and any changes in between: what an answer shows was, at
\* one moment of the call, all of it visible to the caller.
THEOREM AnswersStayInView == Spec => []ShownWasAllowed
  <1>1. IInv => ShownWasAllowed
    BY DEF IInv, Evidence, InView, ShownWasAllowed, At
  <1> QED BY <1>1, Invariant, PTL

\* resolve_scope lets a call use only an account that the caller held and
\* whose own key allowed what the tool needs.
THEOREM AccountsAreVetted == Spec => []ScopeVetted
  <1>1. IInv => ScopeVetted
    BY DEF IInv, Evidence, Vetted, ScopeVetted
  <1> QED BY <1>1, Invariant, PTL

\* Groups that are listed, offered or chosen were joined, and tagged as asked,
\* during the call: a late reply to choose_group cannot revive an old match.
THEOREM GroupsAreNeverStale == Spec => []GroupsAreCurrent
  <1>1. IInv => GroupsAreCurrent
    BY DEF IInv, Evidence, Joined, Carrying, GroupsAreCurrent, At, GroupTools
  <1> QED BY <1>1, Invariant, PTL


-----------------------------------------------------------------------------
(* Calls during which nothing changes, and what a call remembers of tags.  *)

\* What the account in use has been checked for.
Chosen(r, w) ==
    /\ r.using \in w.held
    /\ r.req.account = r.using \/ (r.req.account = None /\ w.held = {r.using})
    /\ Allows(w, r.using, Required(r.req.tool))

\* What a call that only ever saw the world w has found out by each step.
Settled(r, w) ==
    /\ r.at # "auth" => w.listed /\ r.req.tool \notin Outbound
    /\ r.at \notin Early => Chosen(r, w)
    /\ r.at \notin Early \cup {"bridge"} => w.keys[r.using] # NoKey
    /\ r.at = "require" => OfOneChat(r.req) /\ r.req.jid = ChatOf(r.req)
    /\ r.at = "allowed" => ~OfOneChat(r.req)
    /\ r.at \in {"tags", "save", "fetch", "search", "matches"} /\ OfOneChat(r.req)
         => ChatOf(r.req) \in Visible(w, r.using)
    /\ r.at \in {"fetch", "search"} /\ r.req.tool \in GroupTools
         => r.allowed = Visible(w, r.using)
    /\ r.at = "search" /\ r.req.tool \in GroupTools
         => r.groups = {j \in Groups : <<r.using, j>> \in w.member} /\ r.req.tags # {}
    /\ r.at = "matches" => r.left \subseteq Visible(w, r.using)

\* What QuietCallsKeepPromises says of its answer.
GroupsPromised(r, w) ==
    LET G == Eligible(r.req, w, r.using)
    IN  /\ r.req.tool \in {"list_groups", "list_communities"} => r.shown = G
        /\ r.req.tool = "choose_group" =>
             CASE r.outcome = "asked"    -> /\ r.shown = G /\ G # {} /\ Cardinality(G) # 1
                                            /\ ~(Cardinality(G) > MaxGroupChoices)
               [] r.outcome = "selected" -> r.shown = IF r.req.answer = None THEN G
                                                      ELSE {r.req.answer} \cap G
               [] r.outcome = "stale"    -> r.req.answer \notin G
               [] r.outcome = "no_match" -> G = {}
               [] OTHER -> r.outcome = "too_many" \/ r.req.answer \in Replies

Promised(r, w) ==
    /\ r.outcome = "refused" <=> ~Entitled(r.req, w)
    /\ r.outcome # "refused" => GroupsPromised(r, w)

\* The account is still held, or all its tags were gone at some moment; the
\* tags that a call is about to change were the chat's at some moment.
Remembers(r, S, w) ==
    /\ r.at \notin Early => \/ r.using \in w.held
                           \/ \E v \in S : \A j \in Jids : v.tags[<<r.using, j>>] = {}
    /\ r.at = "save" /\ r.req.tool # "clear_tags" =>
         \E v \in S : r.current = v.tags[<<r.using, r.req.jid>>]

\* Only these tools put up with a call that WAHA does not answer.
Coping == {"get_media", "list_chats"}

Recalls(r, S, w) ==
    /\ r.at # "done" => r.outcome = "none"
    /\ r.at \notin {"idle", "done"} =>
         /\ Remembers(r, S, w)
         /\ r.at = "matches" => r.req.tool = "list_chats"
         /\ ~r.smooth => r.req.tool \in Coping
         /\ r.smooth /\ S = {w} => Settled(r, w)
    /\ r.at = "done" /\ r.smooth => \A v : S = {v} => Promised(r, v)

Recollection == \A c \in Calls : IsFiniteSet(seen[c]) /\ Recalls(call[c], seen[c], World)

-----------------------------------------------------------------------------
(* The ways a step changes the record of its call.                         *)

Alike(r, o) ==
    /\ r.req = o.req /\ r.using = o.using /\ r.allowed = o.allowed /\ r.groups = o.groups
    /\ r.found = o.found /\ r.left = o.left /\ r.current = o.current

OthersWait(c) == \A d \in Calls \ {c} : call'[d] = call[d]

LEMMA GoGives ==
    ASSUME TypeOK, NEW c \in Calls, NEW step, Go(c, step)
    PROVE  /\ OthersWait(c) /\ Alike(call'[c], call[c])
           /\ call'[c].at = step /\ call'[c].outcome = call[c].outcome
           /\ call'[c].smooth = call[c].smooth
  BY DEF Go, TypeOK, CallRecord, OthersWait, Alike

LEMMA EndGives ==
    ASSUME TypeOK, NEW c \in Calls, NEW what, End(c, what)
    PROVE  /\ OthersWait(c) /\ Alike(call'[c], call[c])
           /\ call'[c].at = "done" /\ call'[c].outcome = what
           /\ call'[c].smooth = call[c].smooth
  BY DEF End, TypeOK, CallRecord, OthersWait, Alike

LEMMA ShowGives ==
    ASSUME TypeOK, NEW c \in Calls, NEW what, NEW J, Show(c, what, J)
    PROVE  /\ OthersWait(c) /\ Alike(call'[c], call[c])
           /\ call'[c].at = "done" /\ call'[c].outcome = what /\ call'[c].shown = J
           /\ call'[c].smooth = call[c].smooth
  BY DEF Show, TypeOK, CallRecord, OthersWait, Alike

LEMMA ShowPageGives ==
    ASSUME TypeOK, NEW c \in Calls, NEW page, NEW J, NEW smooth, ShowPage(c, page, J, smooth)
    PROVE  /\ OthersWait(c) /\ Alike(call'[c], call[c])
           /\ call'[c].at = "done" /\ call'[c].outcome = "page" /\ call'[c].smooth = smooth
           /\ call'[c].page = page
  BY DEF ShowPage, TypeOK, CallRecord, OthersWait, Alike

LEMMA FailGives ==
    ASSUME TypeOK, NEW c \in Calls, Fail(c)
    PROVE  /\ OthersWait(c) /\ call'[c].at = "done" /\ call'[c].smooth = FALSE
  BY DEF Fail, TypeOK, CallRecord, OthersWait

-----------------------------------------------------------------------------
(* Steps and recollections.                                                *)

\* A step that only reads has to account for its own call.
LEMMA RecallStep ==
    ASSUME IInv, Recollection, Reads, NEW c \in Calls, OthersWait(c),
           Recalls(call'[c], seen[c], World)
    PROVE  Recollection'
  <1>1. World' = World /\ seen' = seen
    BY DEF Reads, world, World
  <1> SUFFICES ASSUME NEW d \in Calls
               PROVE  IsFiniteSet(seen'[d]) /\ Recalls(call'[d], seen'[d], World')
    BY DEF Recollection
  <1>2. IsFiniteSet(seen'[d]) /\ Recalls(call[d], seen[d], World)
    BY <1>1 DEF Recollection
  <1>3. CASE d = c
    BY <1>1, <1>2, <1>3
  <1>4. CASE d # c
    BY <1>1, <1>2, <1>4 DEF OthersWait
  <1> QED BY <1>3, <1>4

\* What is known of a call that is under way.
LEMMA UnderWay ==
    ASSUME IInv, Recollection, NEW c \in Calls, Busy(c)
    PROVE  /\ call[c] \in CallRecord /\ Control(call[c]) /\ World \in seen[c] /\ World \in Worlds
           /\ call[c].outcome = "none" /\ Remembers(call[c], seen[c], World)
           /\ call[c].at = "matches" => call[c].req.tool = "list_chats"
           /\ ~call[c].smooth => call[c].req.tool \in Coping
           /\ call[c].smooth /\ seen[c] = {World} => Settled(call[c], World)
  <1>1. call[c] \in CallRecord /\ Control(call[c]) /\ World \in seen[c] /\ World \in Worlds
    BY DEF IInv, TypeOK, Witnessed
  <1>2. Recalls(call[c], seen[c], World) /\ call[c].at \notin {"idle", "done"}
    BY DEF Recollection, Busy
  <1> QED BY <1>1, <1>2 DEF Recalls

\* Whoever passed the checks was entitled, in the one world there was ...
LEMMA EntitledCalls ==
    ASSUME NEW r \in CallRecord, NEW w \in Worlds, w.listed, r.req.tool \notin Outbound,
           Chosen(r, w), w.keys[r.using] # NoKey,
           OfOneChat(r.req) => ChatOf(r.req) \in Visible(w, r.using)
    PROVE  Entitled(r.req, w)
  BY DEF Entitled, Chosen

\* ... and whoever fails one with the account that was chosen was not.
LEMMA NotEntitled ==
    ASSUME NEW r \in CallRecord, NEW w \in Worlds, Chosen(r, w),
           \/ w.keys[r.using] = NoKey
           \/ OfOneChat(r.req) /\ ChatOf(r.req) \notin Visible(w, r.using)
    PROVE  ~Entitled(r.req, w)
  <1> SUFFICES ASSUME NEW a \in w.held, r.req.account = a \/ (r.req.account = None /\ w.held = {a})
               PROVE  a = r.using
    BY DEF Entitled
  <1>1. w.held \subseteq Accounts /\ None \notin Accounts
    BY ToolAssumption DEF Worlds
  <1> QED BY <1>1 DEF Chosen

LEMMA SettledCalls ==
    ASSUME NEW r \in CallRecord, NEW w \in Worlds, Settled(r, w),
           r.at \in {"tags", "save", "fetch", "search", "matches"}
    PROVE  Entitled(r.req, w)
  <1>1. /\ w.listed /\ r.req.tool \notin Outbound /\ Chosen(r, w) /\ w.keys[r.using] # NoKey
        /\ OfOneChat(r.req) => ChatOf(r.req) \in Visible(w, r.using)
    BY DEF Settled, Early
  <1> QED BY <1>1, EntitledCalls

\* A call that is refused must not have been entitled.
LEMMA RefusedStep ==
    ASSUME IInv, Recollection, Reads, NEW c \in Calls, Busy(c), Refuse(c),
           call[c].smooth /\ seen[c] = {World} => ~Entitled(call[c].req, World)
    PROVE  Recollection'
  <1>1. World \in seen[c]
    BY UnderWay
  <1>2. /\ OthersWait(c) /\ call'[c].req = call[c].req /\ call'[c].at = "done"
        /\ call'[c].outcome = "refused" /\ call'[c].smooth = call[c].smooth
    BY EndGives DEF Refuse, IInv, Alike
  <1>3. Recalls(call'[c], seen[c], World)
    BY <1>1, <1>2 DEF Recalls, Promised
  <1> QED BY <1>2, <1>3, RecallStep

\* A call that ends well was entitled, and a group tool shows what it must.
LEMMA AnsweredStep ==
    ASSUME IInv, Recollection, Reads, NEW c \in Calls, OthersWait(c), Busy(c),
           call[c].at \in {"tags", "save", "fetch", "search", "matches"},
           call'[c].at = "done", call'[c].outcome # "refused",
           call'[c].req = call[c].req, call'[c].using = call[c].using,
           call'[c].smooth => call[c].smooth \/ call[c].req.tool \notin Coping,
           call[c].req.tool \in GroupTools /\ call[c].smooth /\ seen[c] = {World}
             => GroupsPromised(call'[c], World)
    PROVE  Recollection'
  <1> DEFINE o == call[c]
             r == call'[c]
  <1>1. /\ o \in CallRecord /\ World \in seen[c] /\ World \in Worlds
        /\ ~o.smooth => o.req.tool \in Coping
        /\ o.smooth /\ seen[c] = {World} => Settled(o, World)
    BY UnderWay
  <1>2. ASSUME r.smooth, NEW v, seen[c] = {v} PROVE Promised(r, v)
    <2>1. v = World /\ o.smooth /\ Settled(o, World)
      BY <1>1, <1>2
    <2>2. Entitled(o.req, World)
      BY <1>1, <2>1, SettledCalls
    <2>3. r.req.tool \notin GroupTools => GroupsPromised(r, World)
      BY DEF GroupsPromised, GroupTools
    <2>4. GroupsPromised(r, World)
      BY <1>2, <2>1, <2>3
    <2> QED BY <2>1, <2>2, <2>4 DEF Promised
  <1>3. Recalls(r, seen[c], World)
    BY <1>2 DEF Recalls
  <1> QED BY <1>3, RecallStep

\* A call that goes on, with what it knows.
LEMMA OnwardStep ==
    ASSUME IInv, Recollection, Reads, NEW c \in Calls, OthersWait(c), Busy(c),
           call'[c].at \notin {"idle", "done"}, call'[c].outcome = call[c].outcome,
           call'[c].smooth => call[c].smooth,
           call'[c].at = "matches" => call'[c].req.tool = "list_chats",
           ~call'[c].smooth => call'[c].req.tool \in Coping,
           Remembers(call'[c], seen[c], World),
           call[c].smooth /\ seen[c] = {World} => Settled(call'[c], World)
    PROVE  Recollection'
  <1>1. call[c].outcome = "none"
    BY UnderWay
  <1>2. Recalls(call'[c], seen[c], World)
    BY <1>1 DEF Recalls
  <1> QED BY <1>2, RecallStep

\* The two middlewares.
LEMMA RecallAuthorize ==
    ASSUME IInv, Recollection, NEW c \in Calls, Authorize(c) \/ CheckServable(c)
    PROVE  Recollection'
  <1> DEFINE o == call[c]
  <1>1. Reads /\ Busy(c) /\ TypeOK /\ o.at \in {"auth", "servable"}
    BY DEF Authorize, CheckServable, At, Busy, IInv
  <1>2. /\ o \in CallRecord /\ World \in Worlds /\ Remembers(o, seen[c], World)
        /\ ~o.smooth => o.req.tool \in Coping
        /\ o.smooth /\ seen[c] = {World} => Settled(o, World)
    BY <1>1, UnderWay
  <1>3. CASE Refuse(c)
    <2>1. CASE Authorize(c)
      <3>1. ~World.listed \/ o.req.tool \in Outbound
        BY <1>3, <2>1, <1>1, GoGives, EndGives DEF Authorize, World, Refuse
      <3> QED BY <1>1, <1>3, <3>1, RefusedStep DEF Entitled
    <2>2. CASE CheckServable(c)
      <3>1. ~Servable(Required(o.req.tool))
        BY <1>3, <2>2, <1>1, GoGives, EndGives DEF CheckServable, Refuse
      <3>2. \A a \in World.held : ~Allows(World, a, Required(o.req.tool))
        BY <3>1 DEF Servable, World
      <3> QED BY <1>1, <1>3, <3>2, RefusedStep DEF Entitled
    <2> QED BY <2>1, <2>2
  <1>4. ASSUME NEW step \in {"servable", "resolve"}, Go(c, step),
               step = "servable" => World.listed /\ o.req.tool \notin Outbound,
               step = "resolve" => o.at = "servable"
        PROVE  Recollection'
    <2>1. /\ OthersWait(c) /\ Alike(call'[c], o) /\ call'[c].at = step
          /\ call'[c].outcome = o.outcome /\ call'[c].smooth = o.smooth
      BY <1>1, <1>4, GoGives
    <2>2. Remembers(call'[c], seen[c], World)
      BY <1>2, <2>1 DEF Remembers, Alike, Early
    <2>3. o.smooth /\ seen[c] = {World} => Settled(call'[c], World)
      BY <1>2, <1>4, <2>1 DEF Settled, Alike, Early
    <2> QED BY <1>1, <1>2, <2>1, <2>2, <2>3, OnwardStep DEF Alike
  <1>5. CASE Authorize(c)
    BY <1>3, <1>4, <1>5 DEF Authorize, World
  <1>6. CASE CheckServable(c)
    BY <1>3, <1>4, <1>6 DEF CheckServable, At
  <1> QED BY <1>5, <1>6

LEMMA RecallResolveScope ==
    ASSUME IInv, Recollection, NEW c \in Calls, ResolveScope(c) PROVE Recollection'
  <1> DEFINE o == call[c]
  <1>1. Reads /\ Busy(c) /\ TypeOK /\ o.at = "resolve"
    BY DEF ResolveScope, At, Busy, IInv
  <1>2. /\ o \in CallRecord /\ World \in Worlds /\ Remembers(o, seen[c], World)
        /\ ~o.smooth => o.req.tool \in Coping
        /\ o.smooth /\ seen[c] = {World} => Settled(o, World)
    BY <1>1, UnderWay
  <1>3. CASE /\ Refuse(c)
             /\ ~\E a \in Accounts : Resolves(o.req, a) /\ MayServe(a, Required(o.req.tool))
    <2>1. World.held \subseteq Accounts
      BY <1>2 DEF Worlds
    <2>2. ~Entitled(o.req, World)
      BY <1>3, <2>1 DEF Entitled, Resolves, MayServe, World
    <2> QED BY <1>1, <1>3, <2>2, RefusedStep
  <1>4. ASSUME NEW a \in Accounts, Resolves(o.req, a), MayServe(a, Required(o.req.tool)),
               call' = [call EXCEPT ![c].at = "bridge", ![c].using = a]
        PROVE  Recollection'
    <2>1. /\ OthersWait(c) /\ call'[c].at = "bridge" /\ call'[c].using = a
          /\ call'[c].req = o.req /\ call'[c].outcome = o.outcome /\ call'[c].smooth = o.smooth
      BY <1>1, <1>4 DEF OthersWait, TypeOK, CallRecord
    <2>2. /\ a \in World.held /\ (o.req.account = a \/ (o.req.account = None /\ World.held = {a}))
          /\ Allows(World, a, Required(o.req.tool))
      BY <1>4 DEF Resolves, MayServe, World
    <2>3. Remembers(call'[c], seen[c], World)
      BY <2>1, <2>2 DEF Remembers
    <2>4. o.smooth /\ seen[c] = {World} => Settled(call'[c], World)
      BY <1>1, <1>2, <2>1, <2>2 DEF Settled, Chosen, Early
    <2> QED BY <1>1, <1>2, <2>1, <2>3, <2>4, OnwardStep
  <1> QED BY <1>3, <1>4 DEF ResolveScope

LEMMA RecallTakeBridge ==
    ASSUME IInv, Recollection, NEW c \in Calls, TakeBridge(c) PROVE Recollection'
  <1> DEFINE o    == call[c]
             step == FirstRead(o.req)
  <1>1. Reads /\ Busy(c) /\ TypeOK /\ o.at = "bridge"
    BY DEF TakeBridge, At, Busy, IInv
  <1>2. /\ o \in CallRecord /\ World \in Worlds /\ Remembers(o, seen[c], World)
        /\ ~o.smooth => o.req.tool \in Coping
        /\ o.smooth /\ seen[c] = {World} => Settled(o, World)
    BY <1>1, UnderWay
  <1>3. CASE World.keys[o.using] = NoKey /\ Refuse(c)
    <2>1. o.smooth /\ seen[c] = {World} => Chosen(o, World)
      BY <1>1, <1>2 DEF Settled, Early
    <2>2. o.smooth /\ seen[c] = {World} => ~Entitled(o.req, World)
      BY <1>2, <1>3, <2>1, NotEntitled
    <2> QED BY <1>1, <1>3, <2>2, RefusedStep
  <1>4. CASE World.keys[o.using] # NoKey /\ Go(c, step)
    <2>1. /\ OthersWait(c) /\ Alike(call'[c], o) /\ call'[c].at = step
          /\ call'[c].outcome = o.outcome /\ call'[c].smooth = o.smooth
      BY <1>1, <1>4, GoGives
    <2>2. /\ step \in {"chatOf", "search", "allowed", "require"}
          /\ step \in {"search", "allowed"} => ~OfOneChat(o.req)
          /\ step = "search" => o.req.tool \notin GroupTools
      BY DEF FirstRead, OfOneChat, Local, GroupTools
    <2>3. o.req.tool \notin Outbound /\ step = "require"
             => OfOneChat(o.req) /\ o.req.jid = ChatOf(o.req)
      BY <1>2 DEF FirstRead, OfOneChat, ChatOf, CallRecord, Request, Local, Remote
    <2> HIDE DEF step
    <2>4. Remembers(call'[c], seen[c], World)
      BY <1>1, <1>2, <2>1, <2>2 DEF Remembers, Alike, Early
    <2>5. o.smooth /\ seen[c] = {World} => Settled(call'[c], World)
      <3> SUFFICES ASSUME Settled(o, World) PROVE Settled(call'[c], World)
        BY <1>2
      <3>1. World.listed /\ o.req.tool \notin Outbound /\ Chosen(o, World)
        BY <1>1 DEF Settled, Early
      <3>2. Chosen(call'[c], World)
        BY <2>1, <3>1 DEF Chosen, Alike
      <3> QED BY <1>4, <2>1, <2>2, <2>3, <3>1, <3>2 DEF Settled, Alike
    <2>6. call'[c].at \notin {"idle", "done", "matches"} /\ call'[c].req = o.req
      BY <2>1, <2>2 DEF Alike
    <2>7. ~call'[c].smooth => call'[c].req.tool \in Coping
      BY <1>2, <2>1, <2>6
    <2> QED BY <1>1, <2>1, <2>4, <2>5, <2>6, <2>7, OnwardStep
  <1> QED BY <1>3, <1>4 DEF TakeBridge, World

\* The reads of the database.
LEMMA RecallReadAllowed ==
    ASSUME IInv, Recollection, NEW c \in Calls, ReadAllowed(c) PROVE Recollection'
  <1> DEFINE o == call[c]
  <1>1. Reads /\ Busy(c) /\ TypeOK /\ o.at = "allowed"
    BY DEF ReadAllowed, At, Busy, IInv
  <1>2. /\ Remembers(o, seen[c], World) /\ (~o.smooth => o.req.tool \in Coping)
        /\ o.smooth /\ seen[c] = {World} => Settled(o, World)
    BY <1>1, UnderWay
  <1>3. /\ OthersWait(c) /\ call'[c].at = "fetch" /\ call'[c].using = o.using
        /\ call'[c].req = o.req /\ call'[c].outcome = o.outcome /\ call'[c].smooth = o.smooth
        /\ call'[c].allowed = Visible(World, o.using)
    BY <1>1 DEF ReadAllowed, Sees, OthersWait, TypeOK, CallRecord
  <1>4. Remembers(call'[c], seen[c], World)
    BY <1>1, <1>2, <1>3 DEF Remembers, Early
  <1>5. o.smooth /\ seen[c] = {World} => Settled(call'[c], World)
    BY <1>1, <1>2, <1>3 DEF Settled, Chosen, Early
  <1> QED BY <1>1, <1>2, <1>3, <1>4, <1>5, OnwardStep

LEMMA RecallFindChat ==
    ASSUME IInv, Recollection, NEW c \in Calls, FindChat(c) PROVE Recollection'
  <1> DEFINE o == call[c]
  <1>1. Reads /\ Busy(c) /\ TypeOK /\ o.at = "chatOf"
    BY DEF FindChat, At, Busy, IInv
  <1>2. /\ Remembers(o, seen[c], World) /\ o.req.tool = "get_media"
        /\ o.smooth /\ seen[c] = {World} => Settled(o, World)
    BY <1>1, UnderWay DEF Control
  <1>3. /\ OthersWait(c) /\ call'[c].at = "require" /\ call'[c].using = o.using
        /\ call'[c].req.tool = o.req.tool /\ call'[c].req.account = o.req.account
        /\ call'[c].req.message = o.req.message /\ call'[c].outcome = o.outcome
        /\ \/ call'[c].smooth = o.smooth /\ call'[c].req.jid = Feed[o.req.message].chat
           \/ call'[c].smooth = FALSE
    <2> DEFINE j == Feed[o.req.message].chat
    <2>1. \/ call' = [call EXCEPT ![c].at = "require", ![c].req.jid = j]
          \/ call' = [call EXCEPT ![c].at = "require", ![c].smooth = FALSE]
      BY DEF FindChat
    <2> HIDE DEF j
    <2>2. call \in [Calls -> CallRecord] /\ o.req \in Request
      BY <1>1 DEF TypeOK, CallRecord
    <2>3. CASE call' = [call EXCEPT ![c].at = "require", ![c].req.jid = j]
      <3>1. OthersWait(c) /\ call'[c] = [o EXCEPT !.at = "require", !.req = [o.req EXCEPT !.jid = j]]
        BY <2>2, <2>3 DEF OthersWait
      <3> HIDE DEF o
      <3>2. o \in CallRecord
        BY <2>2 DEF o
      <3> QED BY <2>2, <3>1, <3>2 DEF CallRecord, Request, j
    <2>4. CASE call' = [call EXCEPT ![c].at = "require", ![c].smooth = FALSE]
      BY <2>2, <2>4 DEF OthersWait, CallRecord
    <2> QED BY <2>1, <2>3, <2>4
  <1>4. Remembers(call'[c], seen[c], World)
    BY <1>1, <1>2, <1>3 DEF Remembers, Early
  <1>5. Recalls(call'[c], seen[c], World)
    <2>1. call'[c].smooth /\ seen[c] = {World} => Settled(call'[c], World)
      BY <1>1, <1>2, <1>3 DEF Settled, Chosen, Early, OfOneChat, ChatOf
    <2>2. call[c].outcome = "none"
      BY <1>1, UnderWay
    <2> QED BY <1>2, <1>3, <1>4, <2>1, <2>2 DEF Recalls, Coping
  <1> QED BY <1>1, <1>3, <1>5, RecallStep

LEMMA RecallRequireAllowed ==
    ASSUME IInv, Recollection, NEW c \in Calls, RequireAllowed(c) PROVE Recollection'
  <1> DEFINE o    == call[c]
             step == NextRead(o.req.tool)
  <1>1. Reads /\ Busy(c) /\ TypeOK /\ o.at = "require"
    BY DEF RequireAllowed, At, Busy, IInv
  <1>2. /\ o \in CallRecord /\ World \in Worlds /\ o.req.tool \notin GroupTools
        /\ Remembers(o, seen[c], World) /\ (~o.smooth => o.req.tool \in Coping)
        /\ o.smooth /\ seen[c] = {World} => Settled(o, World)
    BY <1>1, UnderWay DEF Control, OfOthers
  <1>3. CASE o.req.jid \notin Sees(c) /\ Refuse(c)
    <2>1. o.smooth /\ seen[c] = {World} => ~Entitled(o.req, World)
      BY <1>1, <1>2, <1>3, NotEntitled DEF Settled, Early, Sees
    <2> QED BY <1>1, <1>3, <2>1, RefusedStep
  <1>4. CASE o.req.jid \in Sees(c) /\ call' = [call EXCEPT ![c].at = step, ![c].allowed = Sees(c)]
    <2>1. /\ step \in {"tags", "save", "fetch"}
          /\ step = "save" => o.req.tool = "clear_tags"
      BY DEF NextRead
    <2> HIDE DEF step
    <2>2. /\ OthersWait(c) /\ call'[c].at = step /\ call'[c].using = o.using
          /\ call'[c].req = o.req /\ call'[c].outcome = o.outcome /\ call'[c].smooth = o.smooth
      BY <1>1, <1>4 DEF OthersWait, TypeOK, CallRecord
    <2>3. Remembers(call'[c], seen[c], World)
      BY <1>1, <1>2, <2>1, <2>2 DEF Remembers, Early
    <2>4. o.smooth /\ seen[c] = {World} => Settled(call'[c], World)
      BY <1>1, <1>2, <1>4, <2>1, <2>2 DEF Settled, Chosen, Early, Sees
    <2>5. call'[c].at \notin {"idle", "done", "matches"}
      BY <2>1, <2>2
    <2>6. ~call'[c].smooth => call'[c].req.tool \in Coping
      BY <1>2, <2>2
    <2> QED BY <1>1, <2>2, <2>3, <2>4, <2>5, <2>6, OnwardStep
  <1> QED BY <1>3, <1>4 DEF RequireAllowed

LEMMA RecallReadTags ==
    ASSUME IInv, Recollection, NEW c \in Calls, ReadTags(c) PROVE Recollection'
  <1> DEFINE o == call[c]
             T == TagsOf(o.using, o.req.jid)
  <1>1. Reads /\ Busy(c) /\ TypeOK /\ o.at = "tags"
    BY DEF ReadTags, At, Busy, IInv
  <1>2. /\ o \in CallRecord /\ World \in seen[c] /\ o.req.tool \notin GroupTools
        /\ o.req.jid \in Jids
        /\ Remembers(o, seen[c], World) /\ (~o.smooth => o.req.tool \in Coping)
        /\ o.smooth /\ seen[c] = {World} => Settled(o, World)
    BY <1>1, UnderWay DEF Control, OfOthers, CallRecord
  <1>3. CASE Show(c, "shown", {o.req.jid})
    BY <1>1, <1>2, <1>3, ShowGives, AnsweredStep DEF Alike
  <1>4. CASE call' = [call EXCEPT ![c].at = "save", ![c].current = T]
    <2>1. /\ OthersWait(c) /\ call'[c].at = "save" /\ call'[c].using = o.using /\ call'[c].current = T
          /\ call'[c].req = o.req /\ call'[c].outcome = o.outcome /\ call'[c].smooth = o.smooth
      <3> HIDE DEF T
      <3> QED BY <1>1, <1>4 DEF OthersWait, TypeOK, CallRecord
    <2>2. \E v \in seen[c] : T = v.tags[<<o.using, o.req.jid>>]
      <3>1. CASE o.using \in held
        BY <1>2, <3>1 DEF TagsOf, World
      <3>2. CASE o.using \notin held
        <4>1. PICK v \in seen[c] : \A j \in Jids : v.tags[<<o.using, j>>] = {}
          BY <1>1, <1>2, <3>2 DEF Remembers, Early, World
        <4> QED BY <1>2, <3>2, <4>1 DEF TagsOf
      <3> QED BY <3>1, <3>2
    <2> HIDE DEF T
    <2>3. Remembers(call'[c], seen[c], World)
      BY <1>1, <1>2, <2>1, <2>2 DEF Remembers, Early
    <2>4. o.smooth /\ seen[c] = {World} => Settled(call'[c], World)
      BY <1>1, <1>2, <2>1 DEF Settled, Chosen, Early
    <2> QED BY <1>1, <1>2, <2>1, <2>3, <2>4, OnwardStep
  <1> QED BY <1>3, <1>4 DEF ReadTags

\* WAHA's answers.
LEMMA RecallAnswers ==
    ASSUME IInv, Recollection, NEW c \in Calls,
           \/ FetchChats(c) \/ FetchMessages(c) \/ SearchMessages(c) \/ FetchGroupInfo(c)
           \/ FetchMedia(c) \/ ListMatches(c)
    PROVE  Recollection'
  <1>1. Reads /\ Busy(c) /\ TypeOK /\ call[c].at \in {"fetch", "matches"}
    BY DEF FetchChats, FetchMessages, SearchMessages, FetchGroupInfo, FetchMedia, ListMatches,
           At, Busy, IInv
  <1>2. /\ call[c].req.tool \notin GroupTools
        /\ call[c].at = "matches" => call[c].req.tool = "list_chats"
    BY <1>1, UnderWay DEF FetchChats, FetchMessages, SearchMessages, FetchGroupInfo, FetchMedia,
                          ListMatches, GroupTools, Control, OfOthers, At
  <1>3. ASSUME NEW page, NEW J, NEW smooth, ShowPage(c, page, J, smooth),
               smooth = call[c].smooth \/ call[c].req.tool \notin Coping
        PROVE  Recollection'
    BY <1>1, <1>2, <1>3, ShowPageGives, AnsweredStep DEF Alike
  <1>4. ASSUME NEW J, Show(c, "shown", J) PROVE Recollection'
    BY <1>1, <1>2, <1>4, ShowGives, AnsweredStep DEF Alike
  <1>5. CASE FetchChats(c)
    BY <1>3, <1>5 DEF FetchChats
  <1>6. CASE FetchMessages(c)
    BY <1>3, <1>6 DEF FetchMessages
  <1>7. CASE SearchMessages(c)
    <2>1. call[c].req.tool \notin Coping
      BY <1>7 DEF SearchMessages, Coping
    <2> QED BY <1>3, <1>7, <2>1 DEF SearchMessages
  <1>8. CASE FetchGroupInfo(c) \/ FetchMedia(c)
    BY <1>4, <1>8 DEF FetchGroupInfo, FetchMedia
  <1>9. CASE ListMatches(c)
    BY <1>3, <1>9 DEF ListMatches
  <1> QED BY <1>5, <1>6, <1>7, <1>8, <1>9

LEMMA RecallFails ==
    ASSUME IInv, Recollection, NEW c \in Calls, WahaFails(c) PROVE Recollection'
  <1>1. Reads /\ TypeOK /\ Fail(c)
    BY DEF WahaFails, IInv
  <1>2. OthersWait(c) /\ Recalls(call'[c], seen[c], World)
    BY <1>1, FailGives DEF Recalls
  <1> QED BY <1>1, <1>2, RecallStep

LEMMA RecallGetChat ==
    ASSUME IInv, Recollection, NEW c \in Calls, NEW j \in Jids, GetChat(c, j) PROVE Recollection'
  <1> DEFINE o == call[c]
  <1>1. Reads /\ Busy(c) /\ TypeOK /\ o.at = "matches" /\ j \in o.left
    BY DEF GetChat, At, Busy, IInv
  <1>2. /\ Remembers(o, seen[c], World) /\ o.req.tool = "list_chats"
        /\ o.smooth /\ seen[c] = {World} => Settled(o, World)
    BY <1>1, UnderWay
  <1>3. CASE j \notin Sees(c) /\ Refuse(c)
    <2>1. ~(o.smooth /\ seen[c] = {World})
      BY <1>1, <1>2, <1>3 DEF Settled, Sees
    <2> QED BY <1>1, <1>3, <2>1, RefusedStep
  <1>4. ASSUME NEW answers \in BOOLEAN,
               call' = [call EXCEPT ![c].left = @ \ {j}, ![c].smooth = @ /\ answers,
                                    ![c].current = IF answers THEN @ \cup {j} ELSE @]
        PROVE  Recollection'
    <2>1. /\ OthersWait(c) /\ call'[c].at = o.at /\ call'[c].using = o.using
          /\ call'[c].req = o.req /\ call'[c].outcome = o.outcome
          /\ call'[c].left \subseteq o.left /\ call'[c].smooth = (o.smooth /\ answers)
      <3> DEFINE K == IF answers THEN o.current \cup {j} ELSE o.current
                 M == o.smooth /\ answers
      <3>1. OthersWait(c) /\ call'[c] = [o EXCEPT !.left = o.left \ {j}, !.smooth = M, !.current = K]
        BY <1>1, <1>4 DEF TypeOK, OthersWait
      <3>2. o \in CallRecord
        BY <1>1 DEF TypeOK
      <3> HIDE DEF o, K, M
      <3>3. /\ call'[c].at = o.at /\ call'[c].using = o.using /\ call'[c].req = o.req
            /\ call'[c].outcome = o.outcome /\ call'[c].left = o.left \ {j} /\ call'[c].smooth = M
        BY <3>1, <3>2 DEF CallRecord
      <3> QED BY <3>1, <3>3 DEF M
    <2>2. Remembers(call'[c], seen[c], World)
      BY <1>1, <1>2, <2>1 DEF Remembers, Early
    <2>3. o.smooth /\ seen[c] = {World} => Settled(call'[c], World)
      BY <1>1, <1>2, <2>1 DEF Settled, Chosen, Early
    <2>4. call'[c].req.tool \in Coping
      BY <1>2, <2>1 DEF Coping
    <2> QED BY <1>1, <1>2, <2>1, <2>2, <2>3, <2>4, OnwardStep
  <1> QED BY <1>3, <1>4 DEF GetChat

\* What the tools leave out by its kind is what they are not about.
LEMMA KindSought ==
    ASSUME NEW q, q.tool \in GroupTools, NEW j \in Groups
    PROVE  OfKind(q, j) <=> j \in Sought(q)
  BY ToolAssumption DEF OfKind, Sought, GroupTools

\* What _find_groups keeps, in the one world there was, are the eligible groups.
LEMMA MatchesEligible ==
    ASSUME NEW r, NEW w, NEW groups, NEW found, r.req.tool \in GroupTools,
           r.allowed = Visible(w, r.using),
           groups = {j \in Groups : <<r.using, j>> \in w.member},
           r.req.tags # {} => found = Tagged(w, r.using, r.req.tags)
    PROVE  Matches(r, groups, found) = Eligible(r.req, w, r.using)
  <1> DEFINE V == Visible(w, r.using)
  <1>1. r.req.tags # {} => found = {j \in V : w.tags[<<r.using, j>>] \cap r.req.tags # {}}
    BY DEF Tagged
  <1>2. Sought(r.req) \subseteq Groups
    BY ToolAssumption DEF Sought
  <1>3. \A j \in Groups : OfKind(r.req, j) <=> j \in Sought(r.req)
    BY KindSought
  <1> HIDE DEF V
  <1> QED BY <1>1, <1>2, <1>3 DEF Matches, Eligible, V

LEMMA RecallGroups ==
    ASSUME IInv, Recollection, Reads, NEW c \in Calls, Busy(c), NEW groups, NEW found,
           call[c].at \in {"fetch", "search"},
           call[c].req.tool \in GroupTools /\ call[c].smooth /\ seen[c] = {World}
             => Matches(call[c], groups, found) = Eligible(call[c].req, World, call[c].using),
           AnswerGroups(c, groups, found)
    PROVE  Recollection'
  <1> DEFINE o == call[c]
             q == call[c].req
             matches == Matches(o, groups, found)
             quiet == q.tool \in GroupTools /\ o.smooth /\ seen[c] = {World}
             G == Eligible(q, World, o.using)
  <1>1. quiet => matches = G
    OBVIOUS
  <1>2. TypeOK
    BY DEF IInv
  <1>3. CASE q.tool = "choose_group" /\ ChooseGroup(c, q.answer, matches)
    <2> DEFINE n == call'[c]
    <2> HIDE DEF matches
    <2>1. \/ /\ q.answer = "cancel" /\ Show(c, "cancelled", matches)
          \/ /\ q.answer \in {"decline", "empty"} /\ End(c, "cancelled")
          \/ /\ q.answer = "none" /\ End(c, "none_chosen")
          \/ /\ q.answer # None /\ q.answer \in matches /\ Show(c, "selected", {q.answer})
          \/ /\ q.answer # None /\ q.answer \notin matches /\ End(c, "stale")
          \/ /\ q.answer = None /\ matches = {} /\ End(c, "no_match")
          \/ /\ q.answer = None /\ Show(c, "selected", matches)
          \/ /\ q.answer = None /\ End(c, "too_many")
          \/ /\ q.answer = None /\ matches # {} /\ Cardinality(matches) # 1
             /\ ~(Cardinality(matches) > MaxGroupChoices) /\ Show(c, "asked", matches)
      <3>1. CASE q.answer # None
        <4>1. ResolveChoice(c, q.answer, matches)
          BY <1>3, <3>1 DEF ChooseGroup
        <4> QED BY <3>1, <4>1 DEF ResolveChoice
      <3>2. CASE q.answer = None
        BY <1>3, <3>2 DEF ChooseGroup
      <3> QED BY <3>1, <3>2
    <2>2. /\ OthersWait(c) /\ Alike(n, o) /\ n.at = "done" /\ n.smooth = o.smooth
          /\ \/ /\ q.answer \in Replies /\ n.outcome \in {"cancelled", "none_chosen"}
             \/ /\ q.answer # None /\ q.answer \in matches /\ n.outcome = "selected"
                /\ n.shown = {q.answer}
             \/ /\ q.answer # None /\ q.answer \notin matches /\ n.outcome = "stale"
             \/ /\ matches = {} /\ n.outcome = "no_match"
             \/ /\ q.answer = None /\ n.outcome = "selected" /\ n.shown = matches
             \/ n.outcome = "too_many"
             \/ /\ matches # {} /\ Cardinality(matches) # 1
                /\ ~(Cardinality(matches) > MaxGroupChoices)
                /\ n.outcome = "asked" /\ n.shown = matches
      BY <1>2, <2>1, ShowGives, EndGives DEF Replies
    <2>3. n.req = o.req /\ n.using = o.using
      BY <2>2 DEF Alike
    <2>4. n.outcome # "refused"
      BY <2>2
    <2>5. quiet => GroupsPromised(n, World)
      <3> SUFFICES ASSUME quiet PROVE GroupsPromised(n, World)
        OBVIOUS
      <3>1. matches = G
        BY <1>1, <1>2
      <3> HIDE DEF n, G
      <3>2. CASE quiet
        BY <1>3, <2>2, <2>3, <3>1 DEF GroupsPromised, G
      <3> QED BY <3>2
    <2> HIDE DEF n, o
    <2> QED BY <2>2, <2>3, <2>4, <2>5, AnsweredStep DEF n, o
  <1>4. CASE q.tool # "choose_group" /\ Show(c, "shown", matches)
    <2> HIDE DEF matches
    <2>1. /\ OthersWait(c) /\ call'[c].req = q /\ call'[c].using = o.using /\ call'[c].at = "done"
          /\ call'[c].smooth = o.smooth /\ call'[c].shown = matches /\ call'[c].outcome = "shown"
      BY <1>2, <1>4, ShowGives DEF Alike
    <2>2. quiet => GroupsPromised(call'[c], World)
      BY <1>1, <1>2, <1>4, <2>1 DEF GroupsPromised
    <2> QED BY <2>1, <2>2, AnsweredStep
  <1> QED BY <1>3, <1>4 DEF AnswerGroups

LEMMA RecallFetchGroups ==
    ASSUME IInv, Recollection, NEW c \in Calls, FetchGroups(c) PROVE Recollection'
  <1> DEFINE o == call[c]
             groups == {j \in Groups : <<o.using, j>> \in member}
             quiet == o.smooth /\ seen[c] = {World}
  <1>1. Reads /\ Busy(c) /\ TypeOK /\ o.at = "fetch" /\ o.req.tool \in GroupTools
    BY DEF FetchGroups, At, Busy, IInv, GroupTools
  <1>2. /\ Remembers(o, seen[c], World) /\ (~o.smooth => o.req.tool \in Coping)
        /\ quiet => Settled(o, World)
    BY <1>1, UnderWay
  <1>3. quiet => o.allowed = Visible(World, o.using)
    BY <1>1, <1>2 DEF Settled
  <1>4. groups = {j \in Groups : <<o.using, j>> \in World.member}
    BY DEF World
  <1>5. CASE o.req.tags = {} /\ AnswerGroups(c, groups, {})
    <2>1. quiet => Matches(o, groups, {}) = Eligible(o.req, World, o.using)
      <3> HIDE DEF o, groups
      <3> QED BY <1>1, <1>3, <1>4, <1>5, MatchesEligible
    <2> HIDE DEF groups
    <2> QED BY <1>1, <1>5, <2>1, RecallGroups
  <1>6. CASE o.req.tags # {} /\ call' = [call EXCEPT ![c].at = "search", ![c].groups = groups]
    <2> HIDE DEF groups
    <2>1. /\ OthersWait(c) /\ call'[c].at = "search" /\ call'[c].using = o.using
          /\ call'[c].req = o.req /\ call'[c].outcome = o.outcome /\ call'[c].smooth = o.smooth
          /\ call'[c].groups = groups /\ call'[c].allowed = o.allowed
      BY <1>1, <1>6 DEF OthersWait, TypeOK, CallRecord
    <2>2. Remembers(call'[c], seen[c], World)
      BY <1>1, <1>2, <2>1 DEF Remembers, Early
    <2>3. quiet => Settled(call'[c], World)
      BY <1>1, <1>2, <1>4, <1>6, <2>1 DEF Settled, Chosen, Early
    <2>4. call'[c].at \notin {"idle", "done", "matches"}
      BY <2>1
    <2>5. ~call'[c].smooth => call'[c].req.tool \in Coping
      BY <1>2, <2>1
    <2> QED BY <1>1, <2>1, <2>2, <2>3, <2>4, <2>5, OnwardStep
  <1> QED BY <1>5, <1>6 DEF FetchGroups

LEMMA RecallSearchByTags ==
    ASSUME IInv, Recollection, NEW c \in Calls, SearchByTags(c) PROVE Recollection'
  <1> DEFINE o == call[c]
             J == SeesTagged(c)
             quiet == o.smooth /\ seen[c] = {World}
  <1>1. Reads /\ Busy(c) /\ TypeOK /\ o.at = "search"
    BY DEF SearchByTags, At, Busy, IInv
  <1>2. /\ Remembers(o, seen[c], World) /\ (~o.smooth => o.req.tool \in Coping)
        /\ quiet => Settled(o, World)
    BY <1>1, UnderWay
  <1>3. J = Tagged(World, o.using, o.req.tags)
    BY DEF SeesTagged
  <1>4. CASE o.req.tool = "list_chats" /\ call' = [call EXCEPT ![c].at = "matches", ![c].found = J,
                                                            ![c].left = J]
    <2>1. J \subseteq Visible(World, o.using)
      BY <1>3, VisibleType
    <2> HIDE DEF J
    <2>2. /\ OthersWait(c) /\ call'[c].at = "matches" /\ call'[c].using = o.using
          /\ call'[c].req = o.req /\ call'[c].outcome = o.outcome /\ call'[c].smooth = o.smooth
          /\ call'[c].left = J
      BY <1>1, <1>4 DEF OthersWait, TypeOK, CallRecord
    <2>3. Remembers(call'[c], seen[c], World)
      BY <1>1, <1>2, <2>2 DEF Remembers, Early
    <2>4. quiet => Settled(call'[c], World)
      BY <1>1, <1>2, <1>4, <2>1, <2>2 DEF Settled, Chosen, Early, OfOneChat, Local
    <2>5. /\ call'[c].at \notin {"idle", "done"} /\ call'[c].req.tool = "list_chats"
          /\ ~call'[c].smooth => call'[c].req.tool \in Coping
      BY <1>2, <1>4, <2>2
    <2> QED BY <1>1, <2>2, <2>3, <2>4, <2>5, OnwardStep
  <1>5. CASE AnswerGroups(c, o.groups, J)
    <2>1. o.req.tool \in GroupTools /\ quiet
            => Matches(o, o.groups, J) = Eligible(o.req, World, o.using)
      <3>1. o.req.tool \in GroupTools /\ quiet
              => /\ o.allowed = Visible(World, o.using)
                 /\ o.groups = {j \in Groups : <<o.using, j>> \in World.member}
        BY <1>1, <1>2 DEF Settled
      <3> HIDE DEF o, J
      <3> QED BY <1>3, <3>1, MatchesEligible
    <2> HIDE DEF J
    <2> QED BY <1>1, <1>5, <2>1, RecallGroups
  <1> QED BY <1>4, <1>5 DEF SearchByTags

-----------------------------------------------------------------------------
(* Steps that change what a call has seen.                                 *)

\* A call that starts has seen the world of now, and one that returned nothing.
LEMMA RecallArrive ==
    ASSUME IInv, Recollection, NEW c \in Calls, Arrive(c) PROVE Recollection'
  <1>1. PICK q \in Requests : call' = [call EXCEPT ![c] = [Idle EXCEPT !.req = q, !.at = "auth"]]
    BY DEF Arrive
  <1> DEFINE r == [Idle EXCEPT !.req = q, !.at = "auth"]
  <1>2. r.at = "auth" /\ r.outcome = "none" /\ r.smooth = TRUE
    BY DEF Idle
  <1> HIDE DEF r
  <1>3. call'[c] = r /\ OthersWait(c)
    BY <1>1 DEF r, IInv, TypeOK, OthersWait
  <1>4. World' = World /\ seen' = [seen EXCEPT ![c] = {World}] /\ seen \in [Calls -> SUBSET Worlds]
    BY DEF Arrive, world, World, IInv, TypeOK
  <1> SUFFICES ASSUME NEW d \in Calls
               PROVE  IsFiniteSet(seen'[d]) /\ Recalls(call'[d], seen'[d], World')
    BY DEF Recollection
  <1>5. CASE d = c
    <2>1. seen'[d] = {World} /\ IsFiniteSet({World})
      BY <1>4, <1>5, FS_Singleton
    <2>2. Recalls(r, {World}, World)
      BY <1>2 DEF Recalls, Remembers, Settled, Early
    <2> QED BY <1>3, <1>4, <1>5, <2>1, <2>2
  <1>6. CASE d # c
    <2>1. seen'[d] = seen[d] /\ call'[d] = call[d]
      BY <1>3, <1>4, <1>6 DEF OthersWait
    <2> QED BY <1>4, <2>1 DEF Recollection
  <1> QED BY <1>5, <1>6

LEMMA IdleRecalls == IsFiniteSet({}) /\ \A w : Recalls(Idle, {}, w)
  <1>1. Idle.at = "idle" /\ Idle.outcome = "none"
    BY DEF Idle
  <1> QED BY <1>1, FS_EmptySet DEF Recalls

LEMMA RecallReturn ==
    ASSUME IInv, Recollection, NEW c \in Calls, Return(c) PROVE Recollection'
  <1>1. World' = World /\ seen' = [seen EXCEPT ![c] = {}] /\ seen \in [Calls -> SUBSET Worlds]
    BY DEF Return, world, World, IInv, TypeOK
  <1>2. call'[c] = Idle /\ OthersWait(c)
    BY DEF Return, IInv, TypeOK, OthersWait
  <1> SUFFICES ASSUME NEW d \in Calls
               PROVE  IsFiniteSet(seen'[d]) /\ Recalls(call'[d], seen'[d], World')
    BY DEF Recollection
  <1>3. CASE d = c
    BY <1>1, <1>2, <1>3, IdleRecalls
  <1>4. CASE d # c
    BY <1>1, <1>2, <1>4 DEF Recollection, OthersWait
  <1> QED BY <1>3, <1>4

\* A call that is under way sees a change, which takes an account away only
\* together with its tags.
LEMMA RecallObserved ==
    ASSUME IInv, Recollection, NEW d \in Calls, call'[d] = call[d],
           seen'[d] = IF Busy(d) THEN seen[d] \cup {World'} ELSE seen[d],
           \A a \in held \ held' : \A j \in Jids : tags'[<<a, j>>] = {}
    PROVE  IsFiniteSet(seen'[d]) /\ Recalls(call'[d], seen'[d], World')
  <1> DEFINE o == call[d]
             W == World'
  <1>1. IsFiniteSet(seen[d]) /\ Recalls(o, seen[d], World)
    BY DEF Recollection
  <1>2. CASE ~Busy(d)
    <2>1. o.at \in {"idle", "done"} /\ seen'[d] = seen[d]
      BY <1>2 DEF Busy
    <2> QED BY <1>1, <2>1 DEF Recalls
  <1>3. CASE Busy(d)
    <2>1. seen'[d] = seen[d] \cup {W}
      BY <1>3
    <2>2. /\ o.outcome = "none" /\ Remembers(o, seen[d], World) /\ World \in seen[d]
          /\ o.at = "matches" => o.req.tool = "list_chats"
          /\ ~o.smooth => o.req.tool \in Coping
          /\ o.smooth /\ seen[d] = {World} => Settled(o, World)
      BY <1>3, UnderWay
    <2>3. /\ W.held = held' /\ W.tags = tags' /\ World.held = held
      BY DEF World
    <2> HIDE DEF W
    <2>4. IsFiniteSet(seen'[d])
      BY <1>1, <2>1, FS_AddElement
    <2>5. Remembers(o, seen'[d], W)
      <3>1. o.using \in World.held /\ o.using \notin W.held
              => \A j \in Jids : W.tags[<<o.using, j>>] = {}
        BY <2>3
      <3> HIDE DEF o
      <3> QED BY <2>1, <2>2, <3>1 DEF Remembers
    <2>6. o.smooth /\ seen'[d] = {W} => Settled(o, W)
      <3> SUFFICES ASSUME o.smooth, seen'[d] = {W} PROVE Settled(o, W)
        OBVIOUS
      <3>1. World = W /\ seen[d] = {World}
        BY <2>1, <2>2
      <3> QED BY <2>2, <3>1
    <2>7. o.at \notin {"idle", "done"}
      BY <1>3 DEF Busy
    <2>8. Recalls(o, seen'[d], W)
      <3> HIDE DEF o
      <3> QED BY <2>2, <2>5, <2>6, <2>7 DEF Recalls
    <2> QED BY <2>4, <2>8 DEF W
  <1> QED BY <1>2, <1>3

LEMMA RecallWorldChanges ==
    ASSUME IInv, Recollection, WorldChanges PROVE Recollection'
  <1>1. tags \in [Accounts \X Jids -> SUBSET Tags] /\ held \in SUBSET Accounts
    BY DEF IInv, TypeOK, World, Worlds
  <1>2. ASSUME NEW A, RevokeAccounts(A), NEW a \in held \ held', NEW j \in Jids
        PROVE  tags'[<<a, j>>] = {}
    BY <1>1, <1>2 DEF RevokeAccounts
  <1>3. Changes /\ \A a \in held \ held' : \A j \in Jids : tags'[<<a, j>>] = {}
    BY <1>2 DEF WorldChanges, ToggleAllowed, SaveMetadata, GrantAccount, RevokeAccount,
                ChangeKey, JoinOrLeaveGroup, RemoveUser
  <1>4. call' = call /\ \A d \in Calls : seen'[d] = IF Busy(d) THEN seen[d] \cup {World'} ELSE seen[d]
    <2>1. None \notin Calls
      BY ToolAssumption
    <2> QED BY <1>3, <2>1 DEF Changes, Observe
  <1> QED BY <1>3, <1>4, RecallObserved DEF Recollection

\* The call that saves tags in a world of its own is not refused.
LEMMA RecallSaveTags ==
    ASSUME IInv, Recollection, NEW c \in Calls, SaveTags(c) PROVE Recollection'
  <1> DEFINE o == call[c]
  <1>1. Busy(c) /\ TypeOK /\ o.at = "save"
    BY DEF SaveTags, At, Busy, IInv
  <1>2. /\ o \in CallRecord /\ World \in seen[c] /\ World \in Worlds /\ o.req.tool \notin GroupTools
        /\ ~o.smooth => o.req.tool \in Coping
        /\ o.smooth /\ seen[c] = {World} => Settled(o, World)
    BY <1>1, UnderWay DEF Control, OfOthers
  <1>3. /\ OthersWait(c) /\ call'[c].at = "done" /\ call'[c].req = o.req
        /\ call'[c].smooth = o.smooth
        /\ \/ call'[c].outcome = "saved"
           \/ call'[c].outcome = "refused" /\ o.using \notin World.held
    BY <1>1, ShowGives, EndGives DEF SaveTags, Refuse, Alike, World
  <1>4. Observe(c) /\ held' = held
    BY DEF SaveTags
  <1> SUFFICES ASSUME NEW d \in Calls
               PROVE  IsFiniteSet(seen'[d]) /\ Recalls(call'[d], seen'[d], World')
    BY DEF Recollection
  <1>5. CASE d = c
    <2>1. seen'[d] = seen[c] /\ IsFiniteSet(seen[c])
      BY <1>4, <1>5 DEF Observe, Recollection
    <2>2. ASSUME o.smooth, NEW v, seen[c] = {v} PROVE Promised(call'[c], v)
      <3>1. v = World /\ Settled(o, World)
        BY <1>2, <2>2
      <3>2. o.using \in World.held
        BY <1>1, <3>1 DEF Settled, Chosen, Early
      <3>3. Entitled(o.req, World)
        BY <1>1, <1>2, <3>1, SettledCalls
      <3>4. call'[c].req.tool \notin {"list_groups", "list_communities", "choose_group"}
        BY <1>2, <1>3 DEF GroupTools
      <3> QED BY <1>3, <3>1, <3>2, <3>3, <3>4 DEF Promised, GroupsPromised
    <2>3. \A w : Recalls(call'[c], seen[c], w)
      BY <1>3, <2>2 DEF Recalls
    <2> QED BY <1>5, <2>1, <2>3
  <1>6. CASE d # c
    <2>1. call'[d] = call[d] /\ seen'[d] = IF Busy(d) THEN seen[d] \cup {World'} ELSE seen[d]
      BY <1>3, <1>4, <1>6 DEF OthersWait, Observe
    <2> QED BY <1>4, <2>1, RecallObserved
  <1> QED BY <1>5, <1>6

LEMMA RecollectionInit == Init => Recollection
  BY IdleRecalls DEF Init, Recollection

LEMMA RecollectionNext == IInv /\ Recollection /\ [Next]_vars => Recollection'
  <1> SUFFICES ASSUME IInv, Recollection, [Next]_vars PROVE Recollection'
    OBVIOUS
  <1>1. CASE WorldChanges
    BY <1>1, RecallWorldChanges
  <1>2. ASSUME NEW c \in Calls, WayIn(c) PROVE Recollection'
    BY <1>2, RecallArrive, RecallAuthorize, RecallResolveScope, RecallTakeBridge, RecallReturn
    DEF WayIn
  <1>3. ASSUME NEW c \in Calls, Database(c) PROVE Recollection'
    BY <1>3, RecallReadAllowed, RecallFindChat, RecallRequireAllowed, RecallReadTags, RecallSaveTags
    DEF Database
  <1>4. ASSUME NEW c \in Calls, Waha(c) PROVE Recollection'
    BY <1>4, RecallAnswers, RecallFails, RecallGetChat, RecallFetchGroups, RecallSearchByTags
    DEF Waha
  <1>5. CASE UNCHANGED vars
    <2>1. call' = call /\ seen' = seen /\ World' = World
      BY <1>5 DEF vars, world, World
    <2> QED BY <2>1 DEF Recollection
  <1> QED BY <1>1, <1>2, <1>3, <1>4, <1>5 DEF Next

LEMMA Recollected == Spec => []Recollection
  BY Invariant, RecollectionInit, RecollectionNext, PTL DEF Spec

\* A call's step leaves the records of the other calls alone.
LEMMA OnlyItsOwn ==
    ASSUME TypeOK, NEW c \in Calls, NEW d \in Calls, c # d, WayIn(d) \/ Database(d) \/ Waha(d)
    PROVE  call'[c] = call[c]
  <1>1. call \in [Calls -> CallRecord]
    BY DEF TypeOK
  <1>2. CASE WayIn(d)
    BY <1>1, <1>2 DEF WayIn, Arrive, Authorize, CheckServable, ResolveScope, TakeBridge, Return,
                      Go, Refuse, End
  <1>3. CASE Database(d)
    BY <1>1, <1>3 DEF Database, ReadAllowed, FindChat, RequireAllowed, ReadTags, SaveTags,
                      Refuse, End, Show
  <1>4. ASSUME NEW groups, NEW found, AnswerGroups(d, groups, found) PROVE call'[c] = call[c]
    <2>1. \/ \E J, what : Show(d, what, J)
          \/ \E what : End(d, what)
      <3> DEFINE matches == Matches(call[d], groups, found)
                 answer == call[d].req.answer
      <3>1. CASE call[d].req.tool # "choose_group"
        BY <1>4, <3>1 DEF AnswerGroups
      <3>2. CASE ChooseGroup(d, answer, matches) /\ answer = None
        <4> HIDE DEF matches, answer
        <4> QED BY <3>2 DEF ChooseGroup
      <3>3. CASE ChooseGroup(d, answer, matches) /\ answer # None
        <4> HIDE DEF matches, answer
        <4>1. ResolveChoice(d, answer, matches)
          BY <3>3 DEF ChooseGroup
        <4> QED BY <4>1 DEF ResolveChoice
      <3> QED BY <1>4, <3>1, <3>2, <3>3 DEF AnswerGroups
    <2> QED BY <1>1, <2>1 DEF Show, End
  <1>5. CASE FetchGroups(d) \/ SearchByTags(d)
    BY <1>1, <1>4, <1>5 DEF FetchGroups, SearchByTags
  <1>6. CASE FetchChats(d) \/ FetchMessages(d) \/ SearchMessages(d) \/ ListMatches(d)
    <2>1. \E page, J, smooth : ShowPage(d, page, J, smooth)
      BY <1>6 DEF FetchChats, FetchMessages, SearchMessages, ListMatches
    <2> QED BY <1>1, <2>1 DEF ShowPage
  <1>7. CASE FetchGroupInfo(d) \/ FetchMedia(d) \/ WahaFails(d)
    BY <1>1, <1>7 DEF FetchGroupInfo, FetchMedia, WahaFails, Show, Fail
  <1>8. ASSUME NEW j \in Jids, GetChat(d, j) PROVE call'[c] = call[c]
    BY <1>1, <1>8 DEF GetChat, Refuse, End
  <1> QED BY <1>2, <1>3, <1>5, <1>6, <1>7, <1>8 DEF Waha

\* Adding, removing or clearing a chat's tags changes that chat's tags only,
\* and by exactly the tags given, if nobody else touched them during the call:
\* the two awaits of add_tag and remove_tag lose nothing that was there.
THEOREM TagsAreMerged == Spec => TagsMerged
  <1> DEFINE row(c) == <<call[c].using, call[c].req.jid>>
  <1>1. ASSUME IInv, Recollection, [Next]_vars, NEW c \in Calls, At(c, "save"),
               call'[c].outcome = "saved", \A w \in seen[c] : w.tags[row(c)] = tags[row(c)]
        PROVE  /\ \A other \in DOMAIN tags \ {row(c)} : tags'[other] = tags[other]
               /\ tags'[row(c)] = CASE call[c].req.tool = "add_tag"
                                         -> tags[row(c)] \cup call[c].req.tags
                                    [] call[c].req.tool = "remove_tag"
                                         -> tags[row(c)] \ call[c].req.tags
                                    [] call[c].req.tool = "clear_tags" -> {}
    <2> DEFINE o == call[c]
               T == tags[row(c)]
    <2>1. Busy(c) /\ o.at = "save" /\ TypeOK
      BY <1>1 DEF At, Busy, IInv
    <2>2. /\ o \in CallRecord /\ Control(o) /\ Remembers(o, seen[c], World) /\ o.outcome = "none"
      BY <1>1, <2>1, UnderWay
    <2>3. call' # call
      BY <1>1, <2>2
    <2>4. ~WorldChanges
      BY <2>3 DEF WorldChanges, ToggleAllowed, SaveMetadata, GrantAccount, RevokeAccount,
                  ChangeKey, JoinOrLeaveGroup, RemoveUser, Changes
    <2>5. WayIn(c) \/ Database(c) \/ Waha(c)
      <3>1. PICK d \in Calls : WayIn(d) \/ Database(d) \/ Waha(d)
        BY <1>1, <2>3, <2>4 DEF Next, vars
      <3> QED BY <1>1, <2>1, <2>2, <3>1, OnlyItsOwn
    <2>6. SaveTags(c)
      BY <2>1, <2>5 DEF WayIn, Database, Waha, Arrive, Authorize, CheckServable, ResolveScope,
         TakeBridge, Return, ReadAllowed, FindChat, RequireAllowed, ReadTags, FetchChats,
         FetchMessages, SearchMessages, FetchGroupInfo, FetchMedia, FetchGroups, SearchByTags,
         ListMatches, WahaFails, GetChat, At
    <2>7. o.using \in held /\ tags' = [tags EXCEPT ![row(c)] = NewTags(o)]
      BY <1>1, <2>1, <2>6, EndGives DEF SaveTags, Refuse
    <2>8. /\ o.req.jid \in Jids /\ o.req.tool \in {"add_tag", "remove_tag", "clear_tags"}
          /\ tags \in [Accounts \X Jids -> SUBSET Tags] /\ o.using \in Accounts
      BY <2>1, <2>2, <2>7 DEF Control, CallRecord, TypeOK, World, Worlds
    <2>9. o.req.tool # "clear_tags" => o.current = T
      BY <1>1, <2>1, <2>2 DEF Remembers
    <2>10. tags'[row(c)] = NewTags(o) /\ \A other \in DOMAIN tags \ {row(c)} : tags'[other] = tags[other]
      BY <2>7, <2>8
    <2> HIDE DEF o, T
    <2>11. NewTags(o) = CASE o.req.tool = "add_tag"    -> T \cup o.req.tags
                          [] o.req.tool = "remove_tag" -> T \ o.req.tags
                          [] o.req.tool = "clear_tags" -> {}
      BY <2>8, <2>9 DEF NewTags
    <2> QED BY <2>10, <2>11 DEF o, T
  <1>2. IInv /\ Recollection /\ [Next]_vars
          => [\A c \in Calls :
                LET q   == call[c].req
                    r   == <<call[c].using, q.jid>>
                IN  /\ At(c, "save") /\ call'[c].outcome = "saved"
                    /\ \A w \in seen[c] : w.tags[r] = tags[r]
                    => /\ \A other \in DOMAIN tags \ {r} : tags'[other] = tags[other]
                       /\ tags'[r] = CASE q.tool = "add_tag"    -> tags[r] \cup q.tags
                                       [] q.tool = "remove_tag" -> tags[r] \ q.tags
                                       [] q.tool = "clear_tags" -> {}]_vars
    BY <1>1
  <1> QED BY <1>2, Invariant, Recollected, PTL DEF Spec, TagsMerged

\* While nothing changes and WAHA answers, all the checks of a call amount to
\* the one that Entitled states, group tools show exactly the eligible groups,
\* and choose_group takes no decision that is the user's.
THEOREM QuietCallsAreFair ==
    ASSUME IsFiniteSet(Groups) PROVE Spec => []QuietCallsKeepPromises
  <1>1. ASSUME Recollection, NEW c \in Calls, At(c, "done"), call[c].smooth,
               Cardinality(seen[c]) = 1
        PROVE  Promised(call[c], CHOOSE v \in seen[c] : TRUE)
    <2>1. PICK v : seen[c] = {v}
      BY <1>1, FS_Singleton DEF Recollection
    <2>2. Promised(call[c], v)
      BY <1>1, <2>1 DEF Recollection, Recalls, At
    <2>3. v = CHOOSE x \in seen[c] : TRUE
      BY <2>1
    <2> QED BY <2>2, <2>3
  <1>2. ASSUME NEW r, NEW w PROVE LET G == Eligible(r.req, w, r.using)
                                  IN  G # {} /\ Cardinality(G) # 1 /\ ~(Cardinality(G) > MaxGroupChoices)
                                        => Cardinality(G) \in 2 .. MaxGroupChoices
    <2> DEFINE G == Eligible(r.req, w, r.using)
    <2>1. G \subseteq Groups
      BY ToolAssumption DEF Eligible, Sought
    <2> HIDE DEF G
    <2>2. IsFiniteSet(G)
      BY <2>1, FS_Subset
    <2>3. Cardinality(G) \in Nat /\ (Cardinality(G) = 0 <=> G = {})
      BY <2>2, FS_CardinalityType, FS_EmptySet
    <2>4. G # {} /\ Cardinality(G) # 1 /\ ~(Cardinality(G) > MaxGroupChoices)
            => Cardinality(G) \in 2 .. MaxGroupChoices
      BY <2>3, ToolAssumption
    <2> QED BY <2>4 DEF G
  <1> DEFINE Fair(r, w) ==
               LET G == Eligible(r.req, w, r.using)
               IN  /\ r.outcome = "refused" <=> ~Entitled(r.req, w)
                   /\ r.outcome # "refused" =>
                      /\ r.req.tool \in {"list_groups", "list_communities"} => r.shown = G
                      /\ r.req.tool = "choose_group" =>
                           CASE r.outcome = "asked"    -> r.shown = G /\ Cardinality(G) \in 2 .. MaxGroupChoices
                             [] r.outcome = "selected" -> r.shown = IF r.req.answer = None THEN G
                                                                    ELSE {r.req.answer} \cap G
                             [] r.outcome = "stale"    -> r.req.answer \notin G
                             [] r.outcome = "no_match" -> G = {}
                             [] OTHER -> r.outcome = "too_many" \/ r.req.answer \in Replies
  <1>3. ASSUME NEW r, NEW w, Promised(r, w) PROVE Fair(r, w)
    BY <1>2, <1>3 DEF Promised, GroupsPromised
  <1>4. Recollection => \A c \in Calls : At(c, "done") /\ call[c].smooth /\ Cardinality(seen[c]) = 1
                                          => Fair(call[c], CHOOSE v \in seen[c] : TRUE)
    <2> HIDE DEF Fair
    <2> QED BY <1>1, <1>3
  <1>5. Recollection => QuietCallsKeepPromises
    BY <1>4 DEF QuietCallsKeepPromises
  <1> QED BY <1>5, Recollected, PTL


-----------------------------------------------------------------------------
(* Lists as sets of positions: ranks, slices and pages.                    *)

LEMMA RankType ==
    ASSUME NEW S \in SUBSET Nat, IsFiniteSet(S), NEW i \in S
    PROVE  Rank(S, i) \in 1 .. Cardinality(S)
  <1> DEFINE below == {k \in S : k <= i}
  <1>1. below \in SUBSET S /\ below # {}
    OBVIOUS
  <1> HIDE DEF below
  <1>2. /\ IsFiniteSet(below) /\ Cardinality(below) <= Cardinality(S)
        /\ Cardinality(below) \in Nat /\ Cardinality(S) \in Nat
    BY <1>1, FS_Subset, FS_CardinalityType
  <1>3. Cardinality(below) # 0
    BY <1>1, <1>2, FS_EmptySet
  <1> QED BY <1>2, <1>3 DEF Rank, below

\* Ranks keep the order of the positions.
LEMMA RankOrder ==
    ASSUME NEW S \in SUBSET Nat, IsFiniteSet(S), NEW i \in S, NEW j \in S
    PROVE  i <= j <=> Rank(S, i) <= Rank(S, j)
  <1>1. ASSUME NEW a \in S, NEW b \in S, a < b PROVE Rank(S, a) < Rank(S, b)
    <2> DEFINE A == {k \in S : k <= a}
               B == {k \in S : k <= b}
    <2>1. A \in SUBSET B /\ B \in SUBSET S
      <3>1. \A k \in S : k <= a => k <= b
        BY <1>1
      <3> QED BY <3>1
    <2>2. b \in B /\ b \notin A
      BY <1>1
    <2> HIDE DEF A, B
    <2>3. IsFiniteSet(B)
      BY <2>1, FS_Subset
    <2>4. IsFiniteSet(A) /\ Cardinality(A) <= Cardinality(B) /\ Cardinality(A) # Cardinality(B)
      BY <2>1, <2>2, <2>3, FS_Subset
    <2>5. Cardinality(A) < Cardinality(B)
      BY <2>3, <2>4, FS_CardinalityType
    <2> QED BY <2>5 DEF Rank, A, B
  <1>2. Rank(S, i) \in Nat /\ Rank(S, j) \in Nat
    BY RankType, FS_CardinalityType
  <1> QED BY <1>1, <1>2

\* Every place of the list is some position's.
LEMMA RankOnto ==
    ASSUME NEW S \in SUBSET Nat, IsFiniteSet(S), NEW n \in 1 .. Cardinality(S)
    PROVE  \E i \in S : Rank(S, i) = n
  <1> DEFINE N == Cardinality(S)
             f == [i \in S |-> Rank(S, i)]
  <1>1. N \in Nat /\ IsFiniteSet(1 .. N) /\ Cardinality(1 .. N) = N
    BY FS_CardinalityType, FS_Interval
  <1>2. f \in Injection(S, 1 .. N)
    <2>1. f \in [S -> 1 .. N]
      BY RankType
    <2>2. ASSUME NEW i \in S, NEW j \in S, f[i] = f[j] PROVE i = j
      BY <2>2, RankOrder, RankType
    <2> QED BY <2>1, <2>2 DEF Injection, IsInjective
  <1>3. f \in Surjection(S, 1 .. N)
    <2> HIDE DEF f
    <2> QED BY <1>1, <1>2, FS_Injection
  <1> QED BY <1>3 DEF Surjection

LEMMA InSlice ==
    ASSUME NEW S \in SUBSET Nat, IsFiniteSet(S), NEW o \in Nat, NEW n \in Nat
    PROVE  /\ Slice(S, o, n) \subseteq S
           /\ \A i \in S : /\ i \in Slice(S, o, n) <=> o < Rank(S, i) /\ Rank(S, i) <= o + n
                           /\ Rank(S, i) \in Nat /\ 0 < Rank(S, i) /\ Rank(S, i) <= Cardinality(S)
  <1>1. Slice(S, o, n) \subseteq S
    BY SliceSubset
  <1>2. ASSUME NEW i \in S
        PROVE  /\ i \in Slice(S, o, n) <=> o < Rank(S, i) /\ Rank(S, i) <= o + n
               /\ Rank(S, i) \in Nat /\ 0 < Rank(S, i) /\ Rank(S, i) <= Cardinality(S)
    <2>1. Rank(S, i) \in Nat /\ 0 < Rank(S, i) /\ Rank(S, i) <= Cardinality(S)
      BY RankType, FS_CardinalityType
    <2>2. i \in Slice(S, o, n) <=> Rank(S, i) \in o + 1 .. o + n
      BY SliceNat
    <2> QED BY <2>1, <2>2
  <1> QED BY <1>1, <1>2

\* A slice is as long as it may be.
LEMMA SliceSize ==
    ASSUME NEW S \in SUBSET Nat, IsFiniteSet(S), NEW o \in Nat, NEW n \in Nat,
           o + n <= Cardinality(S)
    PROVE  IsFiniteSet(Slice(S, o, n)) /\ Cardinality(Slice(S, o, n)) = n
  <1> DEFINE T == Slice(S, o, n)
             R == o + 1 .. o + n
             f == [i \in T |-> Rank(S, i)]
  <1>1. T \subseteq S /\ \A i \in S : i \in T <=> Rank(S, i) \in R
    BY SliceNat
  <1> HIDE DEF T
  <1>2. IsFiniteSet(T)
    BY <1>1, FS_Subset
  <1>3. f \in [T -> R]
    BY <1>1
  <1>4. ASSUME NEW i \in T, NEW j \in T, f[i] = f[j] PROVE i = j
    <2>1. i \in S /\ j \in S /\ Rank(S, i) = Rank(S, j)
      BY <1>1, <1>4
    <2>2. Rank(S, i) \in Nat /\ i \in Nat /\ j \in Nat
      BY <2>1, RankType, FS_CardinalityType
    <2> QED BY <2>1, <2>2, RankOrder
  <1>5. \A k \in R : \E i \in T : f[i] = k
    <2> SUFFICES ASSUME NEW k \in R PROVE \E i \in T : f[i] = k
      OBVIOUS
    <2>1. k \in 1 .. Cardinality(S)
      BY FS_CardinalityType
    <2> QED BY <1>1, <2>1, RankOnto
  <1>6. f \in Bijection(T, R)
    <2> HIDE DEF f
    <2> QED BY <1>3, <1>4, <1>5 DEF Bijection, Injection, IsInjective, Surjection
  <1>7. ExistsBijection(T, R)
    <2> HIDE DEF f
    <2> QED BY <1>6 DEF ExistsBijection
  <1>8. Cardinality(R) = n
    BY FS_Interval
  <1> QED BY <1>2, <1>7, <1>8, FS_Bijection DEF T

LEMMA SliceRank ==
    ASSUME NEW S \in SUBSET Nat, IsFiniteSet(S), NEW o \in Nat, NEW n \in Nat,
           NEW i \in Slice(S, o, n)
    PROVE  Rank(Slice(S, o, n), i) = Rank(S, i) - o
  <1> DEFINE T == Slice(S, o, n)
             m == Rank(S, i) - o
  <1>1. i \in S /\ Rank(S, i) \in o + 1 .. o + n /\ Rank(S, i) <= Cardinality(S)
        /\ Rank(S, i) \in Nat /\ Cardinality(S) \in Nat
    <2>1. i \in S /\ Rank(S, i) \in o + 1 .. o + n
      BY SliceNat
    <2> QED BY <2>1, RankType, FS_CardinalityType
  <1>2. m \in Nat /\ m <= n /\ o + m = Rank(S, i)
    BY <1>1
  <1>3. {k \in T : k <= i} = Slice(S, o, m)
    <2>1. T \subseteq S /\ Slice(S, o, m) \subseteq S
      BY SliceSubset
    <2>2. ASSUME NEW k \in S PROVE k \in T /\ k <= i <=> k \in Slice(S, o, m)
      <3>1. k <= i <=> Rank(S, k) <= Rank(S, i)
        BY <1>1, RankOrder
      <3>2. /\ k \in T <=> o < Rank(S, k) /\ Rank(S, k) <= o + n
            /\ k \in Slice(S, o, m) <=> o < Rank(S, k) /\ Rank(S, k) <= o + m
            /\ Rank(S, k) \in Nat
        <4> HIDE DEF m
        <4> QED BY <1>2, InSlice
      <3> HIDE DEF T, m
      <3> QED BY <1>1, <1>2, <3>1, <3>2
    <2> HIDE DEF T, m
    <2> QED BY <2>1, <2>2
  <1>4. Cardinality(Slice(S, o, m)) = m
    <2> HIDE DEF m
    <2> QED BY <1>1, <1>2, SliceSize
  <1> QED BY <1>3, <1>4 DEF Rank

LEMMA SliceOfSlice ==
    ASSUME NEW S \in SUBSET Nat, IsFiniteSet(S), NEW o \in Nat, NEW n \in Nat, NEW m \in Nat,
           m <= n
    PROVE  Slice(Slice(S, o, n), 0, m) = Slice(S, o, m)
  <1> DEFINE T == Slice(S, o, n)
  <1>1. T \in SUBSET Nat /\ IsFiniteSet(T) /\ T \subseteq S
    BY SliceSubset, FS_Subset
  <1>2. \A i \in T : Rank(T, i) = Rank(S, i) - o
    BY SliceRank
  <1>3. \A i \in S : /\ i \in T <=> o < Rank(S, i) /\ Rank(S, i) <= o + n
                     /\ i \in Slice(S, o, m) <=> o < Rank(S, i) /\ Rank(S, i) <= o + m
                     /\ Rank(S, i) \in Nat
    BY InSlice
  <1> HIDE DEF T
  <1>4. \A i \in T : i \in Slice(T, 0, m) <=> Rank(T, i) <= m
    BY <1>1, InSlice
  <1>5. Slice(T, 0, m) \subseteq T /\ Slice(S, o, m) \subseteq S
    BY SliceSubset
  <1>6. ASSUME NEW i \in S PROVE i \in Slice(T, 0, m) <=> i \in Slice(S, o, m)
    BY <1>2, <1>3, <1>4, <1>5
  <1> QED BY <1>1, <1>5, <1>6 DEF T

\* What is beyond the end of a list is empty; what ends before it is not all.
LEMMA SliceEnd ==
    ASSUME NEW S \in SUBSET Nat, IsFiniteSet(S), NEW o \in Nat, NEW n \in Nat
    PROVE  Cardinality(Slice(S, o, n + 1)) > n <=> o + n < Cardinality(S)
  <1>1. Cardinality(S) \in Nat
    BY FS_CardinalityType
  <1>2. CASE o + n < Cardinality(S)
    BY <1>1, <1>2, SliceSize
  <1>3. CASE ~(o + n < Cardinality(S))
    <2> DEFINE m == Cardinality(S) - o
               T == Slice(S, o, n + 1)
    <2>1. \A i \in S : Rank(S, i) \in Nat /\ Rank(S, i) <= Cardinality(S)
      BY <1>1, RankType
    <2>2. CASE o <= Cardinality(S)
      <3>1. m \in Nat /\ m <= n /\ o + m = Cardinality(S)
        BY <1>1, <1>3, <2>2
      <3> HIDE DEF m
      <3>2. T = Slice(S, o, m)
        <4>1. T \subseteq S /\ Slice(S, o, m) \subseteq S
          BY SliceSubset
        <4>2. \A i \in S : /\ i \in T <=> o < Rank(S, i) /\ Rank(S, i) <= o + (n + 1)
                           /\ i \in Slice(S, o, m) <=> o < Rank(S, i) /\ Rank(S, i) <= o + m
          <5> HIDE DEF m
          <5>1. n + 1 \in Nat
            OBVIOUS
          <5> QED BY <3>1, <5>1, InSlice
        <4> HIDE DEF T, m
        <4>3. \A i \in S : i \in T <=> i \in Slice(S, o, m)
          BY <2>1, <3>1, <4>2
        <4> QED BY <4>1, <4>3
      <3>3. Cardinality(Slice(S, o, m)) = m
        BY <1>1, <3>1, SliceSize
      <3> QED BY <1>3, <3>1, <3>2, <3>3
    <2>3. CASE ~(o <= Cardinality(S))
      <3>1. T = {}
        <4> SUFFICES ASSUME NEW i \in T PROVE FALSE
          OBVIOUS
        <4>1. n + 1 \in Nat /\ i \in S
          BY SliceSubset
        <4>2. o < Rank(S, i)
          BY <4>1, InSlice
        <4> HIDE DEF T
        <4> QED BY <1>1, <2>1, <2>3, <4>1, <4>2
      <3>2. Cardinality(T) = 0
        BY <3>1, FS_EmptySet
      <3> QED BY <1>3, <3>2
    <2> QED BY <2>2, <2>3
  <1> QED BY <1>2, <1>3

\* _page, given a row to spare: the page is the slice asked for, and next_offset
\* is null exactly at the end of the list.
LEMMA PageIsSlice ==
    ASSUME NEW S \in SUBSET Nat, IsFiniteSet(S), NEW o \in Nat, NEW n \in Nat
    PROVE  Page(Slice(S, o, n + 1), n, o) =
             [items |-> Slice(S, o, n),
              next  |-> IF o + n < Cardinality(S) THEN o + n ELSE NoMore]
  <1>1. Slice(Slice(S, o, n + 1), 0, n) = Slice(S, o, n)
    BY SliceOfSlice
  <1> QED BY <1>1, SliceEnd DEF Page

\* The beginning of a list has the same slices, as far as it goes.
LEMMA PrefixSlice ==
    ASSUME NEW S \in SUBSET Nat, IsFiniteSet(S), NEW P \in SUBSET S,
           \A i \in P, k \in S : k <= i => k \in P,
           NEW o \in Nat, NEW n \in Nat, o + n <= Cardinality(P)
    PROVE  Slice(P, o, n) = Slice(S, o, n)
  <1>1. IsFiniteSet(P) /\ P \in SUBSET Nat
    BY FS_Subset
  <1>2. ASSUME NEW i \in P PROVE Rank(P, i) = Rank(S, i)
    <2>1. {k \in P : k <= i} = {k \in S : k <= i}
      OBVIOUS
    <2> QED BY <2>1 DEF Rank
  <1>3. ASSUME NEW i \in S \ P PROVE Rank(S, i) \notin o + 1 .. o + n
    <2> DEFINE B == {k \in S : k <= i}
    <2>1. P \cup {i} \in SUBSET B /\ B \in SUBSET S
      <3>1. \A k \in P : k <= i
        BY <1>1, <1>3
      <3> QED BY <3>1
    <2> HIDE DEF B
    <2>2. IsFiniteSet(B) /\ Cardinality(P \cup {i}) <= Cardinality(B)
      BY <2>1, FS_Subset
    <2>3. Cardinality(P \cup {i}) = Cardinality(P) + 1
      BY <1>1, <1>3, FS_AddElement
    <2>4. Cardinality(P) + 1 <= Rank(S, i)
      BY <2>2, <2>3 DEF Rank, B
    <2>5. Cardinality(P) \in Nat /\ Rank(S, i) \in Nat
      BY <1>1, <1>3, RankType, FS_CardinalityType
    <2> QED BY <2>4, <2>5
  <1>4. Slice(P, o, n) = {i \in P : Rank(P, i) \in o + 1 .. o + n}
    BY SliceNat
  <1>5. Slice(S, o, n) = {i \in S : Rank(S, i) \in o + 1 .. o + n}
    BY SliceNat
  <1> QED BY <1>2, <1>3, <1>4, <1>5

\* The same when the beginning is as long as it needs to be, or all there is.
LEMMA ReachedSlice ==
    ASSUME NEW S \in SUBSET Nat, IsFiniteSet(S), NEW P \in SUBSET S,
           \A i \in P, k \in S : k <= i => k \in P,
           NEW o \in Nat, NEW n \in Nat, P = S \/ Cardinality(P) >= o + n
    PROVE  Slice(P, o, n) = Slice(S, o, n)
  <1>1. Cardinality(P) \in Nat
    BY FS_Subset, FS_CardinalityType
  <1>2. CASE Cardinality(P) >= o + n
    <2>1. o + n <= Cardinality(P)
      BY <1>1, <1>2
    <2> QED BY <2>1, PrefixSlice
  <1> QED BY <1>2

\* A cut leaves the beginning of a list.
LEMMA SlicePrefix ==
    ASSUME NEW S \in SUBSET Nat, IsFiniteSet(S), NEW F \in Nat,
           NEW i \in Slice(S, 0, F), NEW k \in S, k <= i
    PROVE  k \in Slice(S, 0, F)
  <1>1. i \in S
    BY SliceSubset
  <1>2. /\ Rank(S, i) \in Nat /\ Rank(S, i) <= 0 + F
        /\ Rank(S, k) \in Nat /\ 0 < Rank(S, k)
    BY <1>1, InSlice
  <1>3. Rank(S, k) <= Rank(S, i)
    BY <1>1, RankOrder
  <1>4. k \in Slice(S, 0, F) <=> 0 < Rank(S, k) /\ Rank(S, k) <= 0 + F
    BY InSlice
  <1> QED BY <1>2, <1>3, <1>4

-----------------------------------------------------------------------------
(* The pages that calls answer with.                                       *)

\* The page is a slice of the whole list, and its end is told.
Exact(r) ==
    LET n == Clamp(r.req.limit)
    IN  r.page = [items |-> Slice(Listing(r), r.req.offset, n),
                  next  |-> IF r.req.offset + n < Cardinality(Listing(r)) THEN r.req.offset + n
                                                                         ELSE NoMore]

\* Where a call that will page is, and what it has; where it ends.
Leafed(r) ==
    /\ r.at # "done" => r.outcome = "none"
    /\ r.req.tool = "list_chats" =>
         /\ r.at \notin {"chatOf", "require"}
         /\ r.at \in {"allowed", "fetch"} => r.req.tags = {}
         /\ r.at \in {"search", "matches"} => r.req.tags # {}
    /\ r.at = "matches" => /\ r.req.tool = "list_chats"
                           /\ r.smooth => r.current \cup r.left = r.found
    /\ r.at = "done" /\ r.outcome = "page" /\ r.smooth /\ Reaches(r) => Exact(r)

AllLeafed == \A c \in Calls : Leafed(call[c])

LEMMA LeafStep ==
    ASSUME AllLeafed, NEW c \in Calls, OthersWait(c), Leafed(call'[c]) PROVE AllLeafed'
  BY DEF AllLeafed, OthersWait

\* A call that ends without a page.
LEMMA LeafEnd ==
    ASSUME AllLeafed, NEW c \in Calls, OthersWait(c), call'[c].at = "done",
           call'[c].outcome # "page"
    PROVE  AllLeafed'
  BY LeafStep DEF Leafed

LEMMA LeafRefuse ==
    ASSUME IInv, AllLeafed, NEW c \in Calls, Refuse(c) PROVE AllLeafed'
  BY EndGives, LeafEnd DEF Refuse, IInv

LEMMA LeafWayIn ==
    ASSUME IInv, AllLeafed, NEW c \in Calls, WayIn(c) PROVE AllLeafed'
  <1>1. TypeOK /\ Leafed(call[c])
    BY DEF IInv, AllLeafed
  <1>2. CASE Arrive(c)
    <2>1. PICK q \in Requests : call' = [call EXCEPT ![c] = [Idle EXCEPT !.req = q, !.at = "auth"]]
      BY <1>2 DEF Arrive
    <2> DEFINE r == [Idle EXCEPT !.req = q, !.at = "auth"]
    <2>2. r.at = "auth" /\ r.outcome = "none"
      BY DEF Idle
    <2> HIDE DEF r
    <2>3. call'[c] = r /\ OthersWait(c)
      BY <1>1, <2>1 DEF r, TypeOK, OthersWait
    <2> QED BY <2>2, <2>3, LeafStep DEF Leafed
  <1>3. CASE Return(c)
    <2>1. call'[c] = Idle /\ OthersWait(c)
      BY <1>1, <1>3 DEF Return, TypeOK, OthersWait
    <2>2. Idle.at = "idle" /\ Idle.outcome = "none"
      BY DEF Idle
    <2> QED BY <2>1, <2>2, LeafStep DEF Leafed
  <1>4. ASSUME call[c].at # "done", NEW step, Go(c, step),
               \/ step \in {"servable", "resolve"}
               \/ step = FirstRead(call[c].req)
        PROVE  AllLeafed'
    <2>1. /\ OthersWait(c) /\ Alike(call'[c], call[c]) /\ call'[c].at = step
          /\ call'[c].outcome = call[c].outcome
      BY <1>1, <1>4, GoGives
    <2>2. /\ step \notin {"done", "matches", "fetch"}
          /\ call[c].req.tool = "list_chats" =>
               /\ step \notin {"chatOf", "require"}
               /\ step = "allowed" => call[c].req.tags = {}
               /\ step = "search" => call[c].req.tags # {}
      <3>1. CASE step \in {"servable", "resolve"}
        BY <3>1
      <3>2. CASE step = FirstRead(call[c].req)
        <4> DEFINE q == call[c].req
        <4> HIDE DEF q
        <4>1. step = FirstRead(q)
          BY <3>2 DEF q
        <4>2. /\ step \notin {"done", "matches", "fetch"}
              /\ q.tool = "list_chats" =>
                   /\ step \notin {"chatOf", "require"}
                   /\ step = "allowed" => q.tags = {}
                   /\ step = "search" => q.tags # {}
          BY <4>1 DEF FirstRead
        <4> QED BY <4>2 DEF q
      <3> QED BY <1>4, <3>1, <3>2
    <2>3. Leafed(call'[c])
      BY <1>1, <1>4, <2>1, <2>2 DEF Leafed, Alike
    <2> QED BY <2>1, <2>3, LeafStep
  <1>5. CASE Authorize(c) \/ CheckServable(c) \/ TakeBridge(c)
    BY <1>4, <1>5, LeafRefuse DEF Authorize, CheckServable, TakeBridge, At
  <1>6. CASE ResolveScope(c)
    <2>1. ASSUME NEW a, call' = [call EXCEPT ![c].at = "bridge", ![c].using = a] PROVE AllLeafed'
      <3>1. /\ OthersWait(c) /\ call'[c].at = "bridge" /\ call'[c].outcome = call[c].outcome
        BY <1>1, <2>1 DEF OthersWait, TypeOK, CallRecord
      <3>2. call[c].outcome = "none"
        BY <1>1, <1>6 DEF ResolveScope, At, Leafed
      <3> QED BY <3>1, <3>2, LeafStep DEF Leafed
    <2> QED BY <1>6, <2>1, LeafRefuse DEF ResolveScope
  <1> QED BY <1>2, <1>3, <1>5, <1>6 DEF WayIn

LEMMA LeafDatabase ==
    ASSUME IInv, AllLeafed, NEW c \in Calls, Database(c) PROVE AllLeafed'
  <1> DEFINE o == call[c]
  <1>1. TypeOK /\ Leafed(o) /\ Control(o)
    BY DEF IInv, AllLeafed
  <1>2. CASE ReadAllowed(c)
    <2>1. /\ OthersWait(c) /\ call'[c].at = "fetch" /\ call'[c].req = o.req
          /\ call'[c].outcome = o.outcome /\ o.at = "allowed"
      BY <1>1, <1>2 DEF ReadAllowed, OthersWait, TypeOK, CallRecord, At
    <2> QED BY <1>1, <2>1, LeafStep DEF Leafed
  <1>3. CASE FindChat(c)
    <2>1. o.at = "chatOf" /\ o.req.tool = "get_media"
      BY <1>1, <1>3 DEF FindChat, At, Control
    <2>2. /\ OthersWait(c) /\ call'[c].at = "require" /\ call'[c].req.tool = o.req.tool
          /\ call'[c].outcome = o.outcome
      <3> DEFINE j == Feed[o.req.message].chat
      <3>1. \/ call' = [call EXCEPT ![c].at = "require", ![c].req.jid = j]
            \/ call' = [call EXCEPT ![c].at = "require", ![c].smooth = FALSE]
        BY <1>3 DEF FindChat
      <3> HIDE DEF j
      <3>2. call \in [Calls -> CallRecord] /\ o.req \in Request
        BY <1>1 DEF TypeOK, CallRecord
      <3>3. CASE call' = [call EXCEPT ![c].at = "require", ![c].req.jid = j]
        <4>1. OthersWait(c) /\ call'[c] = [o EXCEPT !.at = "require", !.req = [o.req EXCEPT !.jid = j]]
          BY <3>2, <3>3 DEF OthersWait
        <4> HIDE DEF o
        <4>2. o \in CallRecord
          BY <3>2 DEF o
        <4> QED BY <3>2, <4>1, <4>2 DEF CallRecord, Request
      <3>4. CASE call' = [call EXCEPT ![c].at = "require", ![c].smooth = FALSE]
        BY <3>2, <3>4 DEF OthersWait, CallRecord
      <3> QED BY <3>1, <3>3, <3>4
    <2> QED BY <1>1, <2>1, <2>2, LeafStep DEF Leafed
  <1>4. CASE RequireAllowed(c)
    <2> DEFINE step == NextRead(o.req.tool)
    <2>1. ASSUME call' = [call EXCEPT ![c].at = step, ![c].allowed = Sees(c)] PROVE AllLeafed'
      <3>1. step \in {"tags", "save", "fetch"}
        BY DEF NextRead
      <3> HIDE DEF step
      <3>2. /\ OthersWait(c) /\ call'[c].at = step /\ call'[c].req = o.req
            /\ call'[c].outcome = o.outcome /\ o.at = "require"
        BY <1>1, <1>4, <2>1 DEF RequireAllowed, OthersWait, TypeOK, CallRecord, At
      <3> QED BY <1>1, <3>1, <3>2, LeafStep DEF Leafed
    <2> QED BY <1>4, <2>1, LeafRefuse DEF RequireAllowed
  <1>5. CASE ReadTags(c)
    <2> DEFINE T == TagsOf(o.using, o.req.jid)
    <2>1. CASE Show(c, "shown", {o.req.jid})
      BY <1>1, <2>1, ShowGives, LeafEnd
    <2>2. ASSUME call' = [call EXCEPT ![c].at = "save", ![c].current = T] PROVE AllLeafed'
      <3> HIDE DEF T
      <3>1. /\ OthersWait(c) /\ call'[c].at = "save" /\ call'[c].outcome = o.outcome
            /\ o.at = "tags"
        BY <1>1, <1>5, <2>2 DEF ReadTags, OthersWait, TypeOK, CallRecord, At
      <3> QED BY <1>1, <3>1, LeafStep DEF Leafed
    <2> QED BY <1>5, <2>1, <2>2 DEF ReadTags
  <1>6. CASE SaveTags(c)
    <2>1. CASE Show(c, "saved", {o.req.jid})
      BY <1>1, <2>1, ShowGives, LeafEnd
    <2> QED BY <1>6, <2>1, LeafRefuse DEF SaveTags
  <1> QED BY <1>2, <1>3, <1>4, <1>5, <1>6 DEF Database

\* The group tools answer without pages.
LEMMA LeafGroups ==
    ASSUME IInv, AllLeafed, NEW c \in Calls, NEW groups, NEW found, AnswerGroups(c, groups, found)
    PROVE  AllLeafed'
  <1> DEFINE matches == Matches(call[c], groups, found)
             answer == call[c].req.answer
  <1>1. TypeOK
    BY DEF IInv
  <1>2. ASSUME NEW J, NEW what, what # "page", Show(c, what, J) PROVE AllLeafed'
    BY <1>1, <1>2, ShowGives, LeafEnd
  <1>3. ASSUME NEW what, what # "page", End(c, what) PROVE AllLeafed'
    BY <1>1, <1>3, EndGives, LeafEnd
  <1>4. CASE call[c].req.tool # "choose_group"
    BY <1>2, <1>4 DEF AnswerGroups
  <1>5. CASE ChooseGroup(c, answer, matches) /\ answer = None
    <2> HIDE DEF matches, answer
    <2> QED BY <1>2, <1>3, <1>5 DEF ChooseGroup
  <1>6. CASE ChooseGroup(c, answer, matches) /\ answer # None
    <2> HIDE DEF matches, answer
    <2>1. ResolveChoice(c, answer, matches)
      BY <1>6 DEF ChooseGroup
    <2> QED BY <1>2, <1>3, <2>1 DEF ResolveChoice
  <1> QED BY <1>4, <1>5, <1>6 DEF AnswerGroups

LEMMA Positions ==
    /\ DOMAIN Feed \in SUBSET Nat /\ IsFiniteSet(DOMAIN Feed)
    /\ DOMAIN Recent \in SUBSET Nat /\ IsFiniteSet(DOMAIN Recent)
    /\ \A S \in SUBSET DOMAIN Feed : S \in SUBSET Nat /\ IsFiniteSet(S)
    /\ \A S \in SUBSET DOMAIN Recent : S \in SUBSET Nat /\ IsFiniteSet(S)
  <1>1. DOMAIN Feed = 1 .. Len(Feed) /\ Len(Feed) \in Nat
    <2> DEFINE M == [chat : Jids, real : BOOLEAN, hit : BOOLEAN, media : BOOLEAN]
    <2>1. Feed \in Seq(M)
      BY ToolAssumption
    <2> HIDE DEF M
    <2> QED BY <2>1
  <1>2. DOMAIN Recent = 1 .. Len(Recent) /\ Len(Recent) \in Nat
    BY ToolAssumption
  <1>3. IsFiniteSet(1 .. Len(Feed)) /\ IsFiniteSet(1 .. Len(Recent))
    BY <1>1, <1>2, FS_Interval
  <1> QED BY <1>1, <1>2, <1>3, FS_Subset

\* A page cut from the whole list with a row to spare is exact.
LEMMA LeafPage ==
    ASSUME IInv, AllLeafed, NEW c \in Calls, NEW rows, NEW J, NEW smooth,
           ShowPage(c, Page(rows, Clamp(call[c].req.limit), call[c].req.offset), J, smooth),
           smooth /\ Reaches(call[c]) =>
             /\ Listing(call[c]) \in SUBSET Nat /\ IsFiniteSet(Listing(call[c]))
             /\ rows = Slice(Listing(call[c]), call[c].req.offset, Clamp(call[c].req.limit) + 1)
    PROVE  AllLeafed'
  <1> DEFINE o == call[c].req.offset
             n == Clamp(call[c].req.limit)
             L == Listing(call[c])
             page == Page(rows, n, o)
             r == call'[c]
  <1>1. TypeOK /\ o \in Int /\ n \in Nat
    BY ClampType DEF IInv, TypeOK, CallRecord, Request
  <1>2. ASSUME o \in Nat, L \in SUBSET Nat, IsFiniteSet(L), rows = Slice(L, o, n + 1)
        PROVE  page = [items |-> Slice(L, o, n),
                       next  |-> IF o + n < Cardinality(L) THEN o + n ELSE NoMore]
    <2> HIDE DEF o, n, L
    <2> QED BY <1>1, <1>2, PageIsSlice
  <1>3. /\ OthersWait(c) /\ Alike(r, call[c]) /\ r.at = "done" /\ r.smooth = smooth
        /\ r.page = page
    BY <1>1, ShowPageGives
  <1>4. Listing(r) = L /\ (Reaches(r) <=> Reaches(call[c]))
    <2>1. r.req = call[c].req /\ r.allowed = call[c].allowed /\ r.found = call[c].found
      BY <1>3 DEF Alike
    <2> HIDE DEF r
    <2>2. Listing(r) = Listing(call[c])
      BY <2>1 DEF Listing
    <2>3. Fetched(r) = Fetched(call[c])
      BY <2>1, <2>2 DEF Fetched
    <2> QED BY <2>1, <2>2, <2>3 DEF Reaches
  <1>5. r.smooth /\ Reaches(r) => Exact(r)
    <2> SUFFICES ASSUME r.smooth, Reaches(r) PROVE Exact(r)
      OBVIOUS
    <2>1. page = [items |-> Slice(L, o, n),
                  next  |-> IF o + n < Cardinality(L) THEN o + n ELSE NoMore]
      <3>1. o \in Nat
        BY <1>1, <1>4 DEF Reaches
      <3> QED BY <1>2, <1>3, <1>4, <3>1
    <2>2. r.req.offset = o /\ Clamp(r.req.limit) = n
      BY <1>3 DEF Alike
    <2> HIDE DEF o, n, r, page, L
    <2> QED BY <1>3, <1>4, <2>1, <2>2 DEF Exact, r
  <1>6. Leafed(r)
    BY <1>3, <1>5 DEF Leafed
  <1> QED BY <1>3, <1>6, LeafStep

\* The chats found are the beginning of those that the query leaves.
LEMMA FoundPrefix ==
    ASSUME NEW q
    PROVE  /\ \A i \in FoundChats(q) : i \in DOMAIN Recent /\ Recent[i] \in Named(q)
           /\ \A i \in FoundChats(q), k \in DOMAIN Recent :
                k <= i /\ Recent[k] \in Named(q) => k \in FoundChats(q)
  <1> DEFINE D    == DOMAIN Recent
             near == Slice(D, 0, ChatCap)
             fits == {i \in near : Recent[i] \in q.query}
  <1>1. D \in SUBSET Nat /\ IsFiniteSet(D) /\ ChatCap \in Nat /\ FetchAll \in Nat
    BY Positions, PagingAssumption
  <1>2. near \subseteq D /\ Slice(D, 0, FetchAll) \subseteq D /\ Slice(fits, 0, FetchAll) \subseteq fits
    BY SliceSubset
  <1>3. CASE q.query = None
    <2>1. FoundChats(q) = Slice(D, 0, FetchAll) /\ Named(q) = Jids
      BY <1>3 DEF FoundChats, Named
    <2>2. ASSUME NEW i \in Slice(D, 0, FetchAll), NEW k \in D, k <= i
          PROVE  k \in Slice(D, 0, FetchAll)
      <3> HIDE DEF D
      <3> QED BY <1>1, <2>2, SlicePrefix
    <2> QED BY <1>2, <2>1, <2>2, RecentType
  <1>4. CASE q.query # None
    <2>1. FoundChats(q) = Slice(fits, 0, FetchAll) /\ Named(q) = q.query
      BY <1>4 DEF FoundChats, Named
    <2>2. \A i \in fits : i \in near /\ i \in D /\ Recent[i] \in q.query
      BY <1>2
    <2>3. fits \in SUBSET Nat /\ IsFiniteSet(fits)
      BY <1>1, <2>2, FS_Subset
    <2>4. ASSUME NEW i \in Slice(fits, 0, FetchAll), NEW k \in D, k <= i, Recent[k] \in q.query
          PROVE  k \in Slice(fits, 0, FetchAll)
      <3>1. i \in fits /\ i \in near
        BY <1>2, <2>2
      <3>2. k \in near
        <4> HIDE DEF D
        <4> QED BY <1>1, <2>4, <3>1, SlicePrefix
      <3>3. k \in fits
        BY <2>4, <3>2
      <3> HIDE DEF fits
      <3> QED BY <1>1, <2>3, <2>4, <3>3, SlicePrefix
    <2> QED BY <1>2, <2>1, <2>2, <2>4
  <1> QED BY <1>3, <1>4

LEMMA LeafChats ==
    ASSUME IInv, AllLeafed, NEW c \in Calls, FetchChats(c) PROVE AllLeafed'
  <1> DEFINE q == call[c].req
             n == Clamp(q.limit)
             K == {i \in FoundChats(q) : Recent[i] \in call[c].allowed}
             L == {i \in DOMAIN Recent : Recent[i] \in call[c].allowed \cap Named(q)}
             rows == Slice(K, q.offset, n + 1)
  <1>1. /\ q.tool = "list_chats" /\ q.tags = {} /\ q.offset \in Int /\ n \in Nat
    BY ClampType DEF FetchChats, At, AllLeafed, Leafed, IInv, TypeOK, CallRecord, Request
  <1>2. Listing(call[c]) = L /\ Fetched(call[c]) = K
    BY <1>1 DEF Listing, Fetched
  <1>3. L \in SUBSET Nat /\ IsFiniteSet(L)
    BY Positions
  <1>4. K \in SUBSET L /\ \A i \in K, k \in L : k <= i => k \in K
    BY FoundPrefix
  <1>5. \E J : ShowPage(c, Page(rows, n, q.offset), J, call[c].smooth)
    BY DEF FetchChats
  <1> HIDE DEF K, L
  <1>6. Reaches(call[c]) => rows = Slice(L, q.offset, n + 1)
    <2> SUFFICES ASSUME Reaches(call[c]) PROVE Slice(K, q.offset, n + 1) = Slice(L, q.offset, n + 1)
      OBVIOUS
    <2>1. q.offset >= 0 /\ (K = L \/ Cardinality(K) >= q.offset + n + 1)
      BY <1>2 DEF Reaches
    <2> HIDE DEF q, n
    <2>2. q.offset \in Nat /\ n + 1 \in Nat /\ q.offset + n + 1 = q.offset + (n + 1)
      BY <1>1, <2>1
    <2> QED BY <1>3, <1>4, <2>1, <2>2, ReachedSlice
  <1> HIDE DEF rows
  <1> QED BY <1>2, <1>3, <1>5, <1>6, LeafPage

\* Dropping the noise of what was fetched is as good as fetching what is real,
\* where the fetch covers the page.
LEMMA RealPrefix ==
    ASSUME NEW j, NEW F \in Nat, NEW o \in Nat, NEW n \in Nat,
           \/ Real(Slice(Chat(j), 0, F)) = Real(Chat(j))
           \/ Cardinality(Real(Slice(Chat(j), 0, F))) >= o + n
    PROVE  Slice(Real(Slice(Chat(j), 0, F)), o, n) = Slice(Real(Chat(j)), o, n)
  <1> DEFINE C == Chat(j)
             raw == Slice(C, 0, F)
             S == Real(C)
             P == Real(raw)
  <1>1. C \in SUBSET DOMAIN Feed /\ raw \subseteq C
    BY SliceSubset DEF Chat
  <1>2. C \in SUBSET Nat /\ IsFiniteSet(C)
    BY <1>1, Positions
  <1>3. ASSUME NEW i \in raw, NEW k \in C, k <= i PROVE k \in raw
    <2> HIDE DEF C
    <2> QED BY <1>2, <1>3, SlicePrefix
  <1> HIDE DEF raw, C
  <1>4. S \in SUBSET C /\ P \in SUBSET S
    BY <1>1 DEF Real
  <1>5. \A i \in P, k \in S : k <= i => k \in P
    BY <1>3 DEF Real
  <1>6. P = S \/ Cardinality(P) >= o + n
    BY DEF P, S, raw, C
  <1> HIDE DEF S, P
  <1>7. S \in SUBSET Nat /\ IsFiniteSet(S)
    BY <1>2, <1>4, FS_Subset
  <1>8. Slice(P, o, n) = Slice(S, o, n)
    BY <1>4, <1>5, <1>6, <1>7, ReachedSlice
  <1> QED BY <1>8 DEF S, P, raw, C

LEMMA FetchCountType ==
    ASSUME NEW l \in Nat \ {0}, NEW o \in Nat PROVE FetchCount(l, o) \in Nat \ {0}
  <1>1. PICK m : m = (o + l) * Multiplier
    OBVIOUS
  <1>2. m \in Nat \ {0}
    BY <1>1, PagingAssumption
  <1>3. m + Slack \in Nat \ {0}
    BY <1>2, PagingAssumption
  <1> QED BY <1>1, <1>3, PagingAssumption DEF FetchCount

LEMMA LeafMessages ==
    ASSUME IInv, AllLeafed, NEW c \in Calls, FetchMessages(c) PROVE AllLeafed'
  <1> DEFINE q == call[c].req
             n == Clamp(q.limit)
             F == FetchCount(n + 1, q.offset)
             L == Real(Chat(q.jid))
  <1>1. /\ q.tool = "list_messages" /\ q.offset \in Int /\ n \in Nat \ {0}
    BY ClampType DEF FetchMessages, IInv, TypeOK, CallRecord, Request
  <1>2. PICK raw \in Answers(Chat(q.jid), F) :
          \E J : ShowPage(c, Page(MessageRows(raw, n + 1, q.offset), n, q.offset), J, call[c].smooth)
    BY DEF FetchMessages
  <1> DEFINE rows == MessageRows(raw, n + 1, q.offset)
  <1>3. Listing(call[c]) = L /\ Fetched(call[c]) = Real(Slice(Chat(q.jid), 0, F))
    BY <1>1 DEF Listing, Fetched
  <1>4. L \in SUBSET Nat /\ IsFiniteSet(L)
    BY Positions DEF Real, Chat
  <1>5. Reaches(call[c]) => rows = Slice(L, q.offset, n + 1)
    <2> SUFFICES ASSUME Reaches(call[c]) PROVE MessageRows(raw, n + 1, q.offset) = Slice(L, q.offset, n + 1)
      OBVIOUS
    <2>1. /\ q.offset >= 0
          /\ \/ Real(Slice(Chat(q.jid), 0, F)) = L
             \/ Cardinality(Real(Slice(Chat(q.jid), 0, F))) >= q.offset + n + 1
      BY <1>3 DEF Reaches
    <2> HIDE DEF q, n
    <2>2. /\ q.offset \in Nat /\ n + 1 \in Nat \ {0} /\ n + 1 \in Nat
          /\ q.offset + n + 1 = q.offset + (n + 1)
      BY <1>1, <2>1
    <2>3. F \in Nat \ {0}
      BY <2>2, FetchCountType
    <2> HIDE DEF F
    <2>4. F \in Nat /\ F > 0
      BY <2>3
    <2>5. raw = Slice(Chat(q.jid), 0, F)
      BY <1>2, <2>4 DEF Answers
    <2> QED BY <2>1, <2>2, <2>4, <2>5, RealPrefix DEF MessageRows
  <1> HIDE DEF rows, L
  <1>6. \E J : ShowPage(c, Page(rows, n, q.offset), J, call[c].smooth)
    BY <1>2 DEF rows
  <1> QED BY <1>3, <1>4, <1>5, <1>6, LeafPage

\* The hits that are kept are the beginning of those that the chats searched hold.
LEMMA HitsPrefix ==
    ASSUME NEW q, NEW js
    PROVE  /\ \A i \in FoundMessages(q, js) : i \in HitsIn(js)
           /\ \A i \in FoundMessages(q, js), k \in HitsIn(js) : k <= i => k \in FoundMessages(q, js)
  <1> DEFINE H == HitsIn(js)
  <1>1. H \in SUBSET Nat /\ IsFiniteSet(H) /\ FetchAll \in Nat
    BY HitsType, Positions, PagingAssumption
  <1>2. FoundMessages(q, js) = H \/ FoundMessages(q, js) = Slice(H, 0, FetchAll)
    BY DEF FoundMessages
  <1> HIDE DEF H
  <1>3. \A i \in Slice(H, 0, FetchAll), k \in H : k <= i => k \in Slice(H, 0, FetchAll)
    BY <1>1, SlicePrefix
  <1>4. \A i \in FoundMessages(q, js) : i \in H
    BY <1>2, SliceSubset
  <1> QED BY <1>2, <1>3, <1>4 DEF H

LEMMA LeafSearch ==
    ASSUME IInv, AllLeafed, NEW c \in Calls, SearchMessages(c) PROVE AllLeafed'
  <1> DEFINE q == call[c].req
             n == Clamp(q.limit)
             Kept(silent) == {i \in FoundMessages(q, Searched(q) \ silent) : Feed[i].chat \in call[c].allowed}
             rows(silent) == Slice(Kept(silent), q.offset, n + 1)
             K == {i \in FoundMessages(q, Searched(q)) : Feed[i].chat \in call[c].allowed}
             L == Listing(call[c])
  <1>1. /\ q.tool = "search_messages" /\ q.offset \in Int /\ n \in Nat
    BY ClampType DEF SearchMessages, IInv, TypeOK, CallRecord, Request
  <1>2. L = {i \in DOMAIN Feed : /\ Feed[i].real /\ Feed[i].hit /\ Feed[i].chat \in call[c].allowed
                                 /\ q.jid # None => Feed[i].chat = q.jid}
    BY <1>1 DEF Listing
  <1>3. L \in SUBSET Nat /\ IsFiniteSet(L)
    <2>1. L \in SUBSET DOMAIN Feed
      BY <1>2
    <2> HIDE DEF L
    <2> QED BY <2>1, Positions
  <1>4. PICK silent \in SUBSET Searched(q) :
          \E J : ShowPage(c, Page(rows(silent), n, q.offset), J, silent = {})
    BY DEF SearchMessages
  <1>5. Fetched(call[c]) = K
    BY <1>1 DEF Fetched
  <1>6. K \in SUBSET L
    <2>1. \A i, j : i \in Hits(Slice(Chat(j), 0, FetchCap)) =>
                      i \in DOMAIN Feed /\ Feed[i].chat = j /\ Feed[i].real /\ Feed[i].hit
      <3>1. ASSUME NEW j PROVE Slice(Chat(j), 0, FetchCap) \subseteq Chat(j)
        BY SliceSubset
      <3> QED BY <3>1 DEF Hits, Real, Chat
    <2>2. \A i \in HitsIn(Searched(q)) :
            i \in DOMAIN Feed /\ Feed[i].chat \in Searched(q) /\ Feed[i].real /\ Feed[i].hit
      <3> HIDE DEF q
      <3> QED BY <2>1 DEF HitsIn
    <2>3. q.jid # None => Searched(q) = {q.jid}
      BY DEF Searched
    <2>4. \A i \in FoundMessages(q, Searched(q)) : i \in HitsIn(Searched(q))
      BY HitsPrefix
    <2> HIDE DEF q, L
    <2> QED BY <1>2, <2>2, <2>3, <2>4
  <1>7. L \subseteq HitsIn(Searched(q)) => \A i \in K, k \in L : k <= i => k \in K
    <2>1. \A i \in FoundMessages(q, Searched(q)), k \in HitsIn(Searched(q)) :
            k <= i => k \in FoundMessages(q, Searched(q))
      BY HitsPrefix
    <2>2. \A k \in L : Feed[k].chat \in call[c].allowed
      BY <1>2
    <2> HIDE DEF q, L
    <2> QED BY <2>1, <2>2
  <1> HIDE DEF K
  <1>8. silent = {} /\ Reaches(call[c]) => rows(silent) = Slice(L, q.offset, n + 1)
    <2> SUFFICES ASSUME silent = {}, Reaches(call[c])
                 PROVE  Slice(Kept(silent), q.offset, n + 1) = Slice(L, q.offset, n + 1)
      OBVIOUS
    <2>1. /\ q.offset >= 0 /\ L \subseteq HitsIn(Searched(q))
          /\ K = L \/ Cardinality(K) >= q.offset + n + 1
      BY <1>1, <1>5 DEF Reaches
    <2>2. Kept(silent) = K
      <3>1. Searched(q) \ silent = Searched(q)
        OBVIOUS
      <3> QED BY <3>1 DEF K
    <2> HIDE DEF q, n, L, Kept
    <2>3. q.offset \in Nat /\ n + 1 \in Nat /\ q.offset + n + 1 = q.offset + (n + 1)
      BY <1>1, <2>1
    <2>4. Slice(K, q.offset, n + 1) = Slice(L, q.offset, n + 1)
      BY <1>3, <1>6, <1>7, <2>1, <2>3, ReachedSlice
    <2> QED BY <2>2, <2>4
  <1> HIDE DEF rows
  <1> QED BY <1>3, <1>4, <1>8, LeafPage

LEMMA LeafMatches ==
    ASSUME IInv, AllLeafed, IsFiniteSet(Jids), NEW c \in Calls, ListMatches(c) PROVE AllLeafed'
  <1> DEFINE o == call[c]
             L == 1 .. Cardinality(o.current)
             rows == Slice(L, o.req.offset, Clamp(o.req.limit) + 1)
  <1>1. /\ o.req.tool = "list_chats" /\ o.req.tags # {} /\ o.left = {}
        /\ o.smooth => o.current = o.found
    BY DEF ListMatches, At, AllLeafed, Leafed
  <1>2. o.found \in SUBSET Jids
    BY DEF IInv, TypeOK, CallRecord
  <1>3. Listing(o) = 1 .. Cardinality(o.found)
    BY <1>1 DEF Listing
  <1>4. o.smooth => Listing(o) = L /\ L \in SUBSET Nat /\ IsFiniteSet(L)
    <2> SUFFICES ASSUME o.smooth PROVE Listing(o) = L /\ L \in SUBSET Nat /\ IsFiniteSet(L)
      OBVIOUS
    <2>1. IsFiniteSet(o.found)
      BY <1>2, FS_Subset
    <2>2. Cardinality(o.found) \in Nat
      BY <2>1, FS_CardinalityType
    <2>3. o.current = o.found
      BY <1>1
    <2> QED BY <1>3, <2>2, <2>3, FS_Interval
  <1>5. \E J : ShowPage(c, Page(rows, Clamp(o.req.limit), o.req.offset), J, o.smooth)
    BY DEF ListMatches
  <1> HIDE DEF L
  <1>6. o.smooth => rows = Slice(Listing(o), o.req.offset, Clamp(o.req.limit) + 1)
    BY <1>4
  <1> HIDE DEF rows
  <1> QED BY <1>4, <1>5, <1>6, LeafPage

LEMMA LeafWaha ==
    ASSUME IInv, AllLeafed, IsFiniteSet(Jids), NEW c \in Calls, Waha(c) PROVE AllLeafed'
  <1> DEFINE o == call[c]
  <1>1. TypeOK /\ Leafed(o) /\ Control(o)
    BY DEF IInv, AllLeafed
  <1>2. CASE FetchGroupInfo(c) \/ FetchMedia(c)
    <2>1. Show(c, "shown", {o.req.jid})
      BY <1>2 DEF FetchGroupInfo, FetchMedia
    <2> QED BY <1>1, <2>1, ShowGives, LeafEnd
  <1>3. CASE WahaFails(c)
    <2>1. /\ OthersWait(c) /\ call'[c].at = "done" /\ call'[c].outcome = "failed"
      BY <1>1, <1>3 DEF WahaFails, Fail, OthersWait, TypeOK, CallRecord
    <2> QED BY <2>1, LeafEnd
  <1>4. CASE FetchGroups(c)
    <2> DEFINE groups == {j \in Groups : <<o.using, j>> \in member}
    <2>1. ASSUME call' = [call EXCEPT ![c].at = "search", ![c].groups = groups] PROVE AllLeafed'
      <3> HIDE DEF groups
      <3>1. /\ OthersWait(c) /\ call'[c].at = "search" /\ call'[c].outcome = o.outcome
            /\ call'[c].req = o.req /\ o.at = "fetch" /\ o.req.tool # "list_chats"
        BY <1>1, <1>4, <2>1 DEF FetchGroups, At, OthersWait, TypeOK, CallRecord
      <3> QED BY <1>1, <3>1, LeafStep DEF Leafed
    <2> QED BY <1>4, <2>1, LeafGroups DEF FetchGroups
  <1>5. CASE SearchByTags(c)
    <2> DEFINE J == SeesTagged(c)
    <2>1. ASSUME o.req.tool = "list_chats",
                 call' = [call EXCEPT ![c].at = "matches", ![c].found = J, ![c].left = J]
          PROVE  AllLeafed'
      <3> HIDE DEF J
      <3>1. /\ OthersWait(c) /\ call'[c].at = "matches" /\ call'[c].outcome = o.outcome
            /\ call'[c].req = o.req /\ call'[c].found = J /\ call'[c].left = J
            /\ call'[c].current = o.current /\ o.at = "search"
        BY <1>1, <1>5, <2>1 DEF SearchByTags, At, OthersWait, TypeOK, CallRecord
      <3>2. o.current = {}
        BY <1>1, <3>1 DEF Control
      <3> QED BY <1>1, <2>1, <3>1, <3>2, LeafStep DEF Leafed
    <2> QED BY <1>5, <2>1, LeafGroups DEF SearchByTags
  <1>6. ASSUME NEW j \in Jids, GetChat(c, j) PROVE AllLeafed'
    <2>1. ASSUME NEW answers \in BOOLEAN,
                 call' = [call EXCEPT ![c].left = @ \ {j}, ![c].smooth = @ /\ answers,
                                      ![c].current = IF answers THEN @ \cup {j} ELSE @]
          PROVE  AllLeafed'
      <3> DEFINE K == IF answers THEN o.current \cup {j} ELSE o.current
                 M == o.smooth /\ answers
      <3>1. OthersWait(c) /\ call'[c] = [o EXCEPT !.left = o.left \ {j}, !.smooth = M, !.current = K]
        BY <1>1, <2>1 DEF TypeOK, OthersWait
      <3>2. o \in CallRecord /\ o.at = "matches" /\ j \in o.left
        BY <1>1, <1>6 DEF TypeOK, GetChat, At
      <3> HIDE DEF o, K, M
      <3>3. /\ call'[c].at = "matches" /\ call'[c].req = o.req /\ call'[c].found = o.found
            /\ call'[c].outcome = o.outcome /\ call'[c].left = o.left \ {j}
            /\ call'[c].smooth = M /\ call'[c].current = K
        BY <3>1, <3>2 DEF CallRecord
      <3>4. M => o.smooth /\ K = o.current \cup {j}
        BY DEF M, K
      <3>5. Leafed(call'[c])
        BY <1>1, <3>2, <3>3, <3>4 DEF Leafed
      <3> QED BY <3>1, <3>5, LeafStep
    <2> QED BY <1>6, <2>1, LeafRefuse DEF GetChat
  <1> QED BY <1>2, <1>3, <1>4, <1>5, <1>6, LeafChats, LeafMessages, LeafSearch, LeafMatches DEF Waha

LEMMA LeafNext ==
    ASSUME IsFiniteSet(Jids), IInv, AllLeafed, [Next]_vars PROVE AllLeafed'
  <1>1. CASE WorldChanges \/ UNCHANGED vars
    <2>1. call' = call
      BY <1>1 DEF WorldChanges, ToggleAllowed, SaveMetadata, GrantAccount, RevokeAccount,
                  ChangeKey, JoinOrLeaveGroup, RemoveUser, Changes, vars
    <2> QED BY <2>1 DEF AllLeafed
  <1> QED BY <1>1, LeafWayIn, LeafDatabase, LeafWaha DEF Next

LEMMA LeafInit == Init => AllLeafed
  <1>1. Idle.at = "idle" /\ Idle.outcome = "none"
    BY DEF Idle
  <1> QED BY <1>1 DEF Init, AllLeafed, Leafed

\* The list in order is the inverse of the ranks.
LEMMA OrderedList ==
    ASSUME NEW S \in SUBSET Nat, IsFiniteSet(S)
    PROVE  LET s == InOrder(S)
           IN  /\ \A k \in 1 .. Cardinality(S) : s[k] \in S /\ Rank(S, s[k]) = k
               /\ \A i \in S : Rank(S, i) \in 1 .. Cardinality(S) /\ s[Rank(S, i)] = i
  <1> DEFINE N == Cardinality(S)
             Sorted(s) == s \in [1 .. N -> S] /\ \A j, k \in 1 .. N : j < k => s[j] < s[k]
             q == [k \in 1 .. N |-> CHOOSE i \in S : Rank(S, i) = k]
  <1>1. N \in Nat /\ IsFiniteSet(1 .. N) /\ Cardinality(1 .. N) = N
    BY FS_CardinalityType, FS_Interval
  <1>2. \A k \in 1 .. N : q[k] \in S /\ Rank(S, q[k]) = k
    BY RankOnto
  <1>3. Sorted(q)
    <2>1. q \in [1 .. N -> S]
      BY <1>2
    <2> HIDE DEF q, N
    <2>2. ASSUME NEW j \in 1 .. N, NEW k \in 1 .. N, j < k PROVE q[j] < q[k]
      <3>1. q[j] \in S /\ q[k] \in S /\ Rank(S, q[j]) = j /\ Rank(S, q[k]) = k
        BY <1>2
      <3>2. q[k] <= q[j] <=> Rank(S, q[k]) <= Rank(S, q[j])
        BY <3>1, RankOrder
      <3>3. ~(k <= j) /\ (q[k] <= q[j] <=> k <= j)
        <4>1. ~(k <= j)
          BY <1>1, <2>2
        <4> QED BY <3>1, <3>2, <4>1
      <3>4. q[j] \in Nat /\ q[k] \in Nat
        BY <3>1
      <3> QED BY <3>3, <3>4
    <2> QED BY <2>1, <2>2
  <1> HIDE DEF q
  <1>4. PICK s : s = InOrder(S)
    OBVIOUS
  <1>5. Sorted(s)
    BY <1>3, <1>4 DEF InOrder
  <1>6. \A j, k \in 1 .. N : s[j] \in S /\ s[k] \in S /\ (s[j] <= s[k] <=> j <= k)
    <2> HIDE DEF N
    <2>1. ASSUME NEW k \in 1 .. N PROVE s[k] \in S /\ s[k] \in Nat /\ k \in Nat
      <3>1. s[k] \in S
        BY <1>5
      <3>2. s[k] \in Nat
        BY <3>1
      <3>3. k \in Nat
        BY <1>1
      <3> QED BY <3>1, <3>2, <3>3
    <2>2. \A j, k \in 1 .. N : j < k => s[j] < s[k]
      BY <1>5
    <2>3. ASSUME NEW j \in 1 .. N, NEW k \in 1 .. N PROVE s[j] <= s[k] <=> j <= k
      <3>1. /\ s[j] \in Nat /\ s[k] \in Nat /\ j \in Nat /\ k \in Nat
            /\ j < k => s[j] < s[k]
            /\ k < j => s[k] < s[j]
        BY <2>1, <2>2
      <3> QED BY <3>1
    <2> QED BY <2>1, <2>3
  <1>7. \A i \in S : \E k \in 1 .. N : s[k] = i
    <2>1. s \in Injection(1 .. N, S)
      BY <1>1, <1>5, <1>6 DEF Injection, IsInjective
    <2>2. s \in Surjection(1 .. N, S)
      BY <1>1, <2>1, FS_Injection
    <2> QED BY <2>2 DEF Surjection
  <1>8. ASSUME NEW k \in 1 .. N PROVE Rank(S, s[k]) = k
    <2> DEFINE below == {i \in S : i <= s[k]}
               f == [j \in 1 .. k |-> s[j]]
    <2>1. k \in Nat /\ 1 .. k \subseteq 1 .. N /\ \A j \in 1 .. N : j <= k <=> j \in 1 .. k
      BY <1>1
    <2>2. f \in [1 .. k -> below]
      BY <1>6, <2>1
    <2>3. ASSUME NEW i \in below PROVE \E j \in 1 .. k : f[j] = i
      <3>1. PICK j \in 1 .. N : s[j] = i
        BY <1>7
      <3>2. j \in 1 .. k
        BY <1>6, <2>1, <3>1
      <3> QED BY <3>1, <3>2
    <2>4. \A i, j \in 1 .. k : f[i] = f[j] => i = j
      <3>1. \A i, j \in 1 .. k : s[i] = s[j] => i <= j /\ j <= i
        BY <1>6, <2>1
      <3> QED BY <3>1
    <2> HIDE DEF f, below
    <2>5. f \in Bijection(1 .. k, below)
      BY <2>2, <2>3, <2>4 DEF Bijection, Injection, IsInjective, Surjection
    <2>6. Cardinality(below) = k
      BY <2>1, <2>5, FS_CountingElements DEF ExistsBijection
    <2> QED BY <2>6 DEF Rank, below
  <1>9. ASSUME NEW i \in S PROVE Rank(S, i) \in 1 .. N /\ s[Rank(S, i)] = i
    <2>1. PICK k \in 1 .. N : s[k] = i
      BY <1>7
    <2>2. Rank(S, i) = k
      BY <1>8, <2>1
    <2> QED BY <2>1, <2>2
  <1> QED BY <1>4, <1>6, <1>8, <1>9

\* A slice holds what stands at its places in the list.
LEMMA SliceInOrder ==
    ASSUME NEW S \in SUBSET Nat, IsFiniteSet(S), NEW o \in Nat, NEW n \in Nat
    PROVE  LET size == Cardinality(S)
               end  == o + n
           IN  Slice(S, o, n) = {InOrder(S)[k] : k \in o + 1 .. IF end < size THEN end ELSE size}
  <1> DEFINE size == Cardinality(S)
             last == IF o + n < size THEN o + n ELSE size
  <1>1. PICK s : s = InOrder(S)
    OBVIOUS
  <1>2. size \in Nat
    BY FS_CardinalityType
  <1>3. /\ \A k \in 1 .. size : s[k] \in S /\ Rank(S, s[k]) = k
        /\ \A i \in S : Rank(S, i) \in 1 .. size /\ s[Rank(S, i)] = i
    BY <1>1, OrderedList
  <1> HIDE DEF size
  <1>4. \A k : k \in o + 1 .. last <=> k \in 1 .. size /\ k \in o + 1 .. o + n
    BY <1>2
  <1> HIDE DEF last
  <1>5. ASSUME NEW i \in Slice(S, o, n) PROVE \E k \in o + 1 .. last : i = s[k]
    <2>1. i \in S /\ Rank(S, i) \in o + 1 .. o + n
      BY SliceNat
    <2>2. Rank(S, i) \in o + 1 .. last /\ s[Rank(S, i)] = i
      BY <1>3, <1>4, <2>1
    <2> QED BY <2>2
  <1>6. ASSUME NEW k \in o + 1 .. last PROVE s[k] \in Slice(S, o, n)
    <2>1. k \in 1 .. size /\ k \in o + 1 .. o + n
      BY <1>4
    <2>2. s[k] \in S /\ Rank(S, s[k]) = k
      BY <1>3, <2>1
    <2> QED BY <2>1, <2>2, SliceNat
  <1>7. Slice(S, o, n) = {s[k] : k \in o + 1 .. last}
    BY <1>5, <1>6
  <1> QED BY <1>1, <1>7 DEF last, size

LEMMA ListingType ==
    ASSUME IsFiniteSet(Jids), TypeOK, NEW c \in Calls
    PROVE  Listing(call[c]) \in SUBSET Nat /\ IsFiniteSet(Listing(call[c]))
  <1> DEFINE r == call[c]
  <1>1. r.found \in SUBSET Jids
    BY DEF TypeOK, CallRecord
  <1>2. IsFiniteSet(r.found)
    BY <1>1, FS_Subset
  <1>3. Cardinality(r.found) \in Nat
    BY <1>2, FS_CardinalityType
  <1> DEFINE n == Cardinality(r.found)
             N == 1 .. n
  <1>4. N \in SUBSET Nat /\ IsFiniteSet(N)
    <2> HIDE DEF n
    <2> QED BY <1>3, FS_Interval DEF n
  <1>5. \/ Listing(r) \in SUBSET DOMAIN Feed
        \/ Listing(r) \in SUBSET DOMAIN Recent
        \/ Listing(r) = N
    BY DEF Listing, Real, Chat
  <1> HIDE DEF N, r
  <1> QED BY <1>4, <1>5, Positions DEF r

\* What a page holds, for lists of any length, any limit, any caps and any offset
\* that is not negative: the slice that was asked for, and next_offset is null
\* exactly at the list's end, provided that the caps leave as much (Reaches).
THEOREM PagesAreTruthful ==
    ASSUME IsFiniteSet(Jids) PROVE Spec => []PagesTruthful
  <1>1. ASSUME IInv, AllLeafed PROVE PagesTruthful
    <2> SUFFICES ASSUME NEW c \in Calls, At(c, "done"), call[c].outcome = "page",
                        call[c].smooth, Reaches(call[c])
                 PROVE  LET r    == call[c]
                            all  == InOrder(Listing(r))
                            size == Cardinality(Listing(r))
                            end  == r.req.offset + Clamp(r.req.limit)
                        IN  /\ r.page.items =
                                 {all[k] : k \in r.req.offset + 1 .. IF end < size THEN end ELSE size}
                            /\ r.page.next = IF end < size THEN end ELSE NoMore
      BY DEF PagesTruthful
    <2>1. PICK L : L = Listing(call[c])
      OBVIOUS
    <2>2. PICK o : o = call[c].req.offset
      OBVIOUS
    <2>3. PICK n : n = Clamp(call[c].req.limit)
      OBVIOUS
    <2>4. o \in Nat /\ n \in Nat
      <3>1. o \in Int /\ n \in Nat
        BY <1>1, <2>2, <2>3, ClampType DEF IInv, TypeOK, CallRecord, Request
      <3>2. o >= 0
        BY <2>2 DEF Reaches
      <3> QED BY <3>1, <3>2
    <2>5. L \in SUBSET Nat /\ IsFiniteSet(L)
      BY <1>1, <2>1, ListingType DEF IInv
    <2>6. Exact(call[c])
      BY <1>1 DEF AllLeafed, Leafed, At
    <2>7. /\ call[c].page.items = Slice(L, o, n)
          /\ call[c].page.next = IF o + n < Cardinality(L) THEN o + n ELSE NoMore
      BY <2>1, <2>2, <2>3, <2>6 DEF Exact
    <2>8. Slice(L, o, n) = {InOrder(L)[k] : k \in o + 1 .. IF o + n < Cardinality(L) THEN o + n
                                                                              ELSE Cardinality(L)}
      BY <2>4, <2>5, SliceInOrder
    <2> QED BY <2>1, <2>2, <2>3, <2>7, <2>8
  <1>2. Spec => []AllLeafed
    BY Invariant, LeafInit, LeafNext, PTL DEF Spec
  <1> QED BY <1>1, <1>2, Invariant, PTL

\* Asking for page after page loses nothing and repeats nothing: the next page
\* continues what was read so far, and where there is none it was everything.
THEOREM PagesJoin ==
    ASSUME NEW S \in SUBSET Nat, IsFiniteSet(S), NEW o \in Nat, NEW n \in Nat
    PROVE  /\ Slice(S, 0, o + n) = Slice(S, 0, o) \cup Slice(S, o, n)
           /\ Slice(S, 0, o) \cap Slice(S, o, n) = {}
           /\ Page(Slice(S, o, n + 1), n, o).next = NoMore <=> Slice(S, 0, o + n) = S
  <1>1. o + n \in Nat /\ n + 1 \in Nat /\ 0 + (o + n) = o + n /\ 0 + o = o
    OBVIOUS
  <1>2. \A i \in S : /\ i \in Slice(S, o, n) <=> o < Rank(S, i) /\ Rank(S, i) <= o + n
                     /\ Rank(S, i) \in Nat /\ 0 < Rank(S, i) /\ Rank(S, i) <= Cardinality(S)
    BY InSlice
  <1>3. \A i \in S : i \in Slice(S, 0, o + n) <=> Rank(S, i) <= o + n
    BY <1>1, <1>2, InSlice
  <1>4. \A i \in S : i \in Slice(S, 0, o) <=> Rank(S, i) <= o
    BY <1>1, <1>2, InSlice
  <1>5. Slice(S, 0, o + n) \subseteq S /\ Slice(S, 0, o) \subseteq S /\ Slice(S, o, n) \subseteq S
    BY SliceSubset
  <1>6. Slice(S, 0, o + n) = S <=> Cardinality(S) <= o + n
    <2>1. Cardinality(S) \in Nat
      BY FS_CardinalityType
    <2>2. CASE Cardinality(S) <= o + n
      <3>1. ASSUME NEW i \in S PROVE Rank(S, i) <= o + n
        <4>1. Rank(S, i) \in Nat /\ Rank(S, i) <= Cardinality(S)
          BY <1>2
        <4> QED BY <1>1, <2>1, <2>2, <4>1
      <3> QED BY <1>3, <1>5, <2>2, <3>1
    <2>3. CASE o + n < Cardinality(S)
      <3>1. Cardinality(S) \in 1 .. Cardinality(S)
        BY <1>1, <2>1, <2>3
      <3>2. PICK i \in S : Rank(S, i) = Cardinality(S)
        BY <3>1, RankOnto
      <3> QED BY <1>1, <1>3, <2>1, <2>3, <3>2
    <2> QED BY <1>1, <2>1, <2>2, <2>3
  <1>7. Page(Slice(S, o, n + 1), n, o).next =
            IF o + n < Cardinality(S) THEN o + n ELSE NoMore
    <2>1. Page(Slice(S, o, n + 1), n, o) =
            [items |-> Slice(S, o, n),
             next  |-> IF o + n < Cardinality(S) THEN o + n ELSE NoMore]
      BY PageIsSlice
    <2> QED BY <2>1
  <1>8. (IF o + n < Cardinality(S) THEN o + n ELSE NoMore) = NoMore
            <=> Cardinality(S) <= o + n
    <2>1. o + n # NoMore
      BY <1>1, PagingAssumption
    <2>2. Cardinality(S) \in Nat
      BY FS_CardinalityType
    <2> QED BY <1>1, <2>1, <2>2
  <1>9. \A i \in S : /\ i \in Slice(S, 0, o + n) <=> i \in Slice(S, 0, o) \/ i \in Slice(S, o, n)
                     /\ ~(i \in Slice(S, 0, o) /\ i \in Slice(S, o, n))
    BY <1>1, <1>2, <1>3, <1>4
  <1> QED BY <1>5, <1>6, <1>7, <1>8, <1>9
=============================================================================
