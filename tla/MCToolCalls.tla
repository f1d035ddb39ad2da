----------------------------- MODULE MCToolCalls -----------------------------
(* Requests, messages and initial worlds for the run of ToolCalls.  A limit *)
(* of 0 is taken for 1, one of 3 for 2; an offset of -3 is the third from   *)
(* the end.                                                                 *)
EXTENDS ToolCalls

CONSTANTS a1, a2, g1, g2, k1, t1, t2

\* The searches look at two chats, so that they never see g2.
MCRecent == <<g1, k1, g2>>

Message(j) == [chat |-> j, real |-> TRUE, hit |-> TRUE, media |-> FALSE]
Noise(j)   == [Message(j) EXCEPT !.real = FALSE]

\* Every second message of g1 is noise, and one fetch does not get all of them;
\* there are four hits, and the allowlist is applied to three.
MCFeed == << [Message(g1) EXCEPT !.media = TRUE], Noise(g1), Message(k1), Message(g1),
             Message(k1), Noise(g1), [Message(g1) EXCEPT !.hit = FALSE] >>

From(tool)     == [Blank EXCEPT !.tool = tool]
Cut(Q)         == {[q EXCEPT !.limit = p[1], !.offset = p[2]] :
                      q \in Q, p \in {<<0, 0>>, <<0, 1>>, <<3, 0>>, <<3, 1>>, <<1, -3>>}}
Filtered(Q)    == {[q EXCEPT !.tags = T] : q \in Q, T \in {{}, {t1}}}
Narrowed(Q)    == {[q EXCEPT !.query = S] : q \in Q, S \in {None, {g1}}}
About(Q)       == {[q EXCEPT !.jid = j] : q \in Q, j \in {g1, k1}}
On(Q, A)       == {[q EXCEPT !.account = a] : q \in Q, a \in A}

MCRequests == On(Filtered({From("list_groups")}), {a2}) \cup On(
    Cut(Filtered({From("list_chats")}))
    \cup {[From("list_chats") EXCEPT !.query = S] : S \in {{g1}, {g1, g2, k1}}}
    \cup Cut(About({From("list_messages")}))
    \cup Cut({From("search_messages"), [From("search_messages") EXCEPT !.jid = g1]})
    \cup Narrowed(Filtered({From("list_groups"), From("list_communities"), From("choose_group")}))
    \cup {[q EXCEPT !.communities = TRUE] : q \in Filtered({From("list_groups")})}
    \cup {[q EXCEPT !.answer = x] : q \in Filtered({From("choose_group")}), x \in Replies \cup {g1, g2, k1}}
    \cup About({From("get_group_info"), From("get_chat_metadata"), From("clear_tags")})
    \cup About({[From(tool) EXCEPT !.tags = {t1}] : tool \in {"add_tag", "remove_tag"}})
    \cup {[From("get_media") EXCEPT !.message = i] : i \in {1, 3, 4}}
    \cup {From("send_message")}, {None, a1})

\* The caller holds the second account, which has no tags, or both, with one
\* chat allowed or all: the first account is granted or revoked during calls.
MCInit ==
    /\ held \in {{a2}, {a1, a2}}
    /\ \E S \in {{g1}, {g1, g2, k1}} : allowed = held \X S
    /\ tags = [r \in Accounts \X Jids |->
                 CASE r = <<a1, g1>> -> {t1, t2} [] r = <<a1, g2>> -> {t1} [] OTHER -> {}]
    /\ keys = [a \in Accounts |-> {"read"}]
    /\ member = {<<a, j>> : a \in Accounts, j \in Groups}
    /\ Init

MCSpec == MCInit /\ [][Next]_vars

=============================================================================
