-------------------------------- MODULE Paging -------------------------------
(***************************************************************************)
(* How the tools cut lists into pages: `_page' of tools.py, the slices of  *)
(* message_store.py and the over-fetch of WAHAClient.list_messages.        *)
(*                                                                         *)
(* A list that is filtered out of a fixed, ordered source is the set of    *)
(* the positions that pass the filter; the source keeps their order.       *)
(***************************************************************************)
EXTENDS Integers, FiniteSets

CONSTANTS
    MaxListLimit, \* the ceiling on a caller's limit (200)
    FetchCap,     \* the most messages asked of WAHA for one chat (1000)
    Multiplier,   \* list_messages asks for three times what it needs ...
    Slack,        \* ... and twenty more, because some messages are noise
    ChatCap,      \* how many chats the searches look at (1000)
    FetchAll,     \* how many rows the allowlist is applied to (10,000)
    NoMore        \* next_offset null

ASSUME PagingAssumption ==
    /\ MaxListLimit \in Nat \ {0}
    /\ FetchCap \in Nat \ {0} /\ Multiplier \in Nat \ {0} /\ Slack \in Nat
    /\ ChatCap \in Nat /\ FetchAll \in Nat
    /\ NoMore \notin Int

-----------------------------------------------------------------------------

\* The place of position i in the list S, counted from 1.
Rank(S, i) == Cardinality({k \in S : k <= i})

\* A bound of a Python slice: a negative one counts from the end of the list.
Bound(i, size) == IF i >= 0 THEN i ELSE IF size + i >= 0 THEN size + i ELSE 0

\* S[offset : offset + n]
Slice(S, offset, n) ==
    LET size == Cardinality(S)
    IN  {i \in S : Rank(S, i) \in Bound(offset, size) + 1 .. Bound(offset + n, size)}

Clamp(limit) == IF limit < 1 THEN 1 ELSE IF limit > MaxListLimit THEN MaxListLimit ELSE limit

\* rows is the list from offset on, fetched with one row to spare.
Page(rows, limit, offset) ==
    [items |-> Slice(rows, 0, limit),
     next  |-> IF Cardinality(rows) > limit THEN offset + limit ELSE NoMore]

\* How many raw messages list_messages asks WAHA for.
FetchCount(limit, offset) ==
    LET wanted == (offset + limit) * Multiplier + Slack
    IN  IF wanted < FetchCap THEN wanted ELSE FetchCap

=============================================================================
