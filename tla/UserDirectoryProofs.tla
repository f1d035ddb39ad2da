------------------------- MODULE UserDirectoryProofs -------------------------
(***************************************************************************)
(* Proofs about UserDirectory, for any number of users, invitations,       *)
(* requests in flight and faults: its types, that the table's              *)
(* administrators come from WorkOS, and that nothing changes for someone   *)
(* WorkOS has not confirmed.  Then, for requests that come one at a time:  *)
(* that a removal reaches WorkOS first, that an administrator remains, and *)
(* that the table and WorkOS agree once a request is over.                 *)
(***************************************************************************)
EXTENDS UserDirectory, TLAPS

ReqType == [op : Ops \cup {"none"}, at : Steps, actor : Users, who : Users,
            want : Roles, previous : Roles, undo : BOOLEAN, list : SUBSET Invitations]

InviteType == [to : Users, role : Roles, state : {"unsent", "pending", "accepted", "revoked"}]

FaultType == [left : 0..MaxFaults, upset : BOOLEAN]

\* An idle slot is empty, and only a change waits for the live check.
Slots ==
    \A r \in Requests :
        /\ req[r].at = "idle" => req[r] = Idle
        /\ req[r].at = "live" => req[r].op \in {"invite", "remove", "setRole"}
        /\ req[r].at \notin {"idle", "live"} => req[r].op # "none"

\* The steps that are about to write a role to the table.
Writing == {"addRow", "record", "mirror"}

\* Every administrator of WorkOS or the table, and everyone who is about to
\* be made one in the table, was one in WorkOS or was invited as one.
Backed ==
    Managed =>
        /\ \A u \in Users \ {Boot} : users[u] = "admin" => u \in given
        /\ \A u \in Users \ {Boot} : role[u] = "admin" => u \in given
        /\ \A r \in Requests :
              req[r].at \in Writing /\ req[r].want = "admin" /\ req[r].who # Boot
                  => req[r].who \in given

Inv == TypeOK /\ Slots /\ Backed /\ ChangesVetted

-----------------------------------------------------------------------------
(* What a step does to the request that takes it.                          *)

\* Its new record: empty, or the same request at another step.
Continued(r, new) ==
    \/ new = Idle
    \/ /\ new \in ReqType /\ new.at \notin {"idle", "live"}
       /\ new.op = req[r].op /\ new.who = req[r].who

Continues(r) ==
    \E new : Continued(r, new) /\ req' = [req EXCEPT ![r] = new]

LEMMA IdleType == Idle \in ReqType /\ Idle.at = "idle" /\ Idle.op = "none"
  BY DirectoryAssumption DEF Idle, ReqType, Ops, Steps, Roles

LEMMA EndContinues ==
    ASSUME NEW r \in Requests, End(r) PROVE Continues(r)
  BY DEF End, Continues, Continued

LEMMA GoContinues ==
    ASSUME req \in [Requests -> ReqType], NEW r \in Requests,
           NEW step \in Steps \ {"idle", "live"}, Go(r, step)
    PROVE  /\ Continues(r) /\ req'[r].at = step
           /\ req'[r].want = req[r].want /\ req'[r].who = req[r].who
  <1> DEFINE new == [req[r] EXCEPT !.at = step]
  <1>1. req' = [req EXCEPT ![r] = new] /\ req'[r] = new
    BY DEF Go
  <1>2. Continued(r, new)
    BY DEF Continued, ReqType
  <1>3. new.at = step /\ new.want = req[r].want /\ new.who = req[r].who
    BY DEF ReqType
  <1> QED BY <1>1, <1>2, <1>3 DEF Continues

LEMMA ListContinues ==
    ASSUME req \in [Requests -> ReqType], NEW r \in Requests,
           NEW step \in Steps \ {"idle", "live"}, NEW L \in SUBSET Invitations,
           req' = [req EXCEPT ![r].at = step, ![r].list = L]
    PROVE  Continues(r) /\ req'[r].at = step
  <1> DEFINE new == [req[r] EXCEPT !.at = step, !.list = L]
  <1>1. req' = [req EXCEPT ![r] = new]
    OBVIOUS
  <1>2. Continued(r, new) /\ new.at = step
    BY DEF Continued, ReqType
  <1> QED BY <1>1, <1>2 DEF Continues

LEMMA ShorterContinues ==
    ASSUME req \in [Requests -> ReqType], NEW r \in Requests, NEW i,
           req[r].at \notin {"idle", "live"},
           req' = [req EXCEPT ![r].list = @ \ {i}]
    PROVE  Continues(r) /\ req'[r].at = req[r].at
  <1> DEFINE new == [req[r] EXCEPT !.list = @ \ {i}]
  <1>1. req' = [req EXCEPT ![r] = new]
    OBVIOUS
  <1>2. Continued(r, new) /\ new.at = req[r].at
    BY DEF Continued, ReqType
  <1> QED BY <1>1, <1>2 DEF Continues

\* What a step leaves of the fault budget.
LEMMA FaultsType ==
    ASSUME TypeOK
    PROVE  /\ \A kind : Fault(kind) => faults' \in FaultType
           /\ \A possible : \/ Done(possible) \/ Fails(possible) \/ DoneAndLost(possible)
                            => faults' \in FaultType
  <1>1. faults \in FaultType
    BY DEF TypeOK, FaultType
  <1>2. ASSUME NEW kind, Fault(kind) PROVE faults' \in FaultType
    <2>1. /\ faults.left \in 0..MaxFaults /\ faults.left > 0 /\ faults.upset \in BOOLEAN
          /\ faults' = [left |-> faults.left - 1, upset |-> faults.upset \/ kind \notin Undone]
      BY <1>1, <1>2 DEF Fault, FaultType
    <2>2. faults.left - 1 \in 0..MaxFaults
      BY <2>1, DirectoryAssumption
    <2>3. (faults.upset \/ kind \notin Undone) \in BOOLEAN
      OBVIOUS
    <2> QED BY <2>1, <2>2, <2>3 DEF FaultType
  <1>3. ASSUME NEW possible, Done(possible) \/ Fails(possible) \/ DoneAndLost(possible)
        PROVE  faults' \in FaultType
    BY <1>1, <1>2, <1>3 DEF Done, Fails, DoneAndLost
  <1> QED BY <1>2, <1>3

-----------------------------------------------------------------------------
(* What every step keeps.                                                  *)

World == /\ users' \in [Users -> Roles \cup {"none"}]
         /\ role' \in [Users -> Roles \cup {"other", "none"}]
         /\ invite' \in [Invitations -> InviteType]
         /\ signed' \in [Users -> {"no", "yes", "stale"}]
         /\ faults' \in FaultType

\* The table's administrators after the step, and what is about to be written.
BackedAfter(r) ==
    Managed =>
        /\ \A u \in Users \ {Boot} : users'[u] = "admin" => u \in given'
        /\ req'[r].at \in Writing /\ req'[r].want = "admin" /\ req'[r].who # Boot
              => req'[r].who \in given'

LEMMA HistoryType ==
    ASSUME TypeOK, Observe
    PROVE  /\ given' \in SUBSET Users /\ vetted' \in SUBSET Requests
           /\ given \subseteq given'
           /\ \A u \in Users : role'[u] = "admin" => u \in given'
  BY DEF TypeOK, Observe

\* A step of a request that is past its live check.
LEMMA StepKeeps ==
    ASSUME Inv, NEW r \in Requests, req[r].at \notin {"idle", "live"}, Continues(r),
           Observe, World, BackedAfter(r)
    PROVE  Inv'
  <1>1. PICK new : Continued(r, new) /\ req' = [req EXCEPT ![r] = new]
    BY DEF Continues
  <1>2. req \in [Requests -> ReqType]
    BY DEF Inv, TypeOK, ReqType
  <1>3. new \in ReqType
    BY <1>1, IdleType DEF Continued
  <1>4. req' \in [Requests -> ReqType]
    BY <1>1, <1>2, <1>3
  <1>5. TypeOK'
    BY <1>4, HistoryType DEF World, TypeOK, ReqType, InviteType, FaultType, Inv
  <1>6. Slots'
    <2>1. ASSUME NEW q \in Requests, q # r PROVE req'[q] = req[q]
      BY <2>1, <1>1, <1>2
    <2>2. req'[r] = new
      BY <1>1, <1>2
    <2>3. req[r].op # "none"
      BY DEF Inv, Slots
    <2> QED BY <2>1, <2>2, <2>3, <1>1, IdleType DEF Slots, Inv, Continued
  <1>7. Backed'
    <2> SUFFICES ASSUME Managed PROVE Backed'
      BY DEF Backed
    <2>1. ASSUME NEW q \in Requests, q # r,
                 req'[q].at \in Writing, req'[q].want = "admin", req'[q].who # Boot
          PROVE  req'[q].who \in given'
      BY <2>1, <1>1, <1>2, HistoryType DEF Inv, Backed
    <2>2. \A u \in Users \ {Boot} : role'[u] = "admin" => u \in given'
      BY HistoryType DEF Inv
    <2> QED BY <2>1, <2>2 DEF BackedAfter, Backed
  <1>8. ChangesVetted'
    <2> SUFFICES ASSUME NEW q \in Requests,
                        req'[q].op \in {"invite", "remove", "setRole"}, req'[q].at # "live"
                 PROVE  q \in vetted'
      BY DEF ChangesVetted, At
    <2>1. req'[q].at # "idle"
      BY <1>6, IdleType DEF Slots
    <2>2. q \in vetted
      <3>1. CASE q = r
        BY <3>1, <1>1, <1>2, IdleType DEF Inv, ChangesVetted, At, Continued
      <3>2. CASE q # r
        BY <3>2, <1>1, <1>2 DEF Inv, ChangesVetted, At
      <3> QED BY <3>1, <3>2
    <2> QED BY <2>1, <2>2 DEF Observe
  <1> QED BY <1>5, <1>6, <1>7, <1>8 DEF Inv

\* A step that no request takes: WorkOS and the people in it.
LEMMA OutsideKeeps ==
    ASSUME Inv, Observe, World, UNCHANGED req,
           \A u \in Users : users'[u] = users[u] \/ u = Boot
    PROVE  Inv'
  <1>1. TypeOK'
    BY HistoryType DEF World, TypeOK, InviteType, FaultType, Inv
  <1>2. Slots'
    BY DEF Slots, Inv
  <1>3. Backed'
    <2>1. \A u \in Users \ {Boot} : role'[u] = "admin" => u \in given'
      BY HistoryType DEF Inv
    <2> QED BY <2>1, HistoryType DEF Inv, Backed
  <1>4. ChangesVetted'
    BY IdleType DEF Inv, ChangesVetted, Observe, At, Slots
  <1> QED BY <1>1, <1>2, <1>3, <1>4 DEF Inv

\* A request arrives: a change at its live check, or a sign-in.
LEMMA ArriveKeeps ==
    ASSUME Inv, NEW r \in Requests, NEW new \in ReqType, Arrive(r, new),
           \/ new.op \in {"invite", "remove", "setRole"} /\ new.at = "live"
           \/ new.op = "login" /\ new.at = "getRole"
    PROVE  Inv'
  <1>1. /\ req' = [req EXCEPT ![r] = new] /\ Observe
        /\ UNCHANGED <<users, role, invite, signed, faults>>
    BY DEF Arrive
  <1>2. req \in [Requests -> ReqType]
    BY DEF Inv, TypeOK, ReqType
  <1>3. req' \in [Requests -> ReqType] /\ req'[r] = new
        /\ \A q \in Requests : q # r => req'[q] = req[q]
    BY <1>1, <1>2
  <1>4. TypeOK'
    BY <1>1, <1>3, HistoryType DEF TypeOK, ReqType, Inv
  <1>5. Slots'
    BY <1>3 DEF Slots, Inv
  <1>6. Backed'
    BY <1>1, <1>3, HistoryType DEF Backed, Inv, Writing
  <1>7. ChangesVetted'
    BY <1>1, <1>3, IdleType DEF ChangesVetted, Inv, At, Slots, Observe
  <1> QED BY <1>4, <1>5, <1>6, <1>7 DEF Inv

-----------------------------------------------------------------------------
(* The actions, one by one.                                                *)

LEMMA InitInv == ASSUME Init PROVE Inv
  <1>1. TypeOK
    BY IdleType, DirectoryAssumption
    DEF Init, TypeOK, ReqType, NoInvite, Roles
  <1>2. Slots
    BY IdleType DEF Init, Slots
  <1>3. Backed
    BY IdleType DEF Init, Backed, Writing
  <1>4. ChangesVetted
    BY IdleType DEF Init, ChangesVetted, At
  <1> QED BY <1>1, <1>2, <1>3, <1>4 DEF Inv

LEMMA ArrivalsKeep ==
    ASSUME Inv, NEW r \in Requests, InviteUser(r) \/ RemoveUser(r) \/ ChangeRole(r)
    PROVE  Inv'
  <1>1. CASE InviteUser(r)
    <2>1. PICK me \in Users, u \in Users, rl \in Roles :
             Arrive(r, [Idle EXCEPT !.op = "invite", !.at = "live", !.actor = me,
                                    !.who = u, !.want = rl])
      BY <1>1 DEF InviteUser
    <2> DEFINE new == [Idle EXCEPT !.op = "invite", !.at = "live", !.actor = me,
                                   !.who = u, !.want = rl]
    <2>2. new \in ReqType /\ new.op = "invite" /\ new.at = "live"
      BY IdleType DEF Idle, ReqType, Ops, Steps, Roles
    <2> QED BY <2>1, <2>2, ArriveKeeps
  <1>2. CASE RemoveUser(r)
    <2>1. PICK me \in Users, u \in Users :
             Arrive(r, [Idle EXCEPT !.op = "remove", !.at = "live", !.actor = me, !.who = u])
      BY <1>2 DEF RemoveUser
    <2> DEFINE new == [Idle EXCEPT !.op = "remove", !.at = "live", !.actor = me, !.who = u]
    <2>2. new \in ReqType /\ new.op = "remove" /\ new.at = "live"
      BY IdleType DEF Idle, ReqType, Ops, Steps, Roles
    <2> QED BY <2>1, <2>2, ArriveKeeps
  <1>3. CASE ChangeRole(r)
    <2>1. PICK me \in Users, u \in Users :
             /\ users[u] # "none"
             /\ \E rl \in Roles \ {users[u]} :
                    Arrive(r, [Idle EXCEPT !.op = "setRole", !.at = "live", !.actor = me,
                                           !.who = u, !.want = rl, !.previous = users[u]])
      BY <1>3 DEF ChangeRole
    <2>2. PICK rl \in Roles :
             Arrive(r, [Idle EXCEPT !.op = "setRole", !.at = "live", !.actor = me,
                                    !.who = u, !.want = rl, !.previous = users[u]])
      BY <2>1
    <2> DEFINE new == [Idle EXCEPT !.op = "setRole", !.at = "live", !.actor = me,
                                   !.who = u, !.want = rl, !.previous = users[u]]
    <2>3. users[u] \in Roles
      BY <2>1 DEF Inv, TypeOK
    <2>4. new \in ReqType /\ new.op = "setRole" /\ new.at = "live"
      BY <2>3, IdleType DEF Idle, ReqType, Ops, Steps, Roles
    <2> QED BY <2>2, <2>4, ArriveKeeps
  <1> QED BY <1>1, <1>2, <1>3

\* The live check is where a request becomes vetted.
LEMMA LiveCheckKeeps ==
    ASSUME Inv, NEW r \in Requests, LiveAdminCheck(r) PROVE Inv'
  <1> DEFINE step == FirstCall(req[r].op)
  <1>1. /\ req[r].at = "live" /\ req[r].op \in {"invite", "remove", "setRole"}
        /\ req \in [Requests -> ReqType] /\ Observe
        /\ UNCHANGED <<users, role, invite, signed>> /\ faults' \in FaultType
    BY FaultsType DEF LiveAdminCheck, At, Inv, Slots, TypeOK, ReqType
  <1>2. /\ step \in Steps \ {"idle", "live"}
        /\ Managed => step \notin Writing
    BY <1>1, DirectoryAssumption DEF FirstCall, Steps, Writing
  <1>3. \/ req' = [req EXCEPT ![r].at = step] /\ LiveAdmin(req[r].actor)
        \/ req' = [req EXCEPT ![r] = Idle]
    BY DEF LiveAdminCheck, Done, Go, End
  <1>4. /\ req' \in [Requests -> ReqType]
        /\ \A q \in Requests : q # r => req'[q] = req[q]
        /\ \/ req'[r] = Idle
           \/ req'[r].at = step /\ req'[r].op = req[r].op /\ LiveAdmin(req[r].actor)
    BY <1>1, <1>2, <1>3, IdleType DEF ReqType
  <1>5. TypeOK'
    BY <1>1, <1>4, HistoryType DEF TypeOK, ReqType, FaultType, Inv
  <1>6. Slots'
    BY <1>1, <1>2, <1>4, IdleType DEF Slots, Inv
  <1>7. Backed'
    BY <1>1, <1>2, <1>4, IdleType, HistoryType DEF Backed, Inv, Writing
  <1>8. ChangesVetted'
    <2> SUFFICES ASSUME NEW q \in Requests,
                        req'[q].op \in {"invite", "remove", "setRole"}, req'[q].at # "live"
                 PROVE  q \in vetted'
      BY DEF ChangesVetted, At
    <2>1. CASE q = r
      BY <2>1, <1>1, <1>2, <1>4, IdleType DEF Observe
    <2>2. CASE q # r
      <3>1. req'[q] = req[q]
        BY <2>2, <1>4
      <3>2. q \in vetted /\ req'[q].at # "idle"
        BY <3>1, IdleType DEF Inv, ChangesVetted, At, Slots
      <3> QED BY <3>2, <1>1 DEF Observe
    <2> QED BY <2>1, <2>2
  <1> QED BY <1>5, <1>6, <1>7, <1>8 DEF Inv

\* Inv, taken apart for the steps below.
LEMMA InvParts ==
    ASSUME Inv
    PROVE  /\ req \in [Requests -> ReqType] /\ invite \in [Invitations -> InviteType]
           /\ users \in [Users -> Roles \cup {"none"}]
           /\ role \in [Users -> Roles \cup {"other", "none"}]
           /\ signed \in [Users -> {"no", "yes", "stale"}]
           /\ faults \in FaultType /\ Boot \in Users
  BY DirectoryAssumption DEF Inv, TypeOK, ReqType, InviteType, FaultType

\* A step that writes neither the table nor a step about to write it.
LEMMA NotWriting ==
    ASSUME Inv, Observe, UNCHANGED users, NEW r \in Requests, req'[r].at \notin Writing
    PROVE  BackedAfter(r)
  BY HistoryType DEF BackedAfter, Inv, Backed

LEMMA SentTypes ==
    ASSUME Inv, NEW i \in Invitations, NEW u \in Users, NEW rl \in Roles, Sent(i, u, rl)
    PROVE  /\ invite' \in [Invitations -> InviteType]
           /\ Observe /\ rl = "admin" => u \in given'
  BY InvParts DEF Sent, InviteType, Observe

LEMMA RevokedTypes ==
    ASSUME Inv, NEW i \in Invitations, Revoked(i)
    PROVE  invite' \in [Invitations -> InviteType]
  BY InvParts DEF Revoked, InviteType

LEMMA InvitingKeeps ==
    ASSUME Inv, NEW r \in Requests, SendInvitation(r) \/ AddRow(r) \/ UnsendInvitation(r)
    PROVE  Inv'
  <1> DEFINE u == req[r].who
  <1>0. u \in Users /\ req[r].want \in Roles /\ req[r].list \subseteq Invitations
    BY InvParts DEF ReqType
  <1>1. CASE SendInvitation(r)
    <2>1. /\ req[r].at = "send" /\ Observe /\ UNCHANGED <<users, role, signed>>
      BY <1>1 DEF SendInvitation, At
    <2>2. \/ \E i \in Invitations :
                /\ Sent(i, u, req[r].want) /\ faults' \in FaultType
                /\ req' = [req EXCEPT ![r].at = "addRow", ![r].list = {i}] \/ End(r)
          \/ End(r) /\ UNCHANGED invite /\ faults' \in FaultType
      BY <1>1, FaultsType DEF SendInvitation, Inv
    <2>3. World
      BY <2>1, <2>2, <1>0, SentTypes, InvParts DEF World
    <2>4. Continues(r)
      <3>1. ASSUME NEW i \in Invitations,
                   req' = [req EXCEPT ![r].at = "addRow", ![r].list = {i}]
            PROVE  Continues(r)
        <4>1. "addRow" \in Steps \ {"idle", "live"} /\ {i} \in SUBSET Invitations
          BY DEF Steps
        <4> QED BY <4>1, <3>1, ListContinues, InvParts
      <3> QED BY <3>1, <2>2, EndContinues
    <2>5. BackedAfter(r)
      <3>1. CASE req'[r].at \notin Writing
        BY <3>1, <2>1, NotWriting
      <3>2. CASE req'[r].at \in Writing
        <4>1. PICK i \in Invitations :
                 /\ Sent(i, u, req[r].want)
                 /\ req' = [req EXCEPT ![r].at = "addRow", ![r].list = {i}]
          BY <3>2, <2>2, InvParts, IdleType DEF End, Writing
        <4>2. req'[r].want = req[r].want /\ req'[r].who = u
          BY <4>1, InvParts DEF ReqType
        <4> QED BY <4>1, <4>2, <2>1, <1>0, SentTypes, HistoryType DEF BackedAfter, Inv, Backed
      <3> QED BY <3>1, <3>2
    <2> QED BY <2>1, <2>3, <2>4, <2>5, StepKeeps
  <1>2. CASE AddRow(r)
    <2>1. /\ req[r].at = "addRow" /\ Observe /\ UNCHANGED <<role, invite, signed>>
          /\ faults' \in FaultType
          /\ End(r) \/ Go(r, "unsend")
          /\ \/ UNCHANGED users
             \/ users' = [users EXCEPT ![u] = req[r].want]
      BY <1>2, FaultsType, InvParts DEF AddRow, At, NothingElse, Inv
    <2>2. World
      BY <2>1, <1>0, InvParts DEF World
    <2>3. Continues(r) /\ req'[r].at \notin Writing
      <3>1. CASE End(r)
        BY <3>1, EndContinues, InvParts, IdleType DEF Writing, End
      <3>2. CASE Go(r, "unsend")
        <4>1. "unsend" \in Steps \ {"idle", "live"}
          BY DEF Steps
        <4> QED BY <4>1, <3>2, GoContinues, InvParts DEF Writing
      <3> QED BY <3>1, <3>2, <2>1
    <2>4. BackedAfter(r)
      BY <2>1, <2>3, InvParts, HistoryType DEF BackedAfter, Backed, Inv, Writing
    <2> QED BY <2>1, <2>2, <2>3, <2>4, StepKeeps
  <1>3. CASE UnsendInvitation(r)
    <2>1. /\ req[r].at = "unsend" /\ Observe /\ UNCHANGED <<users, role, signed>> /\ End(r)
          /\ \E i \in Invitations : Revoked(i) \/ UNCHANGED invite
          /\ faults' \in FaultType
      BY <1>3, <1>0, FaultsType DEF UnsendInvitation, At, Inv
    <2>2. World
      BY <2>1, RevokedTypes, InvParts DEF World
    <2>3. Continues(r) /\ req'[r].at \notin Writing
      BY <2>1, EndContinues, InvParts, IdleType DEF Writing, End
    <2> QED BY <2>1, <2>2, <2>3, NotWriting, StepKeeps
  <1> QED BY <1>1, <1>2, <1>3

\* The revocations of directory.py, one by one, and what follows the last.
LEMMA RevokingKeeps ==
    ASSUME Inv, NEW r \in Requests, req[r].at \notin {"idle", "live"}, req[r].at \notin Writing,
           NEW next \in Steps \ {"idle", "live"}, next \notin Writing,
           \/ Go(r, next) /\ UNCHANGED <<invite, faults>>
           \/ \E i \in req[r].list :
                 LET possible == invite[i].state = "pending" IN
                 \/ Done(possible) /\ Revoked(i) /\ req' = [req EXCEPT ![r].list = @ \ {i}]
                 \/ DoneAndLost(possible) /\ Revoked(i) /\ End(r)
                 \/ Fails(possible) /\ UNCHANGED invite /\ End(r),
           UNCHANGED <<users, role, signed>>, Observe
    PROVE  Inv'
  <1>1. req[r].list \subseteq Invitations
    BY InvParts DEF ReqType
  <1>2. \/ Go(r, next) /\ UNCHANGED <<invite, faults>>
        \/ /\ \E i \in Invitations : Revoked(i) \/ UNCHANGED invite
           /\ faults' \in FaultType
           /\ End(r) \/ \E i \in Invitations : req' = [req EXCEPT ![r].list = @ \ {i}]
    BY <1>1, FaultsType DEF Inv
  <1>3. World
    BY <1>2, RevokedTypes, InvParts DEF World
  <1>4. Continues(r) /\ req'[r].at \notin Writing
    <2>1. CASE Go(r, next)
      BY <2>1, GoContinues, InvParts
    <2>2. CASE End(r)
      BY <2>2, EndContinues, InvParts, IdleType DEF Writing, End
    <2>3. ASSUME NEW i \in Invitations, req' = [req EXCEPT ![r].list = @ \ {i}]
          PROVE  Continues(r) /\ req'[r].at \notin Writing
      BY <2>3, ShorterContinues, InvParts
    <2> QED BY <2>1, <2>2, <2>3, <1>2
  <1> QED BY <1>3, <1>4, NotWriting, StepKeeps

\* A call that reads, and goes on at one of two steps, maybe with a new list.
LEMMA ReadingKeeps ==
    ASSUME Inv, NEW r \in Requests, req[r].at \notin {"idle", "live"},
           NEW next \in Steps \ {"idle", "live"}, next \notin Writing,
           NEW L \in SUBSET Invitations,
           \/ Read(r, Go(r, next))
           \/ Read(r, req' = [req EXCEPT ![r].at = next, ![r].list = L])
           \/ Read(r, End(r))
    PROVE  Inv'
  <1>1. /\ Observe /\ UNCHANGED <<users, role, invite, signed>> /\ faults' \in FaultType
        /\ Go(r, next) \/ req' = [req EXCEPT ![r].at = next, ![r].list = L] \/ End(r)
    BY FaultsType DEF Read, Inv
  <1>2. Continues(r) /\ req'[r].at \notin Writing
    <2>1. CASE Go(r, next)
      BY <2>1, GoContinues, InvParts
    <2>2. CASE End(r)
      BY <2>2, EndContinues, InvParts, IdleType DEF Writing, End
    <2>3. CASE req' = [req EXCEPT ![r].at = next, ![r].list = L]
      <3>1. req \in [Requests -> ReqType]
        BY InvParts
      <3>2. Continues(r) /\ req'[r].at = next
        BY ONLY <2>3, <3>1, ListContinues
      <3> QED BY <3>2
    <2> QED BY <2>1, <2>2, <2>3, <1>1
  <1>3. World
    BY <1>1, InvParts DEF World
  <1> QED BY <1>1, <1>2, <1>3, NotWriting, StepKeeps

LEMMA RemovingKeeps ==
    ASSUME Inv, NEW r \in Requests, DirectoryRemove(r) \/ DropRow(r) PROVE Inv'
  <1> DEFINE u == req[r].who
  <1>0. u \in Users /\ Pending(u) \in SUBSET Invitations
    BY InvParts DEF ReqType, Pending
  <1>1. \A s \in {"rmRevoke", "rmLookup", "rmDelete", "dropRow", "update", "pendings", "revoke",
                   "resend", "lookup"} :
           s \in Steps \ {"idle", "live"} /\ s \notin Writing
    BY DEF Steps, Writing
  <1>2. CASE At(r, "rmPending") /\
             Read(r, req' = [req EXCEPT ![r].at = "rmRevoke", ![r].list = Pending(u)])
    BY <1>2, <1>0, <1>1, ReadingKeeps DEF At
  <1>3. CASE /\ At(r, "rmRevoke")
             /\ \/ /\ req[r].list = {} /\ Go(r, "rmLookup") /\ UNCHANGED <<invite, faults>>
                \/ \E i \in req[r].list :
                      LET possible == invite[i].state = "pending" IN
                      \/ Done(possible) /\ Revoked(i) /\ req' = [req EXCEPT ![r].list = @ \ {i}]
                      \/ DoneAndLost(possible) /\ Revoked(i) /\ End(r)
                      \/ Fails(possible) /\ UNCHANGED invite /\ End(r)
             /\ UNCHANGED <<users, role, signed>> /\ Observe
    BY <1>3, <1>1, RevokingKeeps DEF At, Writing
  <1>4. CASE At(r, "rmLookup") /\ Read(r, Go(r, IF Member(u) THEN "rmDelete" ELSE "dropRow"))
    BY <1>4, <1>0, <1>1, ReadingKeeps DEF At
  <1>5. CASE /\ At(r, "rmDelete")
             /\ \/ Done(Member(u)) /\ role' = [role EXCEPT ![u] = "none"] /\ Go(r, "dropRow")
                \/ DoneAndLost(Member(u)) /\ role' = [role EXCEPT ![u] = "none"] /\ End(r)
                \/ Fails(Member(u)) /\ UNCHANGED role /\ End(r)
             /\ UNCHANGED <<users, invite, signed>> /\ Observe
    <2>1. /\ role' \in [Users -> Roles \cup {"other", "none"}] /\ faults' \in FaultType
          /\ Go(r, "dropRow") \/ End(r)
      BY <1>5, FaultsType, InvParts DEF Inv
    <2>2. Continues(r) /\ req'[r].at \notin Writing
      <3>1. CASE End(r)
        BY <3>1, EndContinues, InvParts, IdleType DEF Writing, End
      <3>2. CASE Go(r, "dropRow")
        BY <3>2, <1>1, GoContinues, InvParts
      <3> QED BY <3>1, <3>2, <2>1
    <2>3. World
      BY <2>1, <1>5, InvParts DEF World
    <2> QED BY <1>5, <2>2, <2>3, NotWriting, StepKeeps DEF At
  <1>6. CASE DropRow(r)
    <2>1. /\ req[r].at = "dropRow" /\ Observe /\ UNCHANGED <<role, invite, signed>>
          /\ faults' \in FaultType /\ End(r)
          /\ UNCHANGED users \/ users' = [users EXCEPT ![u] = "none"]
      BY <1>6, FaultsType, InvParts DEF DropRow, At, NothingElse, Inv
    <2>2. World
      BY <2>1, InvParts DEF World
    <2>3. Continues(r) /\ req'[r].at \notin Writing
      BY <2>1, EndContinues, InvParts, IdleType DEF Writing, End
    <2>4. BackedAfter(r)
      BY <2>1, <2>3, InvParts, HistoryType DEF BackedAfter, Backed, Inv
    <2> QED BY <2>1, <2>2, <2>3, <2>4, StepKeeps
  <1> QED BY <1>2, <1>3, <1>4, <1>5, <1>6 DEF DirectoryRemove

\* What follows a role that WorkOS now has, or has been asked to give.
LEMMA RoleSetKeeps ==
    ASSUME Inv, NEW r \in Requests, req[r].at \notin {"idle", "live"},
           RoleSet(r) \/ RoleFailed(r), UNCHANGED users, Observe, World,
           RoleSet(r) => (req[r].want = "admin" => req[r].who \in given')
    PROVE  Inv'
  <1>1. CASE End(r)
    <2>1. Continues(r) /\ req'[r].at \notin Writing
      BY <1>1, EndContinues, InvParts, IdleType DEF Writing, End
    <2> QED BY <2>1, NotWriting, StepKeeps
  <1>2. CASE ~End(r)
    <2>1. "record" \in Steps \ {"idle", "live"}
      BY DEF Steps
    <2>2. Go(r, "record") /\ RoleSet(r)
      BY <1>2 DEF RoleSet, RoleFailed
    <2>3. Continues(r) /\ req'[r].want = req[r].want /\ req'[r].who = req[r].who
      BY <2>1, <2>2, GoContinues, InvParts
    <2>4. BackedAfter(r)
      BY <2>2, <2>3, HistoryType DEF BackedAfter, Inv, Backed
    <2> QED BY <2>3, <2>4, StepKeeps
  <1> QED BY <1>1, <1>2

LEMMA RoleChangesKeep ==
    ASSUME Inv, NEW r \in Requests, DirectorySetRole(r) PROVE Inv'
  <1> DEFINE u == req[r].who  rl == req[r].want
  <1>0. u \in Users /\ rl \in Roles /\ Pending(u) \in SUBSET Invitations
    BY InvParts DEF ReqType, Pending
  <1>1. \A s \in {"update", "pendings", "revoke", "resend", "lookup"} :
           s \in Steps \ {"idle", "live"} /\ s \notin Writing
    BY DEF Steps, Writing
  <1>2. CASE At(r, "lookup") /\ Read(r, Go(r, IF Member(u) THEN "update" ELSE "pendings"))
    BY <1>2, <1>0, <1>1, ReadingKeeps DEF At
  <1>3. CASE /\ At(r, "update")
             /\ \/ Done(Member(u)) /\ role' = [role EXCEPT ![u] = rl] /\ RoleSet(r)
                \/ DoneAndLost(Member(u)) /\ role' = [role EXCEPT ![u] = rl] /\ RoleFailed(r)
                \/ Fails(Member(u)) /\ UNCHANGED role /\ RoleFailed(r)
             /\ UNCHANGED <<users, invite, signed>> /\ Observe
    <2>1. /\ faults' \in FaultType /\ Observe /\ UNCHANGED users
          /\ \/ role' = [role EXCEPT ![u] = rl] /\ (RoleSet(r) \/ RoleFailed(r))
             \/ UNCHANGED role /\ RoleFailed(r) /\ End(r)
      BY <1>3, FaultsType DEF Inv, RoleFailed
    <2>2. World
      BY <2>1, <1>0, <1>3, InvParts DEF World
    <2>3. CASE role' = [role EXCEPT ![u] = rl]
      <3>1. rl = "admin" => u \in given'
        BY <2>3, <1>0, HistoryType, InvParts, <1>3 DEF Inv
      <3> QED BY <3>1, <2>1, <2>2, <1>3, RoleSetKeeps DEF At, RoleFailed
    <2>4. CASE UNCHANGED role /\ End(r)
      <3>1. Continues(r) /\ req'[r].at \notin Writing
        BY <2>4, EndContinues, InvParts, IdleType DEF Writing, End
      <3> QED BY <3>1, <2>1, <2>2, <1>3, NotWriting, StepKeeps DEF At
    <2> QED BY <2>1, <2>3, <2>4
  <1>4. CASE /\ At(r, "pendings")
             /\ Read(r, IF Pending(u) = {} THEN RoleFailed(r)
                        ELSE req' = [req EXCEPT ![r].at = "revoke", ![r].list = Pending(u)])
    <2>1. CASE Pending(u) = {}
      <3>1. Read(r, End(r))
        BY <2>1, <1>4 DEF RoleFailed
      <3> QED BY <3>1, <1>0, <1>1, <1>4, ReadingKeeps DEF At
    <2>2. CASE Pending(u) # {}
      <3>1. Read(r, req' = [req EXCEPT ![r].at = "revoke", ![r].list = Pending(u)])
        BY <2>2, <1>4
      <3> QED BY <3>1, <1>0, <1>1, <1>4, ReadingKeeps DEF At
    <2> QED BY <2>1, <2>2
  <1>5. CASE /\ At(r, "revoke")
             /\ \/ req[r].list = {} /\ Go(r, "resend") /\ UNCHANGED <<invite, faults>>
                \/ \E i \in req[r].list :
                      LET possible == invite[i].state = "pending" IN
                      \/ Done(possible) /\ Revoked(i) /\ req' = [req EXCEPT ![r].list = @ \ {i}]
                      \/ DoneAndLost(possible) /\ Revoked(i) /\ RoleFailed(r)
                      \/ Fails(possible) /\ UNCHANGED invite /\ RoleFailed(r)
             /\ UNCHANGED <<users, role, signed>> /\ Observe
    BY <1>5, <1>1, RevokingKeeps DEF At, Writing, RoleFailed
  <1>6. CASE /\ At(r, "resend")
             /\ \/ \E i \in Invitations :
                      /\ invite[i].state = "unsent"
                      /\ Sent(i, u, rl)
                      /\ \/ Done(~Member(u)) /\ RoleSet(r)
                         \/ DoneAndLost(~Member(u)) /\ RoleFailed(r)
                \/ Fails(~Member(u)) /\ UNCHANGED invite /\ RoleFailed(r)
             /\ UNCHANGED <<users, role, signed>> /\ Observe
    <2>1. /\ faults' \in FaultType /\ Observe /\ UNCHANGED users
          /\ \/ /\ \E i \in Invitations : Sent(i, u, rl)
                /\ RoleSet(r) \/ RoleFailed(r)
             \/ UNCHANGED invite /\ RoleFailed(r) /\ End(r)
      BY <1>6, FaultsType DEF Inv, RoleFailed
    <2>2. World
      BY <2>1, <1>0, <1>6, SentTypes, InvParts DEF World
    <2>3. CASE \E i \in Invitations : Sent(i, u, rl)
      <3>1. rl = "admin" => u \in given'
        BY <2>3, <1>0, SentTypes, <1>6
      <3>2. RoleSet(r) \/ RoleFailed(r)
        BY <2>1
      <3> QED BY <3>1, <3>2, <2>1, <2>2, <1>6, RoleSetKeeps DEF At
    <2>4. CASE UNCHANGED invite /\ End(r)
      <3>1. Continues(r) /\ req'[r].at \notin Writing
        BY <2>4, EndContinues, InvParts, IdleType DEF Writing, End
      <3> QED BY <3>1, <2>1, <2>2, <1>6, NotWriting, StepKeeps DEF At
    <2> QED BY <2>1, <2>3, <2>4
  <1> QED BY <1>2, <1>3, <1>4, <1>5, <1>6 DEF DirectorySetRole

LEMMA RecordKeeps ==
    ASSUME Inv, NEW r \in Requests, RecordRole(r) PROVE Inv'
  <1> DEFINE u == req[r].who
             undoing == [req[r] EXCEPT !.at = "lookup", !.undo = TRUE, !.want = req[r].previous]
  <1>1. /\ req[r].at = "record" /\ Observe /\ UNCHANGED <<role, invite, signed>>
        /\ faults' \in FaultType
        /\ \/ End(r)
           \/ req' = [req EXCEPT ![r] = undoing]
        /\ UNCHANGED users \/ users' = [users EXCEPT ![u] = req[r].want]
    BY FaultsType, InvParts DEF RecordRole, At, NothingElse, Inv
  <1>2. World
    BY <1>1, InvParts DEF World, ReqType
  <1>3. Continues(r) /\ req'[r].at \notin Writing
    <2>1. CASE End(r)
      BY <2>1, EndContinues, InvParts, IdleType DEF Writing, End
    <2>2. CASE req' = [req EXCEPT ![r] = undoing]
      <3>1. req[r] \in ReqType /\ "lookup" \in Steps
        BY InvParts DEF Steps
      <3>2. undoing \in ReqType
        BY <3>1 DEF ReqType
      <3>3. undoing.at = "lookup" /\ undoing.op = req[r].op /\ undoing.who = req[r].who
        BY <3>1 DEF ReqType
      <3>4. Continued(r, undoing)
        BY <3>2, <3>3 DEF Continued
      <3>5. req'[r] = undoing
        BY <2>2, InvParts
      <3> HIDE DEF undoing
      <3> QED BY <2>2, <3>3, <3>4, <3>5 DEF Continues, Writing
    <2> QED BY <2>1, <2>2, <1>1
  <1>4. BackedAfter(r)
    BY <1>1, <1>3, InvParts, HistoryType DEF BackedAfter, Backed, Inv, Writing
  <1> QED BY <1>1, <1>2, <1>3, <1>4, StepKeeps

LEMMA LoginKeeps ==
    ASSUME Inv, NEW r \in Requests, Login(r) \/ MirrorRole(r) PROVE Inv'
  <1> DEFINE u == req[r].who
  <1>1. CASE \E v \in Users :
               Arrive(r, [Idle EXCEPT !.op = "login", !.at = "getRole", !.actor = v, !.who = v])
    <2>1. PICK v \in Users :
             Arrive(r, [Idle EXCEPT !.op = "login", !.at = "getRole", !.actor = v, !.who = v])
      BY <1>1
    <2> DEFINE new == [Idle EXCEPT !.op = "login", !.at = "getRole", !.actor = v, !.who = v]
    <2>2. new \in ReqType /\ new.op = "login" /\ new.at = "getRole"
      BY IdleType DEF Idle, ReqType, Ops, Steps, Roles
    <2> QED BY <2>1, <2>2, ArriveKeeps
  <1>2. CASE /\ At(r, "getRole")
             /\ \/ /\ Managed /\ Done(GetRole(u) # "none") /\ UNCHANGED signed
                   /\ req' = [req EXCEPT ![r].at = "mirror", ![r].want = role[u]]
                \/ /\ (Managed /\ Fails(TRUE)) \/ Done(~Managed \/ GetRole(u) = "none")
                   /\ End(r) /\ SignedIn(u)
             /\ UNCHANGED <<users, role, invite>> /\ Observe
    <2> DEFINE new == [req[r] EXCEPT !.at = "mirror", !.want = role[u]]
    <2>1. /\ Observe /\ UNCHANGED <<users, role, invite>> /\ faults' \in FaultType
          /\ UNCHANGED signed \/ signed' = [signed EXCEPT ![u] = "yes"]
          /\ \/ GetRole(u) # "none" /\ req' = [req EXCEPT ![r] = new]
             \/ End(r)
      BY <1>2, FaultsType DEF Inv, SignedIn, Done
    <2>2. World
      BY <2>1, InvParts DEF World
    <2>3. CASE End(r)
      <3>1. Continues(r) /\ req'[r].at \notin Writing
        BY <2>3, EndContinues, InvParts, IdleType DEF Writing, End
      <3> QED BY <3>1, <2>1, <2>2, <1>2, NotWriting, StepKeeps DEF At
    <2>4. CASE GetRole(u) # "none" /\ req' = [req EXCEPT ![r] = new]
      <3>1. role[u] \in Roles
        BY <2>4 DEF GetRole
      <3>2. Continued(r, new) /\ new.want = role[u] /\ new.who = u
        <4> HIDE DEF u
        <4>1. req[r] \in ReqType /\ "mirror" \in Steps
          BY InvParts DEF Steps
        <4>2. new \in ReqType
          BY <4>1, <3>1 DEF ReqType
        <4>3. /\ new.want = role[u] /\ new.who = req[r].who
              /\ new.op = req[r].op /\ new.at = "mirror"
          BY <4>1 DEF ReqType
        <4> QED BY <4>2, <4>3 DEF Continued, u
      <3>3. Continues(r) /\ req'[r].want = role[u] /\ req'[r].who = u
        BY <3>2, <2>4, InvParts DEF Continues
      <3>4. BackedAfter(r)
        BY <3>3, <2>1, InvParts, HistoryType DEF BackedAfter, Backed, Inv, ReqType
      <3> QED BY <3>3, <3>4, <2>1, <2>2, <1>2, StepKeeps DEF At
    <2> QED BY <2>1, <2>3, <2>4
  <1>3. CASE MirrorRole(r)
    <2>1. /\ req[r].at = "mirror" /\ End(r) /\ Observe /\ UNCHANGED <<role, invite>>
          /\ faults' \in FaultType
          /\ UNCHANGED signed \/ signed' = [signed EXCEPT ![u] = "yes"]
          /\ \/ UNCHANGED users
             \/ users' = [users EXCEPT ![u] = IF u = Boot THEN "admin" ELSE req[r].want]
      BY <1>3, FaultsType, InvParts DEF MirrorRole, At, SignedIn, Inv
    <2>2. World
      <3>1. req[r].want \in Roles /\ "admin" \in Roles
        BY InvParts DEF ReqType, Roles
      <3> QED BY <3>1, <2>1, InvParts DEF World
    <2>3. Continues(r) /\ req'[r].at \notin Writing
      BY <2>1, EndContinues, InvParts, IdleType DEF Writing, End
    <2>4. BackedAfter(r)
      BY <2>1, <2>3, InvParts, HistoryType DEF BackedAfter, Backed, Inv, Writing
    <2> QED BY <2>1, <2>2, <2>3, <2>4, StepKeeps
  <1> QED BY <1>1, <1>2, <1>3 DEF Login

LEMMA OthersKeep ==
    ASSUME Inv, \/ \E i \in Invitations : Accept(i)
                \/ \E u \in Users : Dashboard(u)
                \/ Restart
    PROVE  Inv'
  <1>1. ASSUME NEW i \in Invitations, Accept(i) PROVE Inv'
    <2>1. invite[i].to \in Users /\ invite[i].role \in Roles
      BY InvParts DEF InviteType
    <2>2. /\ invite' \in [Invitations -> InviteType]
          /\ role' \in [Users -> Roles \cup {"other", "none"}]
          /\ signed' \in [Users -> {"no", "yes", "stale"}]
      BY <2>1, <1>1, InvParts DEF Accept, InviteType
    <2>3. Observe /\ UNCHANGED <<users, req, faults>>
      BY <1>1 DEF Accept
    <2>4. World
      BY <2>2, <2>3, InvParts DEF World
    <2> QED BY <2>3, <2>4, OutsideKeeps
  <1>2. ASSUME NEW u \in Users, Dashboard(u) PROVE Inv'
    <2>1. /\ Observe /\ UNCHANGED <<users, invite, signed, req>> /\ faults' \in FaultType
          /\ role' \in [Users -> Roles \cup {"other", "none"}]
      BY <1>2, FaultsType, InvParts DEF Dashboard, Inv
    <2>2. World
      BY <2>1, InvParts DEF World
    <2> QED BY <2>1, <2>2, OutsideKeeps
  <1>3. CASE Restart
    <2>1. /\ users' = [users EXCEPT ![Boot] = "admin"] /\ Observe
          /\ UNCHANGED <<role, invite, signed>> /\ faults' \in FaultType
          /\ UNCHANGED req \/ req' = [r \in Requests |-> Idle]
      BY <1>3, FaultsType, InvParts DEF Restart, NothingElse, Inv
    <2>2. World
      BY <2>1, InvParts DEF World, Roles
    <2>3. CASE UNCHANGED req
      BY <2>1, <2>2, <2>3, InvParts, OutsideKeeps
    <2>4. CASE req' = [r \in Requests |-> Idle]
      <3>1. TypeOK'
        BY <2>1, <2>2, <2>4, IdleType, HistoryType
        DEF World, TypeOK, ReqType, InviteType, FaultType, Inv
      <3>2. Slots' /\ ChangesVetted'
        BY <2>4, IdleType DEF Slots, ChangesVetted
      <3>3. Backed'
        BY <2>1, <2>4, IdleType, InvParts, HistoryType DEF Backed, Inv, Writing
      <3> QED BY <3>1, <3>2, <3>3 DEF Inv
    <2> QED BY <2>1, <2>3, <2>4
  <1> QED BY <1>1, <1>2, <1>3

LEMMA StutterKeeps == ASSUME Inv, UNCHANGED vars PROVE Inv'
  BY DEF Inv, TypeOK, Slots, Backed, ChangesVetted, At, vars

LEMMA NextKeeps == ASSUME Inv, [Next]_vars PROVE Inv'
  <1>1. ASSUME NEW r \in Requests,
               \/ InviteUser(r)      \/ RemoveUser(r)       \/ ChangeRole(r)
               \/ LiveAdminCheck(r)  \/ SendInvitation(r)   \/ AddRow(r)
               \/ UnsendInvitation(r) \/ DirectoryRemove(r) \/ DropRow(r)
               \/ DirectorySetRole(r) \/ RecordRole(r)
               \/ Login(r)           \/ MirrorRole(r)
        PROVE  Inv'
    BY <1>1, ArrivalsKeep, LiveCheckKeeps, InvitingKeeps, RemovingKeeps, RoleChangesKeep,
       RecordKeeps, LoginKeeps
  <1> QED BY <1>1, OthersKeep, StutterKeeps DEF Next

LEMMA Invariance == Spec => []Inv
  BY InitInv, NextKeeps, PTL DEF Spec

-----------------------------------------------------------------------------

\* Every request, invitation and membership stays well formed, whatever fails
\* and however requests interleave.
THEOREM TypeCorrect == Spec => []TypeOK
  <1>1. Inv => TypeOK
    BY DEF Inv
  <1> QED BY <1>1, Invariance, PTL

\* The table has nobody as an administrator whom WorkOS never had or invited as
\* one: users.py and auth.py write the role to WorkOS, or read it there, first.
THEOREM WorkOSFirst == Spec => []AdminsComeFromWorkOS
  <1>1. Inv => AdminsComeFromWorkOS
    BY DEF Inv, Backed, AdminsComeFromWorkOS
  <1> QED BY <1>1, Invariance, PTL

\* No step of a change runs before WorkOS took its sender for an administrator:
\* live_admin_check comes before everything else in users.py.
THEOREM LiveCheckFirst == Spec => []ChangesVetted
  <1>1. Inv => ChangesVetted
    BY DEF Inv
  <1> QED BY <1>1, Invariance, PTL

-----------------------------------------------------------------------------
(* Requests that come one at a time: what the table and WorkOS have of the *)
(* request under way, whatever fails.                                      *)

\* There is one slot for requests.
OneAtATime == \A r, q \in Requests : r = q

Changing == {"invite", "remove", "setRole"}

StepsOf(op) ==
    CASE op = "invite"  -> {"live", "send", "addRow", "unsend"}
      [] op = "remove"  -> {"live", "rmPending", "rmRevoke", "rmLookup", "rmDelete", "dropRow"}
      [] op = "setRole" -> {"live", "lookup", "update", "pendings", "revoke", "resend", "record"}
      [] op = "login"   -> {"getRole", "mirror"}
      [] op = "none"    -> {"idle"}

\* A request under way: its sender is an administrator, and not its target,
\* and the table still has of its target what it had when the request came.
Planned(r) ==
    /\ req[r].at \in StepsOf(req[r].op)
    /\ req[r].undo => req[r].op = "setRole"
    /\ req[r].op \in Changing => users[req[r].actor] = "admin"
    /\ req[r].op \in {"remove", "setRole"} => req[r].who # req[r].actor
    /\ req[r].op = "invite" => users[req[r].who] = "none"
    /\ req[r].op = "setRole" =>
          users[req[r].who] = IF req[r].undo THEN req[r].want ELSE req[r].previous

\* What it has read in WorkOS, or done there, is still so.
Seen(r) ==
    /\ req[r].at \in {"revoke", "rmRevoke"} => Pending(req[r].who) \subseteq req[r].list
    /\ req[r].at \in {"resend", "rmLookup", "rmDelete"} => Pending(req[r].who) = {}
    /\ req[r].at = "dropRow" /\ Managed => Pending(req[r].who) = {} /\ role[req[r].who] = "none"
    /\ req[r].at = "mirror" => Managed
    /\ req[r].at \in {"live", "record"} => ~req[r].undo

\* Without an organization nothing happens in one.
Apart ==
    ~Managed => /\ \A i \in Invitations : invite[i].state = "unsent"
                /\ \A u \in Users \ {Boot} : role[u] = "none"
                /\ \A r \in Requests :
                      req[r].at \in {"idle", "live", "addRow", "dropRow", "record", "getRole"}

Orderly == Inv /\ Apart /\ \A r \in Requests : Planned(r) /\ Seen(r)

-----------------------------------------------------------------------------
(* How a request goes on, and how the invitations change.                  *)

Same(r) ==
    /\ req'[r].op = req[r].op /\ req'[r].undo = req[r].undo
    /\ req'[r].actor = req[r].actor /\ req'[r].who = req[r].who
    /\ req'[r].want = req[r].want /\ req'[r].previous = req[r].previous

LEMMA Ending ==
    ASSUME Inv, NEW r \in Requests, End(r)
    PROVE  /\ req'[r] = Idle /\ req'[r].at = "idle" /\ req'[r].op = "none"
           /\ req'[r].undo = FALSE
  BY InvParts DEF End, Idle

LEMMA Going ==
    ASSUME Inv, NEW r \in Requests, NEW step, Go(r, step)
    PROVE  req'[r].at = step /\ req'[r].list = req[r].list /\ Same(r)
  BY InvParts DEF Go, Same, ReqType

LEMMA Listing ==
    ASSUME Inv, NEW r \in Requests, NEW step, NEW L,
           req' = [req EXCEPT ![r].at = step, ![r].list = L]
    PROVE  req'[r].at = step /\ req'[r].list = L /\ Same(r)
  BY InvParts DEF Same, ReqType

LEMMA Shortening ==
    ASSUME Inv, NEW r \in Requests, NEW i, req' = [req EXCEPT ![r].list = @ \ {i}]
    PROVE  req'[r].at = req[r].at /\ req'[r].list = req[r].list \ {i} /\ Same(r)
  BY InvParts DEF Same, ReqType

LEMMA EndPlanned ==
    ASSUME NEW r \in Requests, req'[r].at = "idle", req'[r].op = "none", req'[r].undo = FALSE
    PROVE  Planned(r)' /\ Seen(r)'
  BY DEF Planned, Seen, StepsOf, Changing

LEMMA SamePlanned ==
    ASSUME NEW r \in Requests, Planned(r), Same(r), UNCHANGED users,
           req'[r].at \in StepsOf(req[r].op)
    PROVE  Planned(r)'
  BY DEF Planned, Same

\* Nothing is sent: an invitation is still what it was, or has been answered.
Shrinks ==
    \A i \in Invitations :
        /\ invite'[i].to = invite[i].to /\ invite'[i].role = invite[i].role
        /\ invite'[i].state = "pending" => invite[i].state = "pending"
        /\ invite'[i].state = "unsent" <=> invite[i].state = "unsent"

LEMMA RevokedShrinks ==
    ASSUME Inv, NEW i \in Invitations, invite[i].state = "pending", Revoked(i)
    PROVE  /\ Shrinks /\ invite'[i].state = "revoked"
           /\ \A u \in Users : Pending(u)' = Pending(u) \ {i}
  <1>1. \A j \in Invitations : j # i => invite'[j] = invite[j]
    BY InvParts DEF Revoked
  <1>2. /\ invite'[i].to = invite[i].to /\ invite'[i].role = invite[i].role
        /\ invite'[i].state = "revoked"
    BY InvParts DEF Revoked, InviteType
  <1> QED BY <1>1, <1>2 DEF Shrinks, Pending

LEMMA SamePending ==
    ASSUME UNCHANGED invite PROVE Shrinks /\ \A u \in Users : Pending(u)' = Pending(u)
  BY DEF Shrinks, Pending

LEMMA ShrunkPending ==
    ASSUME Shrinks, NEW u \in Users
    PROVE  /\ Pending(u)' \subseteq Pending(u)
           /\ \A i \in Pending(u)' : invite'[i].role = invite[i].role
  BY DEF Shrinks, Pending

-----------------------------------------------------------------------------
(* Each step keeps what its own request has of the table and of WorkOS.    *)

LEMMA ArrivalsPlanned ==
    ASSUME Inv, NEW r \in Requests, InviteUser(r) \/ RemoveUser(r) \/ ChangeRole(r)
    PROVE  Planned(r)' /\ Seen(r)'
  <1>1. CASE InviteUser(r)
    <2>1. PICK me \in Users, u \in Users, rl \in Roles :
             /\ users[me] = "admin" /\ users[u] = "none"
             /\ Arrive(r, [Idle EXCEPT !.op = "invite", !.at = "live", !.actor = me,
                                       !.who = u, !.want = rl])
      BY <1>1 DEF InviteUser, MayArrive
    <2>2. /\ req'[r].op = "invite" /\ req'[r].at = "live" /\ req'[r].actor = me
          /\ req'[r].who = u /\ ~req'[r].undo /\ UNCHANGED users
      BY <2>1, InvParts DEF Arrive, Idle
    <2> QED BY <2>1, <2>2 DEF Planned, Seen, StepsOf
  <1>2. CASE RemoveUser(r)
    <2>1. PICK me \in Users, u \in Users :
             /\ users[me] = "admin" /\ u # me
             /\ Arrive(r, [Idle EXCEPT !.op = "remove", !.at = "live", !.actor = me, !.who = u])
      BY <1>2 DEF RemoveUser, MayArrive
    <2>2. /\ req'[r].op = "remove" /\ req'[r].at = "live" /\ req'[r].actor = me
          /\ req'[r].who = u /\ ~req'[r].undo /\ UNCHANGED users
      BY <2>1, InvParts DEF Arrive, Idle
    <2> QED BY <2>1, <2>2 DEF Planned, Seen, StepsOf
  <1>3. CASE ChangeRole(r)
    <2>1. PICK me \in Users, u \in Users :
             /\ users[me] = "admin" /\ u # me
             /\ \E rl \in Roles \ {users[u]} :
                    Arrive(r, [Idle EXCEPT !.op = "setRole", !.at = "live", !.actor = me,
                                           !.who = u, !.want = rl, !.previous = users[u]])
      BY <1>3 DEF ChangeRole, MayArrive
    <2>2. PICK rl \in Roles :
             Arrive(r, [Idle EXCEPT !.op = "setRole", !.at = "live", !.actor = me,
                                    !.who = u, !.want = rl, !.previous = users[u]])
      BY <2>1
    <2>3. /\ req'[r].op = "setRole" /\ req'[r].at = "live" /\ req'[r].actor = me
          /\ req'[r].who = u /\ ~req'[r].undo /\ req'[r].previous = users[u]
          /\ UNCHANGED users
      BY <2>2, InvParts DEF Arrive, Idle
    <2> QED BY <2>1, <2>3 DEF Planned, Seen, StepsOf
  <1> QED BY <1>1, <1>2, <1>3

LEMMA ArrivalsWait ==
    ASSUME Inv, NEW r \in Requests, InviteUser(r) \/ RemoveUser(r) \/ ChangeRole(r)
    PROVE  /\ req'[r].at = "live" /\ ~req'[r].undo /\ req[r].at = "idle"
           /\ UNCHANGED <<users, role, invite, signed, faults>>
  <1>1. CASE InviteUser(r)
    <2>1. PICK me \in Users, u \in Users, rl \in Roles :
             Arrive(r, [Idle EXCEPT !.op = "invite", !.at = "live", !.actor = me,
                                    !.who = u, !.want = rl])
      BY <1>1 DEF InviteUser
    <2> QED BY <2>1, InvParts DEF Arrive, Idle, At
  <1>2. CASE RemoveUser(r)
    <2>1. PICK me \in Users, u \in Users :
             Arrive(r, [Idle EXCEPT !.op = "remove", !.at = "live", !.actor = me, !.who = u])
      BY <1>2 DEF RemoveUser
    <2> QED BY <2>1, InvParts DEF Arrive, Idle, At
  <1>3. CASE ChangeRole(r)
    <2>1. PICK me \in Users, u \in Users, rl \in Roles :
             Arrive(r, [Idle EXCEPT !.op = "setRole", !.at = "live", !.actor = me,
                                    !.who = u, !.want = rl, !.previous = users[u]])
      BY <1>3 DEF ChangeRole
    <2> QED BY <2>1, InvParts DEF Arrive, Idle, At
  <1> QED BY <1>1, <1>2, <1>3

LEMMA FirstSteps ==
    ASSUME NEW op \in Changing
    PROVE  /\ FirstCall(op) \in StepsOf(op)
           /\ FirstCall(op) \in IF Managed THEN {"send", "rmPending", "lookup"}
                                          ELSE {"addRow", "dropRow", "record"}
  <1>1. CASE op = "invite"
    <2>1. FirstCall(op) = IF Managed THEN "send" ELSE "addRow"
      BY <1>1 DEF FirstCall
    <2> QED BY <2>1, <1>1 DEF StepsOf
  <1>2. CASE op = "remove"
    <2>1. FirstCall(op) = IF Managed THEN "rmPending" ELSE "dropRow"
      BY <1>2 DEF FirstCall
    <2> QED BY <2>1, <1>2 DEF StepsOf
  <1>3. CASE op = "setRole"
    <2>1. FirstCall(op) = IF Managed THEN "lookup" ELSE "record"
      BY <1>3 DEF FirstCall
    <2> QED BY <2>1, <1>3 DEF StepsOf
  <1> QED BY <1>1, <1>2, <1>3 DEF Changing

LEMMA LiveCheckPlanned ==
    ASSUME Inv, NEW r \in Requests, Planned(r), Seen(r), LiveAdminCheck(r)
    PROVE  Planned(r)' /\ Seen(r)'
  <1>1. /\ UNCHANGED users /\ req[r].at = "live" /\ req[r].op \in Changing
        /\ Go(r, FirstCall(req[r].op)) \/ End(r)
    BY DEF LiveAdminCheck, At, Inv, Slots, Changing
  <1>2. CASE End(r)
    BY <1>2, Ending, EndPlanned
  <1>3. CASE Go(r, FirstCall(req[r].op))
    <2>1. req'[r].at = FirstCall(req[r].op) /\ Same(r)
      BY <1>3, Going
    <2>2. req'[r].at \in StepsOf(req[r].op)
      BY <2>1, <1>1, FirstSteps
    <2>3. /\ req'[r].at \in {"send", "rmPending", "lookup", "addRow", "dropRow", "record"}
          /\ req'[r].at = "dropRow" => ~Managed
      <3>1. CASE Managed
        BY <3>1, <2>1, <1>1, FirstSteps
      <3>2. CASE ~Managed
        BY <3>2, <2>1, <1>1, FirstSteps
      <3> QED BY <3>1, <3>2
    <2>4. Planned(r)'
      BY <2>1, <2>2, <1>1, SamePlanned
    <2>5. Seen(r)'
      BY <2>1, <2>3, <1>1 DEF Seen, Same
    <2> QED BY <2>4, <2>5
  <1> QED BY <1>1, <1>2, <1>3

\* A step that changes neither the table nor WorkOS.
LEMMA ReadingPlanned ==
    ASSUME NEW r \in Requests, Planned(r), Same(r), UNCHANGED <<users, role, invite>>,
           req'[r].at \in StepsOf(req[r].op),
           req'[r].at \in {"revoke", "rmRevoke"} => Pending(req[r].who) \subseteq req'[r].list,
           req'[r].at \in {"resend", "rmLookup", "rmDelete"} => Pending(req[r].who) = {},
           req'[r].at = "dropRow" /\ Managed =>
               Pending(req[r].who) = {} /\ role[req[r].who] = "none",
           req'[r].at \notin {"live", "record", "mirror"}
    PROVE  Planned(r)' /\ Seen(r)'
  <1>1. req'[r].who = req[r].who
    BY DEF Same
  <1>2. Pending(req[r].who)' = Pending(req[r].who)
    BY <1>1 DEF Pending
  <1>3. Seen(r)'
    BY <1>1, <1>2 DEF Seen
  <1> QED BY <1>3, SamePlanned

\* One of the invitations a request has listed is revoked.
LEMMA ShorterSeen ==
    ASSUME Inv, NEW r \in Requests, Planned(r), Seen(r), NEW i \in Invitations,
           req[r].at \in {"revoke", "rmRevoke"}, UNCHANGED users,
           invite[i].state = "pending", Revoked(i), req' = [req EXCEPT ![r].list = @ \ {i}]
    PROVE  Planned(r)' /\ Seen(r)'
  <1>1. /\ req'[r].at = req[r].at /\ req'[r].list = req[r].list \ {i}
        /\ Same(r) /\ req'[r].who = req[r].who
    BY Shortening DEF Same
  <1>2. req[r].who \in Users
    BY InvParts DEF ReqType
  <1>3. PICK u \in Users : u = req[r].who
    BY <1>2
  <1>4. Pending(u)' = Pending(u) \ {i}
    BY <1>3, RevokedShrinks
  <1>5. Pending(req[r].who)' = Pending(u) \ {i}
    BY <1>1, <1>3, <1>4 DEF Pending
  <1>6. Seen(r)'
    BY <1>1, <1>3, <1>5 DEF Seen
  <1>7. Planned(r)'
    BY <1>1, SamePlanned DEF Planned
  <1> QED BY <1>6, <1>7

LEMMA RemovingPlanned ==
    ASSUME Inv, NEW r \in Requests, Planned(r), Seen(r), DirectoryRemove(r)
    PROVE  Planned(r)' /\ Seen(r)'
  <1> DEFINE u == req[r].who
  <1>0. u \in Users /\ req[r].list \subseteq Invitations /\ UNCHANGED users
    BY InvParts DEF ReqType, DirectoryRemove, Read
  <1>1. CASE End(r)
    BY <1>1, Ending, EndPlanned
  <1>2. req[r].op = "remove"
    BY DEF DirectoryRemove, At, Planned, StepsOf, Inv, TypeOK, Ops
  <1>3. CASE At(r, "rmPending") /\ ~End(r)
    <2>1. /\ UNCHANGED <<users, role, invite>>
          /\ req' = [req EXCEPT ![r].at = "rmRevoke", ![r].list = Pending(u)]
      BY <1>3 DEF DirectoryRemove, Read, At
    <2>2. req'[r].at = "rmRevoke" /\ req'[r].list = Pending(u) /\ Same(r)
      BY <2>1, Listing
    <2>3. req'[r].at \in StepsOf(req[r].op)
      BY <2>2, <1>2 DEF StepsOf
    <2> QED BY <2>1, <2>2, <2>3, ReadingPlanned
  <1>4. CASE At(r, "rmRevoke") /\ ~End(r)
    <2>1. CASE req[r].list = {} /\ Go(r, "rmLookup") /\ UNCHANGED <<role, invite>>
      <3>1. req'[r].at = "rmLookup" /\ Same(r)
        BY <2>1, Going
      <3>2. Pending(u) = {}
        BY <1>4, <2>1 DEF Seen, At
      <3> QED BY <2>1, <3>1, <3>2, <1>0, <1>2, ReadingPlanned DEF StepsOf
    <2>2. ASSUME NEW i \in req[r].list, invite[i].state = "pending", Revoked(i),
                 req' = [req EXCEPT ![r].list = @ \ {i}]
          PROVE  Planned(r)' /\ Seen(r)'
      <3>1. i \in Invitations /\ req[r].at = "rmRevoke"
        BY <1>0, <1>4 DEF At
      <3> QED BY <2>2, <3>1, <1>0, ShorterSeen
    <2> QED BY <1>4, <2>1, <2>2 DEF DirectoryRemove, At, Done, DoneAndLost, Fails
  <1>5. CASE At(r, "rmLookup") /\ ~End(r)
    <2>1. /\ UNCHANGED <<users, role, invite>>
          /\ Go(r, IF Member(u) THEN "rmDelete" ELSE "dropRow")
      BY <1>5 DEF DirectoryRemove, Read, At
    <2>2. /\ req'[r].at = IF Member(u) THEN "rmDelete" ELSE "dropRow"
          /\ Same(r) /\ Pending(u) = {}
      BY <2>1, <1>5, Going DEF Seen, At
    <2> QED BY <2>1, <2>2, <1>2, ReadingPlanned DEF StepsOf, Member
  <1>6. CASE At(r, "rmDelete") /\ ~End(r)
    <2>1. role' = [role EXCEPT ![u] = "none"] /\ Go(r, "dropRow") /\ UNCHANGED <<users, invite>>
      BY <1>6 DEF DirectoryRemove, At, Done, DoneAndLost, Fails
    <2>2. req'[r].at = "dropRow" /\ Same(r) /\ req'[r].who = u
      BY <2>1, Going DEF Same
    <2>3. role'[u] = "none" /\ Pending(u) = {}
      BY <2>1, <1>0, <1>6, InvParts DEF Seen, At
    <2>4. Pending(u)' = {}
      BY <2>1, <2>2, <2>3 DEF Pending
    <2>5. Planned(r)'
      BY <2>1, <2>2, <1>2, SamePlanned DEF StepsOf
    <2> QED BY <2>2, <2>3, <2>4, <2>5 DEF Seen
  <1> QED BY <1>1, <1>3, <1>4, <1>5, <1>6 DEF DirectoryRemove

LEMMA InvitingPlanned ==
    ASSUME Inv, NEW r \in Requests, Planned(r),
           SendInvitation(r) \/ AddRow(r) \/ UnsendInvitation(r)
    PROVE  Planned(r)' /\ Seen(r)'
  <1>1. CASE End(r)
    BY <1>1, Ending, EndPlanned
  <1>2. ASSUME ~End(r)
        PROVE  /\ UNCHANGED users /\ Same(r) /\ req[r].op = "invite"
               /\ req'[r].at \in {"addRow", "unsend"}
    <2>1. CASE SendInvitation(r)
      <3>1. PICK i \in Invitations : req' = [req EXCEPT ![r].at = "addRow", ![r].list = {i}]
        BY <2>1, <1>2 DEF SendInvitation
      <3>2. req'[r].at = "addRow" /\ Same(r)
        BY <3>1, Listing
      <3>3. UNCHANGED users /\ req[r].at = "send" /\ req[r].op \in Ops \cup {"none"}
        BY <2>1, InvParts DEF SendInvitation, At, ReqType
      <3> QED BY <3>2, <3>3 DEF Planned, StepsOf, Ops
    <2>2. CASE AddRow(r)
      <3>1. Go(r, "unsend") /\ UNCHANGED users
        BY <2>2, <1>2 DEF AddRow
      <3>2. req'[r].at = "unsend" /\ Same(r)
        BY <3>1, Going
      <3>3. req[r].at = "addRow" /\ req[r].op \in Ops \cup {"none"}
        BY <2>2, InvParts DEF AddRow, At, ReqType
      <3> QED BY <3>1, <3>2, <3>3 DEF Planned, StepsOf, Ops
    <2>3. CASE UnsendInvitation(r)
      BY <2>3, <1>2 DEF UnsendInvitation
    <2> QED BY <2>1, <2>2, <2>3
  <1>3. CASE ~End(r)
    <2>1. req'[r].at \in StepsOf(req[r].op)
      BY <1>3, <1>2 DEF StepsOf
    <2> QED BY <2>1, <1>3, <1>2, SamePlanned DEF Seen
  <1> QED BY <1>1, <1>3

\* set_role goes on to the mirror, or is over.
LEMMA RoleSetPlanned ==
    ASSUME Inv, NEW r \in Requests, Planned(r), req[r].op = "setRole", UNCHANGED users,
           RoleSet(r) \/ RoleFailed(r)
    PROVE  Planned(r)' /\ Seen(r)'
  <1>1. CASE End(r)
    BY <1>1, Ending, EndPlanned
  <1>2. CASE ~End(r)
    <2>1. Go(r, "record")
      BY <1>2 DEF RoleSet, RoleFailed
    <2>2. req'[r].at = "record" /\ Same(r) /\ ~req[r].undo
      BY <2>1, <1>2, Going DEF RoleSet, RoleFailed
    <2>3. req'[r].at \in StepsOf(req[r].op)
      BY <2>2 DEF StepsOf
    <2> QED BY <2>2, <2>3, SamePlanned DEF Seen, Same
  <1> QED BY <1>1, <1>2

LEMMA RoleChangesPlanned ==
    ASSUME Inv, NEW r \in Requests, Planned(r), Seen(r), DirectorySetRole(r)
    PROVE  Planned(r)' /\ Seen(r)'
  <1> DEFINE u == req[r].who
  <1>0. u \in Users /\ req[r].list \subseteq Invitations /\ UNCHANGED users
    BY InvParts DEF ReqType, DirectorySetRole, Read
  <1>1. req[r].op = "setRole"
    <2>1. /\ req[r].op \in Ops \cup {"none"}
          /\ req[r].at \in {"lookup", "update", "pendings", "revoke", "resend"}
      BY InvParts DEF ReqType, DirectorySetRole, At
    <2> QED BY <2>1 DEF Planned, StepsOf, Ops
  <1>2. \A s \in {"update", "pendings", "revoke", "resend"} : s \in StepsOf(req[r].op)
    BY <1>1 DEF StepsOf
  <1>3. CASE End(r)
    BY <1>3, Ending, EndPlanned
  <1>4. CASE At(r, "lookup") /\ ~End(r)
    <2>1. /\ UNCHANGED <<users, role, invite>>
          /\ Go(r, IF Member(u) THEN "update" ELSE "pendings")
      BY <1>4 DEF DirectorySetRole, Read, At
    <2>2. Same(r) /\ req'[r].at \in {"update", "pendings"}
      BY <2>1, Going
    <2>3. req'[r].at \in StepsOf(req[r].op)
      BY <2>2, <1>2
    <2> QED BY <2>1, <2>2, <2>3, ReadingPlanned
  <1>5. CASE At(r, "update") \/ At(r, "resend")
    <2>1. RoleSet(r) \/ RoleFailed(r)
      BY <1>5 DEF DirectorySetRole, At
    <2> QED BY <2>1, <1>0, <1>1, RoleSetPlanned
  <1>6. CASE At(r, "pendings") /\ ~End(r)
    <2>1. /\ UNCHANGED <<users, role, invite>>
          /\ req' = [req EXCEPT ![r].at = "revoke", ![r].list = Pending(u)]
      BY <1>6 DEF DirectorySetRole, Read, At, RoleFailed
    <2>2. req'[r].at = "revoke" /\ req'[r].list = Pending(u) /\ Same(r)
      BY <2>1, Listing
    <2>3. req'[r].at \in StepsOf(req[r].op)
      BY <2>2, <1>2
    <2> QED BY <2>1, <2>2, <2>3, ReadingPlanned
  <1>7. CASE At(r, "revoke") /\ ~End(r)
    <2>1. CASE req[r].list = {} /\ Go(r, "resend") /\ UNCHANGED <<role, invite>>
      <3>1. req'[r].at = "resend" /\ Same(r)
        BY <2>1, Going
      <3>2. Pending(u) = {} /\ req'[r].at \in StepsOf(req[r].op)
        BY <1>7, <2>1, <3>1, <1>2 DEF Seen, At
      <3> QED BY <2>1, <3>1, <3>2, <1>0, ReadingPlanned
    <2>2. ASSUME NEW i \in req[r].list, invite[i].state = "pending", Revoked(i),
                 req' = [req EXCEPT ![r].list = @ \ {i}]
          PROVE  Planned(r)' /\ Seen(r)'
      <3>1. i \in Invitations /\ req[r].at = "revoke"
        BY <1>0, <1>7 DEF At
      <3> QED BY <2>2, <3>1, <1>0, ShorterSeen
    <2> QED BY <1>7, <2>1, <2>2 DEF DirectorySetRole, At, Done, DoneAndLost, Fails, RoleFailed
  <1> QED BY <1>3, <1>4, <1>5, <1>6, <1>7 DEF DirectorySetRole

\* The role is put back: the request keeps its target, at what the row has.
LEMMA RecordPlanned ==
    ASSUME Inv, NEW r \in Requests, Planned(r), Seen(r), RecordRole(r)
    PROVE  Planned(r)' /\ Seen(r)'
  <1>1. CASE End(r)
    BY <1>1, Ending, EndPlanned
  <1>2. CASE ~End(r)
    <2> DEFINE new == [req[r] EXCEPT !.at = "lookup", !.undo = TRUE, !.want = req[r].previous]
    <2>1. req' = [req EXCEPT ![r] = new] /\ UNCHANGED users /\ req[r].at = "record"
      BY <1>2, InvParts DEF RecordRole, At
    <2>2. req[r] \in ReqType /\ req'[r] = new
      BY <2>1, InvParts
    <2>3. /\ req'[r].at = "lookup" /\ req'[r].undo = TRUE /\ req'[r].want = req[r].previous
          /\ req'[r].op = req[r].op /\ req'[r].who = req[r].who /\ req'[r].actor = req[r].actor
      BY <2>2 DEF ReqType
    <2>4. req[r].op = "setRole" /\ users[req[r].who] = IF req[r].undo THEN req[r].want
                                                                  ELSE req[r].previous
      BY <2>1, <2>2 DEF Planned, StepsOf, ReqType, Ops
    <2>5. ~req[r].undo
      BY <2>1 DEF Seen
    <2> HIDE DEF new
    <2>6. "lookup" \in StepsOf("setRole")
      BY DEF StepsOf
    <2> QED BY <2>1, <2>3, <2>4, <2>5, <2>6 DEF Planned, Seen
  <1> QED BY <1>1, <1>2

LEMMA LoginPlanned ==
    ASSUME Inv, NEW r \in Requests, Planned(r), Login(r)
    PROVE  Planned(r)' /\ Seen(r)'
  <1>1. CASE End(r)
    BY <1>1, Ending, EndPlanned
  <1>2. ASSUME NEW v \in Users,
               Arrive(r, [Idle EXCEPT !.op = "login", !.at = "getRole", !.actor = v, !.who = v])
        PROVE  Planned(r)' /\ Seen(r)'
    <2>1. req'[r].op = "login" /\ req'[r].at = "getRole" /\ ~req'[r].undo
      BY <1>2, InvParts DEF Arrive, Idle
    <2> QED BY <2>1 DEF Planned, Seen, StepsOf, Changing
  <1>3. CASE /\ At(r, "getRole") /\ Managed /\ UNCHANGED users
             /\ req' = [req EXCEPT ![r].at = "mirror", ![r].want = role[req[r].who]]
    <2>1. req[r].op = "login"
      BY <1>3, InvParts DEF At, Planned, StepsOf, ReqType, Ops
    <2>2. req'[r].op = "login" /\ req'[r].at = "mirror" /\ req'[r].undo = req[r].undo
      BY <2>1, <1>3, InvParts DEF ReqType
    <2> QED BY <2>1, <2>2, <1>3 DEF Planned, Seen, StepsOf, Changing
  <1> QED BY <1>1, <1>2, <1>3 DEF Login

\* People accepting invitations, the dashboard and a restart.
LEMMA OthersPlanned ==
    ASSUME Inv, NEW r \in Requests, Planned(r), Seen(r),
           \/ \E i \in Invitations : Accept(i)
           \/ \E u \in Users : Dashboard(u)
           \/ Restart
    PROVE  Planned(r)' /\ Seen(r)'
  <1>0. req[r].who \in Users
    BY InvParts DEF ReqType
  <1>1. ASSUME NEW i \in Invitations, Accept(i) PROVE Planned(r)' /\ Seen(r)'
    <2>1. UNCHANGED <<users, req>> /\ invite[i].state = "pending" /\ Same(r)
      BY <1>1 DEF Accept, Same
    <2>2. Shrinks
      BY <1>1, InvParts DEF Accept, Shrinks, InviteType
    <2>3. Pending(req[r].who)' \subseteq Pending(req[r].who)
      BY <2>1, <2>2 DEF Shrinks, Pending
    <2>4. role[req[r].who] = "none" /\ Pending(req[r].who) = {} => role'[req[r].who] = "none"
      <3>1. i \in Pending(invite[i].to)
        BY <2>1 DEF Pending
      <3> QED BY <3>1, <1>0, <1>1, InvParts DEF Accept
    <2>5. Planned(r)'
      BY <2>1, SamePlanned DEF Planned
    <2> QED BY <2>1, <2>3, <2>4, <2>5 DEF Seen
  <1>2. ASSUME NEW u \in Users, Dashboard(u) PROVE Planned(r)' /\ Seen(r)'
    <2>1. UNCHANGED <<users, req, invite>> /\ Same(r)
      BY <1>2 DEF Dashboard, Same
    <2>2. role[req[r].who] = "none" => role'[req[r].who] = "none"
      BY <1>0, <1>2, InvParts DEF Dashboard, Member
    <2>3. Pending(req[r].who)' = Pending(req[r].who)
      BY <2>1 DEF Pending
    <2>4. Planned(r)'
      BY <2>1, SamePlanned DEF Planned
    <2> QED BY <2>1, <2>2, <2>3, <2>4 DEF Seen
  <1>3. CASE Restart
    <2>1. req'[r] = Idle
      <3>1. CASE UNCHANGED req /\ At(r, "idle")
        BY <3>1 DEF Inv, Slots, At
      <3>2. CASE req' = [q \in Requests |-> Idle]
        BY <3>2
      <3> QED BY <3>1, <3>2, <1>3 DEF Restart
    <2>2. req'[r].at = "idle" /\ req'[r].op = "none" /\ req'[r].undo = FALSE
      BY <2>1 DEF Idle
    <2> QED BY <2>2, EndPlanned
  <1> QED BY <1>1, <1>2, <1>3

\* The steps of a request, and the others.
Acts(r) ==
    \/ InviteUser(r)       \/ RemoveUser(r)      \/ ChangeRole(r)
    \/ LiveAdminCheck(r)   \/ SendInvitation(r)  \/ AddRow(r)
    \/ UnsendInvitation(r) \/ DirectoryRemove(r) \/ DropRow(r)
    \/ DirectorySetRole(r) \/ RecordRole(r)
    \/ Login(r)            \/ MirrorRole(r)

Outside == \/ \E i \in Invitations : Accept(i)
           \/ \E u \in Users : Dashboard(u)
           \/ Restart

LEMMA NextActs == Next => (\E r \in Requests : Acts(r)) \/ Outside
  BY DEF Next, Acts, Outside

LEMMA ActsPlanned ==
    ASSUME Inv, NEW r \in Requests, Planned(r), Seen(r), Acts(r)
    PROVE  Planned(r)' /\ Seen(r)'
  <1>1. CASE DropRow(r) \/ MirrorRole(r)
    BY <1>1, Ending, EndPlanned DEF DropRow, MirrorRole
  <1> QED BY <1>1, ArrivalsPlanned, LiveCheckPlanned, InvitingPlanned, RemovingPlanned,
             RoleChangesPlanned, RecordPlanned, LoginPlanned DEF Acts

LEMMA StaysApart ==
    ASSUME Inv, Apart, OneAtATime, (\E r \in Requests : Acts(r)) \/ Outside PROVE Apart'
  <1> SUFFICES ASSUME ~Managed PROVE Apart'
    BY DEF Apart
  <1> DEFINE Local == {"idle", "live", "addRow", "dropRow", "record", "getRole"}
  <1>1. ASSUME NEW r \in Requests, Acts(r) PROVE Apart'
    <2>1. req[r].at \in Local
      BY DEF Apart
    <2>2. UNCHANGED <<role, invite>> /\ req'[r].at \in Local
      <3>1. CASE End(r) /\ UNCHANGED <<role, invite>>
        BY <3>1, Ending
      <3>2. CASE InviteUser(r) \/ RemoveUser(r) \/ ChangeRole(r)
        BY <3>2, ArrivalsWait
      <3>3. CASE LiveAdminCheck(r)
        <4>1. /\ req[r].op \in Changing /\ UNCHANGED <<role, invite>>
              /\ Go(r, FirstCall(req[r].op)) \/ End(r)
          BY <3>3 DEF LiveAdminCheck, At, Inv, Slots, Changing
        <4>2. CASE Go(r, FirstCall(req[r].op))
          <5>1. FirstCall(req[r].op) \in {"addRow", "dropRow", "record"}
            BY <4>1, FirstSteps
          <5> QED BY <5>1, <4>1, <4>2, Going
        <4> QED BY <4>1, <4>2, <3>1
      <3>4. CASE AddRow(r) \/ DropRow(r) \/ RecordRole(r)
        BY <3>4, <3>1 DEF AddRow, DropRow, RecordRole, NothingElse
      <3>5. CASE Login(r)
        <4>1. CASE At(r, "getRole") /\ End(r) /\ UNCHANGED <<role, invite>>
          BY <4>1, <3>1
        <4>2. ASSUME NEW v \in Users,
                     Arrive(r, [Idle EXCEPT !.op = "login", !.at = "getRole",
                                            !.actor = v, !.who = v])
              PROVE  UNCHANGED <<role, invite>> /\ req'[r].at \in Local
          BY <4>2, InvParts DEF Arrive, Idle
        <4> QED BY <3>5, <4>1, <4>2 DEF Login
      <3>6. CASE SendInvitation(r) \/ UnsendInvitation(r) \/ MirrorRole(r)
        BY <3>6, <2>1 DEF At, SendInvitation, UnsendInvitation, MirrorRole
      <3>7. CASE DirectoryRemove(r) \/ DirectorySetRole(r)
        BY <3>7, <2>1 DEF At, DirectoryRemove, DirectorySetRole
      <3> QED BY <3>2, <3>3, <3>4, <3>5, <3>6, <3>7, <1>1 DEF Acts
    <2> QED BY <2>2 DEF Apart, OneAtATime
  <1>2. CASE Outside
    <2>1. ASSUME NEW i \in Invitations, Accept(i) PROVE Apart'
      BY <2>1 DEF Accept, Apart
    <2>2. ASSUME NEW u \in Users, Dashboard(u) PROVE Apart'
      <3>1. u = Boot
        BY <2>2 DEF Dashboard, Member, Apart
      <3>2. UNCHANGED <<invite, req>> /\ \A v \in Users \ {Boot} : role'[v] = role[v]
        BY <3>1, <2>2, InvParts DEF Dashboard
      <3> QED BY <3>2 DEF Apart
    <2>3. CASE Restart
      BY <2>3 DEF Restart, NothingElse, Apart, Idle
    <2> QED BY <1>2, <2>1, <2>2, <2>3 DEF Outside
  <1> QED BY <1>1, <1>2

LEMMA InitOrderly == ASSUME Init PROVE Orderly
  <1>1. \A r \in Requests : Planned(r) /\ Seen(r)
    BY DEF Init, Idle, Planned, Seen, StepsOf, Changing
  <1>2. Apart
    BY DEF Init, Idle, NoInvite, Apart
  <1> QED BY <1>1, <1>2, InitInv DEF Orderly

LEMMA OrderlyKept == ASSUME Orderly, OneAtATime, [Next]_vars PROVE Orderly'
  <1>1. Inv'
    BY NextKeeps DEF Orderly
  <1>2. CASE Next
    <2>1. Apart'
      BY <1>2, NextActs, StaysApart DEF Orderly
    <2>2. ASSUME NEW r \in Requests PROVE Planned(r)' /\ Seen(r)'
      <3>1. Acts(r) \/ Outside
        BY <1>2, NextActs DEF OneAtATime
      <3> QED BY <3>1, ActsPlanned, OthersPlanned DEF Orderly, Outside
    <2> QED BY <1>1, <2>1, <2>2 DEF Orderly
  <1>3. CASE UNCHANGED vars
    BY <1>1, <1>3 DEF Orderly, Apart, Planned, Seen, Pending, vars
  <1> QED BY <1>2, <1>3

LEMMA AlwaysOrderly == ASSUME OneAtATime PROVE Spec => []Orderly
  BY InitOrderly, OrderlyKept, PTL DEF Spec

\* With one request at a time, a row goes only once its user has neither a
\* membership nor an invitation left: users.py removes from WorkOS first, and
\* db.remove_user comes last.  People may accept invitations all the while.
THEOREM RemovedFirst == ASSUME OneAtATime PROVE Spec => RemovedEverywhere
  <1> DEFINE P == \A u \in Users : users[u] # "none" /\ users'[u] = "none" /\ Managed =>
                       role[u] = "none" /\ Pending(u) = {}
  <1>1. ASSUME Orderly, Next PROVE P
    <2> SUFFICES ASSUME NEW u \in Users, users[u] # "none", users'[u] = "none", Managed
                 PROVE  role[u] = "none" /\ Pending(u) = {}
      OBVIOUS
    <2>1. users[u] \in Roles \cup {"none"} /\ "none" \notin Roles
      BY <1>1, InvParts DEF Orderly, Roles
    <2>2. CASE Outside
      BY <2>2, <2>1, <1>1, InvParts DEF Outside, Accept, Dashboard, Restart, Orderly, Roles
    <2>3. ASSUME NEW r \in Requests, Acts(r), ~DropRow(r) PROVE FALSE
      <3>1. req[r].want \in Roles /\ "admin" \in Roles /\ req[r].who \in Users
        BY <1>1, InvParts DEF Orderly, ReqType, Roles
      <3>2. users'[u] # users[u]
        BY <2>1
      <3>3. ~(UNCHANGED users)
        BY <3>2
      <3>4. AddRow(r) \/ RecordRole(r) \/ MirrorRole(r)
        BY <2>3, <3>3
           DEF Acts, InviteUser, RemoveUser, ChangeRole, Arrive, LiveAdminCheck,
               SendInvitation, UnsendInvitation, DirectoryRemove, Read,
               DirectorySetRole, Login
      <3>5. PICK v \in Users, rl \in Roles : users' = [users EXCEPT ![v] = rl]
        <4>1. \E rl \in Roles : users' = [users EXCEPT ![req[r].who] = rl]
          BY <3>1, <3>3, <3>4 DEF AddRow, RecordRole, MirrorRole
        <4> QED BY <4>1, <3>1
      <3> QED BY <3>5, <2>1, <1>1, InvParts DEF Orderly
    <2>4. ASSUME NEW r \in Requests, DropRow(r) PROVE role[u] = "none" /\ Pending(u) = {}
      <3>1. u = req[r].who /\ req[r].at = "dropRow"
        BY <2>4, <1>1, <2>1, InvParts DEF DropRow, At, Orderly
      <3> QED BY <3>1, <1>1 DEF Orderly, Seen
    <2> QED BY <1>1, <2>2, <2>3, <2>4, NextActs
  <1>2. ASSUME Orderly, [Next]_vars PROVE [P]_vars
    BY <1>1, <1>2
  <1> QED BY <1>2, AlwaysOrderly, PTL DEF Spec, RemovedEverywhere

-----------------------------------------------------------------------------
(* An administrator remains.                                               *)

\* Whatever the bootstrap administrator was invited back as, it was not as a
\* mere member.
BootInvited ==
    \A i \in Invitations :
        invite[i].to = Boot /\ invite[i].state # "unsent" => invite[i].role = "admin"

\* WorkOS takes the sender of a change for an administrator until it is over,
\* and still has the role that a sign-in has read.
Rightful(r) ==
    /\ req[r].op \in Changing /\ req[r].at # "live" => LiveAdmin(req[r].actor)
    /\ req[r].at = "mirror" => role[req[r].who] = req[r].want

Remaining ==
    ~faults.upset /\ BootInvited => AdminRemains /\ \A r \in Requests : Rightful(r)

\* What every step does to the invitations and the faults.
LEMMA Irreversible ==
    ASSUME Inv, Next
    PROVE  /\ \A i \in Invitations : invite[i].state # "unsent" =>
                 /\ invite'[i].to = invite[i].to /\ invite'[i].role = invite[i].role
                 /\ invite'[i].state # "unsent"
           /\ faults.upset => faults'.upset
  <1> DEFINE P(i) == invite[i].state # "unsent" =>
                         /\ invite'[i].to = invite[i].to /\ invite'[i].role = invite[i].role
                         /\ invite'[i].state # "unsent"
  <1>1. \A kind, p : Fault(kind) \/ Done(p) \/ Fails(p) \/ DoneAndLost(p) \/ UNCHANGED faults
                     => (faults.upset => faults'.upset)
    <2>1. ASSUME NEW kind, Fault(kind), faults.upset PROVE faults'.upset
      BY <2>1 DEF Fault
    <2>2. ASSUME NEW p, Done(p) \/ Fails(p) \/ DoneAndLost(p), faults.upset PROVE faults'.upset
      BY <2>1, <2>2 DEF Done, Fails, DoneAndLost
    <2> QED BY <2>1, <2>2
  <1>2. ASSUME NEW j \in Invitations, Revoked(j) PROVE \A i \in Invitations : P(i)
    BY <1>2, InvParts DEF Revoked, InviteType
  <1>3. ASSUME NEW j \in Invitations, NEW u, NEW rl, invite[j].state = "unsent", Sent(j, u, rl)
        PROVE  \A i \in Invitations : P(i)
    BY <1>3, InvParts DEF Sent
  <1>4. ASSUME UNCHANGED invite PROVE \A i \in Invitations : P(i)
    BY <1>4
  <1>5. ASSUME NEW r \in Requests, Acts(r)
        PROVE  (\A i \in Invitations : P(i)) /\ (faults.upset => faults'.upset)
    <2>0. req[r].list \subseteq Invitations
      BY InvParts DEF ReqType
    <2>1. CASE InviteUser(r) \/ RemoveUser(r) \/ ChangeRole(r)
      BY <2>1, <1>4, ArrivalsWait
    <2>2. CASE LiveAdminCheck(r) \/ AddRow(r) \/ DropRow(r) \/ RecordRole(r)
               \/ Login(r) \/ MirrorRole(r)
      BY <2>2, <1>1, <1>4 DEF LiveAdminCheck, AddRow, DropRow, RecordRole, Login, MirrorRole,
                              NothingElse, Arrive
    <2>3. CASE SendInvitation(r)
      BY <2>3, <1>1, <1>3, <1>4 DEF SendInvitation
    <2>4. CASE UnsendInvitation(r)
      BY <2>4, <2>0, <1>1, <1>2, <1>4 DEF UnsendInvitation
    <2>5. CASE DirectoryRemove(r)
      <3>1. (\E j \in Invitations : Revoked(j)) \/ UNCHANGED invite
        BY <2>5, <2>0 DEF DirectoryRemove, Read
      <3>2. faults.upset => faults'.upset
        BY <2>5, <1>1 DEF DirectoryRemove, Read
      <3> QED BY <3>1, <3>2, <1>2, <1>4
    <2>6. CASE DirectorySetRole(r)
      <3>1. \/ \E j \in Invitations : Revoked(j)
            \/ \E j \in Invitations : invite[j].state = "unsent" /\ Sent(j, req[r].who, req[r].want)
            \/ UNCHANGED invite
        BY <2>6, <2>0 DEF DirectorySetRole, Read
      <3>2. faults.upset => faults'.upset
        BY <2>6, <1>1 DEF DirectorySetRole, Read
      <3> QED BY <3>1, <3>2, <1>2, <1>3, <1>4
    <2> QED BY <1>5, <2>1, <2>2, <2>3, <2>4, <2>5, <2>6 DEF Acts
  <1>6. CASE Outside
    <2>1. ASSUME NEW i \in Invitations, Accept(i)
          PROVE  (\A j \in Invitations : P(j)) /\ (faults.upset => faults'.upset)
      BY <2>1, InvParts DEF Accept, InviteType
    <2>2. ASSUME NEW u \in Users, Dashboard(u)
          PROVE  (\A j \in Invitations : P(j)) /\ (faults.upset => faults'.upset)
      BY <2>2, <1>1, <1>4 DEF Dashboard
    <2>3. CASE Restart
      BY <2>3, <1>1, <1>4 DEF Restart, NothingElse
    <2> QED BY <1>6, <2>1, <2>2, <2>3 DEF Outside
  <1> QED BY <1>5, <1>6, NextActs

LEMMA BootStays == ASSUME Inv, Next, BootInvited' PROVE BootInvited
  BY Irreversible DEF BootInvited

\* Nobody loses the rights they had.
LEMMA AllRemain ==
    ASSUME AdminRemains,
           \A u \in Users : users[u] = "admin" /\ LiveAdmin(u) =>
               users'[u] = "admin" /\ LiveAdmin(u)'
    PROVE  AdminRemains'
  BY DEF AdminRemains

LEMMA SameRights ==
    ASSUME UNCHANGED role PROVE \A u : LiveAdmin(u)' <=> LiveAdmin(u)
  BY DEF LiveAdmin, GetRole

\* The sender of a change keeps theirs.
LEMMA SenderRemains ==
    ASSUME NEW a \in Users, users'[a] = "admin", LiveAdmin(a), role'[a] = role[a]
    PROVE  AdminRemains' /\ LiveAdmin(a)'
  BY DEF AdminRemains, LiveAdmin, GetRole

LEMMA EndRightful ==
    ASSUME NEW r \in Requests, req'[r].at = "idle", req'[r].op = "none"
    PROVE  Rightful(r)'
  BY DEF Rightful, Changing

\* The request goes on, and the table and the roles in WorkOS are the same.
LEMMA GoingRightful ==
    ASSUME NEW r \in Requests, Rightful(r), AdminRemains, UNCHANGED <<users, role>>,
           \/ Same(r) /\ req[r].at # "live" /\ req'[r].at # "mirror"
           \/ req'[r].at = "idle" /\ req'[r].op = "none"
    PROVE  AdminRemains' /\ Rightful(r)'
  <1>1. AdminRemains'
    BY AllRemain, SameRights
  <1>2. Rightful(r)'
    BY SameRights, EndRightful DEF Rightful, Same
  <1> QED BY <1>1, <1>2

LEMMA LossUpsets ==
    ASSUME NEW kind, Fault(kind), kind \in {"lost", "crash", "dashboard"} PROVE faults'.upset
  BY DEF Fault, Undone

\* The request goes on, or is over.
Onward(r) ==
    \/ Same(r) /\ req'[r].at # "mirror"
    \/ req'[r].at = "idle" /\ req'[r].op = "none"

LEMMA Onwards ==
    ASSUME Inv, NEW r \in Requests,
           \/ End(r)
           \/ \E s \in Steps \ {"mirror"} : Go(r, s)
           \/ \E s \in Steps \ {"mirror"}, L \in SUBSET Invitations :
                 req' = [req EXCEPT ![r].at = s, ![r].list = L]
           \/ req[r].at # "mirror" /\ \E i \in Invitations : req' = [req EXCEPT ![r].list = @ \ {i}]
    PROVE  Onward(r)
  <1>1. CASE End(r)
    BY <1>1, Ending DEF Onward
  <1>2. ASSUME NEW s \in Steps \ {"mirror"}, Go(r, s) PROVE Onward(r)
    BY <1>2, Going DEF Onward
  <1>3. ASSUME NEW s \in Steps \ {"mirror"}, NEW L \in SUBSET Invitations,
               req' = [req EXCEPT ![r].at = s, ![r].list = L]
        PROVE  Onward(r)
    <2> DEFINE new == [req[r] EXCEPT !.at = s, !.list = L]
    <2>1. req' = [req EXCEPT ![r] = new]
      BY <1>3
    <2>2. req[r] \in ReqType /\ req'[r] = new
      BY <2>1, InvParts
    <2>3. /\ new.op = req[r].op /\ new.undo = req[r].undo /\ new.actor = req[r].actor
          /\ new.who = req[r].who /\ new.want = req[r].want /\ new.previous = req[r].previous
          /\ new.at = s
      BY <2>2 DEF ReqType
    <2> HIDE DEF new
    <2> QED BY <2>2, <2>3 DEF Onward, Same
  <1>4. ASSUME req[r].at # "mirror", NEW i \in Invitations, req' = [req EXCEPT ![r].list = @ \ {i}]
        PROVE  Onward(r)
    BY <1>4, Shortening DEF Onward
  <1> QED BY <1>1, <1>2, <1>3, <1>4

\* The request's step leaves its sender's rights alone.
LEMMA SenderActs ==
    ASSUME Orderly, NEW r \in Requests, Rightful(r), req[r].op \in {"remove", "setRole"},
           req[r].at # "live",
           users' = users \/ \E x \in Roles \cup {"none"} : users' = [users EXCEPT ![req[r].who] = x],
           role' = role \/ \E x \in Roles \cup {"none"} : role' = [role EXCEPT ![req[r].who] = x],
           Onward(r)
    PROVE  AdminRemains' /\ Rightful(r)'
  <1>1. PICK a \in Users : a = req[r].actor
    BY InvParts DEF Orderly, ReqType
  <1>2. users[a] = "admin" /\ a # req[r].who /\ LiveAdmin(a)
    BY <1>1 DEF Orderly, Planned, Rightful, Changing
  <1>3. users'[a] = "admin" /\ role'[a] = role[a]
    BY <1>2, InvParts DEF Orderly
  <1>4. AdminRemains' /\ LiveAdmin(a)'
    BY <1>2, <1>3, SenderRemains
  <1>5. CASE Same(r) /\ req'[r].at # "mirror"
    <2>1. req'[r].actor = a
      BY <1>1, <1>5 DEF Same
    <2>2. LiveAdmin(req[r].actor)'
      BY <2>1, <1>4 DEF LiveAdmin, GetRole
    <2> QED BY <2>2, <1>4, <1>5 DEF Rightful
  <1> QED BY <1>4, <1>5, EndRightful DEF Onward

LEMMA RemovingRemains ==
    ASSUME Orderly, NEW r \in Requests, Rightful(r), DirectoryRemove(r) \/ DropRow(r)
    PROVE  AdminRemains' /\ Rightful(r)'
  <1>0. Inv /\ Planned(r) /\ req[r] \in ReqType
    BY InvParts DEF Orderly
  <1>1. /\ req[r].at \in {"rmPending", "rmRevoke", "rmLookup", "rmDelete", "dropRow"}
        /\ req[r].op = "remove"
    <2>1. req[r].at \in {"rmPending", "rmRevoke", "rmLookup", "rmDelete", "dropRow"}
      BY DEF DirectoryRemove, DropRow, At
    <2> QED BY <2>1, <1>0 DEF Planned, StepsOf, Ops, ReqType
  <1>2. users' = users \/ users' = [users EXCEPT ![req[r].who] = "none"]
    BY DEF DirectoryRemove, DropRow, Read
  <1>3. role' = role \/ role' = [role EXCEPT ![req[r].who] = "none"]
    BY DEF DirectoryRemove, DropRow, Read, NothingElse
  <1>4. Onward(r)
    <2>1. {"rmRevoke", "rmLookup", "rmDelete", "dropRow"} \subseteq Steps \ {"mirror"}
      BY DEF Steps
    <2>2. req[r].list \subseteq Invitations /\ Pending(req[r].who) \subseteq Invitations
      BY <1>0 DEF ReqType, Pending
    <2>3. CASE DropRow(r)
      BY <2>3, <1>0, Onwards DEF DropRow
    <2>4. CASE DirectoryRemove(r)
      BY <2>1, <2>2, <2>4, <1>0, <1>1, Onwards DEF DirectoryRemove, Read
    <2> QED BY <2>3, <2>4
  <1> QED BY <1>1, <1>2, <1>3, <1>4, SenderActs

LEMMA RoleChangesRemain ==
    ASSUME Orderly, NEW r \in Requests, Rightful(r), DirectorySetRole(r) \/ RecordRole(r)
    PROVE  AdminRemains' /\ Rightful(r)'
  <1>0. Inv /\ Planned(r) /\ req[r] \in ReqType /\ req[r].want \in Roles
    BY InvParts DEF Orderly, ReqType
  <1>1. /\ req[r].at \in {"lookup", "update", "pendings", "revoke", "resend", "record"}
        /\ req[r].op = "setRole"
    <2>1. req[r].at \in {"lookup", "update", "pendings", "revoke", "resend", "record"}
      BY DEF DirectorySetRole, RecordRole, At
    <2> QED BY <2>1, <1>0 DEF Planned, StepsOf, Ops, ReqType
  <1>2. users' = users \/ users' = [users EXCEPT ![req[r].who] = req[r].want]
    BY DEF DirectorySetRole, RecordRole, Read
  <1>3. role' = role \/ role' = [role EXCEPT ![req[r].who] = req[r].want]
    BY DEF DirectorySetRole, RecordRole, Read, NothingElse
  <1>4. CASE Onward(r)
    BY <1>0, <1>1, <1>2, <1>3, <1>4, SenderActs
  <1>5. CASE DirectorySetRole(r)
    <2>1. {"update", "pendings", "revoke", "resend", "record"} \subseteq Steps \ {"mirror"}
      BY DEF Steps
    <2>2. req[r].list \subseteq Invitations /\ Pending(req[r].who) \subseteq Invitations
      BY <1>0 DEF ReqType, Pending
    <2>3. Onward(r)
      BY <2>1, <2>2, <1>5, <1>0, <1>1, Onwards DEF DirectorySetRole, Read, RoleSet, RoleFailed
    <2> QED BY <2>3, <1>4
  <1>6. CASE RecordRole(r) /\ ~End(r)
    <2> DEFINE new == [req[r] EXCEPT !.at = "lookup", !.undo = TRUE, !.want = req[r].previous]
    <2>1. req' = [req EXCEPT ![r] = new] /\ UNCHANGED users /\ UNCHANGED role
      BY <1>6, InvParts, <1>0 DEF RecordRole, NothingElse
    <2>2. /\ new.op = req[r].op /\ new.actor = req[r].actor /\ new.at = "lookup"
          /\ req'[r] = new
      BY <2>1, <1>0, InvParts DEF ReqType
    <2> HIDE DEF new
    <2>3. PICK a \in Users : a = req[r].actor
      BY <1>0 DEF ReqType
    <2>4. users[a] = "admin" /\ LiveAdmin(a)
      BY <2>3, <1>0, <1>1 DEF Planned, Rightful, Changing
    <2>5. AdminRemains' /\ LiveAdmin(a)'
      BY <2>1, <2>4, SenderRemains
    <2>6. LiveAdmin(req[r].actor)'
      BY <2>2, <2>3, <2>5 DEF LiveAdmin, GetRole
    <2> QED BY <2>2, <2>5, <2>6 DEF Rightful
  <1>7. CASE RecordRole(r) /\ End(r)
    BY <1>7, <1>0, <1>4, Onwards
  <1> QED BY <1>5, <1>6, <1>7

LEMMA InvitingRemains ==
    ASSUME Orderly, NEW r \in Requests, AdminRemains, Rightful(r),
           SendInvitation(r) \/ AddRow(r) \/ UnsendInvitation(r)
    PROVE  AdminRemains' /\ Rightful(r)'
  <1>0. Inv /\ req[r] \in ReqType
    BY InvParts DEF Orderly
  <1>1. UNCHANGED role /\ req[r].at # "live"
    BY DEF SendInvitation, AddRow, UnsendInvitation, NothingElse, At
  <1>2. \A u \in Users : users[u] = "admin" => users'[u] = "admin"
    BY <1>0, InvParts DEF SendInvitation, AddRow, UnsendInvitation
  <1>3. AdminRemains'
    BY <1>1, <1>2, AllRemain, SameRights
  <1>4. Onward(r)
    <2>1. "addRow" \in Steps \ {"mirror"} /\ "unsend" \in Steps \ {"mirror"}
      BY DEF Steps
    <2>2. \A i \in Invitations : {i} \in SUBSET Invitations
      OBVIOUS
    <2> QED BY <2>1, <2>2, <1>0, Onwards DEF SendInvitation, AddRow, UnsendInvitation
  <1>5. Rightful(r)'
    BY <1>1, <1>4, SameRights, EndRightful DEF Rightful, Same, Onward
  <1> QED BY <1>3, <1>5

LEMMA LiveCheckRemains ==
    ASSUME Inv, NEW r \in Requests, AdminRemains, LiveAdminCheck(r)
    PROVE  AdminRemains' /\ Rightful(r)'
  <1>1. /\ UNCHANGED <<users, role>> /\ req[r].op \in Changing
        /\ (Go(r, FirstCall(req[r].op)) /\ LiveAdmin(req[r].actor)) \/ End(r)
    BY DEF LiveAdminCheck, At, Inv, Slots, Changing, Done
  <1>2. AdminRemains'
    BY <1>1, AllRemain, SameRights
  <1>3. CASE Go(r, FirstCall(req[r].op)) /\ LiveAdmin(req[r].actor)
    <2>1. req'[r].at = FirstCall(req[r].op) /\ Same(r)
      BY <1>3, Going
    <2>2. req'[r].at # "mirror"
      <3>1. FirstCall(req[r].op) \in StepsOf(req[r].op)
        BY <1>1, FirstSteps
      <3> QED BY <2>1, <3>1, <1>1 DEF StepsOf, Changing
    <2> QED BY <2>1, <2>2, <1>1, <1>2, <1>3, SameRights DEF Rightful, Same
  <1> QED BY <1>1, <1>2, <1>3, Ending, EndRightful

LEMMA LoginRemains ==
    ASSUME Orderly, NEW r \in Requests, AdminRemains, Rightful(r), Login(r) \/ MirrorRole(r)
    PROVE  AdminRemains' /\ Rightful(r)'
  <1> DEFINE u == req[r].who
  <1>0. Inv /\ req[r] \in ReqType /\ u \in Users
    BY InvParts DEF Orderly, ReqType
  <1>1. CASE Login(r)
    <2>1. UNCHANGED <<users, role>>
      BY <1>1 DEF Login, Arrive
    <2>2. AdminRemains'
      BY <2>1, AllRemain, SameRights
    <2>3. CASE End(r)
      BY <2>2, <2>3, <1>0, Ending, EndRightful
    <2>4. ASSUME NEW v \in Users,
                 Arrive(r, [Idle EXCEPT !.op = "login", !.at = "getRole", !.actor = v, !.who = v])
          PROVE  Rightful(r)'
      <3>1. req'[r].op = "login" /\ req'[r].at = "getRole"
        BY <2>4, <1>0, InvParts DEF Arrive, Idle
      <3> QED BY <3>1 DEF Rightful, Changing
    <2>5. CASE At(r, "getRole") /\ req' = [req EXCEPT ![r].at = "mirror", ![r].want = role[u]]
      <3>1. req[r].op = "login"
        BY <2>5, <1>0 DEF Orderly, Planned, StepsOf, ReqType, Ops, At
      <3>2. /\ req'[r].at = "mirror" /\ req'[r].want = role[u] /\ req'[r].who = u
            /\ req'[r].op = "login"
        BY <3>1, <2>5, <1>0, InvParts DEF ReqType
      <3>3. role'[req'[r].who] = req'[r].want
        BY <3>2, <2>1
      <3> QED BY <3>2, <3>3, <2>2 DEF Rightful, Changing
    <2> QED BY <1>1, <2>2, <2>3, <2>4, <2>5 DEF Login
  <1>2. CASE MirrorRole(r)
    <2>1. /\ req[r].at = "mirror" /\ End(r) /\ UNCHANGED role /\ Managed
          /\ role[u] = req[r].want /\ req[r].want \in Roles
      BY <1>2, <1>0 DEF MirrorRole, At, Orderly, Seen, Rightful, ReqType
    <2>2. ASSUME NEW w \in Users, users[w] = "admin", LiveAdmin(w) PROVE users'[w] = "admin"
      <3>1. w = u /\ u # Boot => req[r].want = "admin"
        BY <2>1, <2>2 DEF LiveAdmin, GetRole, Roles
      <3> QED BY <3>1, <2>2, <1>0, <1>2, InvParts DEF MirrorRole
    <2>3. AdminRemains'
      BY <2>1, <2>2, AllRemain, SameRights
    <2> QED BY <2>1, <2>3, <1>0, Ending, EndRightful
  <1> QED BY <1>1, <1>2

LEMMA ActsRemain ==
    ASSUME Orderly, NEW r \in Requests, AdminRemains, Rightful(r), Acts(r)
    PROVE  AdminRemains' /\ Rightful(r)'
  <1>1. CASE InviteUser(r) \/ RemoveUser(r) \/ ChangeRole(r)
    <2>1. req'[r].at = "live" /\ UNCHANGED <<users, role>>
      BY <1>1, ArrivalsWait DEF Orderly
    <2>2. AdminRemains'
      BY <2>1, AllRemain, SameRights
    <2> QED BY <2>1, <2>2 DEF Rightful
  <1> QED BY <1>1, LiveCheckRemains, InvitingRemains, RemovingRemains, RoleChangesRemain,
             LoginRemains DEF Acts, Orderly

\* Whoever was an administrator to WorkOS before someone accepts an invitation
\* is one afterwards.
LEMMA OthersRemain ==
    ASSUME Inv, BootInvited, ~faults'.upset, Outside, AdminRemains,
           \A r \in Requests : Rightful(r)
    PROVE  AdminRemains' /\ \A r \in Requests : Rightful(r)'
  <1>1. ASSUME NEW i \in Invitations, Accept(i)
        PROVE  AdminRemains' /\ \A r \in Requests : Rightful(r)'
    <2> DEFINE u == invite[i].to
    <2>1. u \in Users /\ (u = Boot => invite[i].role = "admin") /\ invite[i].role \in Roles
      BY <1>1, InvParts DEF Accept, BootInvited, InviteType
    <2>2. role' = IF role[u] # "none" THEN role ELSE [role EXCEPT ![u] = invite[i].role]
      BY <1>1 DEF Accept, Member
    <2>3. ASSUME NEW w \in Users, LiveAdmin(w) PROVE LiveAdmin(w)'
      <3>1. \/ role'[w] = role[w]
            \/ role[w] = "none" /\ w = u /\ role'[w] = invite[i].role
        <4>1. CASE role[u] # "none"
          BY <4>1, <2>2
        <4>2. CASE role[u] = "none"
          BY <4>2, <2>1, <2>2, InvParts
        <4> QED BY <4>1, <4>2
      <3> QED BY <3>1, <2>1, <2>3 DEF LiveAdmin, GetRole, Roles
    <2>4. AdminRemains' /\ UNCHANGED req
      BY <1>1, <2>3, AllRemain DEF Accept
    <2>5. ASSUME NEW r \in Requests
          PROVE  req[r].op \in Changing /\ req[r].at # "live" => LiveAdmin(req[r].actor)'
      <3>1. PICK a \in Users : a = req[r].actor
        BY InvParts DEF ReqType
      <3>2. req[r].op \in Changing /\ req[r].at # "live" => LiveAdmin(a)'
        BY <3>1, <2>3 DEF Rightful
      <3> QED BY <3>1, <3>2, <2>4 DEF LiveAdmin, GetRole
    <2>6. ASSUME NEW r \in Requests
          PROVE  req[r].at = "mirror" => role'[req[r].who] = req[r].want
      <3>1. req[r].who \in Users /\ req[r].want \in Roles /\ "none" \notin Roles
        BY InvParts DEF ReqType, Roles
      <3> QED BY <3>1, <2>1, <2>2, InvParts DEF Rightful
    <2> QED BY <2>4, <2>5, <2>6 DEF Rightful
  <1>2. ASSUME NEW u \in Users, Dashboard(u) PROVE FALSE
    BY <1>2, LossUpsets DEF Dashboard
  <1>3. CASE Restart
    <2>1. UNCHANGED <<role, req>> /\ users' = [users EXCEPT ![Boot] = "admin"]
      BY <1>3, LossUpsets DEF Restart, NothingElse
    <2>2. \A u \in Users : users[u] = "admin" => users'[u] = "admin"
      BY <2>1, InvParts
    <2>3. AdminRemains'
      BY <2>1, <2>2, AllRemain, SameRights
    <2> QED BY <2>1, <2>3, SameRights DEF Rightful
  <1> QED BY <1>1, <1>2, <1>3 DEF Outside

LEMMA RemainingKept ==
    ASSUME OneAtATime, Orderly, Remaining, [Next]_vars PROVE Remaining'
  <1>1. CASE Next
    <2> SUFFICES ASSUME ~faults'.upset, BootInvited'
                 PROVE  AdminRemains' /\ \A r \in Requests : Rightful(r)'
      BY DEF Remaining
    <2>1. Inv /\ AdminRemains /\ BootInvited /\ \A r \in Requests : Rightful(r)
      BY <1>1, BootStays, Irreversible DEF Orderly, Remaining
    <2>2. CASE Outside
      BY <2>1, <2>2, OthersRemain
    <2>3. ASSUME NEW r \in Requests, Acts(r)
          PROVE  AdminRemains' /\ \A q \in Requests : Rightful(q)'
      BY <2>1, <2>3, ActsRemain DEF OneAtATime
    <2> QED BY <1>1, <2>2, <2>3, NextActs
  <1>2. CASE UNCHANGED vars
    BY <1>2, SameRights DEF Remaining, AdminRemains, Rightful, BootInvited, vars
  <1> QED BY <1>1, <1>2

LEMMA InitRemaining == ASSUME Init PROVE Remaining
  <1>1. users[Boot] = "admin" /\ role[Boot] \in {"admin", "other"} /\ Boot \in Users
    BY DirectoryAssumption DEF Init
  <1>2. LiveAdmin(Boot)
    BY <1>1 DEF LiveAdmin, GetRole, Roles
  <1> QED BY <1>1, <1>2 DEF Init, Idle, Remaining, AdminRemains, Rightful, Changing

\* With one request at a time there is always somebody whom both the table and
\* WorkOS take for an administrator: nobody removes or demotes themselves, and
\* WorkOS has just confirmed whoever removes or demotes someone else.
THEOREM AnAdminRemains == ASSUME OneAtATime PROVE Spec => []AdminRemainsSerially
  <1>1. Orderly /\ Remaining /\ [Next]_vars => (Orderly /\ Remaining)'
    BY OrderlyKept, RemainingKept
  <1>2. Orderly /\ Remaining => AdminRemainsSerially
    BY DEF Remaining, AdminRemainsSerially, BootInvited
  <1>3. Init => Orderly /\ Remaining
    BY InitOrderly, InitRemaining
  <1> QED BY <1>1, <1>2, <1>3, PTL DEF Spec

-----------------------------------------------------------------------------
(* The table and WorkOS agree.                                             *)

\* A database failure that users.py undoes is not followed by a failure of the
\* undoing: there is one failure, or failures of one sort.
UndoWorks == MaxFaults <= 1 \/ ~({"refused", "db"} \subseteq Faults)

\* WorkOS does not fail any more.
NoRefusals == "refused" \notin Faults \/ faults.left = 0

\* WorkOS has given u the role, or will when they accept an invitation.
Written(u, rl) == role[u] = rl \/ (role[u] = "none" /\ \A i \in Pending(u) : invite[i].role = rl)

\* What the request under way is about to make up for.
Recording(u) == \E r \in Requests : req[r].at = "record" /\ req[r].who = u

PuttingBack(u) ==
    \E r \in Requests : req[r].undo /\ req[r].at \in {"lookup", "update"} /\ req[r].who = u

Inviting(u) == \E r \in Requests : req[r].at \in {"addRow", "unsend"} /\ req[r].who = u

\* Administrators of the table are members to WorkOS only while their role is
\* about to be recorded or put back, or until they have signed in again.
Mirrored(u) ==
    users[u] = "admin" =>
        /\ NoRefusals \/ Recording(u) \/ Written(u, "admin") \/ role[u] = "other"
        /\ signed[u] = "yes" /\ role[u] = "member" => Recording(u) \/ PuttingBack(u)

\* Whoever is invited without a row is being given one, or not invited.
Expected(u) == users[u] = "none" /\ Pending(u) # {} => Inviting(u)

\* What the request has done in WorkOS, and that it can be undone.
Sure(r) ==
    /\ req[r].at \in {"addRow", "unsend"} =>
          \E i \in Invitations : req[r].list = {i} /\ Pending(req[r].who) \subseteq {i}
    /\ req[r].at \in {"addRow", "record"} => Written(req[r].who, req[r].want)
    /\ req[r].at = "mirror" => role[req[r].who] = req[r].want
    /\ req[r].undo \/ req[r].at = "unsend" => NoRefusals

Agree == /\ \A u \in Users \ {Boot} : Mirrored(u)
         /\ \A u \in Users : Expected(u)
         /\ \A r \in Requests : Sure(r)

Agreeing == ~faults.upset /\ Managed => Agree

-----------------------------------------------------------------------------

\* Faults are only used up.
LEMMA RefusalsEnd ==
    ASSUME Inv
    PROVE  /\ \A kind : Fault(kind) => (NoRefusals => NoRefusals')
           /\ Fault("refused") => ~NoRefusals
           /\ Fault("db") /\ UndoWorks => NoRefusals'
           /\ UNCHANGED faults => (NoRefusals => NoRefusals')
  <1>1. faults.left \in 0..MaxFaults /\ MaxFaults \in Nat
    BY InvParts, DirectoryAssumption DEF FaultType
  <1>2. ASSUME NEW kind, Fault(kind)
        PROVE  kind \in Faults /\ faults.left > 0 /\ faults'.left = faults.left - 1
    BY <1>2 DEF Fault
  <1>3. ASSUME NEW kind, Fault(kind), NoRefusals PROVE NoRefusals'
    <2>1. "refused" \notin Faults
      BY <1>1, <1>2, <1>3 DEF NoRefusals
    <2> QED BY <2>1 DEF NoRefusals
  <1>4. ASSUME Fault("refused") PROVE ~NoRefusals
    BY <1>1, <1>2, <1>4 DEF NoRefusals
  <1>5. ASSUME Fault("db"), UndoWorks PROVE NoRefusals'
    <2>1. "db" \in Faults /\ faults.left > 0 /\ faults'.left = faults.left - 1
      BY <1>2, <1>5
    <2>2. CASE "refused" \notin Faults
      BY <2>2 DEF NoRefusals
    <2>3. CASE MaxFaults <= 1
      <3>1. faults'.left = 0
        BY <2>1, <2>3, <1>1
      <3> QED BY <3>1 DEF NoRefusals
    <2> QED BY <2>1, <2>2, <2>3, <1>5 DEF UndoWorks
  <1>6. UNCHANGED faults => (NoRefusals => NoRefusals')
    BY DEF NoRefusals
  <1> QED BY <1>3, <1>4, <1>5, <1>6

LEMMA RefusalsStay ==
    ASSUME Inv, NoRefusals,
           \/ UNCHANGED faults \/ Fault("db")
           \/ \E p \in BOOLEAN : Done(p) \/ Fails(p) \/ DoneAndLost(p)
    PROVE  NoRefusals'
  BY RefusalsEnd DEF Done, Fails, DoneAndLost

\* The one request under way.
LEMMA OnlyRequest ==
    ASSUME OneAtATime, NEW r \in Requests, NEW u
    PROVE  /\ Recording(u) <=> req[r].at = "record" /\ req[r].who = u
           /\ PuttingBack(u) <=>
                 req[r].undo /\ req[r].at \in {"lookup", "update"} /\ req[r].who = u
           /\ Inviting(u) <=> req[r].at \in {"addRow", "unsend"} /\ req[r].who = u
           /\ Recording(u)' <=> req'[r].at = "record" /\ req'[r].who = u
           /\ PuttingBack(u)' <=>
                 req'[r].undo /\ req'[r].at \in {"lookup", "update"} /\ req'[r].who = u
           /\ Inviting(u)' <=> req'[r].at \in {"addRow", "unsend"} /\ req'[r].who = u
  BY DEF OneAtATime, Recording, PuttingBack, Inviting

\* Nothing happens to u but that invitations are used up.
Left(u) ==
    /\ users'[u] = users[u] /\ role'[u] = role[u] /\ signed'[u] = signed[u]
    /\ Pending(u)' \subseteq Pending(u)
    /\ \A i \in Pending(u)' : invite'[i].role = invite[i].role

LEMMA LeftMirrored ==
    ASSUME NEW u \in Users, Left(u), Mirrored(u), NoRefusals => NoRefusals',
           Recording(u) => Recording(u)',
           PuttingBack(u) => PuttingBack(u)' \/ role[u] # "member"
    PROVE  Mirrored(u)'
  <1>1. Written(u, "admin") => Written(u, "admin")'
    BY DEF Left, Written
  <1> QED BY <1>1 DEF Left, Mirrored

LEMMA LeftExpected ==
    ASSUME NEW u \in Users, Left(u), Expected(u),
           Inviting(u) => Inviting(u)' \/ Pending(u)' = {}
    PROVE  Expected(u)'
  BY DEF Left, Expected

\* A step about one user, w, leaves the others alone.
LEMMA AgreeElsewhere ==
    ASSUME OneAtATime, Agree, NEW r \in Requests, NEW w \in Users, w = req[r].who,
           NoRefusals => NoRefusals', \A u \in Users \ {w} : Left(u),
           w # Boot => Mirrored(w)', Expected(w)', Sure(r)'
    PROVE  Agree'
  <1>1. ASSUME NEW u \in Users, u # w
        PROVE  ~Recording(u) /\ ~PuttingBack(u) /\ ~Inviting(u)
    BY <1>1, OnlyRequest
  <1>2. ASSUME NEW u \in Users \ {Boot} PROVE Mirrored(u)'
    <2>1. CASE u = w
      BY <2>1
    <2>2. CASE u # w
      BY <2>2, <1>1, LeftMirrored DEF Agree
    <2> QED BY <2>1, <2>2
  <1>3. ASSUME NEW u \in Users PROVE Expected(u)'
    <2>1. CASE u = w
      BY <2>1
    <2>2. CASE u # w
      BY <2>2, <1>1, LeftExpected DEF Agree
    <2> QED BY <2>1, <2>2
  <1> QED BY <1>2, <1>3 DEF Agree, OneAtATime

\* A step after which nobody's rights and invitations are other than before,
\* of a request with nothing to make up for.
LEMMA AgreeOn ==
    ASSUME OneAtATime, Inv, Agree, NEW r \in Requests, UNCHANGED <<users, role, signed>>, Shrinks,
           NoRefusals => NoRefusals', req[r].at # "record",
           req[r].undo /\ req[r].at \in {"lookup", "update"} =>
               \/ role[req[r].who] # "member"
               \/ req'[r].undo /\ req'[r].at \in {"lookup", "update"} /\ req'[r].who = req[r].who,
           req[r].at \in {"addRow", "unsend"} =>
               \/ \A i \in Pending(req[r].who) : invite'[i].state # "pending"
               \/ req'[r].at = "unsend" /\ req'[r].who = req[r].who,
           Sure(r)'
    PROVE  Agree'
  <1>1. PICK w \in Users : w = req[r].who
    BY InvParts DEF ReqType
  <1>2. \A u \in Users : Left(u)
    BY ShrunkPending DEF Left
  <1>3. w # Boot => Mirrored(w)'
    <2>1. PuttingBack(w) => PuttingBack(w)' \/ role[w] # "member"
      BY <1>1, OnlyRequest
    <2>2. ~Recording(w)
      BY OnlyRequest
    <2> QED BY <2>1, <2>2, <1>2, LeftMirrored DEF Agree
  <1>4. Expected(w)'
    <2>1. CASE \A i \in Pending(w) : invite'[i].state # "pending"
      <3>1. Pending(w)' = {}
        BY <2>1 DEF Shrinks, Pending
      <3> QED BY <3>1 DEF Expected
    <2>2. CASE ~(\A i \in Pending(w) : invite'[i].state # "pending")
      <3>1. Inviting(w) => Inviting(w)'
        BY <1>1, <2>2, OnlyRequest
      <3> QED BY <3>1, <1>2, LeftExpected DEF Agree
    <2> QED BY <2>1, <2>2
  <1> QED BY <1>1, <1>2, <1>3, <1>4, AgreeElsewhere

LEMMA SureAfter ==
    ASSUME NEW r \in Requests, req'[r].at \notin {"addRow", "unsend", "record", "mirror"},
           req'[r].undo => NoRefusals'
    PROVE  Sure(r)'
  BY DEF Sure

LEMMA EndSure == ASSUME Inv, NEW r \in Requests, End(r) PROVE Sure(r)'
  BY Ending, SureAfter

\* What becomes of the pending invitations when one is sent.
LEMMA SentPending ==
    ASSUME Inv, NEW i \in Invitations, invite[i].state = "unsent", NEW w \in Users, NEW rl,
           Sent(i, w, rl)
    PROVE  /\ Pending(w)' = Pending(w) \cup {i} /\ invite'[i].role = rl
           /\ \A j \in Invitations : j # i => invite'[j] = invite[j]
           /\ \A u \in Users : u # w => Pending(u)' = Pending(u)
           /\ \A u \in Users : i \notin Pending(u)
  <1>1. /\ invite'[i] = [to |-> w, role |-> rl, state |-> "pending"]
        /\ \A j \in Invitations : j # i => invite'[j] = invite[j]
    BY InvParts DEF Sent
  <1>2. invite'[i].to = w /\ invite'[i].role = rl /\ invite'[i].state = "pending"
    BY <1>1
  <1> QED BY <1>1, <1>2 DEF Pending

-----------------------------------------------------------------------------
(* Each step keeps the agreement.                                          *)

LEMMA ArrivalsAgree ==
    ASSUME OneAtATime, Inv, Agree, NEW r \in Requests,
           \/ InviteUser(r) \/ RemoveUser(r) \/ ChangeRole(r)
           \/ \E v \in Users : Arrive(r, [Idle EXCEPT !.op = "login", !.at = "getRole",
                                                     !.actor = v, !.who = v])
    PROVE  Agree'
  <1>1. /\ req[r].at = "idle" /\ ~req'[r].undo /\ req'[r].at \in {"live", "getRole"}
        /\ UNCHANGED <<users, role, invite, signed, faults>>
    <2>1. CASE InviteUser(r) \/ RemoveUser(r) \/ ChangeRole(r)
      BY <2>1, ArrivalsWait
    <2>2. ASSUME NEW v \in Users,
                 Arrive(r, [Idle EXCEPT !.op = "login", !.at = "getRole", !.actor = v, !.who = v])
          PROVE  /\ req[r].at = "idle" /\ ~req'[r].undo /\ req'[r].at \in {"live", "getRole"}
                 /\ UNCHANGED <<users, role, invite, signed, faults>>
      BY <2>2, InvParts DEF Arrive, Idle, At
    <2> QED BY <2>1, <2>2
  <1>2. Sure(r)' /\ Shrinks /\ (NoRefusals => NoRefusals')
    BY <1>1, SureAfter, SamePending, RefusalsEnd
  <1> QED BY <1>1, <1>2, AgreeOn

\* A change that fails before it has done anything, or goes on.
LEMMA LiveCheckAgrees ==
    ASSUME OneAtATime, Managed, Orderly, Agree, NEW r \in Requests, LiveAdminCheck(r)
    PROVE  Agree'
  <1>1. /\ UNCHANGED <<users, role, invite, signed>> /\ req[r].op \in Changing
        /\ Go(r, FirstCall(req[r].op)) \/ End(r)
        /\ req[r].at = "live" /\ ~req[r].undo
    BY DEF LiveAdminCheck, At, Inv, Slots, Changing, Orderly, Seen
  <1>2. NoRefusals => NoRefusals'
    BY RefusalsEnd DEF LiveAdminCheck, Done, Fails, Orderly
  <1>3. Sure(r)'
    <2>1. CASE Go(r, FirstCall(req[r].op))
      <3>1. req'[r].at = FirstCall(req[r].op) /\ Same(r)
        BY <2>1, Going DEF Orderly
      <3>2. FirstCall(req[r].op) \in {"send", "rmPending", "lookup"}
        BY <1>1, FirstSteps
      <3> QED BY <3>1, <3>2, <1>1, SureAfter DEF Same
    <2> QED BY <2>1, <1>1, EndSure DEF Orderly
  <1> QED BY <1>1, <1>2, <1>3, SamePending, AgreeOn DEF Orderly

\* A role that WorkOS has, or has in its invitations, is written to the table.
LEMMA RecordedAgrees ==
    ASSUME OneAtATime, Inv, Agree, NEW r \in Requests, NEW w \in Users, w = req[r].who,
           Written(w, req[r].want), users' = [users EXCEPT ![w] = req[r].want], End(r),
           UNCHANGED <<role, invite, signed, faults>>
    PROVE  Agree'
  <1>1. users'[w] = req[r].want /\ req[r].want # "none"
    BY InvParts DEF ReqType, Roles
  <1>2. \A u \in Users \ {w} : Left(u)
    BY DEF Left, Pending
  <1>3. Expected(w)'
    BY <1>1 DEF Expected
  <1>4. Mirrored(w)'
    <2>1. CASE req[r].want = "admin"
      <3>1. Written(w, "admin")' /\ role'[w] # "member"
        BY <2>1 DEF Written, Pending
      <3> QED BY <3>1 DEF Mirrored
    <2> QED BY <2>1, <1>1 DEF Mirrored
  <1> QED BY <1>2, <1>3, <1>4, EndSure, RefusalsEnd, AgreeElsewhere

LEMMA InvitingAgrees ==
    ASSUME OneAtATime, UndoWorks, Managed, Orderly, Agree, ~faults'.upset, NEW r \in Requests,
           SendInvitation(r) \/ AddRow(r) \/ UnsendInvitation(r)
    PROVE  Agree'
  <1>0. Inv /\ Planned(r) /\ Sure(r) /\ req[r] \in ReqType /\ req[r].who \in Users
    BY InvParts DEF Orderly, Agree, ReqType
  <1>1. PICK w \in Users : w = req[r].who
    BY <1>0
  <1>2. req[r].at \in {"send", "addRow", "unsend"} /\ req[r].op = "invite"
    <2>1. req[r].at \in {"send", "addRow", "unsend"}
      BY DEF SendInvitation, AddRow, UnsendInvitation, At
    <2> QED BY <2>1, <1>0 DEF Planned, StepsOf, ReqType, Ops
  <1>3. users[w] = "none" /\ ~req[r].undo
    BY <1>0, <1>1, <1>2 DEF Planned
  <1>4. CASE SendInvitation(r) /\ UNCHANGED invite
    <2>1. Fails(~Member(w)) /\ End(r) /\ UNCHANGED <<users, role, signed>> /\ req[r].at = "send"
      BY <1>1, <1>4, <1>0, InvParts DEF SendInvitation, Sent, InviteType, At
    <2> QED BY <2>1, <1>4, <1>0, EndSure, SamePending, RefusalsEnd, AgreeOn DEF Fails
  <1>5. CASE SendInvitation(r) /\ ~(UNCHANGED invite)
    <2>1. PICK i \in Invitations :
             /\ invite[i].state = "unsent" /\ Sent(i, w, req[r].want) /\ Done(~Member(w))
             /\ req' = [req EXCEPT ![r].at = "addRow", ![r].list = {i}]
      BY <1>1, <1>5, LossUpsets DEF SendInvitation, DoneAndLost
    <2>2. req'[r].at = "addRow" /\ req'[r].list = {i} /\ Same(r)
      BY <2>1, <1>0, Listing
    <2>3. Pending(w) = {}
      <3>1. ~Inviting(w)
        BY <1>5, OnlyRequest DEF SendInvitation, At
      <3> QED BY <3>1, <1>3 DEF Agree, Expected
    <2>4. /\ Pending(w)' = {i} /\ invite'[i].role = req[r].want
          /\ \A u \in Users \ {w} : Pending(u)' = Pending(u)
          /\ \A j \in Invitations : j # i => invite'[j] = invite[j]
          /\ \A u \in Users : i \notin Pending(u)
      BY <2>1, <2>3, <1>0, SentPending
    <2>5. UNCHANGED <<users, role, signed>>
      BY <1>5 DEF SendInvitation
    <2>6. \A u \in Users \ {w} : Left(u)
      BY <2>4, <2>5 DEF Left, Pending
    <2>7. Mirrored(w)' /\ Expected(w)'
      BY <2>2, <2>5, <1>1, <1>3, OnlyRequest DEF Mirrored, Expected, Same
    <2>8. Sure(r)'
      <3>1. role[w] = "none" /\ role'[w] = "none" /\ req'[r].want = req[r].want
        BY <2>1, <2>2, <2>5 DEF Done, Member, Same
      <3>2. Written(w, req[r].want)'
        BY <3>1, <2>4, <2>2 DEF Written, Same
      <3>3. req'[r].who = w /\ req'[r].undo = req[r].undo
        BY <1>1, <2>2 DEF Same
      <3>4. Pending(req[r].who)' = {i}
        BY <3>3, <2>4 DEF Pending
      <3>5. Written(req[r].who, req[r].want)'
        BY <3>1, <3>2, <3>3 DEF Written, Pending
      <3> QED BY <3>3, <3>4, <3>5, <2>2, <1>3 DEF Sure
    <2>9. NoRefusals => NoRefusals'
      BY <2>1, <1>0, RefusalsEnd DEF Done
    <2> QED BY <2>6, <2>7, <2>8, <2>9, <1>1, AgreeElsewhere
  <1>6. CASE /\ AddRow(r) /\ End(r) /\ UNCHANGED faults
             /\ users' = IF users[w] = "none" THEN [users EXCEPT ![w] = req[r].want] ELSE users
    <2>1. /\ users' = [users EXCEPT ![w] = req[r].want] /\ req[r].at = "addRow"
          /\ UNCHANGED <<role, invite, signed>>
      BY <1>3, <1>6 DEF AddRow, At, NothingElse
    <2>2. Written(w, req[r].want)
      BY <2>1, <1>0, <1>1 DEF Sure
    <2> QED BY <2>1, <2>2, <1>0, <1>1, <1>6, RecordedAgrees
  <1>7. CASE AddRow(r) /\ Fault("db") /\ UNCHANGED users /\ Go(r, "unsend")
    <2>1. UNCHANGED <<users, role, invite, signed>> /\ req[r].at = "addRow"
      BY <1>7 DEF AddRow, NothingElse, At
    <2>2. req'[r].at = "unsend" /\ req'[r].list = req[r].list /\ Same(r)
      BY <1>7, <1>0, Going
    <2>3. NoRefusals'
      BY <1>7, <1>0, RefusalsEnd
    <2>4. req'[r].who = req[r].who /\ req'[r].undo = req[r].undo
      BY <2>2 DEF Same
    <2>5. Pending(req[r].who)' = Pending(req[r].who)
      BY <2>1, <2>4 DEF Pending
    <2>6. Sure(r)'
      BY <2>1, <2>2, <2>3, <2>5, <1>0 DEF Sure
    <2> QED BY <2>1, <2>2, <2>3, <2>4, <2>6, <1>0, <1>3, <1>1, SamePending, AgreeOn
  <1>8. CASE UnsendInvitation(r)
    <2>1. /\ req[r].at = "unsend" /\ End(r) /\ UNCHANGED <<users, role, signed>> /\ NoRefusals
      BY <1>8, <1>0 DEF UnsendInvitation, At, Sure
    <2>2. PICK i \in Invitations : req[r].list = {i} /\ Pending(req[r].who) \subseteq {i}
      BY <2>1, <1>0 DEF Sure
    <2>3. \/ invite[i].state = "pending" /\ Revoked(i)
          \/ invite[i].state # "pending" /\ UNCHANGED invite
      BY <1>8, <2>1, <2>2, <1>0, RefusalsEnd DEF UnsendInvitation, Done, DoneAndLost, Fails
    <2>4. Shrinks /\ invite'[i].state # "pending"
      BY <2>3, <1>0, RevokedShrinks, SamePending
    <2>5. NoRefusals'
      <3>1. \E p \in BOOLEAN : Done(p) \/ Fails(p) \/ DoneAndLost(p)
        BY <1>8, <2>2 DEF UnsendInvitation
      <3> QED BY <3>1, <2>1, <1>0, RefusalsStay
    <2>6. \A j \in Pending(req[r].who) : invite'[j].state # "pending"
      BY <2>2, <2>4
    <2>7. Sure(r)'
      BY <2>1, <1>0, EndSure
    <2> QED BY <2>1, <2>4, <2>5, <2>6, <2>7, <1>0, AgreeOn
  <1>9. AddRow(r) => \/ /\ End(r) /\ UNCHANGED faults
                        /\ users' = IF users[w] = "none" THEN [users EXCEPT ![w] = req[r].want]
                                                         ELSE users
                     \/ Fault("db") /\ UNCHANGED users /\ Go(r, "unsend")
    BY <1>1 DEF AddRow
  <1> QED BY <1>4, <1>5, <1>6, <1>7, <1>8, <1>9

\* Listed invitations are revoked one by one.
LEMMA RevokingAgrees ==
    ASSUME OneAtATime, Inv, Agree, ~faults'.upset, NEW r \in Requests,
           req[r].at \in {"revoke", "rmRevoke"}, NEW next \in {"resend", "rmLookup"},
           \/ Go(r, next) /\ UNCHANGED <<invite, faults>>
           \/ \E i \in req[r].list :
                 LET possible == invite[i].state = "pending" IN
                 \/ Done(possible) /\ Revoked(i) /\ req' = [req EXCEPT ![r].list = @ \ {i}]
                 \/ DoneAndLost(possible) /\ Revoked(i) /\ End(r)
                 \/ Fails(possible) /\ UNCHANGED invite /\ End(r),
           UNCHANGED <<users, role, signed>>
    PROVE  Agree'
  <1>1. Sure(r) /\ req[r].list \subseteq Invitations
    BY InvParts DEF Agree, ReqType
  <1>2. CASE Go(r, next) /\ UNCHANGED <<invite, faults>>
    <2>1. req'[r].at = next /\ Same(r)
      BY <1>2, Going
    <2>2. NoRefusals => NoRefusals'
      BY <1>2, RefusalsEnd
    <2>3. Sure(r)'
      BY <1>1, <2>1, <2>2, SureAfter DEF Sure, Same
    <2> QED BY <1>2, <2>2, <2>3, SamePending, AgreeOn
  <1>3. ASSUME NEW i \in req[r].list, Done(invite[i].state = "pending"), Revoked(i),
               req' = [req EXCEPT ![r].list = @ \ {i}]
        PROVE  Agree'
    <2>1. req'[r].at = req[r].at /\ Same(r)
      BY <1>3, Shortening
    <2>2. NoRefusals => NoRefusals'
      BY <1>3, RefusalsEnd DEF Done
    <2>3. Sure(r)'
      BY <1>1, <2>1, <2>2, SureAfter DEF Sure, Same
    <2>4. Shrinks
      BY <1>1, <1>3, RevokedShrinks DEF Done
    <2> QED BY <2>2, <2>3, <2>4, AgreeOn
  <1>4. ASSUME NEW i \in req[r].list, Fails(invite[i].state = "pending"), UNCHANGED invite, End(r)
        PROVE  Agree'
    <2>1. NoRefusals => NoRefusals'
      BY <1>4, RefusalsEnd DEF Fails
    <2> QED BY <1>4, <2>1, EndSure, SamePending, AgreeOn
  <1> QED BY <1>2, <1>3, <1>4, LossUpsets DEF DoneAndLost

\* A call that only reads, of a request with nothing to make up for.
LEMMA ReadingAgrees ==
    ASSUME OneAtATime, Inv, Agree, NEW r \in Requests, NEW p \in BOOLEAN, Done(p) \/ Fails(p),
           UNCHANGED <<users, role, invite, signed>>,
           req[r].at \notin {"record", "addRow", "unsend"},
           req[r].undo /\ req[r].at \in {"lookup", "update"} =>
               \/ role[req[r].who] # "member"
               \/ req'[r].undo /\ req'[r].at \in {"lookup", "update"} /\ req'[r].who = req[r].who,
           \/ End(r)
           \/ Same(r) /\ req'[r].at \notin {"addRow", "unsend", "record", "mirror"}
    PROVE  Agree'
  <1>1. NoRefusals => NoRefusals'
    BY RefusalsEnd DEF Done, Fails
  <1>2. Sure(r)'
    <2>1. CASE End(r)
      BY <2>1, EndSure
    <2>2. CASE Same(r) /\ req'[r].at \notin {"addRow", "unsend", "record", "mirror"}
      BY <2>2, <1>1, SureAfter DEF Agree, Sure, Same
    <2> QED BY <2>1, <2>2
  <1> QED BY <1>1, <1>2, SamePending, AgreeOn

LEMMA RemovingAgrees ==
    ASSUME OneAtATime, Managed, Orderly, Agree, ~faults'.upset, NEW r \in Requests,
           DirectoryRemove(r)
    PROVE  Agree'
  <1> DEFINE u == req[r].who
  <1>0. /\ Inv /\ Planned(r) /\ Seen(r) /\ Sure(r) /\ req[r] \in ReqType /\ u \in Users
        /\ UNCHANGED <<users, signed>>
    BY InvParts DEF Orderly, Agree, ReqType, DirectoryRemove, Read
  <1>1. CASE At(r, "rmPending")
    <2>1. Read(r, req' = [req EXCEPT ![r].at = "rmRevoke", ![r].list = Pending(u)])
      BY <1>1 DEF DirectoryRemove, At
    <2>2. \/ End(r)
          \/ Same(r) /\ req'[r].at = "rmRevoke"
      BY <2>1, <1>0, Listing DEF Read
    <2>3. (Done(TRUE) \/ Fails(TRUE)) /\ UNCHANGED <<users, role, invite, signed>>
      BY <2>1 DEF Read
    <2> QED BY <1>0, <1>1, <2>2, <2>3, ReadingAgrees DEF At
  <1>2. CASE At(r, "rmLookup")
    <2>1. Read(r, Go(r, IF Member(u) THEN "rmDelete" ELSE "dropRow"))
      BY <1>2 DEF DirectoryRemove, At
    <2>2. \/ End(r)
          \/ Same(r) /\ req'[r].at \in {"rmDelete", "dropRow"}
      BY <2>1, <1>0, Going DEF Read
    <2>3. (Done(TRUE) \/ Fails(TRUE)) /\ UNCHANGED <<users, role, invite, signed>>
      BY <2>1 DEF Read
    <2> QED BY <1>0, <1>2, <2>2, <2>3, ReadingAgrees DEF At
  <1>3. CASE At(r, "rmRevoke")
    BY <1>0, <1>3, RevokingAgrees DEF DirectoryRemove, At
  <1>4. CASE At(r, "rmDelete")
    <2>1. CASE UNCHANGED role /\ End(r) /\ Fails(Member(u))
      <3>1. Member(u) \in BOOLEAN /\ UNCHANGED invite
        BY <1>4 DEF Member, DirectoryRemove, At
      <3> QED BY <2>1, <3>1, <1>0, <1>4, ReadingAgrees DEF At, Planned, StepsOf
    <2>2. CASE Done(Member(u)) /\ role' = [role EXCEPT ![u] = "none"] /\ Go(r, "dropRow")
      <3>1. PICK w \in Users : w = u
        BY <1>0
      <3>2. UNCHANGED invite /\ Pending(w) = {}
        BY <1>0, <1>4, <3>1 DEF DirectoryRemove, At, Seen
      <3>3. role'[w] = "none" /\ \A v \in Users \ {w} : Left(v)
        BY <2>2, <3>1, <3>2, <1>0, InvParts DEF Left, Pending
      <3>4. Pending(w)' = {}
        BY <3>2 DEF Pending
      <3>5. Mirrored(w)' /\ Expected(w)'
        BY <3>3, <3>4 DEF Mirrored, Written, Expected
      <3>6. req'[r].at = "dropRow" /\ Same(r)
        BY <2>2, <1>0, Going
      <3>7. NoRefusals => NoRefusals'
        BY <2>2, <1>0, RefusalsEnd DEF Done
      <3>8. Sure(r)'
        BY <3>6, <3>7, <1>0, SureAfter DEF Same, Sure
      <3> QED BY <3>1, <3>3, <3>5, <3>7, <3>8, AgreeElsewhere
    <2> QED BY <1>4, <2>1, <2>2, LossUpsets DEF DirectoryRemove, At, DoneAndLost
  <1> QED BY <1>1, <1>2, <1>3, <1>4 DEF DirectoryRemove

LEMMA DropAgrees ==
    ASSUME OneAtATime, Managed, Orderly, Agree, NEW r \in Requests, DropRow(r)
    PROVE  Agree'
  <1>0. Inv /\ Seen(r) /\ End(r) /\ req[r].at = "dropRow" /\ UNCHANGED <<role, invite, signed>>
    BY DEF Orderly, DropRow, NothingElse, At
  <1>1. PICK w \in Users : w = req[r].who
    BY <1>0, InvParts DEF ReqType
  <1>2. NoRefusals => NoRefusals'
    BY <1>0, RefusalsEnd DEF DropRow
  <1>3. CASE UNCHANGED users
    BY <1>0, <1>2, <1>3, EndSure, SamePending, AgreeOn
  <1>4. CASE users' = [users EXCEPT ![w] = "none"]
    <2>1. Pending(w) = {} /\ Pending(w)' = {}
      BY <1>0, <1>1 DEF Seen, Pending
    <2>2. \A u \in Users \ {w} : Left(u)
      BY <1>0, <1>4 DEF Left, Pending
    <2>3. Mirrored(w)' /\ Expected(w)'
      BY <2>1, <1>0, <1>4, InvParts DEF Mirrored, Expected
    <2> QED BY <2>2, <2>3, <1>0, <1>1, <1>2, EndSure, AgreeElsewhere
  <1> QED BY <1>1, <1>3, <1>4 DEF DropRow

\* WorkOS has been given the role: it is recorded next, or has been put back.
LEMMA RoleSetAgrees ==
    ASSUME OneAtATime, Orderly, Agree, NEW r \in Requests, NEW w \in Users, w = req[r].who,
           req[r].op = "setRole", NoRefusals => NoRefusals', UNCHANGED <<users, signed>>,
           \A u \in Users \ {w} : Left(u),
           req[r].undo => Mirrored(w)',
           NEW rl \in Roles, rl = req[r].want, Written(w, rl)', RoleSet(r)
    PROVE  Agree'
  <1>0. Inv /\ Planned(r) /\ Sure(r) /\ req[r] \in ReqType
    BY InvParts DEF Orderly, Agree
  <1>1. users'[w] # "none"
    BY <1>0 DEF Planned, ReqType, Roles
  <1>2. Expected(w)'
    BY <1>1 DEF Expected
  <1>3. CASE req[r].undo
    <2>1. End(r)
      BY <1>3 DEF RoleSet
    <2> QED BY <2>1, <1>0, <1>2, <1>3, EndSure, AgreeElsewhere
  <1>4. CASE ~req[r].undo
    <2>1. req'[r].at = "record" /\ Same(r)
      BY <1>4, <1>0, Going DEF RoleSet
    <2>2. req'[r].who = w /\ req'[r].want = rl /\ ~req'[r].undo
      BY <2>1, <1>4 DEF Same
    <2>3. Mirrored(w)'
      BY <2>1, <2>2, OnlyRequest DEF Mirrored
    <2>4. Written(req[r].who, req[r].want)'
      BY <2>2 DEF Written, Pending
    <2>5. Sure(r)'
      BY <2>1, <2>2, <2>4 DEF Sure
    <2> QED BY <1>2, <2>3, <2>5, AgreeElsewhere
  <1> QED BY <1>3, <1>4

LEMMA RoleChangesAgree ==
    ASSUME OneAtATime, Managed, Orderly, Agree, ~faults'.upset, NEW r \in Requests,
           DirectorySetRole(r)
    PROVE  Agree'
  <1> DEFINE u == req[r].who
  <1>1. /\ Inv /\ Planned(r) /\ Seen(r) /\ Sure(r) /\ req[r] \in ReqType /\ u \in Users
        /\ UNCHANGED <<users, signed>>
    BY InvParts DEF Orderly, Agree, ReqType, DirectorySetRole, Read
  <1>2. PICK w \in Users : w = u
    BY <1>1
  <1>3. /\ req[r].op = "setRole" /\ req[r].at \in {"lookup", "update", "pendings", "revoke", "resend"}
        /\ users[w] = IF req[r].undo THEN req[r].want ELSE req[r].previous
    <2>1. req[r].at \in {"lookup", "update", "pendings", "revoke", "resend"}
      BY DEF DirectorySetRole, At
    <2>2. req[r].op = "setRole"
      BY <2>1, <1>1 DEF Planned, StepsOf, ReqType, Ops
    <2> QED BY <2>1, <2>2, <1>1, <1>2 DEF Planned
  <1>4. PICK rl \in Roles : rl = req[r].want
    BY <1>1 DEF ReqType
  <1>5. req[r].undo => NoRefusals
    BY <1>1 DEF Sure
  <1>6. CASE At(r, "lookup")
    <2>1. Read(r, Go(r, IF Member(u) THEN "update" ELSE "pendings"))
      BY <1>6 DEF DirectorySetRole, At
    <2>2. \/ Done(TRUE) /\ Same(r) /\ req'[r].at = IF Member(u) THEN "update" ELSE "pendings"
          \/ Fails(TRUE) /\ End(r)
      BY <2>1, <1>1, Going DEF Read
    <2>3. UNCHANGED <<users, role, invite, signed>>
      BY <2>1 DEF Read
    <2>4. req[r].undo => role[u] # "member" \/ (Same(r) /\ req'[r].at = "update")
      BY <2>2, <1>1, <1>5, RefusalsEnd DEF Member, Fails
    <2> QED BY <2>2, <2>3, <2>4, <1>1, <1>6, ReadingAgrees DEF At, Same
  <1>7. CASE At(r, "update")
    <2>1. CASE UNCHANGED role /\ End(r) /\ Fails(Member(u))
      <3>1. Member(u) \in BOOLEAN /\ UNCHANGED invite
        BY <1>7 DEF Member, DirectorySetRole, At
      <3>2. req[r].undo => role[u] # "member"
        BY <2>1, <1>1, <1>5, RefusalsEnd DEF Member, Fails
      <3> QED BY <2>1, <3>1, <3>2, <1>1, <1>7, ReadingAgrees DEF At
    <2>2. CASE Done(Member(u)) /\ role' = [role EXCEPT ![u] = req[r].want] /\ RoleSet(r)
      <3>1. UNCHANGED <<users, invite, signed>>
        BY <1>7 DEF DirectorySetRole, At
      <3>2. role'[w] = req[r].want /\ \A v \in Users \ {w} : Left(v)
        BY <2>2, <3>1, <1>1, <1>2, InvParts DEF Left, Pending
      <3>3. Written(w, rl)'
        BY <3>2, <1>4 DEF Written
      <3>4. req[r].undo => Mirrored(w)'
        <4>1. req[r].undo => users'[w] = role'[w]
          BY <3>1, <3>2, <1>3
        <4> QED BY <4>1 DEF Mirrored, Written
      <3>5. NoRefusals => NoRefusals'
        BY <2>2, <1>1, RefusalsEnd DEF Done
      <3> QED BY <2>2, <3>1, <3>2, <3>3, <3>4, <3>5, <1>2, <1>3, <1>4, <1>1, RoleSetAgrees
    <2> QED BY <1>7, <2>1, <2>2, LossUpsets DEF DirectorySetRole, At, DoneAndLost, RoleFailed
  <1>8. CASE At(r, "pendings")
    <2>1. Read(r, IF Pending(u) = {} THEN End(r)
                  ELSE req' = [req EXCEPT ![r].at = "revoke", ![r].list = Pending(u)])
      BY <1>8 DEF DirectorySetRole, At, RoleFailed
    <2>2. \/ End(r)
          \/ Same(r) /\ req'[r].at = "revoke"
      BY <2>1, <1>1, Listing DEF Read
    <2>3. (Done(TRUE) \/ Fails(TRUE)) /\ UNCHANGED <<users, role, invite, signed>>
      BY <2>1 DEF Read
    <2> QED BY <2>2, <2>3, <1>1, <1>8, ReadingAgrees DEF At
  <1>9. CASE At(r, "revoke")
    BY <1>1, <1>9, RevokingAgrees DEF DirectorySetRole, At, RoleFailed
  <1>10. CASE At(r, "resend")
    <2>1. CASE Fails(~Member(u)) /\ UNCHANGED invite /\ End(r)
      <3>1. (~Member(u)) \in BOOLEAN /\ UNCHANGED role
        BY <1>10 DEF DirectorySetRole, At
      <3> QED BY <2>1, <3>1, <1>1, <1>10, ReadingAgrees DEF At
    <2>2. ASSUME NEW i \in Invitations, invite[i].state = "unsent", Sent(i, u, req[r].want),
                 Done(~Member(u)), RoleSet(r)
          PROVE  Agree'
      <3>1. UNCHANGED <<users, role, signed>> /\ role'[w] = "none"
        BY <2>2, <1>10, <1>2 DEF DirectorySetRole, At, Done, Member
      <3>2. Pending(w) = {}
        BY <1>1, <1>10, <1>2 DEF Seen, At
      <3>3. /\ Pending(w)' = {i} /\ invite'[i].role = req[r].want
            /\ \A v \in Users \ {w} : Pending(v)' = Pending(v)
            /\ \A j \in Invitations : j # i => invite'[j] = invite[j]
            /\ \A v \in Users : i \notin Pending(v)
        BY <2>2, <3>2, <1>1, <1>2, SentPending
      <3>4. \A v \in Users \ {w} : Left(v)
        BY <3>1, <3>3 DEF Left, Pending
      <3>5. NoRefusals => NoRefusals'
        BY <2>2, <1>1, RefusalsEnd DEF Done
      <3>6. Written(w, rl)'
        BY <3>1, <3>3, <1>4 DEF Written
      <3>7. req[r].undo => Mirrored(w)'
        BY <3>1, <3>5, <1>5 DEF Mirrored
      <3> QED BY <2>2, <3>1, <3>4, <3>5, <3>6, <3>7, <1>2, <1>3, <1>4, <1>1, RoleSetAgrees
    <2> QED BY <1>10, <2>1, <2>2, LossUpsets DEF DirectorySetRole, At, DoneAndLost, RoleFailed
  <1> QED BY <1>6, <1>7, <1>8, <1>9, <1>10 DEF DirectorySetRole

LEMMA RecordAgrees ==
    ASSUME OneAtATime, UndoWorks, Managed, Orderly, Agree, NEW r \in Requests, RecordRole(r)
    PROVE  Agree'
  <1>1. /\ Inv /\ Planned(r) /\ Seen(r) /\ Sure(r) /\ req[r] \in ReqType
        /\ req[r].at = "record" /\ UNCHANGED <<role, invite, signed>>
    BY InvParts DEF Orderly, Agree, RecordRole, NothingElse, At
  <1>2. PICK w \in Users : w = req[r].who
    BY <1>1 DEF ReqType
  <1>3. users[w] = req[r].previous /\ ~req[r].undo /\ users[w] # "none"
    <2>1. req[r].op = "setRole"
      BY <1>1 DEF Planned, StepsOf, ReqType, Ops
    <2> QED BY <2>1, <1>1, <1>2 DEF Planned, Seen, ReqType, Roles
  <1>4. CASE End(r) /\ users' = [users EXCEPT ![w] = req[r].want] /\ UNCHANGED faults
    <2>1. Written(w, req[r].want)
      BY <1>1, <1>2 DEF Sure
    <2> QED BY <2>1, <1>1, <1>2, <1>4, RecordedAgrees
  <1>5. CASE /\ Fault("db") /\ UNCHANGED users
             /\ req' = [req EXCEPT ![r].at = "lookup", ![r].undo = TRUE,
                                   ![r].want = req[r].previous]
    <2> DEFINE new == [req[r] EXCEPT !.at = "lookup", !.undo = TRUE, !.want = req[r].previous]
    <2>1. new.at = "lookup" /\ new.undo = TRUE /\ new.who = w
      BY <1>1, <1>2 DEF ReqType
    <2>2. req'[r] = new
      BY <1>5, <1>1, InvParts
    <2> HIDE DEF new
    <2>3. NoRefusals'
      BY <1>5, <1>1, RefusalsEnd
    <2>4. \A u \in Users \ {w} : Left(u)
      BY <1>1, <1>5 DEF Left, Pending
    <2>5. Mirrored(w)'
      BY <2>1, <2>2, <2>3, OnlyRequest DEF Mirrored
    <2>6. Expected(w)'
      BY <1>3, <1>5 DEF Expected
    <2>7. Sure(r)'
      BY <2>1, <2>2, <2>3, SureAfter
    <2> QED BY <2>3, <2>4, <2>5, <2>6, <2>7, <1>2, AgreeElsewhere
  <1> QED BY <1>1, <1>2, <1>3, <1>4, <1>5 DEF RecordRole

LEMMA LoginAgrees ==
    ASSUME OneAtATime, Managed, Orderly, Agree, NEW r \in Requests, Login(r) \/ MirrorRole(r)
    PROVE  Agree'
  <1> DEFINE u == req[r].who
  <1>1. /\ Inv /\ Seen(r) /\ Sure(r) /\ req[r] \in ReqType /\ u \in Users
        /\ UNCHANGED <<role, invite>>
    BY InvParts DEF Orderly, Agree, ReqType, Login, MirrorRole, Arrive
  <1>2. PICK w \in Users : w = u
    BY <1>1
  <1>3. ASSUME At(r, "getRole"), Done(GetRole(u) # "none"), UNCHANGED <<users, signed>>,
               req' = [req EXCEPT ![r].at = "mirror", ![r].want = role[u]]
        PROVE  Agree'
    <2> DEFINE new == [req[r] EXCEPT !.at = "mirror", !.want = role[u]]
    <2>1. /\ new.at = "mirror" /\ new.want = role[w] /\ new.who = w
          /\ new.undo = req[r].undo /\ req'[r] = new
      BY <1>1, <1>2, <1>3, InvParts DEF ReqType
    <2> HIDE DEF new
    <2>2. NoRefusals => NoRefusals'
      BY <1>1, <1>3, RefusalsEnd DEF Done
    <2>3. Sure(r)'
      BY <2>1, <2>2, <1>1 DEF Sure
    <2> QED BY <2>2, <2>3, <1>1, <1>3, SamePending, AgreeOn DEF At
  <1>4. ASSUME At(r, "getRole"), Fails(TRUE) \/ Done(GetRole(u) = "none"),
               End(r), SignedIn(u), UNCHANGED users
        PROVE  Agree'
    <2>1. \A v \in Users \ {w} : Left(v)
      BY <1>1, <1>2, <1>4, InvParts DEF Left, Pending, SignedIn
    <2>2. NoRefusals => NoRefusals'
      BY <1>1, <1>4, RefusalsEnd DEF Done, Fails
    <2>3. ~Recording(w) /\ ~Inviting(w)
      BY <1>4, OnlyRequest DEF At
    <2>4. Expected(w)'
      BY <2>3, <1>1, <1>4 DEF Agree, Expected, Pending
    <2>5. w # Boot => Mirrored(w)'
      <3> SUFFICES ASSUME w # Boot, users'[w] = "admin" PROVE Mirrored(w)'
        BY DEF Mirrored
      <3>1. users[w] = "admin" /\ Mirrored(w)
        BY <1>4 DEF Agree
      <3>2. NoRefusals \/ Written(w, "admin") \/ role[w] = "other"
        BY <3>1, <2>3 DEF Mirrored
      <3>3. role[w] # "member"
        <4>1. CASE Fails(TRUE)
          <5>1. ~NoRefusals
            BY <4>1, <1>1, RefusalsEnd DEF Fails
          <5> QED BY <5>1, <3>2 DEF Written
        <4>2. CASE Done(GetRole(u) = "none")
          BY <4>2, <1>2 DEF Done, GetRole, Roles
        <4> QED BY <4>1, <4>2, <1>4
      <3>4. Written(w, "admin") => Written(w, "admin")'
        BY <1>1 DEF Written, Pending
      <3> QED BY <3>2, <3>3, <3>4, <2>2, <1>1 DEF Mirrored
    <2> QED BY <2>1, <2>2, <2>4, <2>5, <1>1, <1>2, <1>4, EndSure, AgreeElsewhere
  <1>5. CASE Login(r)
    BY <1>5, <1>3, <1>4, <1>1, ArrivalsAgree DEF Login
  <1>6. CASE MirrorRole(r)
    <2>1. /\ End(r) /\ req[r].at = "mirror" /\ role[w] = req[r].want /\ req[r].want \in Roles
          /\ NoRefusals => NoRefusals'
      BY <1>1, <1>2, <1>6, RefusalsEnd DEF MirrorRole, At, Sure, ReqType
    <2>2. CASE UNCHANGED <<users, signed>>
      BY <2>1, <2>2, <1>1, EndSure, SamePending, AgreeOn
    <2>3. CASE /\ users' = IF users[w] = "none" THEN users
                           ELSE [users EXCEPT ![w] = IF w = Boot THEN "admin" ELSE req[r].want]
               /\ SignedIn(w)
      <3>1. \A v \in Users \ {w} : Left(v)
        BY <1>1, <2>3, InvParts DEF Left, Pending, SignedIn
      <3>2. ~Inviting(w)
        BY <2>1, OnlyRequest
      <3>3. users'[w] = "none" => users[w] = "none"
        BY <2>1, <2>3, <1>1, InvParts DEF Roles
      <3>4. Expected(w)'
        BY <3>2, <3>3, <1>1 DEF Agree, Expected, Pending
      <3>5. w # Boot => Mirrored(w)'
        <4> SUFFICES ASSUME w # Boot, users'[w] = "admin" PROVE Mirrored(w)'
          BY DEF Mirrored
        <4>1. role'[w] = "admin"
          BY <2>1, <2>3, <1>1, InvParts
        <4> QED BY <4>1 DEF Mirrored, Written
      <3> QED BY <3>1, <3>4, <3>5, <2>1, <1>1, <1>2, EndSure, AgreeElsewhere
    <2> QED BY <2>2, <2>3, <1>2, <1>6 DEF MirrorRole
  <1> QED BY <1>5, <1>6

LEMMA ActsAgree ==
    ASSUME OneAtATime, UndoWorks, Managed, Orderly, Agree, ~faults'.upset, NEW r \in Requests,
           Acts(r)
    PROVE  Agree'
  BY ArrivalsAgree, LiveCheckAgrees, InvitingAgrees, RemovingAgrees, DropAgrees,
     RoleChangesAgree, RecordAgrees, LoginAgrees DEF Acts, Orderly

\* Whoever accepts an invitation gets the role it has, and a new membership
\* is no business of the cookie they had.
LEMMA OthersAgree ==
    ASSUME Inv, Agree, ~faults'.upset, Outside PROVE Agree'
  <1>1. ASSUME NEW i \in Invitations, Accept(i) PROVE Agree'
    <2>1. /\ invite[i].state = "pending" /\ UNCHANGED <<users, req, faults>>
          /\ invite' = [invite EXCEPT ![i].state = "accepted"]
          /\ invite[i].to \in Users /\ invite[i].role \in Roles
      BY <1>1, InvParts DEF Accept, InviteType
    <2>2. Shrinks
      BY <2>1, InvParts DEF Shrinks, InviteType
    <2>3. PICK w \in Users : w = invite[i].to
      BY <2>1
    <2>4. /\ role' = IF role[w] # "none" THEN role ELSE [role EXCEPT ![w] = invite[i].role]
          /\ signed' = [signed EXCEPT ![w] = IF @ = "yes" THEN "stale" ELSE @]
      BY <1>1, <2>3 DEF Accept, Member
    <2>5. /\ \A u \in Users : Recording(u)' <=> Recording(u)
          /\ \A u \in Users : PuttingBack(u)' <=> PuttingBack(u)
          /\ \A u \in Users : Inviting(u)' <=> Inviting(u)
          /\ NoRefusals' <=> NoRefusals
      BY <2>1 DEF Recording, PuttingBack, Inviting, NoRefusals
    <2>6. \A u \in Users \ {w} : Left(u)
      BY <2>1, <2>2, <2>4, ShrunkPending, InvParts DEF Left
    <2>7. ASSUME NEW rl \in Roles, Written(w, rl) PROVE Written(w, rl)'
      <3>1. CASE role[w] # "none"
        BY <3>1, <2>4, <2>7 DEF Written
      <3>2. CASE role[w] = "none"
        <4>1. i \in Pending(w)
          BY <2>1, <2>3 DEF Pending
        <4>2. role'[w] = rl
          BY <4>1, <3>2, <2>4, <2>7, InvParts DEF Written, Roles
        <4> QED BY <4>2 DEF Written
      <3> QED BY <3>1, <3>2
    <2>8. ASSUME NEW u \in Users \ {Boot} PROVE Mirrored(u)'
      <3>1. CASE u # w
        BY <3>1, <2>5, <2>6, LeftMirrored DEF Agree
      <3>2. CASE u = w
        <4>1. signed'[w] # "yes"
          BY <2>4, InvParts
        <4>2. role[w] = "other" => role'[w] = "other"
          BY <2>4
        <4>3. "admin" \in Roles
          BY DEF Roles
        <4> QED BY <4>1, <4>2, <4>3, <3>2, <2>1, <2>5, <2>7 DEF Agree, Mirrored
      <3> QED BY <3>1, <3>2
    <2>9. ASSUME NEW u \in Users PROVE Expected(u)'
      BY <2>1, <2>2, <2>5, ShrunkPending DEF Agree, Expected
    <2>10. ASSUME NEW r \in Requests PROVE Sure(r)'
      <3>1. PICK v \in Users : v = req[r].who
        BY InvParts DEF ReqType
      <3>2. PICK rl \in Roles : rl = req[r].want
        BY InvParts DEF ReqType
      <3>3. /\ Pending(v)' \subseteq Pending(v)
            /\ Pending(req[r].who)' = Pending(v)'
        BY <2>1, <2>2, <3>1, ShrunkPending DEF Pending
      <3>4. Written(v, rl) => Written(v, rl)'
        BY <2>6, <2>7 DEF Left, Written
      <3>5. Written(req[r].who, req[r].want) => Written(req[r].who, req[r].want)'
        BY <3>1, <3>2, <3>4, <2>1 DEF Written, Pending
      <3>6. role[v] = rl => role'[v] = rl
        BY <2>4, <3>1, InvParts DEF Roles
      <3> QED BY <3>1, <3>2, <3>3, <3>5, <3>6, <2>1, <2>5 DEF Agree, Sure
    <2> QED BY <2>8, <2>9, <2>10 DEF Agree
  <1>2. ASSUME NEW u \in Users, Dashboard(u) PROVE FALSE
    BY <1>2, LossUpsets DEF Dashboard
  <1>3. CASE Restart
    <2>1. UNCHANGED <<role, invite, signed, req, faults>> /\ users' = [users EXCEPT ![Boot] = "admin"]
      BY <1>3, LossUpsets DEF Restart, NothingElse
    <2>2. ASSUME NEW u \in Users \ {Boot} PROVE Mirrored(u)' /\ Expected(u)'
      <3>1. users'[u] = users[u]
        BY <2>1
      <3> QED BY <2>1, <3>1
              DEF Agree, Mirrored, Expected, Written, Recording, PuttingBack, Inviting,
                  NoRefusals, Pending
    <2>3. Expected(Boot)'
      BY <2>1, InvParts DEF Expected
    <2>4. \A r \in Requests : Sure(r)'
      BY <2>1 DEF Agree, Sure, Written, NoRefusals, Pending
    <2> QED BY <2>2, <2>3, <2>4 DEF Agree
  <1> QED BY <1>1, <1>2, <1>3 DEF Outside

LEMMA AgreeingKept ==
    ASSUME OneAtATime, UndoWorks, Orderly, Agreeing, [Next]_vars PROVE Agreeing'
  <1>1. CASE Next
    <2> SUFFICES ASSUME ~faults'.upset, Managed PROVE Agree'
      BY DEF Agreeing
    <2>1. Agree
      BY <1>1, Irreversible DEF Agreeing, Orderly
    <2> QED BY <2>1, <1>1, NextActs, ActsAgree, OthersAgree DEF Orderly
  <1>2. CASE UNCHANGED vars
    BY <1>2 DEF Agreeing, Agree, Mirrored, Expected, Sure, Written, Recording, PuttingBack,
                Inviting, NoRefusals, Pending, vars
  <1> QED BY <1>1, <1>2

LEMMA InitAgreeing == ASSUME Init PROVE Agreeing
  <1>1. \A u \in Users \ {Boot} : Mirrored(u)
    BY DEF Init, Mirrored
  <1>2. \A u \in Users : Expected(u)
    BY DEF Init, Expected, Pending, NoInvite
  <1>3. \A r \in Requests : Sure(r)
    BY DEF Init, Idle, Sure
  <1> QED BY <1>1, <1>2, <1>3 DEF Agreeing, Agree

LEMMA AlwaysAgreeing == ASSUME OneAtATime, UndoWorks PROVE Spec => [](Orderly /\ Agreeing)
  <1>1. Init => Orderly /\ Agreeing
    BY InitOrderly, InitAgreeing
  <1>2. Orderly /\ Agreeing /\ [Next]_vars => (Orderly /\ Agreeing)'
    BY OrderlyKept, AgreeingKept
  <1> QED BY <1>1, <1>2, PTL DEF Spec

\* With one request at a time, once it is over nobody who has signed in keeps
\* the table's administrator rights while WorkOS has them as a member: set_role
\* comes before set_user_admin, and is put back when that fails.
THEOREM NobodyIsStale == ASSUME OneAtATime, UndoWorks PROVE Spec => []NoStaleAdmin
  <1>1. Orderly /\ Agreeing => NoStaleAdmin
    <2> SUFFICES ASSUME Orderly, Agreeing, Quiet, ~faults.upset, NEW u \in Users \ {Boot},
                        signed[u] = "yes", users[u] = "admin", role[u] = "member"
                 PROVE  FALSE
      BY DEF NoStaleAdmin
    <2>1. Managed
      BY DEF Orderly, Apart
    <2> QED BY <2>1 DEF Agreeing, Agree, Mirrored, Recording, PuttingBack, Quiet, At
  <1> QED BY <1>1, AlwaysAgreeing, PTL

\* With one request at a time, once it is over nobody has an invitation without
\* a row: the row is written as soon as the invitation is sent, which is
\* revoked when that fails, and goes only after every invitation has.
THEOREM NobodyIsOrphaned == ASSUME OneAtATime, UndoWorks PROVE Spec => []NoOrphanInvitation
  <1>1. Orderly /\ Agreeing => NoOrphanInvitation
    <2> SUFFICES ASSUME Orderly, Agreeing, Quiet, ~faults.upset, NEW u \in Users,
                        Pending(u) # {}, users[u] = "none"
                 PROVE  FALSE
      BY DEF NoOrphanInvitation
    <2>1. Managed
      BY DEF Orderly, Apart, Pending
    <2> QED BY <2>1 DEF Agreeing, Agree, Expected, Inviting, Quiet, At
  <1> QED BY <1>1, AlwaysAgreeing, PTL

=============================================================================
