---------------------------- MODULE UserDirectory ----------------------------
(***************************************************************************)
(* Who is a user and who an administrator: the users table of db.py and    *)
(* the WorkOS organization (admin/directory.py), which the Users page      *)
(* (admin/users.py), sign-in (admin/auth.py) and start-up (db.bootstrap)   *)
(* change in step with each other.                                         *)
(*                                                                         *)
(* Every step is one call to WorkOS or one database method; requests       *)
(* interleave between them, and people accept their invitations whenever   *)
(* they like.  Without WorkOS (Managed = FALSE) only the table changes.    *)
(***************************************************************************)
EXTENDS Naturals, FiniteSets

CONSTANTS
    Users,       \* e-mail addresses, lower case
    Boot,        \* BOTSAPP_ADMIN_EMAIL
    Invitations, \* WorkOS invitation ids (bound: how many are ever sent)
    Requests,    \* slots for requests in flight (1 slot = one at a time)
    Managed,     \* is a WorkOS organization configured?
    Faults,      \* what may go wrong: see below
    MaxFaults    \* bound: how often it does

ASSUME DirectoryAssumption ==
    /\ Boot \in Users
    /\ Managed \in BOOLEAN
    /\ Faults \subseteq
         { "refused",   \* a WorkOS call fails and changes nothing
           "lost",      \* a WorkOS call takes effect and its answer is lost
           "db",        \* a database method raises and changes nothing
           "crash",     \* the admin process restarts with requests in flight
           "dashboard" }\* someone changes a role in the WorkOS dashboard
    /\ MaxFaults \in Nat

VARIABLES
    users,  \* the users table: "none" is no row, else is_admin as a role
    role,   \* the organization's active memberships: their role, or "none"
    invite, \* WorkOS invitations
    signed, \* session cookies: "no", "yes", or "stale" once the user has left
            \* the organization and joined it again (cookies outlive that)
    req,    \* requests in flight
    given,  \* history: users WorkOS has had as administrators or invited as such
    vetted, \* history: requests whose actor was an administrator to WorkOS
    faults  \* how many faults are left, and whether one has happened that the
            \* handlers do not make up for

vars == <<users, role, invite, signed, req, given, vetted, faults>>

-----------------------------------------------------------------------------

Roles == {"admin", "member"}

Ops == {"invite", "remove", "setRole", "login"}

NoInvite == [to |-> Boot, role |-> "member", state |-> "unsent"]

\* `want` is the role to set, `previous` the one to restore, `undo` whether
\* it is being restored; `list` holds invitation ids read or created.
Idle == [op |-> "none", at |-> "idle", actor |-> Boot, who |-> Boot, want |-> "member",
         previous |-> "member", undo |-> FALSE, list |-> {}]

At(r, step) == req[r].at = step
Go(r, step) == req' = [req EXCEPT ![r].at = step]
End(r)      == req' = [req EXCEPT ![r] = Idle]

Pending(u) == {i \in Invitations : invite[i].to = u /\ invite[i].state = "pending"}

Member(u) == role[u] # "none"

\* Mutant: whatever slug WorkOS has.
RawRole(u) == role[u]

\* get_role: a role botsapp does not know ("other") is as good as none.
GetRole(u) == IF role[u] \in Roles THEN role[u] ELSE "none"

\* Bound: a request starts only if there are ids for all that it, and those in
\* flight, may send.
Spare(n) ==
    Cardinality({i \in Invitations : invite[i].state = "unsent"}) >=
        n + 2 * Cardinality({r \in Requests : req[r].op \in {"invite", "setRole"}})

\* live_admin_check: an administrator in WorkOS, or the bootstrap
\* administrator for as long as WorkOS has no role for them.
LiveAdmin(u) == ~Managed \/ GetRole(u) = "admin" \/ (GetRole(u) = "none" /\ u = Boot)

\* A failed call and a failed database method are what users.py undoes; a
\* lost answer, a crash and somebody else's edit are not.
Undone == {"refused", "db"}

Fault(kind) ==
    /\ kind \in Faults /\ faults.left > 0
    /\ faults' = [left |-> faults.left - 1, upset |-> faults.upset \/ kind \notin Undone]

\* The three ways a call to WorkOS ends: it is done, it fails and changes
\* nothing, or it is done and fails.  A call that WorkOS itself turns down
\* (possible is false) always fails.
Done(possible)  == possible /\ UNCHANGED faults
Fails(possible) == IF possible THEN Fault("refused") ELSE UNCHANGED faults
DoneAndLost(possible) == possible /\ Fault("lost")

NothingElse == UNCHANGED <<role, invite, signed>>

\* History: whom WorkOS made an administrator, and whose administrator role it
\* confirmed since their request arrived.
Observe ==
    /\ given' = given \cup {u \in Users : role'[u] = "admin" \/ \E i \in Invitations :
                                invite'[i] = [to |-> u, role |-> "admin", state |-> "pending"]}
    /\ vetted' = {r \in Requests :
                    /\ req'[r].at # "idle"
                    /\ r \in vetted \/ (req[r].at # "idle" /\ LiveAdmin(req[r].actor))}

-----------------------------------------------------------------------------
(* Arrivals.  The middleware lets a request about users through when it has *)
(* a cookie and the table says that its sender is an administrator; the    *)
(* handlers read the target's row before anything else.                    *)

MayArrive(me) == signed[me] # "no" /\ users[me] = "admin"

Arrive(r, new) ==
    /\ At(r, "idle")
    /\ req' = [req EXCEPT ![r] = new]
    /\ UNCHANGED <<users, role, invite, signed, faults>> /\ Observe

InviteUser(r) ==
    \E me \in Users, u \in Users, rl \in Roles :
        /\ MayArrive(me)
        /\ users[u] = "none" /\ Spare(1)
        /\ Arrive(r, [Idle EXCEPT !.op = "invite", !.at = "live", !.actor = me,
                                  !.who = u, !.want = rl])

\* Mutant: administrators can remove themselves.
RemoveAnyone(r) ==
    \E me \in Users, u \in Users :
        /\ MayArrive(me)
        /\ users[u] # "none"
        /\ Arrive(r, [Idle EXCEPT !.op = "remove", !.at = "live", !.actor = me, !.who = u])

\* An owner of accounts is refused here too: AccessControl.
RemoveUser(r) ==
    \E me \in Users, u \in Users :
        /\ MayArrive(me) /\ u # me
        /\ users[u] # "none"
        /\ Arrive(r, [Idle EXCEPT !.op = "remove", !.at = "live", !.actor = me, !.who = u])

ChangeRole(r) ==
    \E me \in Users, u \in Users :
        /\ MayArrive(me) /\ u # me
        /\ users[u] # "none" /\ Spare(2)
        /\ \E rl \in Roles \ {users[u]} :
              Arrive(r, [Idle EXCEPT !.op = "setRole", !.at = "live", !.actor = me, !.who = u,
                                     !.want = rl, !.previous = users[u]])

\* Mutant: the table first.
TableFirst(op) == CASE op = "invite"  -> "addRow"
                    [] op = "remove"  -> "rmPending"
                    [] op = "setRole" -> "record"

\* live_admin_check: the last step before anything changes.
FirstCall(op) ==
    CASE op = "invite"  -> IF Managed THEN "send" ELSE "addRow"
      [] op = "remove"  -> IF Managed THEN "rmPending" ELSE "dropRow"
      [] op = "setRole" -> IF Managed THEN "lookup" ELSE "record"

\* Mutant: whoever the cookie and the table call an administrator may go on.
TrustCookie(r) ==
    /\ At(r, "live") /\ Go(r, FirstCall(req[r].op))
    /\ UNCHANGED <<users, role, invite, signed, faults>> /\ Observe

LiveAdminCheck(r) ==
    /\ At(r, "live")
    /\ \/ Done(LiveAdmin(req[r].actor)) /\ Go(r, FirstCall(req[r].op))
       \/ Fails(LiveAdmin(req[r].actor)) /\ End(r)
    /\ UNCHANGED <<users, role, invite, signed>> /\ Observe

-----------------------------------------------------------------------------
(* directory.py: invite, revoke_invitation.                                *)

Sent(i, u, rl) == invite' = [invite EXCEPT ![i] = [to |-> u, role |-> rl, state |-> "pending"]]
Revoked(i)     == invite' = [invite EXCEPT ![i].state = "revoked"]

\* Someone who is a member already cannot be invited.
SendInvitation(r) ==
    LET u == req[r].who IN
    /\ At(r, "send")
    /\ \/ \E i \in Invitations :
             /\ invite[i].state = "unsent"
             /\ Sent(i, u, req[r].want)
             /\ \/ Done(~Member(u)) /\ req' = [req EXCEPT ![r].at = "addRow", ![r].list = {i}]
                \/ DoneAndLost(~Member(u)) /\ End(r)
       \/ Fails(~Member(u)) /\ End(r) /\ UNCHANGED invite
    /\ UNCHANGED <<users, role, signed>> /\ Observe

\* db.add_user: a row that is there by now stays as it is.
AddRow(r) ==
    LET u == req[r].who IN
    /\ At(r, "addRow")
    /\ \/ /\ users' = IF users[u] = "none" THEN [users EXCEPT ![u] = req[r].want] ELSE users
          /\ End(r) /\ UNCHANGED faults
       \/ Fault("db") /\ UNCHANGED users /\ IF Managed THEN Go(r, "unsend") ELSE End(r)
    /\ NothingElse /\ Observe

\* Mutant: a row that cannot be written leaves the invitation as it is.
KeepInvitation(r) ==
    At(r, "unsend") /\ End(r) /\ UNCHANGED <<users, role, invite, signed, faults>> /\ Observe

\* The row could not be written: revoke the invitation again.
UnsendInvitation(r) ==
    /\ At(r, "unsend")
    /\ \E i \in req[r].list :
          LET possible == invite[i].state = "pending" IN
          \/ (Done(possible) \/ DoneAndLost(possible)) /\ Revoked(i)
          \/ Fails(possible) /\ UNCHANGED invite
    /\ End(r)
    /\ UNCHANGED <<users, role, signed>> /\ Observe

-----------------------------------------------------------------------------
(* directory.py: remove, and db.remove_user.                               *)

\* A call that only reads, and may fail.
Read(r, continue) ==
    /\ \/ Done(TRUE) /\ continue
       \/ Fails(TRUE) /\ End(r)
    /\ UNCHANGED <<users, role, invite, signed>> /\ Observe

\* Mutant: the membership is deleted first, the invitations after it.
RemoveMemberFirst(r) ==
    LET u == req[r].who IN
    \/ At(r, "rmPending") /\ Read(r, Go(r, IF Member(u) THEN "rmDelete" ELSE "rmLookup"))
    \/ At(r, "rmLookup") /\ Read(r, req' = [req EXCEPT ![r].at = "rmRevoke", ![r].list = Pending(u)])
    \/ /\ At(r, "rmDelete") /\ Go(r, "rmLookup") /\ role' = [role EXCEPT ![u] = "none"]
       /\ UNCHANGED <<users, invite, signed, faults>> /\ Observe
    \/ /\ At(r, "rmRevoke") /\ Go(r, "dropRow")
       /\ invite' = [i \in Invitations |->
                       IF i \in req[r].list THEN [invite[i] EXCEPT !.state = "revoked"] ELSE invite[i]]
       /\ UNCHANGED <<users, role, signed, faults>> /\ Observe

\* Pending invitations first, one by one, then the membership, if any.
DirectoryRemove(r) ==
    LET u == req[r].who IN
    \/ At(r, "rmPending") /\ Read(r, req' = [req EXCEPT ![r].at = "rmRevoke", ![r].list = Pending(u)])
    \/ /\ At(r, "rmRevoke")
       /\ \/ /\ req[r].list = {} /\ Go(r, "rmLookup") /\ UNCHANGED <<invite, faults>>
          \/ \E i \in req[r].list :
                LET possible == invite[i].state = "pending" IN
                \/ Done(possible) /\ Revoked(i) /\ req' = [req EXCEPT ![r].list = @ \ {i}]
                \/ DoneAndLost(possible) /\ Revoked(i) /\ End(r)
                \/ Fails(possible) /\ UNCHANGED invite /\ End(r)
       /\ UNCHANGED <<users, role, signed>> /\ Observe
    \/ At(r, "rmLookup") /\ Read(r, Go(r, IF Member(u) THEN "rmDelete" ELSE "dropRow"))
    \/ /\ At(r, "rmDelete")
       /\ \/ Done(Member(u)) /\ role' = [role EXCEPT ![u] = "none"] /\ Go(r, "dropRow")
          \/ DoneAndLost(Member(u)) /\ role' = [role EXCEPT ![u] = "none"] /\ End(r)
          \/ Fails(Member(u)) /\ UNCHANGED role /\ End(r)
       /\ UNCHANGED <<users, invite, signed>> /\ Observe

DropRow(r) ==
    /\ At(r, "dropRow")
    /\ \/ users' = [users EXCEPT ![req[r].who] = "none"] /\ UNCHANGED faults
       \/ Fault("db") /\ UNCHANGED users
    /\ End(r)
    /\ NothingElse /\ Observe

-----------------------------------------------------------------------------
(* directory.py: set_role, for the change and for putting it back, and     *)
(* db.set_user_admin.                                                      *)

\* set_role has raised, or has returned.
RoleFailed(r) == End(r)
RoleSet(r) == IF req[r].undo THEN End(r) ELSE Go(r, "record")

DirectorySetRole(r) ==
    LET u == req[r].who  rl == req[r].want IN
    \/ At(r, "lookup") /\ Read(r, Go(r, IF Member(u) THEN "update" ELSE "pendings"))
    \/ /\ At(r, "update")
       /\ \/ Done(Member(u)) /\ role' = [role EXCEPT ![u] = rl] /\ RoleSet(r)
          \/ DoneAndLost(Member(u)) /\ role' = [role EXCEPT ![u] = rl] /\ RoleFailed(r)
          \/ Fails(Member(u)) /\ UNCHANGED role /\ RoleFailed(r)
       /\ UNCHANGED <<users, invite, signed>> /\ Observe
    \/ /\ At(r, "pendings")
       /\ Read(r, IF Pending(u) = {} THEN RoleFailed(r)
                  ELSE req' = [req EXCEPT ![r].at = "revoke", ![r].list = Pending(u)])
    \* An invitation's role cannot be edited: revoke it and send another.
    \/ /\ At(r, "revoke")
       /\ \/ req[r].list = {} /\ Go(r, "resend") /\ UNCHANGED <<invite, faults>>
          \/ \E i \in req[r].list :
                LET possible == invite[i].state = "pending" IN
                \/ Done(possible) /\ Revoked(i) /\ req' = [req EXCEPT ![r].list = @ \ {i}]
                \/ DoneAndLost(possible) /\ Revoked(i) /\ RoleFailed(r)
                \/ Fails(possible) /\ UNCHANGED invite /\ RoleFailed(r)
       /\ UNCHANGED <<users, role, signed>> /\ Observe
    \/ /\ At(r, "resend")
       /\ \/ \E i \in Invitations :
                /\ invite[i].state = "unsent"
                /\ Sent(i, u, rl)
                /\ \/ Done(~Member(u)) /\ RoleSet(r)
                   \/ DoneAndLost(~Member(u)) /\ RoleFailed(r)
          \/ Fails(~Member(u)) /\ UNCHANGED invite /\ RoleFailed(r)
       /\ UNCHANGED <<users, role, signed>> /\ Observe

\* Mutant: a mirror that cannot be written leaves WorkOS as it is.
RecordOnly(r) ==
    LET u == req[r].who IN
    /\ At(r, "record") /\ End(r)
    /\ \/ /\ users' = IF users[u] = "none" THEN users ELSE [users EXCEPT ![u] = req[r].want]
          /\ UNCHANGED faults
       \/ Fault("db") /\ UNCHANGED users
    /\ NothingElse /\ Observe

\* The mirror is an UPDATE; when it fails the role is put back in WorkOS.
RecordRole(r) ==
    LET u == req[r].who IN
    /\ At(r, "record")
    /\ \/ /\ users' = IF users[u] = "none" THEN users ELSE [users EXCEPT ![u] = req[r].want]
          /\ End(r) /\ UNCHANGED faults
       \/ /\ Fault("db") /\ UNCHANGED users
          /\ IF Managed
             THEN req' = [req EXCEPT ![r].at = "lookup", ![r].undo = TRUE,
                                     ![r].want = req[r].previous]
             ELSE End(r)
    /\ NothingElse /\ Observe

-----------------------------------------------------------------------------
(* auth.py: auth_callback and _mirror_role.                                *)

SignedIn(u) == signed' = [signed EXCEPT ![u] = "yes"]

\* The provider vouches for a member of the organization, if there is one; a
\* user without a row is turned away.  A role that cannot be read leaves the
\* table as it is.
Login(r) ==
    LET u == req[r].who IN
    \/ \E v \in Users :
          /\ users[v] # "none" /\ (Managed => Member(v))
          /\ Arrive(r, [Idle EXCEPT !.op = "login", !.at = "getRole", !.actor = v, !.who = v])
    \/ /\ At(r, "getRole")
       /\ \/ /\ Managed /\ Done(GetRole(u) # "none") /\ UNCHANGED signed
             /\ req' = [req EXCEPT ![r].at = "mirror", ![r].want = role[u]]
          \/ /\ (Managed /\ Fails(TRUE)) \/ Done(~Managed \/ GetRole(u) = "none")
             /\ End(r) /\ SignedIn(u)
       /\ UNCHANGED <<users, role, invite>> /\ Observe

MirrorRole(r) ==
    LET u == req[r].who IN
    /\ At(r, "mirror") /\ End(r)
    /\ \/ /\ users' = IF users[u] = "none" THEN users
                      ELSE [users EXCEPT ![u] = IF u = Boot THEN "admin" ELSE req[r].want]
          /\ SignedIn(u) /\ UNCHANGED faults
       \/ Fault("db") /\ UNCHANGED <<users, signed>>
    /\ UNCHANGED <<role, invite>> /\ Observe

-----------------------------------------------------------------------------

\* Somebody accepts an invitation (external).
Accept(i) ==
    LET u == invite[i].to IN
    /\ invite[i].state = "pending"
    /\ invite' = [invite EXCEPT ![i].state = "accepted"]
    /\ role' = IF Member(u) THEN role ELSE [role EXCEPT ![u] = invite[i].role]
    /\ signed' = [signed EXCEPT ![u] = IF @ = "yes" THEN "stale" ELSE @]
    /\ UNCHANGED <<users, req, faults>> /\ Observe

\* The WorkOS dashboard (external).
Dashboard(u) ==
    /\ Fault("dashboard") /\ Member(u)
    /\ \E rl \in (Roles \cup {"other", "none"}) \ {role[u]} : role' = [role EXCEPT ![u] = rl]
    /\ UNCHANGED <<users, invite, signed, req>> /\ Observe

\* bootstrap runs at every start of either process.
Restart ==
    /\ users' = [users EXCEPT ![Boot] = "admin"]
    /\ \/ (\A r \in Requests : At(r, "idle")) /\ UNCHANGED <<req, faults>>
       \/ Fault("crash") /\ req' = [r \in Requests |-> Idle]
    /\ NothingElse /\ Observe

\* The bootstrap administrator has joined the organization they set up.
Init ==
    /\ users = [u \in Users |-> IF u = Boot THEN "admin" ELSE "none"]
    /\ \E rl \in {"admin", "other"} : role = [u \in Users |-> IF u = Boot THEN rl ELSE "none"]
    /\ invite = [i \in Invitations |-> NoInvite]
    /\ signed = [u \in Users |-> "no"]
    /\ req = [r \in Requests |-> Idle]
    /\ given = {}
    /\ vetted = {}
    /\ faults = [left |-> MaxFaults, upset |-> FALSE]

Next ==
    \/ \E r \in Requests :
          \/ InviteUser(r)      \/ RemoveUser(r)       \/ ChangeRole(r)
          \/ LiveAdminCheck(r)  \/ SendInvitation(r)   \/ AddRow(r)
          \/ UnsendInvitation(r) \/ DirectoryRemove(r) \/ DropRow(r)
          \/ DirectorySetRole(r) \/ RecordRole(r)
          \/ Login(r)           \/ MirrorRole(r)
    \/ \E i \in Invitations : Accept(i)
    \/ \E u \in Users : Dashboard(u)
    \/ Restart

Spec == Init /\ [][Next]_vars

-----------------------------------------------------------------------------
(* Properties.                                                             *)

Steps == {"idle", "live", "send", "addRow", "unsend", "rmPending", "rmRevoke", "rmLookup",
          "rmDelete", "dropRow", "lookup", "update", "pendings", "revoke", "resend",
          "record", "getRole", "mirror"}

TypeOK ==
    /\ users \in [Users -> Roles \cup {"none"}]
    /\ role \in [Users -> Roles \cup {"other", "none"}]
    /\ invite \in [Invitations -> [to : Users, role : Roles,
                                   state : {"unsent", "pending", "accepted", "revoked"}]]
    /\ req \in [Requests -> [op : Ops \cup {"none"}, at : Steps, actor : Users, who : Users,
                             want : Roles, previous : Roles, undo : BOOLEAN,
                             list : SUBSET Invitations]]
    /\ signed \in [Users -> {"no", "yes", "stale"}]
    /\ given \subseteq Users
    /\ vetted \subseteq Requests
    /\ faults \in [left : 0..MaxFaults, upset : BOOLEAN]

Quiet == \A r \in Requests : At(r, "idle")

\* "At least one admin always remains" (users.py): somebody both the table and
\* WorkOS take for an administrator, so that the Users page still works.
AdminRemains == \E u \in Users : users[u] = "admin" /\ LiveAdmin(u)

\* The same, for as long as the bootstrap administrator was never removed and
\* invited back as a mere member: accepting that invitation ends the right
\* that they had without a role, and they may be the last administrator then.
\* This one and the next two hold until an answer is lost, the process crashes
\* or somebody edits a role in the dashboard.
AdminRemainsSerially ==
    /\ ~faults.upset
    /\ \A i \in Invitations :
          invite[i].to = Boot /\ invite[i].state # "unsent" => invite[i].role = "admin"
    => AdminRemains

\* "A failure never leaves the two disagreeing in a harmful way" (users.py):
\* when nothing is in flight, nobody keeps the table's administrator rights
\* while WorkOS has them as a mere member.  (Someone who has not signed in
\* since they joined gets the role of WorkOS as they do; the bootstrap
\* administrator keeps the right whatever WorkOS says.)
NoStaleAdmin ==
    Quiet /\ ~faults.upset => \A u \in Users \ {Boot} :
                signed[u] = "yes" /\ users[u] = "admin" => role[u] # "member"

\* "A failed invite leaves no row", and no invitation either: when nothing is
\* in flight, whoever can accept an invitation has a row to sign in with.
NoOrphanInvitation ==
    Quiet /\ ~faults.upset => \A u \in Users : Pending(u) # {} => users[u] # "none"

\* A user's row goes only when WorkOS has neither a membership nor a pending
\* invitation for them, even if they accept one while they are being removed.
RemovedEverywhere ==
    [][\A u \in Users : users[u] # "none" /\ users'[u] = "none" /\ Managed =>
          role[u] = "none" /\ Pending(u) = {}]_vars

\* WorkOS comes first: whatever fails, gets lost or interleaves, the table has
\* nobody as an administrator whom WorkOS never had or invited as one.
AdminsComeFromWorkOS ==
    Managed => \A u \in Users \ {Boot} : users[u] = "admin" => u \in given

\* Nothing changes, in WorkOS or the table, on behalf of someone WorkOS did not
\* take for an administrator at some moment of the request: neither an old
\* cookie nor the table's is_admin suffices.
ChangesVetted ==
    \A r \in Requests :
        req[r].op \in {"invite", "remove", "setRole"} /\ ~At(r, "live") => r \in vetted

=============================================================================
