---------------------------- MODULE SessionPairing ----------------------------
(***************************************************************************)
(* Pairing one account with WhatsApp: the card of the accounts page        *)
(* (templates.py) with its buttons and its poll, the handlers behind them  *)
(* (accounts.py), session.py, and the session calls of waha_client.py.     *)
(*                                                                         *)
(* Every call to WAHA is a step, and so is each round of the wait for a    *)
(* starting session.  Between any two of them WAHA, the phone and the      *)
(* other tabs move the session.                                            *)
(***************************************************************************)
EXTENDS Naturals

CONSTANTS
    Tabs,       \* browser tabs that show the card
    WaitRounds, \* reads of a starting session before it is shown as it is (5)
    MaxFaults   \* bound: how many calls fail

ASSUME PairingAssumption == WaitRounds \in Nat /\ MaxFaults \in Nat

VARIABLES
    wa,     \* WAHA's session: its state, whether WhatsApp knows it as a linked
            \* device (the auth material is kept), and whether WAHA says why it failed
    panel,  \* what each tab shows
    req,    \* the request of each tab, if one is in flight
    still,  \* history: tabs whose click has found the session unchanged so far,
            \* no call having failed
    faults  \* how many faults are left

vars == <<wa, panel, req, still, faults>>

-----------------------------------------------------------------------------

Down == {"missing", "STOPPED", "FAILED"}
Up   == {"STARTING", "SCAN_QR_CODE", "WORKING"}

Gone == [state |-> "missing", paired |-> FALSE, error |-> FALSE]

\* What get_session_status makes of WAHA's answer (_status_from_session); a
\* missing session is not an error, a QR code comes from a call of its own.
StatusOf(w) == [connected |-> w.state \notin Down,
                logged_in |-> w.state = "WORKING",
                qr        |-> FALSE,
                errors    |-> w.state = "FAILED" /\ w.error]

Unreachable == [connected |-> FALSE, logged_in |-> FALSE, qr |-> FALSE, errors |-> TRUE]
Starting    == [connected |-> TRUE, logged_in |-> FALSE, qr |-> FALSE, errors |-> FALSE]
QrShown     == [Starting EXCEPT !.qr = TRUE]

\* `then` is what becomes of the status being read: session.py decides on it,
\* it is dropped before the redirect, the page or the poll shows it.
Idle == [op |-> "none", at |-> "idle", then |-> "none", rounds |-> 0]

At(t, step) == req[t].at = step

Fault == faults > 0 /\ faults' = faults - 1

\* History.  Polls and page loads are not looked at.
Observe ==
    still' = {t \in Tabs :
                /\ req'[t].op \in {"connect", "disconnect"}
                /\ req[t].op = "none" \/ t \in still
                /\ wa' = wa /\ faults' = faults}

Go(t, step) == req' = [req EXCEPT ![t].at = step]

\* The handlers answer with a redirect to the page.
ReadStatus(t, then) ==
    req' = [req EXCEPT ![t] = [@ EXCEPT !.at = "status", !.then = then, !.rounds = 0]]
Load(t) == req' = [req EXCEPT ![t] = [Idle EXCEPT !.op = "load", !.at = "status", !.then = "show"]]

-----------------------------------------------------------------------------
(* What is done with a status.                                             *)

\* _pairing_panel.
Panel(s) ==
    CASE s.errors -> "error"
      [] ~s.errors /\ s.logged_in -> "connected"
      [] ~s.errors /\ ~s.logged_in /\ s.qr -> "qr"
      [] OTHER -> "connect"

Show(t, s) ==
    panel' = [panel EXCEPT ![t] = Panel(s)] /\ req' = [req EXCEPT ![t] = Idle]

\* Mutant: the script only looks for the login.
PolledLogin(t, s) ==
    IF s.logged_in
    THEN panel' = [panel EXCEPT ![t] = "loading"] /\ Load(t)
    ELSE req' = [req EXCEPT ![t] = Idle] /\ UNCHANGED panel

\* pollNow: a new code goes in place, anything else reloads the page.
Polled(t, s) ==
    IF s.qr /\ ~s.logged_in
    THEN req' = [req EXCEPT ![t] = Idle] /\ UNCHANGED panel
    ELSE panel' = [panel EXCEPT ![t] = "loading"] /\ Load(t)

\* connect_or_get_status: connect only on a clean "nothing going on yet".
Decide(t, s) ==
    /\ IF ~s.connected /\ ~s.logged_in /\ ~s.qr /\ ~s.errors
       THEN Go(t, "look") ELSE Load(t)
    /\ UNCHANGED panel

Answer(t, s) ==
    \/ req[t].then = "show"   /\ Show(t, s)
    \/ req[t].then = "poll"   /\ Polled(t, s)
    \/ req[t].then = "decide" /\ Decide(t, s)
    \/ req[t].then = "drop"   /\ Load(t) /\ UNCHANGED panel

-----------------------------------------------------------------------------
(* waha_client.py: get_session_status.                                     *)

\* What is done with a session that is not STARTING.
Settled(t) ==
    IF wa.state = "SCAN_QR_CODE" THEN Go(t, "qr") /\ UNCHANGED panel
                                 ELSE Answer(t, StatusOf(wa))

GetSessionStatus(t) ==
    /\ At(t, "status")
    /\ \/ /\ UNCHANGED faults
          /\ IF wa.state = "STARTING"
             THEN /\ req' = [req EXCEPT ![t].at = "wait", ![t].rounds = WaitRounds]
                  /\ UNCHANGED panel
             ELSE Settled(t)
       \/ Fault /\ Answer(t, Unreachable)
    /\ UNCHANGED wa /\ Observe

\* A round of the wait: sleep, then read again.  A read that fails, and a
\* session that is gone is one, leaves things as they were read before.
WaitForStart(t) ==
    /\ At(t, "wait")
    /\ \/ req[t].rounds = 0 /\ Answer(t, Starting) /\ UNCHANGED faults
       \/ /\ req[t].rounds > 0
          /\ \/ wa.state \notin {"STARTING", "missing"} /\ Settled(t) /\ UNCHANGED faults
             \/ /\ Fault \/ (wa.state \in {"STARTING", "missing"} /\ UNCHANGED faults)
                /\ req' = [req EXCEPT ![t].rounds = @ - 1] /\ UNCHANGED panel
    /\ UNCHANGED wa /\ Observe

\* _get_qr_base64: refused unless the session still waits for a scan.
FetchQr(t) ==
    /\ At(t, "qr")
    /\ \/ wa.state = "SCAN_QR_CODE" /\ Answer(t, QrShown) /\ UNCHANGED faults
       \/ /\ Fault \/ (wa.state # "SCAN_QR_CODE" /\ UNCHANGED faults)
          /\ Answer(t, Starting)
    /\ UNCHANGED wa /\ Observe

-----------------------------------------------------------------------------
(* The three ways a call that changes the session ends: done, failed, or   *)
(* done with its answer lost.  The code goes on in the same way.           *)

Post(possible, new) ==
    \/ possible /\ wa' = new /\ (UNCHANGED faults \/ Fault)
    \/ UNCHANGED wa /\ IF possible THEN Fault ELSE UNCHANGED faults

\* Mutant: a session that failed is left alone.
OnlyStopped == {"STOPPED"}
Restartable == {"STOPPED", "FAILED"}

\* waha_client.connect.  A read that fails is taken for a missing session.
Connect(t) ==
    \/ /\ At(t, "look")
       /\ \/ /\ UNCHANGED faults
             /\ CASE wa.state = "missing"      -> Go(t, "start")
                  [] wa.state \in Restartable  -> Go(t, "restart")
                  [] OTHER                     -> ReadStatus(t, "drop")
          \/ Fault /\ Go(t, "start")
       /\ UNCHANGED <<wa, panel>> /\ Observe
    \* WAHA refuses to create a session that exists.
    \/ /\ At(t, "start")
       /\ Post(wa.state = "missing", [Gone EXCEPT !.state = "STARTING"])
       /\ ReadStatus(t, "drop") /\ UNCHANGED panel /\ Observe
    \/ /\ At(t, "restart")
       /\ Post(wa.state # "missing", [wa EXCEPT !.state = "STARTING", !.error = FALSE])
       /\ ReadStatus(t, "drop") /\ UNCHANGED panel /\ Observe

\* Mutant: stop whatever the session is.
AlwaysStop == "stop"
Endpoint == IF wa.state = "WORKING" THEN "logout" ELSE "stop"

\* waha_client.disconnect: /logout for a session that is WORKING, else /stop,
\* which keeps the auth material.  The handler ignores what it returns.
Disconnect(t) ==
    \/ /\ At(t, "pick")
       /\ \/ Go(t, Endpoint) /\ UNCHANGED faults
          \/ Fault /\ Go(t, "stop")
       /\ UNCHANGED <<wa, panel>> /\ Observe
    \/ /\ At(t, "logout")
       /\ \/ Post(wa.state # "missing", [Gone EXCEPT !.state = "STOPPED"])
          \* WAHA may refuse to log out of a session that is not working.
          \/ wa.state # "WORKING" /\ UNCHANGED <<wa, faults>>
       /\ Load(t) /\ UNCHANGED panel /\ Observe
    \/ /\ At(t, "stop")
       /\ Post(wa.state # "missing", [wa EXCEPT !.state = "STOPPED", !.error = FALSE])
       /\ Load(t) /\ UNCHANGED panel /\ Observe

\* session_reset and delete_session; a session that is gone is no error.
Reset(t) ==
    /\ At(t, "delete")
    /\ Post(TRUE, Gone)
    /\ Load(t) /\ UNCHANGED panel /\ Observe

-----------------------------------------------------------------------------
(* The browser.  A tab that leaves the page or waits for one shows none.   *)

Send(t, op, step, then) ==
    /\ req[t] = Idle
    /\ req' = [req EXCEPT ![t] = [Idle EXCEPT !.op = op, !.at = step, !.then = then]]
    /\ UNCHANGED <<wa, faults>> /\ Observe

Leave(t) == panel' = [panel EXCEPT ![t] = "loading"]

\* session_index, by hand or by the page's meta refresh.
OpenPage(t) == Send(t, "load", "status", "show") /\ Leave(t)

ClickConnect(t) == panel[t] = "connect" /\ Send(t, "connect", "status", "decide") /\ Leave(t)

ClickDisconnect(t) == panel[t] = "connected" /\ Send(t, "disconnect", "pick", "none") /\ Leave(t)

ClickReset(t) == panel[t] = "connected" /\ Send(t, "reset", "delete", "none") /\ Leave(t)

\* Mutant: the poll goes through connect_or_get_status.
PollAndConnect(t) ==
    panel[t] = "qr" /\ Send(t, "poll", "status", "decide") /\ UNCHANGED panel

\* session_status_json, every three seconds while the card shows a code.
Poll(t) == panel[t] = "qr" /\ Send(t, "poll", "status", "poll") /\ UNCHANGED panel

\* The poll's answer does not reach the tab: the script polls again.
PollFails(t) ==
    /\ req[t].op = "poll" /\ Fault
    /\ req' = [req EXCEPT ![t] = Idle]
    /\ UNCHANGED <<wa, panel>> /\ Observe

-----------------------------------------------------------------------------
(* WAHA and the phone (external).                                          *)

Becomes(new) == wa' = new /\ UNCHANGED <<panel, req, faults>> /\ Observe

FailsFor(w) == {[w EXCEPT !.state = "FAILED", !.error = e] : e \in BOOLEAN}

\* A starting session comes up: with its auth material, or asking for a scan.
Started ==
    /\ wa.state = "STARTING"
    /\ Becomes([wa EXCEPT !.state = IF wa.paired THEN "WORKING" ELSE "SCAN_QR_CODE"])

Scanned == wa.state = "SCAN_QR_CODE" /\ Becomes([wa EXCEPT !.state = "WORKING", !.paired = TRUE])

\* It crashes, or nobody scans the code in time.
Crashed == wa.state \in Up /\ \E w \in FailsFor(wa) : Becomes(w)

\* The phone unlinks the device.
Unlinked ==
    wa.state = "WORKING" /\ \E w \in FailsFor([wa EXCEPT !.paired = FALSE]) : Becomes(w)

\* WAHA restarts, and with it the sessions that were up.
WahaRestarts == wa.state \in Up \ {"STARTING"} /\ Becomes([wa EXCEPT !.state = "STARTING"])

-----------------------------------------------------------------------------

Init ==
    /\ wa \in {Gone, [Gone EXCEPT !.state = "STOPPED"],
               [Gone EXCEPT !.state = "WORKING", !.paired = TRUE]}
    /\ panel = [t \in Tabs |-> "loading"]
    /\ req = [t \in Tabs |-> Idle]
    /\ still = {}
    /\ faults = MaxFaults

ServerStep(t) ==
    \/ GetSessionStatus(t) \/ WaitForStart(t) \/ FetchQr(t)
    \/ Connect(t) \/ Disconnect(t) \/ Reset(t)

Click(t) == OpenPage(t) \/ ClickConnect(t) \/ ClickDisconnect(t) \/ ClickReset(t)

WahaStep == Started \/ Scanned \/ Crashed \/ Unlinked \/ WahaRestarts

Next ==
    \/ \E t \in Tabs : ServerStep(t) \/ Click(t) \/ Poll(t) \/ PollFails(t)
    \/ WahaStep

Spec == Init /\ [][Next]_vars

\* Every call to WAHA ends, by an answer or by aiohttp's timeout, and the
\* script sets its timer again after each poll.  Nothing is assumed of WAHA,
\* of the phone, nor of who clicks.
FairSpec == Spec /\ \A t \in Tabs : WF_vars(ServerStep(t)) /\ WF_vars(Poll(t))

-----------------------------------------------------------------------------
(* Properties.                                                             *)

Steps == {"idle", "status", "wait", "qr", "look", "start", "restart", "pick",
          "logout", "stop", "delete"}

TypeOK ==
    /\ wa \in [state : Down \cup Up, paired : BOOLEAN, error : BOOLEAN]
    /\ panel \in [Tabs -> {"loading", "error", "connected", "qr", "connect"}]
    /\ req \in [Tabs -> [op : {"none", "load", "poll", "connect", "disconnect", "reset"},
                         at : Steps, then : {"none", "decide", "drop", "show", "poll"},
                         rounds : 0..WaitRounds]]
    /\ still \subseteq Tabs
    /\ faults \in 0..MaxFaults

\* "Log out of WhatsApp" (session_disconnect): a disconnect whose calls succeed,
\* of a session that works until then, leaves no linked device behind: whoever
\* connects next has to scan.  (A status read that fails, or that finds the
\* session starting, makes it a mere stop: the device stays linked.)
DisconnectForgets ==
    [][\A t \in still :
          /\ req[t].op = "disconnect" /\ ~At(t, "pick") /\ req'[t] # req[t]
          /\ wa.state = "WORKING" /\ faults' = faults
          => ~wa'.paired]_vars

\* Has t's click on Connect just ended, having found the session down at
\* every moment?
EndsDown(t) ==
    /\ req[t].op = "connect" /\ req'[t].op # "connect"
    /\ t \in still /\ wa'.state \in Down /\ faults' = faults

\* "A session stuck FAILED never recovered when the user clicked Connect again"
\* (test_waha_client.py): a click on Connect all of whose calls succeed does not
\* leave a session as dead as it was; so far as WAHA gives no error for it.
ConnectRevives == [][\A t \in Tabs : EndsDown(t) => wa.error]_vars

\* The same without exception, as the comment in connect() and that test have it.
ConnectAlwaysRevives == [][\A t \in Tabs : ~EndsDown(t)]_vars

\* "Without ever re-triggering connect" (session_status_json): polls, page loads
\* and whatever else happens start no session that is down, unless somebody has
\* clicked Connect.
OnlyClicksStart ==
    [][wa.state \in Down /\ wa'.state \in Up => \E t \in Tabs : req[t].op = "connect"]_vars

\* A card never keeps showing a dead code: when the session no longer waits for
\* a scan, the card changes (or the session waits for one again).
QrPanelCatchesUp ==
    \A t \in Tabs : (panel[t] = "qr" /\ wa.state # "SCAN_QR_CODE") ~>
                        (panel[t] # "qr" \/ wa.state = "SCAN_QR_CODE")

=============================================================================
