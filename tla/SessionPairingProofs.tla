-------------------------- MODULE SessionPairingProofs --------------------------
(***************************************************************************)
(* Proofs about SessionPairing, for any number of tabs, rounds of waiting  *)
(* and failing calls: its types, what a click on Disconnect or Connect     *)
(* leaves behind, and that nothing but a click starts a session.           *)
(***************************************************************************)
EXTENDS SessionPairing, TLAPS

WaType == [state : Down \cup Up, paired : BOOLEAN, error : BOOLEAN]

Panels == {"loading", "error", "connected", "qr", "connect"}

ReqType == [op : {"none", "load", "poll", "connect", "disconnect", "reset"},
            at : Steps, then : {"none", "decide", "drop", "show", "poll"},
            rounds : 0..WaitRounds]

StatusType == [connected : BOOLEAN, logged_in : BOOLEAN, qr : BOOLEAN, errors : BOOLEAN]

Reading == {"status", "wait", "qr"}
Connecting == {"look", "start", "restart"}
Disconnecting == {"pick", "logout", "stop"}

\* Which click each step belongs to.
Belongs(x) ==
    /\ x.then = "decide" \/ x.at \in Connecting => x.op = "connect"
    /\ x.op = "connect" => \/ x.at \in Connecting
                           \/ x.at \in Reading /\ x.then \in {"decide", "drop"}
    /\ x.op = "disconnect" <=> x.at \in Disconnecting

\* What a click that has found the session unchanged so far knows of it.
Knows(x) ==
    /\ x.op = "connect" =>
          /\ x.at = "wait" => wa.state = "STARTING"
          /\ x.at = "qr" => wa.state = "SCAN_QR_CODE"
          /\ x.at = "look" => wa.state \in Down
          /\ x.at = "start" => wa.state = "missing"
          /\ x.at = "restart" => wa.state \in Restartable
          /\ x.at \in Reading /\ x.then = "drop" => wa.state \in Up
    /\ x.at = "stop" => wa.state # "WORKING"

Types == /\ wa \in WaType /\ panel \in [Tabs -> Panels] /\ req \in [Tabs -> ReqType]
         /\ still \subseteq Tabs /\ faults \in 0..MaxFaults

Inv == /\ Types
       /\ \A t \in Tabs : Belongs(req[t]) /\ (t \in still => Knows(req[t]))

-----------------------------------------------------------------------------

LEMMA TypesAgree == Types <=> TypeOK
  BY DEF Types, TypeOK, WaType, Panels, ReqType

LEMMA IdleType == Idle \in ReqType /\ Belongs(Idle) /\ Idle.op = "none" /\ Idle.at = "idle"
  BY PairingAssumption
  DEF Idle, ReqType, Steps, Belongs, Connecting, Reading, Disconnecting

\* Reading the status of t again, and what becomes of it.
LEMMA Rereading ==
    ASSUME NEW x \in ReqType, NEW step \in Steps, NEW rounds \in 0..WaitRounds,
           NEW then \in {"none", "decide", "drop", "show", "poll"}
    PROVE  LET new == [x EXCEPT !.at = step, !.then = then, !.rounds = rounds]
           IN  new \in ReqType /\ new.at = step /\ new.op = x.op /\ new.then = then
  BY DEF ReqType

LEMMA RoundsType == 0 \in 0..WaitRounds /\ WaitRounds \in 0..WaitRounds
  BY PairingAssumption

LEMMA FaultType ==
    ASSUME Types, Fault PROVE faults' \in 0..MaxFaults /\ faults' # faults
  BY PairingAssumption DEF Types, Fault

\* A tab whose request does not move knows no less than before.
LEMMA OthersKept ==
    ASSUME Inv, Observe, NEW q \in Tabs, req'[q] = req[q]
    PROVE  Belongs(req'[q]) /\ (q \in still' => Knows(req[q])')
  <1>1. Belongs(req'[q])
    BY DEF Inv
  <1>2. ASSUME q \in still' PROVE Knows(req[q])'
    <2>1. wa' = wa /\ q \in still
      BY <1>2 DEF Observe
    <2> QED BY <2>1 DEF Inv, Knows
  <1> QED BY <1>1, <1>2

\* WAHA or the phone moves.
LEMMA WahaKeeps ==
    ASSUME Inv, NEW new \in WaType, Becomes(new) PROVE Inv'
  <1>1. wa' = new /\ UNCHANGED <<panel, req, faults>> /\ Observe
    BY DEF Becomes
  <1>2. Types'
    BY <1>1 DEF Inv, Types, Observe
  <1> QED BY <1>1, <1>2, OthersKept DEF Inv

\* The request of t becomes new, and new is in order.
LEMMA TabKeeps ==
    ASSUME Inv, NEW t \in Tabs, NEW new \in ReqType, req' = [req EXCEPT ![t] = new],
           wa' \in WaType, panel' \in [Tabs -> Panels], faults' \in 0..MaxFaults,
           Observe, Belongs(new),
           /\ new.op \in {"connect", "disconnect"} /\ wa' = wa /\ faults' = faults
           /\ req[t].op = "none" \/ t \in still
           => Knows(new)
    PROVE  Inv'
  <1>1. /\ req' \in [Tabs -> ReqType] /\ req'[t] = new
        /\ \A q \in Tabs : q # t => req'[q] = req[q]
    BY DEF Inv, Types
  <1>2. Types'
    BY <1>1 DEF Types, Observe
  <1>3. ASSUME t \in still' PROVE Knows(new)'
    <2>1. Knows(new) /\ wa' = wa
      BY <1>1, <1>3 DEF Observe
    <2> QED BY <2>1 DEF Knows
  <1>4. ASSUME NEW q \in Tabs PROVE Belongs(req'[q]) /\ (q \in still' => Knows(req[q])')
    BY <1>1, <1>3, OthersKept
  <1> QED BY <1>2, <1>4 DEF Inv

\* Inv, taken apart for the request of t.
LEMMA Request ==
    ASSUME Inv, NEW t \in Tabs
    PROVE  /\ req[t] \in ReqType /\ Belongs(req[t]) /\ (t \in still => Knows(req[t]))
           /\ wa \in WaType /\ panel \in [Tabs -> Panels] /\ faults \in 0..MaxFaults
  BY DEF Inv, Types

\* A request that is over, or goes on as the load of a page.
LEMMA OverKeeps ==
    ASSUME Inv, NEW t \in Tabs, Load(t) \/ req' = [req EXCEPT ![t] = Idle], Observe,
           wa' \in WaType, panel' \in [Tabs -> Panels], faults' \in 0..MaxFaults
    PROVE  Inv'
  <1> DEFINE new == [Idle EXCEPT !.op = "load", !.at = "status", !.then = "show"]
  <1>1. new \in ReqType /\ Belongs(new) /\ new.op = "load"
    BY IdleType
    DEF Idle, ReqType, Steps, Belongs, Connecting, Reading, Disconnecting
  <1>2. CASE Load(t)
    <2>1. req' = [req EXCEPT ![t] = new]
      BY <1>2 DEF Load
    <2> HIDE DEF new
    <2> QED BY <2>1, <1>1, TabKeeps
  <1>3. CASE req' = [req EXCEPT ![t] = Idle]
    BY <1>3, IdleType, TabKeeps
  <1> QED BY <1>2, <1>3

\* The request of t goes to a step of its own click, knowing what it must.
Allowed(t, step) ==
    \/ /\ req[t].op = "connect"
       /\ step \in Connecting \/ (step \in Reading /\ req[t].at \in Reading)
    \/ req[t].op = "disconnect" /\ step \in Disconnecting
    \/ /\ req[t].op \notin {"connect", "disconnect"}
       /\ step \in Reading /\ req[t].at \in Reading

Learned(t, step) ==
    /\ req[t].op = "connect" =>
          /\ step = "wait" => wa.state = "STARTING"
          /\ step = "qr" => wa.state = "SCAN_QR_CODE"
          /\ step = "look" => wa.state \in Down
          /\ step = "start" => wa.state = "missing"
          /\ step = "restart" => wa.state \in Restartable
          /\ step = "status" => wa.state \in Up
    /\ step = "stop" => wa.state # "WORKING"

LEMMA GoKeeps ==
    ASSUME Inv, NEW t \in Tabs, NEW step \in Steps, Go(t, step), Observe,
           wa' = wa, panel' = panel, faults' \in 0..MaxFaults, Allowed(t, step),
           t \in still /\ faults' = faults => Learned(t, step)
    PROVE  Inv'
  <1> DEFINE new == [req[t] EXCEPT !.at = step]
  <1>1. /\ new \in ReqType /\ new.at = step /\ new.op = req[t].op /\ new.then = req[t].then
        /\ req' = [req EXCEPT ![t] = new]
    BY Request DEF Go, ReqType
  <1> HIDE DEF new
  <1>2. Belongs(new)
    BY <1>1, Request DEF Allowed, Belongs, Connecting, Reading, Disconnecting
  <1>3. ASSUME t \in still, faults' = faults PROVE Knows(new)
    BY <1>1, <1>3, Request DEF Allowed, Learned, Knows, Belongs, Connecting, Reading, Disconnecting, Up, Down
  <1>4. req[t].op = "none" => new.op \notin {"connect", "disconnect"}
    BY <1>1
  <1> QED BY <1>1, <1>2, <1>3, <1>4, Request, TabKeeps

LEMMA StatusTypes ==
    /\ \A w \in WaType : /\ StatusOf(w) \in StatusType
                         /\ ~StatusOf(w).connected => w.state \in Down
                         /\ w.state \in Down /\ ~w.error => ~StatusOf(w).errors
                         /\ w.state \in Down => /\ ~StatusOf(w).connected
                                               /\ ~StatusOf(w).logged_in /\ ~StatusOf(w).qr
    /\ Unreachable \in StatusType
    /\ Starting \in StatusType /\ Starting.connected
    /\ QrShown \in StatusType /\ QrShown.connected
  BY DEF StatusOf, StatusType, WaType, Unreachable, Starting, QrShown, Down, Up

LEMMA AnswerKeeps ==
    ASSUME Inv, NEW t \in Tabs, NEW s \in StatusType, Answer(t, s), req[t].at \in Reading,
           Observe, UNCHANGED wa, faults' \in 0..MaxFaults,
           t \in still /\ faults' = faults /\ ~s.connected => wa.state \in Down
    PROVE  Inv'
  <1>1. Panel(s) \in Panels
    BY DEF Panel, Panels, StatusType
  <1>2. CASE req[t].then = "show" /\ Show(t, s)
    BY <1>1, <1>2, Request, OverKeeps DEF Show
  <1>3. CASE req[t].then = "poll" /\ Polled(t, s)
    BY <1>3, Request, OverKeeps DEF Polled, Panels
  <1>4. CASE req[t].then = "decide" /\ Decide(t, s)
    <2>1. CASE Load(t)
      BY <1>4, <2>1, Request, OverKeeps DEF Decide
    <2>2. CASE ~Load(t)
      <3>1. Go(t, "look") /\ ~s.connected /\ UNCHANGED panel
        BY <1>4, <2>2 DEF Decide
      <3>2. "look" \in Steps /\ Allowed(t, "look")
        BY <1>4, Request DEF Belongs, Steps, Connecting, Allowed
      <3>3. t \in still /\ faults' = faults => Learned(t, "look")
        BY <3>1 DEF Learned
      <3> QED BY <3>1, <3>2, <3>3, GoKeeps
    <2> QED BY <2>1, <2>2
  <1>5. CASE req[t].then = "drop" /\ Load(t) /\ UNCHANGED panel
    BY <1>5, Request, OverKeeps
  <1> QED BY <1>2, <1>3, <1>4, <1>5 DEF Answer

LEMMA SettledKeeps ==
    ASSUME Inv, NEW t \in Tabs, Settled(t), req[t].at \in {"status", "wait"},
           Observe, UNCHANGED <<wa, faults>>
    PROVE  Inv'
  <1>1. req[t].at \in Reading /\ faults' \in 0..MaxFaults
    BY Request DEF Reading
  <1>2. CASE wa.state = "SCAN_QR_CODE"
    <2>1. Go(t, "qr") /\ wa' = wa /\ panel' = panel /\ "qr" \in Steps
      BY <1>2 DEF Settled, Steps
    <2>2. Allowed(t, "qr") /\ Learned(t, "qr")
      BY <1>1, <1>2, Request DEF Belongs, Reading, Disconnecting, Allowed, Learned
    <2> QED BY <1>1, <1>2, <2>1, <2>2, GoKeeps
  <1>3. CASE wa.state # "SCAN_QR_CODE"
    BY <1>1, <1>3, Request, StatusTypes, AnswerKeeps DEF Settled
  <1> QED BY <1>2, <1>3

-----------------------------------------------------------------------------
(* The actions, one by one.                                                *)

LEMMA StatusKeeps ==
    ASSUME Inv, NEW t \in Tabs, GetSessionStatus(t) \/ FetchQr(t) PROVE Inv'
  <1>1. CASE GetSessionStatus(t)
    <2>1. req[t].at = "status" /\ req[t].at \in Reading /\ Observe /\ UNCHANGED wa
      BY <1>1 DEF GetSessionStatus, At, Reading
    <2>2. CASE UNCHANGED faults /\ wa.state = "STARTING"
      <3>1. PICK new : /\ new = [req[t] EXCEPT !.at = "wait", !.rounds = WaitRounds]
                       /\ req' = [req EXCEPT ![t] = new] /\ UNCHANGED panel
        BY <1>1, <2>2, FaultType DEF GetSessionStatus, Fault, Inv
      <3>2. /\ new \in ReqType /\ new.at = "wait" /\ new.op = req[t].op
            /\ new.then = req[t].then
        <4>1. req[t] \in ReqType /\ "wait" \in Steps /\ WaitRounds \in 0..WaitRounds
          BY Request, RoundsType DEF Steps
        <4> QED BY <3>1, <4>1 DEF ReqType
      <3>3. Belongs(new) /\ Knows(new)
        BY <3>2, <2>1, <2>2, Request
        DEF Belongs, Knows, Connecting, Reading, Disconnecting, Up
      <3> QED BY <2>1, <2>2, <3>1, <3>2, <3>3, Request, TabKeeps
    <2>3. CASE UNCHANGED faults /\ wa.state # "STARTING"
      BY <1>1, <2>1, <2>3, SettledKeeps, FaultType DEF GetSessionStatus, Inv
    <2>4. CASE Fault /\ Answer(t, Unreachable)
      BY <2>1, <2>4, StatusTypes, AnswerKeeps, FaultType DEF Inv
    <2> QED BY <1>1, <2>2, <2>3, <2>4 DEF GetSessionStatus
  <1>2. CASE FetchQr(t)
    <2>1. /\ req[t].at \in Reading /\ Observe /\ UNCHANGED wa /\ faults' \in 0..MaxFaults
          /\ Answer(t, QrShown) \/ Answer(t, Starting)
      BY <1>2, Request, FaultType DEF FetchQr, At, Reading, Inv
    <2> QED BY <2>1, StatusTypes, AnswerKeeps
  <1> QED BY <1>1, <1>2

LEMMA WaitKeeps == ASSUME Inv, NEW t \in Tabs, WaitForStart(t) PROVE Inv'
  <1>1. /\ req[t].at = "wait" /\ req[t].at \in Reading /\ Observe /\ UNCHANGED wa
        /\ faults' \in 0..MaxFaults
    BY Request, FaultType DEF WaitForStart, At, Reading, Inv
  <1>2. CASE Answer(t, Starting)
    BY <1>1, <1>2, StatusTypes, AnswerKeeps
  <1>3. CASE Settled(t) /\ UNCHANGED faults
    BY <1>1, <1>3, SettledKeeps
  <1>4. CASE req[t].rounds > 0 /\ req' = [req EXCEPT ![t].rounds = @ - 1] /\ UNCHANGED panel
    <2> DEFINE new == [req[t] EXCEPT !.rounds = @ - 1]
    <2>1. req[t].rounds \in 0..WaitRounds
      BY Request DEF ReqType
    <2>2. req[t].rounds - 1 \in 0..WaitRounds
      BY <2>1, <1>4, PairingAssumption
    <2>3. /\ new \in ReqType /\ new.at = "wait" /\ new.op = req[t].op
          /\ new.then = req[t].then /\ req' = [req EXCEPT ![t] = new]
      BY <1>1, <1>4, <2>2, Request DEF ReqType
    <2> HIDE DEF new
    <2>4. Belongs(new) /\ (t \in still => Knows(new))
      BY <2>3, <1>1, Request DEF Belongs, Knows, Connecting, Reading, Disconnecting
    <2>5. req[t].op = "none" => new.op \notin {"connect", "disconnect"}
      BY <2>3
    <2> QED BY <1>1, <1>4, <2>3, <2>4, <2>5, Request, TabKeeps
  <1> QED BY <1>2, <1>3, <1>4 DEF WaitForStart

\* A call that changes the session and gives no fault has changed it, if it could.
LEMMA PostChanges ==
    ASSUME Inv, NEW possible, NEW new \in WaType, Post(possible, new)
    PROVE  /\ wa' \in WaType /\ faults' \in 0..MaxFaults
           /\ possible /\ faults' = faults => wa' = new
           /\ wa' # wa => wa' = new
  BY FaultType DEF Post, Inv, Types

\* The status that connect() returns, which the handler drops.
LEMMA DropKeeps ==
    ASSUME Inv, NEW t \in Tabs, ReadStatus(t, "drop"), UNCHANGED panel, Observe,
           wa' \in WaType, faults' \in 0..MaxFaults, req[t].op = "connect",
           t \in still /\ wa' = wa /\ faults' = faults => wa.state \in Up
    PROVE  Inv'
  <1> DEFINE new == [req[t] EXCEPT !.at = "status", !.then = "drop", !.rounds = 0]
  <1>0. req[t] \in ReqType /\ "status" \in Steps /\ 0 \in 0..WaitRounds
    BY Request, RoundsType DEF Steps
  <1>a. req' = [req EXCEPT ![t] = new]
    BY DEF ReadStatus
  <1>b. /\ new \in ReqType /\ new.op = req[t].op /\ new.at = "status" /\ new.then = "drop"
    BY <1>0 DEF ReqType
  <1>1. /\ new \in ReqType /\ new.op = "connect" /\ new.at = "status" /\ new.then = "drop"
        /\ req' = [req EXCEPT ![t] = new]
    BY <1>a, <1>b
  <1> HIDE DEF new
  <1>2. Belongs(new)
    BY <1>1 DEF Belongs, Connecting, Reading, Disconnecting
  <1>3. wa.state \in Up => Knows(new)
    BY <1>1 DEF Knows
  <1> QED BY <1>1, <1>2, <1>3, Request, TabKeeps

LEMMA ConnectKeeps == ASSUME Inv, NEW t \in Tabs, Connect(t) PROVE Inv'
  <1>0. /\ "look" \in Steps /\ "start" \in Steps /\ "restart" \in Steps
        /\ "look" \in Connecting /\ "start" \in Connecting /\ "restart" \in Connecting
        /\ Connecting = {"look", "start", "restart"}
        /\ Restartable = {"STOPPED", "FAILED"} /\ wa.state \in Down \cup Up
    BY Request DEF Steps, Connecting, Restartable, WaType
  <1>1. CASE /\ At(t, "look")
             /\ \/ /\ UNCHANGED faults
                   /\ CASE wa.state = "missing"      -> Go(t, "start")
                        [] wa.state \in Restartable  -> Go(t, "restart")
                        [] OTHER                     -> ReadStatus(t, "drop")
                \/ Fault /\ Go(t, "start")
             /\ UNCHANGED <<wa, panel>> /\ Observe
    <2>1. req[t].op = "connect" /\ Observe /\ wa' = wa /\ panel' = panel
      BY <1>0, <1>1, Request DEF At, Belongs
    <2>2. CASE Fault /\ Go(t, "start")
      <3>1. faults' \in 0..MaxFaults /\ faults' # faults
        BY <2>2, FaultType DEF Inv
      <3>2. Allowed(t, "start")
        BY <1>0, <2>1 DEF Allowed
      <3> QED BY <1>0, <2>1, <2>2, <3>1, <3>2, GoKeeps
    <2>3. CASE UNCHANGED faults /\ wa.state = "missing" /\ Go(t, "start")
      <3>1. faults' \in 0..MaxFaults
        BY <2>3, Request
      <3>2. Allowed(t, "start")
        BY <1>0, <2>1 DEF Allowed
      <3>3. Learned(t, "start")
        BY <2>3 DEF Learned
      <3> QED BY <1>0, <2>1, <2>3, <3>1, <3>2, <3>3, GoKeeps
    <2>4. CASE UNCHANGED faults /\ wa.state \in Restartable /\ Go(t, "restart")
      <3>1. faults' \in 0..MaxFaults
        BY <2>4, Request
      <3>2. Allowed(t, "restart")
        BY <1>0, <2>1 DEF Allowed
      <3>3. Learned(t, "restart")
        BY <2>4 DEF Learned
      <3> QED BY <1>0, <2>1, <2>4, <3>1, <3>2, <3>3, GoKeeps
    <2>5. CASE UNCHANGED faults /\ wa.state \notin Down /\ ReadStatus(t, "drop")
      BY <1>0, <2>1, <2>5, Request, DropKeeps
    <2> QED BY <1>0, <1>1, <2>2, <2>3, <2>4, <2>5 DEF Down
  <1>2. CASE /\ At(t, "start")
             /\ Post(wa.state = "missing", [Gone EXCEPT !.state = "STARTING"])
             /\ ReadStatus(t, "drop") /\ UNCHANGED panel /\ Observe
    <2> DEFINE new == [Gone EXCEPT !.state = "STARTING"]
    <2>1. new \in WaType /\ new.state = "STARTING"
      BY DEF Gone, WaType, Up
    <2>2. req[t].op = "connect" /\ (t \in still => wa.state = "missing")
      BY <1>0, <1>2, Request DEF At, Belongs, Knows
    <2>3. /\ wa' \in WaType /\ faults' \in 0..MaxFaults
          /\ wa.state = "missing" /\ faults' = faults => wa' # wa
      BY <1>2, <2>1, PostChanges
    <2> QED BY <1>2, <2>2, <2>3, DropKeeps
  <1>3. CASE /\ At(t, "restart")
             /\ Post(wa.state # "missing", [wa EXCEPT !.state = "STARTING", !.error = FALSE])
             /\ ReadStatus(t, "drop") /\ UNCHANGED panel /\ Observe
    <2> DEFINE new == [wa EXCEPT !.state = "STARTING", !.error = FALSE]
    <2>1. new \in WaType /\ new.state = "STARTING"
      BY Request DEF WaType, Up
    <2>2. req[t].op = "connect" /\ (t \in still => wa.state \in {"STOPPED", "FAILED"})
      BY <1>0, <1>3, Request DEF At, Belongs, Knows
    <2>3. /\ wa' \in WaType /\ faults' \in 0..MaxFaults
          /\ wa.state \in {"STOPPED", "FAILED"} /\ faults' = faults => wa' # wa
      BY <1>3, <2>1, PostChanges
    <2> QED BY <1>3, <2>2, <2>3, DropKeeps
  <1> QED BY <1>1, <1>2, <1>3 DEF Connect

LEMMA DisconnectKeeps == ASSUME Inv, NEW t \in Tabs, Disconnect(t) \/ Reset(t) PROVE Inv'
  <1>1. CASE /\ At(t, "pick")
             /\ \/ Go(t, Endpoint) /\ UNCHANGED faults
                \/ Fault /\ Go(t, "stop")
             /\ UNCHANGED <<wa, panel>> /\ Observe
    <2>1. /\ "logout" \in Steps /\ Allowed(t, "logout") /\ "stop" \in Steps /\ Allowed(t, "stop")
          /\ Observe /\ wa' = wa /\ panel' = panel
      BY <1>1, Request DEF At, Belongs, Disconnecting, Steps, Allowed
    <2>2. CASE Go(t, Endpoint) /\ UNCHANGED faults
      <3>1. Endpoint \in Steps /\ Allowed(t, Endpoint) /\ faults' \in 0..MaxFaults
        BY <2>1, <2>2, Request DEF Endpoint
      <3>2. t \in still => Learned(t, Endpoint)
        BY <1>1, Request DEF At, Belongs, Disconnecting, Learned, Endpoint
      <3> QED BY <2>1, <2>2, <3>1, <3>2, GoKeeps
    <2>3. CASE Fault /\ Go(t, "stop")
      <3>1. faults' \in 0..MaxFaults /\ faults' # faults
        BY <2>3, FaultType DEF Inv
      <3> QED BY <2>1, <2>3, <3>1, GoKeeps
    <2> QED BY <1>1, <2>2, <2>3
  <1>2. CASE /\ At(t, "logout")
             /\ \/ Post(wa.state # "missing", [Gone EXCEPT !.state = "STOPPED"])
                \/ wa.state # "WORKING" /\ UNCHANGED <<wa, faults>>
             /\ Load(t) /\ UNCHANGED panel /\ Observe
    <2>1. [Gone EXCEPT !.state = "STOPPED"] \in WaType
      BY DEF Gone, WaType, Down
    <2>2. wa' \in WaType /\ faults' \in 0..MaxFaults
      BY <1>2, <2>1, PostChanges, Request
    <2> QED BY <1>2, <2>2, Request, OverKeeps
  <1>3. CASE /\ At(t, "stop")
             /\ Post(wa.state # "missing", [wa EXCEPT !.state = "STOPPED", !.error = FALSE])
             /\ Load(t) /\ UNCHANGED panel /\ Observe
    <2>1. [wa EXCEPT !.state = "STOPPED", !.error = FALSE] \in WaType
      BY Request DEF WaType, Down
    <2>2. wa' \in WaType /\ faults' \in 0..MaxFaults
      BY <1>3, <2>1, PostChanges
    <2> QED BY <1>3, <2>2, Request, OverKeeps
  <1>4. CASE Reset(t)
    <2>1. Gone \in WaType
      BY DEF Gone, WaType, Down
    <2>2. wa' \in WaType /\ faults' \in 0..MaxFaults
      BY <1>4, <2>1, PostChanges DEF Reset
    <2> QED BY <1>4, <2>2, Request, OverKeeps DEF Reset
  <1> QED BY <1>1, <1>2, <1>3, <1>4 DEF Disconnect

\* A tab sends its first call.
LEMMA SendKeeps ==
    ASSUME Inv, NEW t \in Tabs,
           NEW op \in {"load", "poll", "connect", "disconnect", "reset"},
           NEW step \in Steps, NEW then \in {"none", "decide", "drop", "show", "poll"},
           Send(t, op, step, then), panel' \in [Tabs -> Panels],
           \/ op \in {"load", "poll"} /\ step = "status" /\ then \in {"show", "poll"}
           \/ op = "connect" /\ step = "status" /\ then = "decide"
           \/ op = "disconnect" /\ step = "pick" /\ then = "none"
           \/ op = "reset" /\ step = "delete" /\ then = "none"
    PROVE  Inv'
  <1> DEFINE new == [Idle EXCEPT !.op = op, !.at = step, !.then = then]
  <1>1. /\ req' = [req EXCEPT ![t] = new] /\ Observe
        /\ wa' \in WaType /\ faults' \in 0..MaxFaults
    BY Request DEF Send
  <1>2. new \in ReqType /\ new.op = op /\ new.at = step /\ new.then = then
    BY RoundsType DEF Idle, ReqType
  <1> HIDE DEF new
  <1>3. Belongs(new) /\ Knows(new)
    BY <1>2 DEF Belongs, Knows, Connecting, Reading, Disconnecting
  <1> QED BY <1>1, <1>2, <1>3, TabKeeps

LEMMA ClickKeeps == ASSUME Inv, NEW t \in Tabs, Click(t) \/ Poll(t) PROVE Inv'
  <1>1. {"status", "pick", "delete"} \subseteq Steps
    BY DEF Steps
  <1>2. Leave(t) \/ UNCHANGED panel => panel' \in [Tabs -> Panels]
    BY Request DEF Leave, Panels
  <1>3. CASE OpenPage(t)
    BY <1>1, <1>2, <1>3, SendKeeps DEF OpenPage
  <1>4. CASE ClickConnect(t)
    BY <1>1, <1>2, <1>4, SendKeeps DEF ClickConnect
  <1>5. CASE ClickDisconnect(t)
    BY <1>1, <1>2, <1>5, SendKeeps DEF ClickDisconnect
  <1>6. CASE ClickReset(t)
    BY <1>1, <1>2, <1>6, SendKeeps DEF ClickReset
  <1>7. CASE Poll(t)
    BY <1>1, <1>2, <1>7, SendKeeps DEF Poll
  <1> QED BY <1>3, <1>4, <1>5, <1>6, <1>7 DEF Click

LEMMA PollFailsKeeps == ASSUME Inv, NEW t \in Tabs, PollFails(t) PROVE Inv'
  <1>1. wa' \in WaType /\ panel' \in [Tabs -> Panels] /\ faults' \in 0..MaxFaults
    BY Request, FaultType DEF PollFails, Inv
  <1> QED BY <1>1, OverKeeps DEF PollFails

LEMMA WahaStepKeeps == ASSUME Inv, WahaStep PROVE Inv'
  <1>1. \E new \in WaType : Becomes(new)
    <2>1. wa \in WaType
      BY DEF Inv, Types
    <2>2. CASE Started
      BY <2>1, <2>2 DEF Started, WaType, Up, Down
    <2>3. CASE Scanned
      BY <2>1, <2>3 DEF Scanned, WaType, Up, Down
    <2>4. CASE Crashed
      BY <2>1, <2>4 DEF Crashed, FailsFor, WaType, Up, Down
    <2>5. CASE Unlinked
      BY <2>1, <2>5 DEF Unlinked, FailsFor, WaType, Up, Down
    <2>6. CASE WahaRestarts
      BY <2>1, <2>6 DEF WahaRestarts, WaType, Up, Down
    <2> QED BY <2>2, <2>3, <2>4, <2>5, <2>6 DEF WahaStep
  <1> QED BY <1>1, WahaKeeps

-----------------------------------------------------------------------------

LEMMA Initially == ASSUME Init PROVE Inv
  <1>1. wa \in WaType
    <2>1. CASE wa = Gone
      BY <2>1 DEF Gone, WaType, Down
    <2>2. CASE wa = [Gone EXCEPT !.state = "STOPPED"]
      BY <2>2 DEF Gone, WaType, Down
    <2>3. CASE wa = [Gone EXCEPT !.state = "WORKING", !.paired = TRUE]
      BY <2>3 DEF Gone, WaType, Up
    <2> QED BY <2>1, <2>2, <2>3 DEF Init
  <1>2. /\ panel \in [Tabs -> Panels] /\ req \in [Tabs -> ReqType] /\ still = {}
        /\ faults \in 0..MaxFaults
    BY IdleType, PairingAssumption DEF Init, Panels
  <1>3. \A t \in Tabs : Belongs(req[t])
    BY IdleType DEF Init
  <1> QED BY <1>1, <1>2, <1>3 DEF Inv, Types

LEMMA StepKeeps == ASSUME Inv, [Next]_vars PROVE Inv'
  <1>1. ASSUME NEW t \in Tabs, ServerStep(t) PROVE Inv'
    BY <1>1, StatusKeeps, WaitKeeps, ConnectKeeps, DisconnectKeeps DEF ServerStep
  <1>2. CASE UNCHANGED vars
    BY <1>2 DEF vars, Inv, Types, Knows, Belongs
  <1> QED BY <1>1, <1>2, ClickKeeps, PollFailsKeeps, WahaStepKeeps DEF Next

LEMMA Invariance == Spec => []Inv
  BY Initially, StepKeeps, PTL DEF Spec

\* The types of the state, every step of the handlers and of the card included.
THEOREM TypeCorrect == Spec => []TypeOK
  BY Invariance, TypesAgree, PTL DEF Inv

-----------------------------------------------------------------------------
(* What a step may never do.                                               *)

\* A step of one tab leaves the requests of the others alone.
LEMMA OwnRequest ==
    ASSUME Inv, NEW t \in Tabs, NEW q \in Tabs, q # t,
           ServerStep(q) \/ Click(q) \/ Poll(q) \/ PollFails(q)
    PROVE  req'[t] = req[t]
  <1>1. ASSUME NEW s, Answer(q, s) PROVE req'[t] = req[t]
    BY <1>1 DEF Answer, Show, Polled, Decide, Load, Go, Inv, Types
  <1>2. ASSUME Settled(q) PROVE req'[t] = req[t]
    BY <1>1, <1>2 DEF Settled, Go, Inv, Types
  <1>3. CASE GetSessionStatus(q) \/ WaitForStart(q) \/ FetchQr(q)
    BY <1>1, <1>2, <1>3 DEF GetSessionStatus, WaitForStart, FetchQr, Inv, Types
  <1>4. CASE Connect(q)
    BY <1>4 DEF Connect, Go, ReadStatus, Inv, Types
  <1>5. CASE Disconnect(q) \/ Reset(q)
    BY <1>5 DEF Disconnect, Reset, Go, Load, Inv, Types
  <1>6. CASE Click(q) \/ Poll(q) \/ PollFails(q)
    BY <1>6 DEF Click, OpenPage, ClickConnect, ClickDisconnect, ClickReset, Poll,
                PollFails, Send, Inv, Types
  <1> QED BY <1>3, <1>4, <1>5, <1>6 DEF ServerStep

\* Only the handlers move a request that a click on the session has started.
LEMMA HandlerMoves ==
    ASSUME Inv, Next, NEW t \in Tabs, req[t].op \in {"connect", "disconnect"}, req'[t] # req[t]
    PROVE  ServerStep(t)
  <1>1. req[t] # Idle
    BY DEF Idle
  <1>2. ~Click(t) /\ ~Poll(t) /\ ~PollFails(t)
    BY <1>1 DEF Click, OpenPage, ClickConnect, ClickDisconnect, ClickReset, Poll,
                PollFails, Send
  <1>3. ~WahaStep
    BY DEF WahaStep, Started, Scanned, Crashed, Unlinked, WahaRestarts, Becomes
  <1> QED BY <1>2, <1>3, OwnRequest DEF Next

LEMMA LogoutForgets ==
    ASSUME Inv, Next, NEW t \in Tabs, t \in still, req[t].op = "disconnect", ~At(t, "pick"),
           req'[t] # req[t], wa.state = "WORKING", faults' = faults
    PROVE  ~wa'.paired
  <1>1. req[t].at = "logout"
    BY Request DEF Belongs, Disconnecting, Knows, At
  <1>2. Disconnect(t)
    BY <1>1, HandlerMoves
    DEF ServerStep, GetSessionStatus, WaitForStart, FetchQr, Connect, Reset, At
  <1>3. \/ Post(wa.state # "missing", [Gone EXCEPT !.state = "STOPPED"])
        \/ wa.state # "WORKING"
    BY <1>1, <1>2 DEF Disconnect, At
  <1>4. [Gone EXCEPT !.state = "STOPPED"] \in WaType /\ ~[Gone EXCEPT !.state = "STOPPED"].paired
    BY DEF Gone, WaType, Down
  <1> QED BY <1>3, <1>4, PostChanges

\* A request that goes on is still the request of its click.
LEMMA SameClick ==
    ASSUME Inv, NEW t \in Tabs, NEW x, Go(t, x) \/ ReadStatus(t, x)
    PROVE  req'[t].op = req[t].op
  <1>1. req \in [Tabs -> ReqType] /\ req[t] \in ReqType
    BY Request DEF Inv, Types
  <1>2. [req[t] EXCEPT !.at = x].op = req[t].op
    BY <1>1 DEF ReqType
  <1>3. [req[t] EXCEPT !.at = "status", !.then = x, !.rounds = 0].op = req[t].op
    BY <1>1 DEF ReqType
  <1>4. CASE Go(t, x)
    <2>1. req'[t] = [req[t] EXCEPT !.at = x]
      BY <1>1, <1>4 DEF Go
    <2> QED BY <2>1, <1>2
  <1>5. CASE ReadStatus(t, x)
    <2>1. req'[t] = [req[t] EXCEPT !.at = "status", !.then = x, !.rounds = 0]
      BY <1>1, <1>5 DEF ReadStatus
    <2> QED BY <2>1, <1>3
  <1> QED BY <1>4, <1>5

LEMMA ClickRevives ==
    ASSUME Inv, Next, NEW t \in Tabs, EndsDown(t) PROVE wa.error
  <1>1. /\ req[t].op = "connect" /\ req'[t].op # "connect" /\ t \in still
        /\ wa'.state \in Down /\ faults' = faults
    BY DEF EndsDown
  <1>2. ServerStep(t)
    BY <1>1, HandlerMoves
  <1>3. ~Fault
    BY <1>1, FaultType DEF Inv
  <1>4. ~Connect(t)
    BY <1>1, SameClick DEF Connect
  <1>5. ~Disconnect(t) /\ ~Reset(t)
    BY <1>1, Request DEF Belongs, Reading, Connecting, Disconnect, Reset, At
  <1>6. req[t].at = "status" /\ wa' = wa /\ wa.state \in Down
    BY <1>1, <1>2, <1>4, <1>5, Request
    DEF ServerStep, GetSessionStatus, WaitForStart, FetchQr, At, Knows, Down
  <1>7. Answer(t, StatusOf(wa))
    BY <1>2, <1>3, <1>4, <1>5, <1>6
    DEF ServerStep, GetSessionStatus, WaitForStart, FetchQr, Settled, At, Down
  <1>8. req[t].then = "decide"
    BY <1>1, <1>6, Request DEF Belongs, Knows, Reading, Connecting, Down, Up
  <1>9. Decide(t, StatusOf(wa))
    BY <1>7, <1>8 DEF Answer
  <1>10. ~Go(t, "look")
    BY <1>1, SameClick
  <1>11. StatusOf(wa).errors
    BY <1>6, <1>9, <1>10, Request, StatusTypes DEF Decide
  <1> QED BY <1>6, <1>11, Request DEF StatusOf, WaType

LEMMA ClickStarts ==
    ASSUME Inv, Next, wa.state \in Down, wa'.state \in Up
    PROVE  \E t \in Tabs : req[t].op = "connect"
  <1>1. wa' # wa
    BY DEF Down, Up
  <1>2. ~WahaStep
    BY DEF WahaStep, Started, Scanned, Crashed, Unlinked, WahaRestarts, Down, Up
  <1>3. PICK t \in Tabs : ServerStep(t) \/ Click(t) \/ Poll(t) \/ PollFails(t)
    BY <1>2 DEF Next
  <1>4. Connect(t) \/ Disconnect(t) \/ Reset(t)
    BY <1>1, <1>3
    DEF ServerStep, GetSessionStatus, WaitForStart, FetchQr, Click, OpenPage, ClickConnect,
        ClickDisconnect, ClickReset, Poll, PollFails, Send
  <1>5. CASE Connect(t)
    BY <1>1, <1>5, Request DEF Connect, At, Belongs, Connecting
  <1>6. ~Disconnect(t) /\ ~Reset(t)
    <2>1. ASSUME NEW possible, NEW new \in WaType, new.state \in Down PROVE ~Post(possible, new)
      BY <1>1, <2>1, PostChanges DEF Down, Up
    <2>2. /\ Gone \in WaType /\ Gone.state \in Down
          /\ [Gone EXCEPT !.state = "STOPPED"] \in WaType
          /\ [Gone EXCEPT !.state = "STOPPED"].state \in Down
      BY DEF Gone, WaType, Down
    <2>3. /\ [wa EXCEPT !.state = "STOPPED", !.error = FALSE] \in WaType
          /\ [wa EXCEPT !.state = "STOPPED", !.error = FALSE].state \in Down
      BY Request DEF WaType, Down
    <2> QED BY <1>1, <2>1, <2>2, <2>3 DEF Disconnect, Reset
  <1> QED BY <1>4, <1>5, <1>6

\* waha_client.disconnect: a click on "Log out" of a session that works all
\* along, no call failing, leaves no linked device, whatever other tabs do.
THEOREM LogoutIsForGood == Spec => DisconnectForgets
  <1>1. Inv /\ [Next]_vars =>
          [\A t \in still :
              /\ req[t].op = "disconnect" /\ ~At(t, "pick") /\ req'[t] # req[t]
              /\ wa.state = "WORKING" /\ faults' = faults
              => ~wa'.paired]_vars
    <2> SUFFICES ASSUME Inv, Next, NEW t \in still, req[t].op = "disconnect", ~At(t, "pick"),
                        req'[t] # req[t], wa.state = "WORKING", faults' = faults
                 PROVE  ~wa'.paired
      OBVIOUS
    <2>1. t \in Tabs
      BY DEF Inv, Types
    <2> QED BY <2>1, LogoutForgets
  <1> QED BY <1>1, Invariance, PTL DEF Spec, DisconnectForgets

\* session.connect_or_get_status and waha_client.connect: a click on Connect
\* that meets no failing call revives the session, but for one that failed
\* with an error.
THEOREM ConnectStarts == Spec => ConnectRevives
  <1>1. Inv /\ [Next]_vars => [\A t \in Tabs : EndsDown(t) => wa.error]_vars
    BY ClickRevives
  <1> QED BY <1>1, Invariance, PTL DEF Spec, ConnectRevives

\* session_status_json: no poll and no page load starts a session.
THEOREM OnlyAClickStarts == Spec => OnlyClicksStart
  <1>1. Inv /\ [Next]_vars =>
          [wa.state \in Down /\ wa'.state \in Up => \E t \in Tabs : req[t].op = "connect"]_vars
    BY ClickStarts
  <1> QED BY <1>1, Invariance, PTL DEF Spec, OnlyClicksStart

=============================================================================
