-------------------------------- MODULE Servers --------------------------------
(***************************************************************************)
(* The two servers of one container: they start on the same file           *)
(* (Startup), and the MCP server hands out download links once it serves   *)
(* (MediaLinks).  A process that ends takes its tasks with it; start.sh    *)
(* takes both down when either of them exits.                              *)
(***************************************************************************)
EXTENDS Startup, MediaLinks

vars == <<startupVars, mediaVars>>

Serving == At("mcp", "serving")

Start == (\E p \in Procs : StartStep(p)) /\ UNCHANGED mediaVars

\* docker-compose's "restart", or start.sh's watchdog: see RestartOf.
Restart ==
    \E ps \in SUBSET Procs :
        /\ ps # {} /\ RestartOf(ps)
        /\ IF "mcp" \in ps THEN Interrupt ELSE UNCHANGED mediaVars

GetMedia == Serving /\ (\E o \in Objects : Upload(o)) /\ UNCHANGED startupVars

LinkWork(o) == Serving /\ LinkStep(o) /\ UNCHANGED startupVars

TimePasses == Tick /\ UNCHANGED startupVars

Init == StartupInit /\ MediaInit

Next ==
    \/ Start \/ Restart \/ GetMedia \/ TimePasses
    \/ \E o \in Objects : LinkWork(o)

\* Time passes, and asyncio runs the tasks and calls that can go on.  Nobody
\* has to ask for media, and no process has to start.
Spec == Init /\ [][Next]_vars /\ WF_vars(TimePasses) /\ \A o \in Objects : WF_vars(LinkWork(o))

=============================================================================
