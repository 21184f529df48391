------------------------------ MODULE Lifecycle ------------------------------
(* Desktop auto-shutdown, server.py: every tab holds a WebSocket open        *)
(* (_lifecycle_ws); the last one to close schedules a grace check, which     *)
(* exits the server, or postpones itself while a folder watch is active.     *)
(* All of it runs on the one asyncio loop, so a handler is one step.         *)
(* FolderWatch is the other half of the process: names are kept apart from   *)
(* its own, so that one module can extend both.                              *)
EXTENDS Naturals

CONSTANTS
    Tabs,       \* browser tabs
    Grace       \* _SHUTDOWN_GRACE_S, in ticks

ASSUME GraceAssumption == Grace \in Nat \ {0}

VARIABLES
    clients,        \* the tabs whose socket is accepted; _clients counts them
    everConnected,  \* _ever_connected
    checks,         \* grace checks asleep, each as the ticks it still sleeps
    watching,       \* routes.watch._watcher is not None
    exiting,        \* _request_shutdown() was called
    quietFor,       \* history: ticks with neither tab nor watch, up to Grace
    emptyFor        \* history: ticks since the last tab closed, up to Grace

lifecycleVars == <<clients, everConnected, checks, watching, exiting, quietFor, emptyFor>>

LifecycleTypeOK ==
    /\ clients \subseteq Tabs
    /\ everConnected \in BOOLEAN
    /\ checks \subseteq 0 .. Grace
    /\ watching \in BOOLEAN
    /\ exiting \in BOOLEAN
    /\ quietFor \in 0 .. Grace
    /\ emptyFor \in 0 .. Grace

LifecycleInit ==
    /\ clients = {}
    /\ everConnected = FALSE
    /\ checks = {}
    /\ watching = FALSE
    /\ exiting = FALSE
    /\ quietFor = 0
    /\ emptyFor = 0

Connect(t) ==
    /\ ~exiting
    /\ t \notin clients
    /\ clients' = clients \cup {t}
    /\ everConnected' = TRUE
    /\ UNCHANGED <<checks, watching, exiting, quietFor, emptyFor>>

\* One more sleeping check if that was the last tab.
Schedule(left) == IF left = {} THEN checks \cup {Grace} ELSE checks

Disconnect(t) ==
    /\ ~exiting
    /\ t \in clients
    /\ clients' = clients \ {t}
    /\ checks' = Schedule(clients \ {t})
    /\ quietFor' = IF clients = {t} THEN 0 ELSE quietFor
    /\ emptyFor' = IF clients = {t} THEN 0 ELSE emptyFor
    /\ UNCHANGED <<everConnected, watching, exiting>>

Abandoned == everConnected /\ clients = {}

\* A check that finds a watch active does not come back.
GraceCheck_NoRetry ==
    /\ ~exiting
    /\ 0 \in checks
    /\ checks' = checks \ {0}
    /\ exiting' = (Abandoned /\ ~watching)
    /\ UNCHANGED <<clients, everConnected, watching, quietFor, emptyFor>>

GraceCheck ==
    /\ ~exiting
    /\ 0 \in checks
    /\ checks' = IF Abandoned /\ watching THEN (checks \ {0}) \cup {Grace}
                                          ELSE checks \ {0}
    /\ exiting' = (Abandoned /\ ~watching)
    /\ UNCHANGED <<clients, everConnected, watching, quietFor, emptyFor>>

\* POST /watch/start and /watch/stop, by a tab that may close right after, or
\* by a script that has no socket at all.
StartWatch ==
    /\ ~exiting
    /\ ~watching
    /\ watching' = TRUE
    /\ UNCHANGED <<clients, everConnected, checks, exiting, quietFor, emptyFor>>

StopWatch ==
    /\ ~exiting
    /\ watching
    /\ watching' = FALSE
    /\ quietFor' = 0
    /\ UNCHANGED <<clients, everConnected, checks, exiting, emptyFor>>

\* The loop runs a timer that is due before time goes on.
Tick ==
    /\ ~exiting
    /\ 0 \notin checks
    /\ checks' = {r - 1 : r \in checks}
    /\ quietFor' = IF clients = {} /\ ~watching /\ quietFor < Grace
                   THEN quietFor + 1 ELSE quietFor
    /\ emptyFor' = IF clients = {} /\ emptyFor < Grace THEN emptyFor + 1 ELSE emptyFor
    /\ UNCHANGED <<clients, everConnected, watching, exiting>>

LifecycleNext ==
    \/ \E t \in Tabs : Connect(t) \/ Disconnect(t)
    \/ GraceCheck
    \/ StartWatch
    \/ StopWatch
    \/ Tick

\* Time passes and due timers run; nobody has to open, close or watch anything.
LifecycleSpec ==
    /\ LifecycleInit /\ [][LifecycleNext]_lifecycleVars
    /\ WF_lifecycleVars(Tick) /\ WF_lifecycleVars(GraceCheck)

----------------------------------------------------------------------------
\* A server its tabs have left always has a check asleep, and one that is due
\* within the grace period counted from when the last tab closed or the watch
\* stopped: however tabs come and go and watches start and stop, the server is
\* neither forgotten in the background nor late to exit (server.py:279-292).
CheckPending ==
    Abandoned /\ ~exiting =>
        \E r \in checks : ~watching => r + quietFor <= Grace

\* Promised, and broken by the code: the server exits when the last connection
\* has dropped and stayed gone for the grace period (server.py:250-252).  A check
\* of an earlier disconnect wakes sooner.
FullGrace == exiting => emptyFor = Grace

\* Ordinary last-tab-closed shutdown happens, and resumes as soon as the watch
\* is stopped (server.py, module docstring).
AbandonedServerExits == <>[](Abandoned /\ ~watching) => <>exiting
=============================================================================
