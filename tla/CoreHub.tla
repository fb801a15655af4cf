------------------------------ MODULE CoreHub ------------------------------
(***************************************************************************)
(* The request handlers of the Go core that share state: core/hub.go,      *)
(* core/common.go and the dispatch of core/action.go, with quickSetup of   *)
(* core/lib.go.                                                            *)
(*                                                                         *)
(* Every request runs in a goroutine of its own (go handleAction), so the  *)
(* requests of one client overlap and reach runLock in any order.  A       *)
(* section under runLock that calls nothing outside the shared state is    *)
(* one step that waits for the lock; the sections that do call out         *)
(* (applyConfig, which downloads, and the goroutine handleChangeProxy      *)
(* spawns, which answers before it unlocks) hold it over several steps.    *)
(*                                                                         *)
(* A configuration is abstracted to the file it was parsed from, which     *)
(* also stands for its named inbound listeners, and to its mixed port,     *)
(* which updateConfig patches in place.                                    *)
(***************************************************************************)

CONSTANTS
    Goroutines,   \* the requests that can be in flight at once
    Methods,      \* the requests a client sends, a subset of AllMethods
    TunThread,    \* the thread of startTUN and stopTun, which takes runLock too
    Nobody,       \* runLock is free
    Files,        \* the contents of config.yaml that parse
    BadFile,      \* a config.yaml that is absent, truncated or does not parse
    DefaultFile,  \* config.DefaultRawConfig()
    Ports,        \* the values of mixed-port
    PortOf,       \* the mixed-port each file asks for
    NoConfig,     \* currentConfig == nil
    Closed        \* a listener that is not open

AllMethods == {"initClash", "setupConfig", "updateConfig", "startListener",
               "stopListener", "changeProxy", "query", "quickSetup"}

ASSUME MethodsAssumption == Methods \subseteq AllMethods
ASSUME ThreadsAssumption == TunThread \notin Goroutines
                            /\ Nobody \notin Goroutines \cup {TunThread}
ASSUME FilesAssumption == /\ BadFile \notin Files
                          /\ DefaultFile \notin Files
                          /\ PortOf \in [Files \cup {DefaultFile} -> Ports]
ASSUME ClosedAssumption == Closed \notin Ports \cup Files \cup {DefaultFile}

Configs == [file : Files \cup {DefaultFile}, port : Ports]

ASSUME ConfigAssumption == NoConfig \notin Configs

VARIABLES
    runLock,        \* the holder of runLock
    isInit,
    isRunning,
    currentConfig,
    ports,          \* the mixed port the general listeners are open on
    inbounds,       \* the file whose named inbound listeners are open
    disk,           \* the content of config.yaml
    pc,             \* where each request is
    op,             \* the method of each request
    unsent,         \* history: config.yaml changed since a setup was last sent
    panicked        \* a goroutine panicked, and the process with it

lifecycle == <<isInit, isRunning>>
listeners == <<ports, inbounds>>
client    == <<disk, unsent>>
hubVars   == <<runLock, isInit, isRunning, currentConfig, ports, inbounds,
               disk, pc, op, unsent, panicked>>

(***************************************************************************)
(* The control points of a request.                                        *)
(***************************************************************************)
Points == {"idle",      \* no request
           "section",   \* waits for runLock to run its only section
           "mark",      \* quickSetup: before isRunning = true
           "check",     \* handleSetupConfig: before the test of isInit
           "setup",     \* applyConfig: waits for runLock
           "load",      \* applyConfig: holds runLock, reads config.yaml
           "apply",     \* applyConfig: holds runLock, runs hub.ApplyConfig
           "answer",    \* the goroutine of handleChangeProxy, holds runLock
           "reply"}     \* before result.success

Holding == {"load", "apply", "answer"}

TypeOK ==
    /\ runLock \in Goroutines \cup {TunThread, Nobody}
    /\ isInit \in BOOLEAN
    /\ isRunning \in BOOLEAN
    /\ currentConfig \in Configs \cup {NoConfig}
    /\ ports \in Ports \cup {Closed}
    /\ inbounds \in Files \cup {DefaultFile, Closed}
    /\ disk \in Files \cup {BadFile}
    /\ pc \in [Goroutines -> Points]
    /\ op \in [Goroutines -> AllMethods]
    /\ unsent \in BOOLEAN
    /\ panicked \in BOOLEAN

HubInit ==
    /\ runLock = Nobody
    /\ isInit = FALSE
    /\ isRunning = FALSE
    /\ currentConfig = NoConfig
    /\ ports = Closed
    /\ inbounds = Closed
    /\ disk \in Files \cup {BadFile}
    /\ pc = [g \in Goroutines |-> "idle"]
    /\ op = [g \in Goroutines |-> "query"]
    /\ unsent = TRUE
    /\ panicked = FALSE

Goto(g, point) == pc' = [pc EXCEPT ![g] = point]

\* A request that finds runLock free and leaves it free: its whole section.
Section(g, method) ==
    /\ pc[g] = "section"
    /\ op[g] = method
    /\ runLock = Nobody
    /\ UNCHANGED <<runLock, op>>

(***************************************************************************)
(* updateListeners: closes and reopens what the configuration asks for.    *)
(* Opening a port can fail (it is in use), which is only logged.           *)
(***************************************************************************)
Reopen(config) ==
    /\ inbounds' \in {config.file, Closed}
    /\ ports' \in {config.port, Closed}

\* Variant: the test of isRunning is missing.
UpdateListenersAlways(running, config) ==
    IF config # NoConfig THEN Reopen(config) ELSE UNCHANGED listeners

UpdateListeners(running, config) ==
    IF running /\ config # NoConfig THEN Reopen(config) ELSE UNCHANGED listeners

\* listener.StopListener closes the general listeners and leaves the named
\* inbound listeners of PatchInboundListeners alone.
StopListener ==
    /\ ports' = Closed
    /\ inbounds' = inbounds

\* Variant: a file that does not parse becomes the configuration.
ParsedAnyway(content) ==
    [file |-> content,
     port |-> PortOf[IF content = BadFile THEN DefaultFile ELSE content]]

\* executor.ParseWithPath, or the raw default configuration if it fails.
Parsed(content) ==
    LET file == IF content = BadFile THEN DefaultFile ELSE content
    IN  [file |-> file, port |-> PortOf[file]]

-----------------------------------------------------------------------------
(* The client *)

\* The client rewrites config.yaml; BadFile is also what a reader sees of a
\* file that is being written.
WriteFile ==
    /\ \E content \in (Files \cup {BadFile}) \ {disk} : disk' = content
    /\ unsent' = TRUE
    /\ UNCHANGED <<runLock, lifecycle, currentConfig, listeners, pc, op, panicked>>

\* invokeAction and startServer: go handleAction(action, result).
Dispatch(g) ==
    /\ pc[g] = "idle"
    /\ \E method \in Methods :
          /\ op' = [op EXCEPT ![g] = method]
          /\ Goto(g, IF method = "setupConfig" THEN "check" ELSE "section")
          /\ unsent' = (unsent /\ ~(method = "setupConfig" /\ isInit))
    /\ UNCHANGED <<runLock, lifecycle, currentConfig, listeners, disk, panicked>>

\* result.success: the callback is invoked and released.
Reply(g) ==
    /\ pc[g] = "reply"
    /\ Goto(g, "idle")
    /\ UNCHANGED <<runLock, lifecycle, currentConfig, listeners, client, op, panicked>>

\* handleUpdateConfig answers a malformed request without taking runLock.
RejectUpdate(g) ==
    /\ pc[g] = "section"
    /\ op[g] = "updateConfig"
    /\ Goto(g, "reply")
    /\ UNCHANGED <<runLock, lifecycle, currentConfig, listeners, client, op, panicked>>

-----------------------------------------------------------------------------
(* Requests of one section *)

\* handleInitClash: parameters that do not parse leave isInit alone.
InitClash(g) ==
    /\ Section(g, "initClash")
    /\ isInit' \in {isInit, TRUE}
    /\ Goto(g, "reply")
    /\ UNCHANGED <<isRunning, currentConfig, listeners, client, panicked>>

\* updateConfig dereferences currentConfig, which is nil until a setup ran.
UpdateConfig(g) ==
    /\ Section(g, "updateConfig")
    /\ IF currentConfig = NoConfig
       THEN /\ panicked' = TRUE
            /\ UNCHANGED <<currentConfig, listeners, pc>>
       ELSE \E port \in Ports :
            LET config == [currentConfig EXCEPT !.port = port]
            IN  /\ currentConfig' = config
                /\ UpdateListeners(isRunning, config)
                /\ Goto(g, "reply")
                /\ UNCHANGED panicked
    /\ UNCHANGED <<lifecycle, client>>

StartListenerSection ==
    /\ isRunning' = TRUE
    /\ UpdateListeners(TRUE, currentConfig)

StopListenerSection ==
    /\ isRunning' = FALSE
    /\ StopListener

\* handleStartListener.
StartListener(g) ==
    /\ Section(g, "startListener")
    /\ StartListenerSection
    /\ Goto(g, "reply")
    /\ UNCHANGED <<isInit, currentConfig, client, panicked>>

\* handleStopListener.
StopListenerRequest(g) ==
    /\ Section(g, "stopListener")
    /\ StopListenerSection
    /\ Goto(g, "reply")
    /\ UNCHANGED <<isInit, currentConfig, client, panicked>>

\* The handlers that lock runLock to read or to close connections.
Query(g) ==
    /\ Section(g, "query")
    /\ Goto(g, "reply")
    /\ UNCHANGED <<lifecycle, currentConfig, listeners, client, panicked>>

-----------------------------------------------------------------------------
(* handleChangeProxy: the request takes runLock, the goroutine it spawns   *)
(* answers the client and then releases it.                                *)

ChangeProxy(g) ==
    /\ pc[g] = "section"
    /\ op[g] = "changeProxy"
    /\ runLock = Nobody
    /\ runLock' = g
    /\ Goto(g, "answer")
    /\ UNCHANGED <<lifecycle, currentConfig, listeners, client, op, panicked>>

\* Variant: the spawned goroutine does not unlock.
AnswerHoldingLock(g) ==
    /\ pc[g] = "answer"
    /\ Goto(g, "idle")
    /\ UNCHANGED <<runLock, lifecycle, currentConfig, listeners, client, op, panicked>>

AnswerChangeProxy(g) ==
    /\ pc[g] = "answer"
    /\ runLock' = Nobody
    /\ Goto(g, "idle")
    /\ UNCHANGED <<lifecycle, currentConfig, listeners, client, op, panicked>>

-----------------------------------------------------------------------------
(* handleSetupConfig and quickSetup *)

\* quickSetup: handleInitClash; "init failed" answers at once.
QuickInit(g) ==
    /\ Section(g, "quickSetup")
    /\ \E ok \in BOOLEAN : /\ isInit' = (isInit \/ ok)
                           /\ Goto(g, IF ok THEN "mark" ELSE "reply")
    /\ UNCHANGED <<isRunning, currentConfig, listeners, client, panicked>>

\* quickSetup: isRunning = true, without runLock.
MarkRunning(g) ==
    /\ pc[g] = "mark"
    /\ isRunning' = TRUE
    /\ Goto(g, "check")
    /\ UNCHANGED <<runLock, isInit, currentConfig, listeners, client, op, panicked>>

\* handleSetupConfig reads isInit without runLock.
CheckInit(g) ==
    /\ pc[g] = "check"
    /\ Goto(g, IF isInit THEN "setup" ELSE "reply")
    /\ UNCHANGED <<runLock, lifecycle, currentConfig, listeners, client, op, panicked>>

\* applyConfig: runLock.Lock().  Malformed parameters apply the defaults too.
LockSetup(g) ==
    /\ pc[g] = "setup"
    /\ runLock = Nobody
    /\ runLock' = g
    /\ Goto(g, "load")
    /\ UNCHANGED <<lifecycle, currentConfig, listeners, client, op, panicked>>

\* Variant: a file that does not parse leaves the old configuration.
LoadConfigOrKeep(g) ==
    /\ pc[g] = "load"
    /\ currentConfig' = IF disk = BadFile /\ currentConfig # NoConfig
                        THEN currentConfig ELSE Parsed(disk)
    /\ Goto(g, "apply")
    /\ UNCHANGED <<runLock, lifecycle, listeners, client, op, panicked>>

\* applyConfig: currentConfig is parsed from the file as it is now.
LoadConfig(g) ==
    /\ pc[g] = "load"
    /\ currentConfig' = Parsed(disk)
    /\ Goto(g, "apply")
    /\ UNCHANGED <<runLock, lifecycle, listeners, client, op, panicked>>

\* Variant: the deferred unlock is missing.
ApplyConfigHoldingLock(g) ==
    /\ pc[g] = "apply"
    /\ UpdateListeners(isRunning, currentConfig)
    /\ Goto(g, "reply")
    /\ UNCHANGED <<runLock, lifecycle, currentConfig, client, op, panicked>>

\* applyConfig: hub.ApplyConfig is over; updateListeners and unlock.
ApplyConfig(g) ==
    /\ pc[g] = "apply"
    /\ UpdateListeners(isRunning, currentConfig)
    /\ runLock' = Nobody
    /\ Goto(g, "reply")
    /\ UNCHANGED <<lifecycle, currentConfig, client, op, panicked>>

-----------------------------------------------------------------------------
Request(g) ==
    \/ Reply(g)
    \/ RejectUpdate(g)
    \/ InitClash(g)
    \/ UpdateConfig(g)
    \/ StartListener(g)
    \/ StopListenerRequest(g)
    \/ Query(g)
    \/ ChangeProxy(g)
    \/ AnswerChangeProxy(g)
    \/ QuickInit(g)
    \/ MarkRunning(g)
    \/ CheckInit(g)
    \/ LockSetup(g)
    \/ LoadConfig(g)
    \/ ApplyConfig(g)

\* A panic ends the process: no goroutine takes another step.
Dead == panicked /\ UNCHANGED hubVars

HubNext ==
    \/ ~panicked /\ WriteFile
    \/ \E g \in Goroutines : ~panicked /\ (Dispatch(g) \/ Request(g))
    \/ Dead

HubSpec == HubInit /\ [][HubNext]_hubVars

(***************************************************************************)
(* The Go scheduler runs every goroutine that can run, and a sync.Mutex    *)
(* hands itself to a waiter that has waited for long (starvation mode),    *)
(* so a request that finds runLock free again and again gets it.           *)
(***************************************************************************)
HubFairness ==
    \A g \in Goroutines :
        /\ WF_hubVars(~panicked /\ Request(g))
        /\ SF_hubVars(~panicked /\ pc[g] \in {"section", "setup"} /\ Request(g))

FairHubSpec == HubSpec /\ HubFairness

-----------------------------------------------------------------------------
(* Properties *)

\* A quickSetup that has marked the core running and not yet applied a
\* configuration, and a setup that has not yet applied one.
QuickPending(g) == op[g] = "quickSetup" /\ pc[g] \in {"check", "setup", "load", "apply"}
SetupPending(g) == pc[g] \in {"check", "setup", "load", "apply"}

\* Whenever no handler is inside runLock and no quickSetup is half way, the
\* open listeners are those the flags ask for: none of the general ports of
\* a stopped core is open, and a running core listens as its current
\* configuration says, or not at all where a port could not be opened.  No
\* overlap of setups, updates, starts and stops leaves a listener of an old
\* configuration behind, or reopens one after a stop
\* (updateListeners, handleStartListener, handleStopListener, applyConfig).
ListenersFollow ==
    (runLock = Nobody /\ \A g \in Goroutines : ~QuickPending(g)) =>
        /\ ~isRunning \/ currentConfig = NoConfig => ports = Closed
        /\ isRunning /\ currentConfig # NoConfig =>
              /\ ports \in {currentConfig.port, Closed}
              /\ inbounds \in {currentConfig.file, Closed}

\* A setup is never lost behind an older one: once every setup sent to an
\* initialised core is over, and config.yaml was not rewritten since the
\* last was sent, the core runs what config.yaml says, whatever order the
\* goroutines took runLock in (handleSetupConfig, applyConfig).
SetupSettles ==
    (~unsent /\ \A g \in Goroutines : ~SetupPending(g)) =>
        /\ currentConfig # NoConfig
        /\ currentConfig.file = Parsed(disk).file

\* runLock is held exactly by the request that is inside a long section:
\* the spawned goroutine of handleChangeProxy gives back the lock its
\* request took, and no path out of applyConfig keeps it.
LockOwned ==
    \A g \in Goroutines : (runLock = g) <=> (pc[g] \in Holding)

\* Every request is answered, unless the process dies first: no handler
\* blocks another for ever through runLock.
RequestsAnswered ==
    \A g \in Goroutines : (pc[g] # "idle") ~> (pc[g] = "idle" \/ panicked)
=============================================================================
