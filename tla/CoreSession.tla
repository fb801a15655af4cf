---------------------------- MODULE CoreSession ----------------------------
(***************************************************************************)
(* The desktop app's session with its core process, on macOS and Linux:    *)
(* lib/core/service.dart, the wait of lib/core/interface.dart, the restart *)
(* of lib/controller.dart and the crash event of core_manager.dart.        *)
(*                                                                         *)
(* The app listens on a socket and starts the core, which dials it and     *)
(* exits when the socket closes.  Dart runs one event at a time: a step is *)
(* what runs from one await of something outside (a process, a socket, a   *)
(* timer) to the next, and a task that waits for a completer goes on in    *)
(* the step that completes it.                                             *)
(*                                                                         *)
(* A core and its socket share one identity.                               *)
(***************************************************************************)
EXTENDS Naturals, FiniteSets

CONSTANTS
    Cores,        \* the core processes that can exist at once
    Restarters,   \* the tasks that run restartCore, and the first _connectCore
    Crashers,     \* the tasks that run onCrash
    Requests,     \* the requests that can be under way at once
    NoCore        \* _process == null, _socketCompleter not completed

Tasks == Restarters \cup Crashers

ASSUME TasksAssumption == Restarters \cap Crashers = {}
ASSUME CoresAssumption == NoCore \notin Cores

VARIABLES
    status,        \* coreStatusProvider
    process,       \* _process
    attached,      \* the socket _socketCompleter was completed with
    shutdownDone,  \* _shutdownCompleter is completed
    core,          \* the state of each core process
    killed,        \* the live cores that were sent a signal
    socket,        \* the app's end of each core's socket
    pc,            \* where each task is
    started,       \* the core a task has started and not yet stored
    caller,        \* where each request is
    completer,     \* the request's entry of _callbackCompleterMap
    sentTo,        \* the core the request was written to
    reply,         \* the request's reply
    stateError,    \* history: a completer was completed twice
    failed         \* history: a core crashed or could not be started

appVars  == <<status, process, attached, shutdownDone>>
coreVars == <<core, killed, socket>>
taskVars == <<pc, started>>
callVars == <<caller, completer, sentTo, reply>>
history  == <<stateError, failed>>
vars     == <<appVars, coreVars, taskVars, callVars, history>>

Points == {"idle",
           "closeUser",    \* shutdown(true) of restartCore: awaits socket.close()
           "closeStart",   \* shutdown(false) of start, the same
           "closeCrash",   \* shutdown(false) of onCrash, the same
           "awaitDone",    \* shutdown(true): awaits _shutdownCompleter
           "orphaned",     \* the same, of a completer that was replaced
           "connect",      \* before _connectCore
           "spawn",        \* start: before Process.start
           "spawned",      \* start: awaits Process.start
           "awaitSocket",  \* start: awaits _socketCompleter
           "connected"}    \* _connectCore: start is over

Closing == {"closeUser", "closeStart", "closeCrash"}

TypeOK ==
    /\ status \in {"disconnected", "connecting", "connected"}
    /\ process \in Cores \cup {NoCore}
    /\ attached \in Cores \cup {NoCore}
    /\ shutdownDone \in BOOLEAN
    /\ core \in [Cores -> {"running", "dialed", "exited"}]
    /\ killed \subseteq Cores
    /\ socket \in [Cores -> {"none", "pending", "accepting", "open", "closed", "lost"}]
    /\ pc \in [Tasks -> Points]
    /\ started \in [Tasks -> Cores \cup {NoCore}]
    /\ caller \in [Requests -> {"idle", "waiting", "called"}]
    /\ completer \in [Requests -> {"absent", "open", "done"}]
    /\ sentTo \in [Requests -> Cores \cup {NoCore}]
    /\ reply \in [Requests -> {"none", "handling", "sent"}]
    /\ stateError \in BOOLEAN
    /\ failed \in BOOLEAN

Init ==
    /\ status = "disconnected"
    /\ process = NoCore
    /\ attached = NoCore
    /\ shutdownDone = FALSE
    /\ core = [c \in Cores |-> "exited"]
    /\ killed = {}
    /\ socket = [c \in Cores |-> "none"]
    /\ \E t \in Restarters : pc = [u \in Tasks |-> IF u = t THEN "connect" ELSE "idle"]
    /\ started = [t \in Tasks |-> NoCore]
    /\ caller = [r \in Requests |-> "idle"]
    /\ completer = [r \in Requests |-> "absent"]
    /\ sentTo = [r \in Requests |-> NoCore]
    /\ reply = [r \in Requests |-> "none"]
    /\ stateError = FALSE
    /\ failed = FALSE

Alive(c) == core[c] \in {"running", "dialed"}

Goto(t, point) == pc' = [pc EXCEPT ![t] = point]

-----------------------------------------------------------------------------
(* shutdown *)

NothingToStop == attached = NoCore /\ process = NoCore

\* socket.close() on the attached socket, which may have ended before.
CloseAttached ==
    [c \in Cores |-> IF c = attached /\ socket[c] = "open" THEN "closed" ELSE socket[c]]

\* _destroySocket up to its await: a fresh completer, the socket half closed.
DestroySocket ==
    /\ attached' = NoCore
    /\ socket' = CloseAttached

\* The points of the tasks once task t waits for its socket to close and
\* _shutdownCompleter is a fresh one: who awaited the old one never resumes.
ShutdownPoints(t, point, points) ==
    [u \in Tasks |-> IF u = t THEN point
                     ELSE IF points[u] = "awaitDone" THEN "orphaned" ELSE points[u]]

\* Variant: _shutdownCompleter is made once.
BeginShutdownOldCompleter(t, point) ==
    /\ DestroySocket
    /\ pc' = ShutdownPoints(t, point, pc)
    /\ UNCHANGED shutdownDone

\* shutdown, when there is something to stop, up to its first await.
BeginShutdown(t, point) ==
    /\ shutdownDone' = FALSE
    /\ DestroySocket
    /\ pc' = ShutdownPoints(t, point, pc)

\* _clearCompleter: every request that has no answer gets null.
ClearCompleters ==
    /\ completer' = [r \in Requests |-> IF completer[r] = "open" THEN "done" ELSE completer[r]]
    /\ caller' = [r \in Requests |-> IF completer[r] = "open" THEN "idle" ELSE caller[r]]
    /\ UNCHANGED <<sentTo, reply>>

\* Where a task goes after the shutdown it called.
AfterKill(t) ==
    CASE pc[t] = "closeUser"  -> IF shutdownDone THEN "connect" ELSE "awaitDone"
      [] pc[t] = "closeStart" -> "spawn"
      [] pc[t] = "closeCrash" -> "idle"

\* Variant: shutdown(true) returns without waiting for the socket to end.
FinishShutdownAtOnce(t) ==
    /\ pc[t] \in Closing
    /\ ClearCompleters
    /\ killed' = killed \cup {c \in {process} \ {NoCore} : Alive(c)}
    /\ process' = NoCore
    /\ Goto(t, IF pc[t] = "closeUser" THEN "connect" ELSE AfterKill(t))
    /\ UNCHANGED <<status, attached, shutdownDone, core, socket, started, history>>

\* Variant: the process is forgotten before it is killed.
FinishShutdownForgetting(t) ==
    /\ pc[t] \in Closing
    /\ ClearCompleters
    /\ process' = NoCore
    /\ Goto(t, AfterKill(t))
    /\ UNCHANGED <<status, attached, shutdownDone, core, killed, socket, started, history>>

\* Variant: the requests under way are left to their timeouts.
FinishShutdownKeeping(t) ==
    /\ pc[t] \in Closing
    /\ killed' = killed \cup {c \in {process} \ {NoCore} : Alive(c)}
    /\ process' = NoCore
    /\ Goto(t, AfterKill(t))
    /\ UNCHANGED <<status, attached, shutdownDone, core, socket, started,
                   callVars, history>>

\* shutdown: the socket is closed; clear, kill, forget the process.
FinishShutdown(t) ==
    /\ pc[t] \in Closing
    /\ ClearCompleters
    /\ killed' = killed \cup {c \in {process} \ {NoCore} : Alive(c)}
    /\ process' = NoCore
    /\ Goto(t, AfterKill(t))
    /\ UNCHANGED <<status, attached, shutdownDone, core, socket, started, history>>

-----------------------------------------------------------------------------
(* restartCore and _connectCore *)

Restart(t) ==
    /\ pc[t] = "idle"
    /\ status' = "disconnected"
    /\ IF NothingToStop
       THEN Goto(t, "connect") /\ UNCHANGED <<attached, shutdownDone, socket>>
       ELSE BeginShutdown(t, "closeUser")
    /\ UNCHANGED <<process, core, killed, started, callVars, history>>

\* _connectCore, and start up to its first await.
Connect(t) ==
    /\ pc[t] = "connect"
    /\ status' = "connecting"
    /\ IF process = NoCore
       THEN Goto(t, "spawn") /\ UNCHANGED <<attached, shutdownDone, socket>>
       ELSE BeginShutdown(t, "closeStart")
    /\ UNCHANGED <<process, core, killed, started, callVars, history>>

\* A core that is gone and nothing refers to: its identity can be used again.
Fresh(c) ==
    /\ core[c] = "exited"
    /\ socket[c] \in {"none", "lost"}
    /\ c \notin {process, attached}
    /\ \A t \in Tasks : started[t] # c
    /\ \A r \in Requests : sentTo[r] # c

\* start: Process.start made a process ...
Spawn(t) ==
    /\ pc[t] = "spawn"
    /\ \E c \in Cores :
          /\ Fresh(c)
          /\ core' = [core EXCEPT ![c] = "running"]
          /\ socket' = [socket EXCEPT ![c] = "none"]
          /\ started' = [started EXCEPT ![t] = c]
    /\ Goto(t, "spawned")
    /\ UNCHANGED <<appVars, killed, callVars, history>>

\* ... or threw, which leaves the status as it is.
SpawnFails(t) ==
    /\ pc[t] = "spawn"
    /\ Goto(t, "idle")
    /\ failed' = TRUE
    /\ UNCHANGED <<appVars, coreVars, started, callVars, stateError>>

\* Variant: a socket that came before the process was stored is missed.
StoreProcessMissing(t) ==
    /\ pc[t] = "spawned"
    /\ process' = started[t]
    /\ started' = [started EXCEPT ![t] = NoCore]
    /\ Goto(t, "awaitSocket")
    /\ UNCHANGED <<status, attached, shutdownDone, coreVars, callVars, history>>

\* start: the process is stored, and its socket awaited.
StoreProcess(t) ==
    /\ pc[t] = "spawned"
    /\ process' = started[t]
    /\ started' = [started EXCEPT ![t] = NoCore]
    /\ Goto(t, IF attached = NoCore THEN "awaitSocket" ELSE "connected")
    /\ UNCHANGED <<status, attached, shutdownDone, coreVars, callVars, history>>

\* _connectCore: preload is over, after 300 ms at least.
Connected(t) ==
    /\ pc[t] = "connected"
    /\ status' = "connected"
    /\ Goto(t, "idle")
    /\ UNCHANGED <<process, attached, shutdownDone, coreVars, started, callVars, history>>

-----------------------------------------------------------------------------
(* The core process *)

\* startServer: net.Dial.
Dial(c) ==
    /\ core[c] = "running"
    /\ core' = [core EXCEPT ![c] = "dialed"]
    /\ socket' = [socket EXCEPT ![c] = "pending"]
    /\ UNCHANGED <<appVars, killed, taskVars, callVars, history>>

\* The requests a core that ends was still handling get no reply.
CoreEnds(c) ==
    /\ Alive(c)
    /\ core' = [core EXCEPT ![c] = "exited"]
    /\ killed' = killed \ {c}
    /\ reply' = [r \in Requests |->
                    IF sentTo[r] = c /\ reply[r] = "handling" THEN "none" ELSE reply[r]]
    /\ UNCHANGED <<appVars, socket, taskVars, caller, completer, sentTo, stateError>>

\* The core was killed, or startServer read the end of the socket.
Exit(c) ==
    /\ c \in killed \/ socket[c] = "closed"
    /\ CoreEnds(c)
    /\ UNCHANGED failed

\* The core ends by itself, a panic for one.
Crash(c) ==
    /\ CoreEnds(c)
    /\ failed' = TRUE

-----------------------------------------------------------------------------
(* The socket *)

\* Writes request r to the core c.
Send(rs, c) ==
    /\ caller' = [r \in Requests |-> IF r \in rs THEN "called" ELSE caller[r]]
    /\ completer' = [r \in Requests |-> IF r \in rs THEN "open" ELSE completer[r]]
    /\ sentTo' = [r \in Requests |-> IF r \in rs THEN c ELSE sentTo[r]]
    /\ reply' = [r \in Requests |->
                    IF r \in rs /\ core[c] = "dialed" THEN "handling" ELSE reply[r]]

\* _attachSocket: whoever waits for the socket goes on, start and _invoke.
CompleteSocket(c) ==
    IF attached # NoCore
    THEN /\ stateError' = TRUE
         /\ socket' = [socket EXCEPT ![c] = "lost"]
         /\ UNCHANGED <<attached, pc, callVars>>
    ELSE /\ attached' = c
         /\ socket' = [socket EXCEPT ![c] = "open"]
         /\ pc' = [t \in Tasks |-> IF pc[t] = "awaitSocket" THEN "connected" ELSE pc[t]]
         /\ Send({r \in Requests : caller[r] = "waiting"}, c)
         /\ UNCHANGED stateError

\* The server accepts: _attachSocket without a socket to destroy.
Attach(c) ==
    /\ socket[c] = "pending"
    /\ attached = NoCore
    /\ CompleteSocket(c)
    /\ UNCHANGED <<status, process, shutdownDone, core, killed, started, failed>>

\* Variant: the old socket is dropped, not closed.
AttachOverOpen(c) ==
    /\ socket[c] = "pending"
    /\ attached # NoCore
    /\ attached' = NoCore
    /\ socket' = [socket EXCEPT ![c] = "accepting"]
    /\ UNCHANGED <<status, process, shutdownDone, core, killed, taskVars, callVars, history>>

\* The same with one: it is closed and awaited first.
AttachOver(c) ==
    /\ socket[c] = "pending"
    /\ attached # NoCore
    /\ attached' = NoCore
    /\ socket' = [CloseAttached EXCEPT ![c] = "accepting"]
    /\ UNCHANGED <<status, process, shutdownDone, core, killed, taskVars, callVars, history>>

AttachAfterClose(c) ==
    /\ socket[c] = "accepting"
    /\ CompleteSocket(c)
    /\ UNCHANGED <<status, process, shutdownDone, core, killed, started, failed>>

\* Variant: onDone only reports the crash.
PointsAfterDoneUnchanged == [t \in Tasks |-> pc[t]]

\* onDone: who awaits _shutdownCompleter goes on.
PointsAfterDone == [t \in Tasks |-> IF pc[t] = "awaitDone" THEN "connect" ELSE pc[t]]

\* Variant: onCrash does not change the status.
StatusAfterDoneKept == status

\* onCrash acts on a connected session only.
StatusAfterDone == IF status = "connected" THEN "disconnected" ELSE status

\* onDone completes _shutdownCompleter; then onCrash, which shuts a connected
\* core down.
SocketDone(c) ==
    /\ socket[c] \in {"open", "closed"}
    /\ core[c] = "exited"
    /\ status' = StatusAfterDone
    /\ IF status = "connected" /\ ~NothingToStop
       THEN \E t \in Crashers :
               /\ pc[t] = "idle"
               /\ pc' = ShutdownPoints(t, "closeCrash", PointsAfterDone)
               /\ shutdownDone' = FALSE
               /\ attached' = NoCore
               /\ socket' = [CloseAttached EXCEPT ![c] = "none"]
       ELSE /\ pc' = PointsAfterDone
            /\ shutdownDone' = TRUE
            /\ socket' = [socket EXCEPT ![c] = "none"]
            /\ UNCHANGED attached
    /\ UNCHANGED <<process, core, killed, started, callVars, history>>

-----------------------------------------------------------------------------
(* Requests *)

\* _invoke: sent at once if there is a socket, which is awaited otherwise.
Invoke(r) ==
    /\ caller[r] = "idle"
    /\ completer[r] = "absent"
    /\ sentTo[r] = NoCore
    /\ IF attached = NoCore
       THEN /\ caller' = [caller EXCEPT ![r] = "waiting"]
            /\ UNCHANGED <<completer, sentTo, reply>>
       ELSE Send({r}, attached)
    /\ UNCHANGED <<appVars, coreVars, taskVars, history>>

\* Variant: _invoke waits for a socket without a limit.
NoSocketUnlimited(r) ==
    /\ caller[r] = "waiting"
    /\ attached # NoCore
    /\ caller' = [caller EXCEPT ![r] = "idle"]
    /\ UNCHANGED <<appVars, coreVars, taskVars, completer, sentTo, reply, history>>

\* _invoke gives up after ten seconds without a socket.
NoSocket(r) ==
    /\ caller[r] = "waiting"
    /\ caller' = [caller EXCEPT ![r] = "idle"]
    /\ UNCHANGED <<appVars, coreVars, taskVars, completer, sentTo, reply, history>>

\* The core writes the result of a request.
Handle(r) ==
    /\ reply[r] = "handling"
    /\ reply' = [reply EXCEPT ![r] = "sent"]
    /\ UNCHANGED <<appVars, coreVars, taskVars, caller, completer, sentTo, history>>

\* Variant: handleResult completes without looking.
HandleResultBlindly(r) ==
    /\ reply[r] = "sent"
    /\ reply' = [reply EXCEPT ![r] = "none"]
    /\ IF completer[r] = "absent" THEN UNCHANGED <<completer, caller, stateError>>
       ELSE /\ stateError' = (stateError \/ completer[r] = "done")
            /\ completer' = [completer EXCEPT ![r] = "done"]
            /\ caller' = [caller EXCEPT ![r] = "idle"]
    /\ UNCHANGED <<appVars, coreVars, taskVars, sentTo, failed>>

\* handleResult: a request that has its answer, or no entry, is left alone.
HandleResult(r) ==
    /\ reply[r] = "sent"
    /\ reply' = [reply EXCEPT ![r] = "none"]
    /\ IF completer[r] = "open"
       THEN /\ completer' = [completer EXCEPT ![r] = "done"]
            /\ caller' = [caller EXCEPT ![r] = "idle"]
       ELSE UNCHANGED <<completer, caller>>
    /\ UNCHANGED <<appVars, coreVars, taskVars, sentTo, history>>

\* withTimeout: the caller gets null, three minutes by default after it sent.
Timeout(r) ==
    /\ caller[r] = "called"
    /\ caller' = [caller EXCEPT ![r] = "idle"]
    /\ UNCHANGED <<appVars, coreVars, taskVars, completer, sentTo, reply, history>>

\* onLast, shortly after the timeout: completes and removes the entry.
RemoveEntry(r) ==
    /\ completer[r] # "absent"
    /\ caller[r] = "idle"
    /\ completer' = [completer EXCEPT ![r] = "absent"]
    /\ UNCHANGED <<appVars, coreVars, taskVars, caller, sentTo, reply, history>>

\* A request that is over and whose reply cannot come any more: the next
\* request, with an id of its own, can take its place.
Forget(r) ==
    /\ sentTo[r] # NoCore
    /\ completer[r] = "absent"
    /\ reply[r] = "none"
    /\ sentTo' = [sentTo EXCEPT ![r] = NoCore]
    /\ UNCHANGED <<appVars, coreVars, taskVars, caller, completer, reply, history>>

-----------------------------------------------------------------------------
TaskStep(t) ==
    \/ FinishShutdown(t) \/ Connect(t)
    \/ Spawn(t) \/ SpawnFails(t) \/ StoreProcess(t) \/ Connected(t)

SocketStep(c) ==
    Attach(c) \/ AttachOver(c) \/ AttachAfterClose(c) \/ SocketDone(c)

Next ==
    \/ \E t \in Restarters : Restart(t)
    \/ \E t \in Tasks : TaskStep(t)
    \/ \E c \in Cores : Dial(c) \/ Exit(c) \/ Crash(c) \/ SocketStep(c)
    \/ \E r \in Requests :
          \/ Invoke(r) \/ NoSocket(r) \/ Handle(r) \/ HandleResult(r)
          \/ Timeout(r) \/ RemoveEntry(r) \/ Forget(r)

Spec == Init /\ [][Next]_vars

(***************************************************************************)
(* The Dart event loop runs every event that is due and the timers fire;   *)
(* a core that was started dials, and exits once it is killed or its       *)
(* socket is closed.  Nothing makes a core answer, or a user restart.      *)
(***************************************************************************)
Fairness ==
    /\ \A t \in Tasks : WF_vars(TaskStep(t))
    /\ \A c \in Cores : WF_vars(Dial(c)) /\ WF_vars(Exit(c)) /\ WF_vars(SocketStep(c))
    /\ \A r \in Requests :
          WF_vars(NoSocket(r)) /\ WF_vars(HandleResult(r)) /\ WF_vars(Timeout(r))

FairSpec == Spec /\ Fairness

-----------------------------------------------------------------------------
(* Properties *)

\* No completer is completed twice, which would throw: neither the socket's,
\* which start and every request await, nor a request's, which a reply, a
\* timeout and _clearCompleter race for (_attachSocket, handleResult).
CompletedOnce == ~stateError

\* A restart starts the next core when the last one is gone, never beside
\* it, whatever crashed meanwhile: shutdown(true) waits for the end of the
\* socket because the ports of the core are not free before.
OneCoreAlive == \A c, d \in Cores : Alive(c) /\ Alive(d) => c = d

\* The app loses no core: one that runs is the stored process, or about to be
\* stored by the start that made it, or was sent a signal, also when onCrash
\* shuts down while a start awaits Process.start (start, shutdown).
NoCoreForgotten ==
    \A c \in Cores : Alive(c) =>
        \/ c = process
        \/ \E t \in Tasks : started[t] = c
        \/ c \in killed

\* The end of an old socket never takes down the session that replaced it:
\* onDone ends a connected session only if the socket is that session's.
NoStaleCrash ==
    [][\A c \in Cores :
          /\ status = "connected" /\ status' = "disconnected"
          /\ socket[c] \in {"open", "closed"} /\ socket'[c] = "none"
          => attached = c]_vars

\* The status the user sees and the completer tryStartCore looks at agree:
\* a connected session has a socket, and it is that of the stored process.
StatusAgrees == status = "connected" => attached # NoCore /\ attached = process

\* No request outlives its session: one that awaits a reply was written to
\* the attached socket, or a shutdown is about to answer it with null.
RequestsInSession ==
    \A r \in Requests :
        completer[r] = "open" /\ caller[r] = "called" =>
            \/ sentTo[r] = attached
            \/ \E t \in Tasks : pc[t] \in Closing

\* However many restarts overlap, a socket is closed before another takes
\* its place, so two cores are never read from at once: the only open socket
\* is the attached one (_attachSocket, _destroySocket).
OneOpenSocket == \A c \in Cores : socket[c] = "open" => attached = c

\* A start or a request that waits for the socket never misses it: the
\* completer it awaits is the current one, and not completed.
NoMissedSocket ==
    /\ \A t \in Tasks : pc[t] = "awaitSocket" => attached = NoCore
    /\ \A r \in Requests : caller[r] = "waiting" => attached = NoCore

\* Every request returns, with a result or null, whatever happens to the
\* core.
CallsReturn == \A r \in Requests : (caller[r] # "idle") ~> (caller[r] = "idle")

\* shutdown(true) returns unless a core crashed or could not be started:
\* the socket it closes makes the core exit, and that completes what it
\* waits for.
ShutdownReturns ==
    \A t \in Tasks : (pc[t] = "awaitDone") ~> (pc[t] = "connect" \/ failed)
=============================================================================
