----------------------------- MODULE TunHandler -----------------------------
(***************************************************************************)
(* The Android tunnel of the Go core, core/lib.go, running beside the      *)
(* request handlers of CoreHub.                                            *)
(*                                                                         *)
(* One thread calls startTUN and stopTun: VpnService.start and stop run    *)
(* under the runLock of the service process (RemoteService.kt), so tunLock *)
(* is never contended and is left out.  Each startTUN makes a TunHandler   *)
(* that holds a JNI reference to the VPN service's callbacks; a handler    *)
(* and its reference share one identity here.                              *)
(*                                                                         *)
(* While a handler is installed, every dial of the core enters it through  *)
(* the global hook to have its socket protected, or its process resolved,  *)
(* under one permit of the handler's semaphore; closing takes them all.    *)
(* Dials come from proxied connections and from applyConfig itself, which  *)
(* downloads providers and geo data while it holds runLock.                *)
(***************************************************************************)
EXTENDS CoreHub, Integers, Sequences, FiniteSets

CONSTANTS
    Connections,  \* the proxied connections that dial at once
    Handlers,     \* the TunHandlers (and references) alive at once
    NoHandler,    \* tunHandler == nil, and a stopTun in newHandler
    LimitSize     \* the permits of a handler's semaphore, four in the code

Dialers == Connections \cup Goroutines

ASSUME DialersAssumption ==
    /\ Connections \cap Goroutines = {}
    /\ TunThread \notin Connections
    /\ NoHandler \notin Handlers

ASSUME LimitAssumption == LimitSize \in Nat \ {0}

VARIABLES
    tpc,          \* where the thread of startTUN and stopTun is
    newHandler,   \* the handler startTUN was called for, NoHandler in stopTun
    tunHandler,   \* the global: the last handler made
    tunListener,  \* the handlers whose listener is open
    callback,     \* the handlers whose callback is not nil
    refs,         \* the JNI references that exist
    hook,         \* DefaultSocketHook and DefaultPackageNameResolver are set
    waiters,      \* for each handler, the FIFO of its semaphore
    users,        \* for each handler, who holds one permit
    owned,        \* the handlers all of whose permits the thread holds
    dpc,          \* where each dialer is
    target        \* the handler each dialer went through

limitVars  == <<waiters, users, owned>>
handlerVars == <<tunHandler, tunListener, callback, refs, hook>>
threadVars == <<tpc, newHandler>>
dialVars   == <<dpc, target>>
tunVars    == <<threadVars, handlerVars, limitVars, dialVars>>
allVars    == <<hubVars, tunVars>>

ThreadPoints ==
    {"idle",
     "stop",         \* handleStopTun
     "drain",        \* close: waits for all the permits
     "unhook",       \* clear: removeHook
     "destroy",      \* clear: close the listener, release the reference
     "install",      \* handleStartTun: make the new handler
     "lock",         \* start: waits for runLock
     "acquire",      \* start: waits for all the permits
     "hook",         \* start: initHook
     "open",         \* start: t.Start
     "unhookNew",    \* start: t.Start failed, clear
     "destroyNew",
     "afterStart",   \* startTUN: the test of isRunning
     "listen",       \* startTUN: handleStartListener
     "reset",        \* startTUN: handleResetConnections
     "afterStop",    \* stopTun: the test of isRunning
     "unlisten"}     \* stopTun: handleStopListener

Opening == {"acquire", "hook", "open", "unhookNew", "destroyNew"}

DialPoints ==
    {"idle",
     "hooked",     \* the dialer saw the hook and will call it
     "enter",      \* inside the hook, before tunHandler is read
     "wait",       \* waits for a permit
     "permit",     \* before the test of th.listener
     "calling"}    \* inside protect or resolveProcess of the VPN service

TunTypeOK ==
    /\ TypeOK
    /\ tpc \in ThreadPoints
    /\ newHandler \in Handlers \cup {NoHandler}
    /\ tunHandler \in Handlers \cup {NoHandler}
    /\ tunListener \subseteq Handlers
    /\ callback \subseteq Handlers
    /\ refs \subseteq Handlers
    /\ hook \in BOOLEAN
    /\ waiters \in [Handlers -> Seq(Dialers \cup {TunThread})]
    /\ users \in [Handlers -> SUBSET Dialers]
    /\ owned \subseteq Handlers
    /\ dpc \in [Dialers -> DialPoints]
    /\ target \in [Dialers -> Handlers \cup {NoHandler}]

Init ==
    /\ HubInit
    /\ tpc = "idle"
    /\ newHandler = NoHandler
    /\ tunHandler = NoHandler
    /\ tunListener = {}
    /\ callback = {}
    /\ refs = {}
    /\ hook = FALSE
    /\ waiters = [h \in Handlers |-> <<>>]
    /\ users = [h \in Handlers |-> {}]
    /\ owned = {}
    /\ dpc = [d \in Dialers |-> "idle"]
    /\ target = [d \in Dialers |-> NoHandler]

-----------------------------------------------------------------------------
(* golang.org/x/sync/semaphore: waiters are served in the order they came. *)

Enqueue(h, p) == waiters' = [waiters EXCEPT ![h] = Append(@, p)]

IsNext(h, p) == waiters[h] # <<>> /\ Head(waiters[h]) = p

Dequeue(h) == waiters' = [waiters EXCEPT ![h] = Tail(@)]

\* Acquire(1), and Acquire of all the permits, granted to the first waiter.
AcquireOne(h, d) ==
    /\ IsNext(h, d)
    /\ h \notin owned
    /\ Cardinality(users[h]) < LimitSize
    /\ Dequeue(h)
    /\ users' = [users EXCEPT ![h] = @ \cup {d}]
    /\ UNCHANGED owned

AcquireAll(h) ==
    /\ IsNext(h, TunThread)
    /\ h \notin owned
    /\ users[h] = {}
    /\ Dequeue(h)
    /\ owned' = owned \cup {h}
    /\ UNCHANGED users

ReleaseOne(h, d) ==
    /\ users' = [users EXCEPT ![h] = @ \ {d}]
    /\ UNCHANGED <<waiters, owned>>

ReleaseAll(h) ==
    /\ owned' = owned \ {h}
    /\ UNCHANGED <<waiters, users>>

-----------------------------------------------------------------------------
(* The thread of startTUN and stopTun *)

ThreadTo(point) == tpc' = point

\* A handler nothing refers to any more: its memory can be used again.
Unreferenced(h) ==
    /\ h # tunHandler
    /\ h \notin refs
    /\ \A d \in Dialers : target[d] # h

\* startTUN: new_global(cb), and handleStopTun first.
StartTun ==
    /\ tpc = "idle"
    /\ \E h \in Handlers : /\ Unreferenced(h)
                           /\ newHandler' = h
                           /\ refs' = refs \cup {h}
    /\ ThreadTo("stop")
    /\ UNCHANGED <<hubVars, tunHandler, tunListener, callback, hook, limitVars, dialVars>>

StopTun ==
    /\ tpc = "idle"
    /\ ThreadTo("stop")
    /\ UNCHANGED <<hubVars, newHandler, handlerVars, limitVars, dialVars>>

\* Variant: stopTun goes on like startTUN.
AfterCloseInstall == "install"

AfterClose == IF newHandler = NoHandler THEN "afterStop" ELSE "install"

\* Variant: startTUN does not close the handler it replaces.
HandleStopTunUnlessStarting ==
    /\ tpc = "stop"
    /\ IF tunHandler = NoHandler \/ newHandler # NoHandler
       THEN ThreadTo(AfterClose) /\ UNCHANGED waiters
       ELSE ThreadTo("drain") /\ Enqueue(tunHandler, TunThread)
    /\ UNCHANGED <<hubVars, newHandler, handlerVars, users, owned, dialVars>>

\* handleStopTun: close the current handler, if one was ever made.
HandleStopTun ==
    /\ tpc = "stop"
    /\ IF tunHandler = NoHandler
       THEN ThreadTo(AfterClose) /\ UNCHANGED waiters
       ELSE ThreadTo("drain") /\ Enqueue(tunHandler, TunThread)
    /\ UNCHANGED <<hubVars, newHandler, handlerVars, users, owned, dialVars>>

\* close: Acquire of all the permits.
Drain ==
    /\ tpc = "drain"
    /\ AcquireAll(tunHandler)
    /\ ThreadTo("unhook")
    /\ UNCHANGED <<hubVars, newHandler, handlerVars, dialVars>>

\* clear: removeHook.
RemoveHook(from, to) ==
    /\ tpc = from
    /\ hook' = FALSE
    /\ ThreadTo(to)
    /\ UNCHANGED <<hubVars, newHandler, tunHandler, tunListener, callback, refs,
                   limitVars, dialVars>>

Unhook == RemoveHook("unhook", "destroy")

\* clear: close the listener and release the reference, if they are there.
Clear ==
    /\ tunListener' = tunListener \ {tunHandler}
    /\ refs' = IF tunHandler \in callback THEN refs \ {tunHandler} ELSE refs
    /\ callback' = callback \ {tunHandler}
    /\ UNCHANGED <<tunHandler, hook>>

Destroy ==
    /\ tpc = "destroy"
    /\ Clear
    /\ ReleaseAll(tunHandler)
    /\ ThreadTo(AfterClose)
    /\ UNCHANGED <<hubVars, newHandler, dialVars>>

\* handleStartTun: tunHandler = &TunHandler{callback, limit}.
Install ==
    /\ tpc = "install"
    /\ tunHandler' = newHandler
    /\ callback' = callback \cup {newHandler}
    /\ ThreadTo("lock")
    /\ UNCHANGED <<hubVars, newHandler, tunListener, refs, hook, limitVars, dialVars>>

\* Variant: the permits first, then runLock.
LockStartLast ==
    /\ tpc = "lock"
    /\ \/ /\ waiters[tunHandler] = <<>> /\ users[tunHandler] = {}
          /\ tunHandler \notin owned
          /\ owned' = owned \cup {tunHandler}
          /\ UNCHANGED <<runLock, tpc>>
       \/ /\ tunHandler \in owned
          /\ runLock = Nobody
          /\ runLock' = TunThread
          /\ ThreadTo("hook")
          /\ UNCHANGED owned
    /\ UNCHANGED <<lifecycle, currentConfig, listeners, client, pc, op, panicked,
                   newHandler, handlerVars, waiters, users, dialVars>>

\* start: runLock first, then the permits.
LockStart ==
    /\ tpc = "lock"
    /\ runLock = Nobody
    /\ runLock' = TunThread
    /\ Enqueue(tunHandler, TunThread)
    /\ ThreadTo("acquire")
    /\ UNCHANGED <<lifecycle, currentConfig, listeners, client, pc, op, panicked,
                   newHandler, handlerVars, users, owned, dialVars>>

AcquireStart ==
    /\ tpc = "acquire"
    /\ AcquireAll(tunHandler)
    /\ ThreadTo("hook")
    /\ UNCHANGED <<hubVars, newHandler, handlerVars, dialVars>>

InitHook ==
    /\ tpc = "hook"
    /\ hook' = TRUE
    /\ ThreadTo("open")
    /\ UNCHANGED <<hubVars, newHandler, tunHandler, tunListener, callback, refs,
                   limitVars, dialVars>>

\* The deferred Release of all the permits and runLock.Unlock of start.
LeaveStart ==
    /\ ReleaseAll(tunHandler)
    /\ runLock' = Nobody
    /\ ThreadTo("afterStart")
    /\ UNCHANGED <<lifecycle, currentConfig, listeners, client, pc, op, panicked,
                   newHandler, dialVars>>

\* start: t.Start made a listener ...
OpenTun ==
    /\ tpc = "open"
    /\ tunListener' = tunListener \cup {tunHandler}
    /\ UNCHANGED <<tunHandler, callback, refs, hook>>
    /\ LeaveStart

\* ... or returned nil, and the handler is cleared.
OpenFails ==
    /\ tpc = "open"
    /\ ThreadTo("unhookNew")
    /\ UNCHANGED <<hubVars, newHandler, handlerVars, limitVars, dialVars>>

UnhookNew == RemoveHook("unhookNew", "destroyNew")

DestroyNew ==
    /\ tpc = "destroyNew"
    /\ Clear
    /\ LeaveStart

\* startTUN: if !isRunning, read without runLock.
TestAfterStart ==
    /\ tpc = "afterStart"
    /\ ThreadTo(IF isRunning THEN "reset" ELSE "listen")
    /\ UNCHANGED <<hubVars, newHandler, handlerVars, limitVars, dialVars>>

\* The call of startTUN or stopTun returns.
Return ==
    /\ ThreadTo("idle")
    /\ newHandler' = NoHandler
    /\ UNCHANGED <<handlerVars, limitVars, dialVars>>

ListenAfterStart ==
    /\ tpc = "listen"
    /\ runLock = Nobody
    /\ StartListenerSection
    /\ UNCHANGED <<runLock, isInit, currentConfig, client, pc, op, panicked>>
    /\ Return

ResetAfterStart ==
    /\ tpc = "reset"
    /\ runLock = Nobody
    /\ UNCHANGED hubVars
    /\ Return

\* stopTun: if isRunning, read without runLock.
TestAfterStop ==
    /\ tpc = "afterStop"
    /\ ThreadTo(IF isRunning THEN "unlisten" ELSE "idle")
    /\ UNCHANGED <<hubVars, newHandler, handlerVars, limitVars, dialVars>>

\* Variant: the flag is reset and the ports stay open.
UnlistenFlagOnly ==
    /\ tpc = "unlisten"
    /\ runLock = Nobody
    /\ isRunning' = FALSE
    /\ UNCHANGED <<runLock, isInit, currentConfig, listeners, client, pc, op, panicked>>
    /\ Return

UnlistenAfterStop ==
    /\ tpc = "unlisten"
    /\ runLock = Nobody
    /\ StopListenerSection
    /\ UNCHANGED <<runLock, isInit, currentConfig, client, pc, op, panicked>>
    /\ Return

ThreadStep ==
    \/ HandleStopTun \/ Drain \/ Unhook \/ Destroy
    \/ Install \/ LockStart \/ AcquireStart \/ InitHook
    \/ OpenTun \/ OpenFails \/ UnhookNew \/ DestroyNew
    \/ TestAfterStart \/ ListenAfterStart \/ ResetAfterStart
    \/ TestAfterStop \/ UnlistenAfterStop

-----------------------------------------------------------------------------
(* Dials *)

DialTo(d, point) == dpc' = [dpc EXCEPT ![d] = point]

\* A connection may dial at any time, applyConfig while it holds runLock.
MayDial(d) == d \in Goroutines => pc[d] \in {"load", "apply"}

\* The dialer saw the socket hook set.  It calls the global again later.
SeeHook(d) ==
    /\ dpc[d] = "idle"
    /\ MayDial(d)
    /\ hook
    /\ DialTo(d, "hooked")
    /\ UNCHANGED <<hubVars, threadVars, handlerVars, limitVars, target>>

\* FindPackageName reads the resolver hook once and calls what it read.
SeeResolver(d) ==
    /\ dpc[d] = "idle"
    /\ MayDial(d)
    /\ hook
    /\ DialTo(d, "enter")
    /\ UNCHANGED <<hubVars, threadVars, handlerVars, limitVars, target>>

\* The socket exists: DefaultSocketHook(...), nil if it was removed since.
\* The closure may refuse the dial (ShouldBlockConnection).
CallHook(d) ==
    /\ dpc[d] = "hooked"
    /\ IF hook
       THEN /\ \E point \in {"enter", "idle"} : DialTo(d, point)
            /\ UNCHANGED panicked
       ELSE /\ panicked' = TRUE
            /\ UNCHANGED dpc
    /\ UNCHANGED <<runLock, lifecycle, currentConfig, listeners, client, pc, op,
                   threadVars, handlerVars, limitVars, target>>

\* handleProtect, handleResolveProcess: Acquire(1) of the global handler.
EnterHandler(d) ==
    /\ dpc[d] = "enter"
    /\ target' = [target EXCEPT ![d] = tunHandler]
    /\ Enqueue(tunHandler, d)
    /\ DialTo(d, "wait")
    /\ UNCHANGED <<hubVars, threadVars, handlerVars, users, owned>>

GetPermit(d) ==
    /\ dpc[d] = "wait"
    /\ AcquireOne(target[d], d)
    /\ DialTo(d, "permit")
    /\ UNCHANGED <<hubVars, threadVars, handlerVars, target>>

LeaveHandler(d) ==
    /\ ReleaseOne(target[d], d)
    /\ target' = [target EXCEPT ![d] = NoHandler]
    /\ DialTo(d, "idle")
    /\ UNCHANGED <<hubVars, threadVars, handlerVars>>

\* Variant: the permit is given back before the call.
CheckListenerReleasing(d) ==
    /\ dpc[d] = "permit"
    /\ target[d] \in tunListener
    /\ DialTo(d, "calling")
    /\ ReleaseOne(target[d], d)
    /\ UNCHANGED <<hubVars, threadVars, handlerVars, target>>

\* if th.listener == nil return, else call protect or resolveProcess.
CheckListener(d) ==
    /\ dpc[d] = "permit"
    /\ target[d] \in tunListener
    /\ DialTo(d, "calling")
    /\ UNCHANGED <<hubVars, threadVars, handlerVars, limitVars, target>>

SkipClosed(d) ==
    /\ dpc[d] = "permit"
    /\ target[d] \notin tunListener
    /\ LeaveHandler(d)

\* Variant: the deferred Release(1) is missing.
CallReturnsHolding(d) ==
    /\ dpc[d] = "calling"
    /\ target' = [target EXCEPT ![d] = NoHandler]
    /\ DialTo(d, "idle")
    /\ UNCHANGED <<hubVars, threadVars, handlerVars, limitVars>>

CallReturns(d) ==
    /\ dpc[d] = "calling"
    /\ LeaveHandler(d)

DialStep(d) ==
    \/ CallHook(d) \/ EnterHandler(d) \/ GetPermit(d)
    \/ CheckListener(d) \/ SkipClosed(d) \/ CallReturns(d)

-----------------------------------------------------------------------------
\* A handler waits for the downloads of applyConfig before it goes on.
HubStep(g) ==
    /\ dpc[g] = "idle"
    /\ Request(g)
    /\ UNCHANGED tunVars

TunDead == panicked /\ UNCHANGED allVars

Next ==
    \/ ~panicked /\ (StartTun \/ StopTun \/ ThreadStep)
    \/ \E d \in Dialers : ~panicked /\ (SeeHook(d) \/ SeeResolver(d) \/ DialStep(d))
    \/ \E g \in Goroutines : ~panicked /\ HubStep(g)
    \/ \E g \in Goroutines : ~panicked /\ Dispatch(g) /\ UNCHANGED tunVars
    \/ ~panicked /\ WriteFile /\ UNCHANGED tunVars
    \/ TunDead

Spec == Init /\ [][Next]_allVars

(***************************************************************************)
(* Goroutines and JNI threads that can run do run; the waiters of a lock   *)
(* get it in the end; a call of protect or resolveProcess is a local call  *)
(* of the VPN service and returns; a download ends or times out.  A new    *)
(* dial, request, startTUN or stopTun need never come.                     *)
(***************************************************************************)
Fairness ==
    /\ WF_allVars(~panicked /\ ThreadStep)
    /\ SF_allVars(~panicked /\ runLock = Nobody /\ ThreadStep)
    /\ \A d \in Dialers : WF_allVars(~panicked /\ DialStep(d))
    /\ \A g \in Goroutines :
        /\ WF_allVars(~panicked /\ HubStep(g))
        /\ SF_allVars(~panicked /\ pc[g] \in {"section", "setup"} /\ HubStep(g))
        /\ SF_allVars(~panicked /\ pc[g] \in {"load", "apply"} /\ HubStep(g))

FairSpec == Spec /\ Fairness

-----------------------------------------------------------------------------
(* Properties *)

\* The references are used as the VPN service expects: called only while
\* they exist and deleted once, when no protect or resolveProcess call is
\* inside (TunHandler.clear against handleProtect, handleResolveProcess).
Lease == INSTANCE CallbackLease WITH
    Leases <- Handlers,
    Users  <- Dialers,
    live   <- refs,
    inside <- [h \in Handlers |-> {d \in Dialers : dpc[d] = "calling" /\ target[d] = h}]

LeaseKept == Lease!Spec

\* Between two calls of startTUN and stopTun nothing is left over: the hook
\* is set exactly while the current handler's listener is open, no other
\* handler has an open listener, and the only reference is that handler's
\* (startTUN, stopTun, TunHandler.start, TunHandler.clear).
TunSettled ==
    tpc = "idle" =>
        /\ tunListener \subseteq {tunHandler}
        /\ refs = tunListener
        /\ hook = (tunListener # {})
        /\ owned = {}

\* startTUN and stopTun return, even while applyConfig downloads through the
\* tunnel under runLock, unless the process dies: TunHandler.start takes
\* runLock before the permits, so no dial waits for a lock its own
\* configuration holds.
TunReturns == (tpc # "idle") ~> (tpc = "idle" \/ panicked)

\* Every dial that entered the handler leaves it again.
DialsReturn ==
    \A d \in Dialers : (dpc[d] # "idle") ~> (dpc[d] = "idle" \/ panicked)
=============================================================================
