------------------------------ MODULE RunState ------------------------------
(***************************************************************************)
(* The Android app: who runs the VPN, and who believes it runs.            *)
(*                                                                         *)
(* The app process keeps RunState (State.kt) and changes it in coroutines  *)
(* that take turns on runLock; the service process (RemoteService.kt) has  *)
(* a runLock and a run time of its own.  A call to the service is given    *)
(* up after five seconds.  With a Flutter engine attached the start is     *)
(* finished by a callback that AppPlugin.prepare stores in one slot and    *)
(* runs later, outside the lock.                                           *)
(*                                                                         *)
(* The coroutines run on several threads (Dispatchers.Default), so a step  *)
(* makes at most one access to what others reach without runLock: the run  *)
(* state, the run time, the slots.  Either process can die.                *)
(***************************************************************************)
EXTENDS Naturals, FiniteSets

CONSTANTS
    Tasks,        \* the coroutines that can exist at once
    Times,        \* what System.currentTimeMillis() can return
    NoTask,       \* nobody holds a lock
    MaxCalls,     \* bound: calls of the user, of Dart, of the tile
    MaxFaults     \* bound: late answers, failed services, deaths

ASSUME TimesAssumption == Times \subseteq Nat \ {0}
ASSUME TasksAssumption == NoTask \notin Tasks

VARIABLES
    runState,     \* State.runStateFlow
    runTime,      \* State.runTime, 0 when stopped
    runLock,      \* who holds State.runLock
    pc,           \* where each coroutine is
    got,          \* the answer a coroutine has read and not used yet, else 0
    engine,       \* State.flutterEngine != null
    listening,    \* Service.onServiceDisconnected != null
    noticeSlot,   \* requestNotificationCallback != null
    prepareSlot,  \* vpnPrepareCallback != null
    asking,       \* permission dialogs that are open
    bound,        \* the app is bound to the service process
    disconnected, \* disconnections the app has not dealt with, by stage
    command,      \* what the service process does for each coroutine
    passed,       \* the run time a start under way was sent with
    remoteLock,   \* who holds the service process's runLock
    remoteTime,   \* the service process's State.runTime
    attached,     \* its delegate is bound to VpnService or CommonService
    up,           \* that service was started and not stopped
    calls,        \* calls made so far
    faults,       \* faults so far
    drift         \* history: the two processes may disagree

appVars    == <<runState, runTime, runLock, pc, got>>
slotVars   == <<engine, listening, noticeSlot, prepareSlot, asking>>
linkVars   == <<bound, disconnected>>
remoteVars == <<command, passed, remoteLock, remoteTime, attached, up>>
vars == <<appVars, slotVars, linkVars, remoteVars, calls, faults, drift>>

States == {"START", "PENDING", "STOP"}

\* Inside a call of the service, or between its answer and what is emitted:
\* "...Store" is about to write runTime, "...Emit" to emit the run state.
CallPoints == {"prepCall", "prepStore", "prepEmit",
               "startCall", "startStore", "startEmit",
               "stopCall", "stopStore", "stopEmit",
               "syncCall", "syncStore", "syncJudge", "syncEmit"}

\* The prepare callback's coroutine: about to read the slot, with the callback
\* it found, calling, about to empty the slot.
PreparePoints == {"prep", "prepTaken", "prepCall", "prepStore", "prepEmit", "prepClear"}

\* A start that shows PENDING, or has just compared the state to it.
StartingPoints == {"startBody", "startCall", "startStore", "startEmit",
                   "startFinally", "startReset"}

StoppingPoints == {"stopCall", "stopStore", "stopEmit"}

LockedPoints == StartingPoints \cup StoppingPoints \cup
                {"startChecked", "stopChecked", "setupCall",
                 "syncCall", "syncStore", "syncJudge", "syncEmit"}

\* Between a look at the run state and what is emitted because of it.
GapPoints == {"startChecked", "startReset"}

Points == {"idle", "start", "stop", "sync", "toggle", "startAction",
           "stopAction", "setup"} \cup PreparePoints \cup LockedPoints

Commands == {"none", "waiting", "start", "starting", "stop", "stopping", "setup"}

TypeOK ==
    /\ runState \in States
    /\ runTime \in Times \cup {0}
    /\ runLock \in Tasks \cup {NoTask}
    /\ pc \in [Tasks -> Points]
    /\ got \in [Tasks -> Times \cup {0}]
    /\ engine \in BOOLEAN /\ listening \in BOOLEAN
    /\ noticeSlot \in BOOLEAN /\ prepareSlot \in BOOLEAN
    /\ asking \in Nat
    /\ bound \in BOOLEAN /\ disconnected \subseteq {"lost", "unbound"}
    /\ command \in [Tasks -> Commands]
    /\ passed \in [Tasks -> Times \cup {0}]
    /\ remoteLock \in Tasks \cup {NoTask}
    /\ remoteTime \in Times \cup {0}
    /\ attached \in BOOLEAN /\ up \in BOOLEAN
    /\ calls \in Nat /\ faults \in Nat
    /\ drift \in BOOLEAN

\* The app process starts; the service process may be running from before.
Init ==
    /\ runState = "STOP" /\ runTime = 0 /\ runLock = NoTask
    /\ pc = [t \in Tasks |-> "idle"]
    /\ got = [t \in Tasks |-> 0]
    /\ engine \in BOOLEAN
    /\ listening = FALSE
    /\ noticeSlot = FALSE /\ prepareSlot = FALSE /\ asking = 0
    /\ bound = FALSE /\ disconnected = {}
    /\ command = [t \in Tasks |-> "none"]
    /\ passed = [t \in Tasks |-> 0]
    /\ remoteLock = NoTask
    /\ remoteTime \in Times \cup {0}
    /\ up = (remoteTime # 0)
    /\ attached = up
    /\ calls = 0 /\ faults = 0
    /\ drift = up

-----------------------------------------------------------------------------
(* Coroutines.                                                             *)

Free(t) == pc[t] = "idle" /\ command[t] = "none"

\* The name the next coroutine gets: they differ by name only.
Fresh(t) == Free(t) /\ t = CHOOSE s \in Tasks : Free(s)

\* The two processes are at rest and what the one answered the other knows.
Quiet == \A t \in Tasks : pc[t] \notin CallPoints /\ command[t] = "none"

\* Two calls at once: only the prepare callback runs outside runLock.
Overlap ==
    \E s, t \in Tasks :
        /\ s # t
        /\ {pc[s], pc[t]} \subseteq CallPoints

Drift(fault) == drift' = (drift \/ fault \/ Overlap')

\* GlobalState.launch from outside; a coroutine stays free for what it launches.
Launch(t, point) ==
    /\ calls < MaxCalls
    /\ Fresh(t)
    /\ \E s \in Tasks \ {t} : Free(s)
    /\ calls' = calls + 1
    /\ pc' = [pc EXCEPT ![t] = point]
    /\ UNCHANGED <<runState, runTime, runLock, got, linkVars, remoteVars,
                   faults, drift>>

Lock(t, from) ==
    /\ pc[t] = from
    /\ runLock = NoTask

\* runLock.withLock around a part that makes one access.
Checked(t, from, next) ==
    /\ Lock(t, from)
    /\ pc' = [pc EXCEPT ![t] = next]
    /\ UNCHANGED <<runState, runTime, runLock, got, slotVars, linkVars,
                   remoteVars, calls, faults, drift>>

\* A step of the holder that takes it from one point to the next and emits.
Show(t, from, state, next) ==
    /\ pc[t] = from
    /\ runState' = state
    /\ pc' = [pc EXCEPT ![t] = next]
    /\ UNCHANGED <<runTime, runLock, got, slotVars, linkVars, calls, faults>>

\* The service's answer is stored.
Store(t, from, next) ==
    /\ pc[t] = from
    /\ runTime' = got[t]
    /\ got' = [got EXCEPT ![t] = 0]
    /\ pc' = [pc EXCEPT ![t] = next]
    /\ UNCHANGED <<runState, runLock, slotVars, linkVars, remoteVars, calls, faults,
                   drift>>

\* The end of a locked part: what it emits, and unlock.
Emit(t, from, state) ==
    /\ pc[t] = from
    /\ runLock = t
    /\ runState' = state
    /\ runLock' = NoTask
    /\ pc' = [pc EXCEPT ![t] = "idle"]
    /\ got' = [got EXCEPT ![t] = 0]
    /\ UNCHANGED <<runTime, slotVars, linkVars, remoteVars, calls, faults, drift>>

\* Lock, check the state, and return at once when it is not the one expected.
Refused(t, from, expected) ==
    /\ runState # expected
    /\ Checked(t, from, "idle")

-----------------------------------------------------------------------------
(* What the user, Dart, the tile and the broadcasts call.                  *)

\* handleStartService: with a plugin, after the notification permission.
CallStart(t) ==
    \/ /\ Launch(t, "start")
       /\ noticeSlot' = (noticeSlot /\ ~engine)
       /\ UNCHANGED <<engine, listening, prepareSlot, asking>>
    \/ /\ engine /\ calls < MaxCalls
       /\ noticeSlot' = TRUE
       /\ calls' = calls + 1
       /\ UNCHANGED <<appVars, engine, listening, prepareSlot, asking,
                      linkVars, remoteVars, faults, drift>>

\* onRequestPermissionsResultListener
NoticeResult(t) ==
    /\ noticeSlot
    /\ Launch(t, "start")
    /\ noticeSlot' = FALSE
    /\ UNCHANGED <<engine, listening, prepareSlot, asking>>

Call(t) ==
    /\ \E point \in {"stop", "sync", "toggle", "startAction", "stopAction"} :
           Launch(t, point)
    /\ UNCHANGED slotVars

\* onActivityResult, RESULT_OK or not: invokeVpnPrepareCallback.
PrepareResult(t) ==
    /\ asking > 0
    /\ asking' = asking - 1
    /\ \/ Launch(t, "prep")
       \/ UNCHANGED <<appVars, linkVars, remoteVars, calls, faults, drift>>
    /\ UNCHANGED <<engine, listening, noticeSlot, prepareSlot>>

\* MainActivity.configureFlutterEngine, with plugins of its own; the slot of
\* the last engine's plugin is not followed any further.
AttachEngine ==
    /\ ~engine /\ calls < MaxCalls
    /\ \A t \in Tasks : pc[t] \notin PreparePoints
    /\ engine' = TRUE
    /\ noticeSlot' = FALSE /\ prepareSlot' = FALSE /\ asking' = 0
    /\ calls' = calls + 1
    /\ UNCHANGED <<appVars, listening, linkVars, remoteVars, faults, drift>>

\* MainActivity.onDestroy
DetachEngine ==
    /\ engine /\ calls < MaxCalls
    /\ engine' = FALSE
    /\ asking' = 0
    /\ noticeSlot' = FALSE
    /\ calls' = calls + 1
    /\ UNCHANGED <<appVars, listening, prepareSlot, linkVars, remoteVars, faults,
                   drift>>

\* ServicePlugin.handleInit
PluginInit ==
    /\ engine /\ ~(bound /\ listening)
    /\ bound' = TRUE
    /\ listening' = TRUE
    /\ UNCHANGED <<appVars, engine, noticeSlot, prepareSlot, asking, disconnected,
                   remoteVars, calls, faults, drift>>

\* ServicePlugin.handleShutdown
Shutdown ==
    /\ engine /\ bound /\ calls < MaxCalls
    /\ bound' = FALSE
    /\ calls' = calls + 1
    /\ UNCHANGED <<appVars, slotVars, disconnected, remoteVars, faults, drift>>

-----------------------------------------------------------------------------
(* Calls of the service process, given up after five seconds.              *)

\* useService: the request is on its way if the app is bound, else it waits.
Send(t, request, time) ==
    /\ command' = [command EXCEPT ![t] = IF bound THEN request ELSE "waiting"]
    /\ passed' = [passed EXCEPT ![t] = time]
    /\ UNCHANGED <<remoteLock, remoteTime, attached, up>>

\* The app was bound while the request waited.
SendNow(t) ==
    /\ command[t] = "waiting" /\ bound
    /\ command' = [command EXCEPT ![t] = IF pc[t] = "stopCall" THEN "stop" ELSE "start"]
    /\ UNCHANGED <<appVars, slotVars, linkVars, passed, remoteLock, remoteTime,
                   attached, up, calls, faults, drift>>

CallPoint == [prepCall |-> "prepStore", startCall |-> "startStore",
              stopCall |-> "stopStore", syncCall |-> "syncStore"]

\* The answer, dropped when the caller has given up.
Answer(t, time) ==
    IF pc[t] \in DOMAIN CallPoint
    THEN /\ got' = [got EXCEPT ![t] = time]
         /\ pc' = [pc EXCEPT ![t] = CallPoint[@]]
    ELSE UNCHANGED <<got, pc>>

\* Variant: no withTimeout: a request waits for the binding.
TimeOutSentOnly(t) ==
    /\ pc[t] \in DOMAIN CallPoint
    /\ command[t] = "none" /\ ~(bound /\ pc[t] = "syncCall")
    /\ Answer(t, 0)
    /\ UNCHANGED <<runState, runTime, runLock, slotVars, linkVars, remoteVars, calls,
                   faults>>
    /\ Drift(TRUE)

\* A call that went nowhere, or whose answer is late, ends with 0: withTimeout,
\* getOrNull() ?: 0L.
TimeOut(t) ==
    /\ pc[t] \in DOMAIN CallPoint
    /\ \/ /\ command[t] = "waiting" \/ pc[t] = "syncCall" => ~bound
          /\ command[t] \in {"none", "waiting"}
          /\ UNCHANGED faults
       \/ faults < MaxFaults /\ faults' = faults + 1
    /\ command' = [command EXCEPT ![t] = IF @ = "waiting" THEN "none" ELSE @]
    /\ passed' = [passed EXCEPT ![t] = IF command[t] = "waiting" THEN 0 ELSE @]
    /\ Answer(t, 0)
    /\ UNCHANGED <<runState, runTime, runLock, slotVars, linkVars, remoteLock, remoteTime,
                   attached, up, calls>>
    /\ Drift(TRUE)

-----------------------------------------------------------------------------
(* The app's coroutines, State.kt.                                         *)

ToggleAction == [PENDING |-> "idle", START |-> "stopAction", STOP |-> "startAction"]

Toggle(t) == Checked(t, "toggle", ToggleAction[runState])

\* With an engine the tile's event goes to Dart, which calls back.
StartAction(t) ==
    \/ Refused(t, "startAction", "STOP")
    \/ runState = "STOP" /\ engine /\ Checked(t, "startAction", "idle")
    \/ runState = "STOP" /\ ~engine /\ Checked(t, "startAction", "setup")

StopAction(t) ==
    \/ Refused(t, "stopAction", "START")
    \/ runState = "START" /\ engine /\ Checked(t, "stopAction", "idle")
    \/ runState = "START" /\ ~engine /\ Checked(t, "stopAction", "stop")

\* startServiceWithPref, setupAndStart: bind, then quickSetup under the lock.
Setup(t) ==
    /\ Lock(t, "setup")
    /\ runState = "STOP"
    /\ runLock' = t
    /\ pc' = [pc EXCEPT ![t] = "setupCall"]
    /\ bound' = TRUE
    /\ command' = [command EXCEPT ![t] = "setup"]
    /\ UNCHANGED <<runState, runTime, got, slotVars, disconnected, passed,
                   remoteLock, remoteTime, attached, up, calls, faults, drift>>

\* setupAndStart returns, whether or not the service went on to onStarted.
SetupReturns(t) ==
    /\ command[t] = "setup" =>
           faults < MaxFaults \/ ~bound
    /\ faults' = IF command[t] = "setup" /\ bound THEN faults + 1 ELSE faults
    /\ pc[t] = "setupCall"
    /\ runLock' = NoTask
    /\ pc' = [pc EXCEPT ![t] = "idle"]
    /\ UNCHANGED <<runState, runTime, got, slotVars, linkVars, remoteVars, calls,
                   drift>>

\* Variant: the state was looked at before the lock was taken.
StartBeginUnchecked(t) ==
    /\ Lock(t, "start")
    /\ runLock' = t
    /\ pc' = [pc EXCEPT ![t] = "startChecked"]
    /\ UNCHANGED <<runState, runTime, got, slotVars, linkVars, remoteVars, calls, faults,
                   drift>>

\* startService looks at the state and finds STOP.
StartBegin(t) ==
    /\ Lock(t, "start")
    /\ runState = "STOP"
    /\ runLock' = t
    /\ pc' = [pc EXCEPT ![t] = "startChecked"]
    /\ UNCHANGED <<runState, runTime, got, slotVars, linkVars, remoteVars, calls, faults,
                   drift>>

\* PENDING, whatever the prepare callback has emitted since.
StartPending(t) ==
    /\ Show(t, "startChecked", "PENDING", "startBody")
    /\ UNCHANGED <<remoteVars, drift>>

\* No options; or no engine and no permission.
StartGivesUp(t) ==
    /\ pc[t] = "startBody"
    /\ pc' = [pc EXCEPT ![t] = "startFinally"]
    /\ UNCHANGED <<runState, runTime, runLock, got, slotVars, linkVars, remoteVars,
                   calls, faults, drift>>

\* AppPlugin.prepare: the slot is set; the callback is launched now or asked for.
Prepare(t) ==
    /\ pc[t] = "startBody" /\ engine
    /\ prepareSlot' = TRUE
    /\ \/ /\ asking' = asking + 1
          /\ pc' = [pc EXCEPT ![t] = "startFinally"]
       \/ \E s \in Tasks :
              /\ Fresh(s)
              /\ pc' = [pc EXCEPT ![t] = "startFinally", ![s] = "prep"]
              /\ UNCHANGED asking
    /\ UNCHANGED <<runState, runTime, runLock, got, engine, listening, noticeSlot,
                   linkVars, remoteVars, calls, faults, drift>>

\* Variant: startService without its finally.
StartWithoutFinally(t) == Emit(t, "startFinally", runState)

\* The finally of startService looks at the state.
StartFinally(t) ==
    \/ /\ runState = "PENDING"
       /\ Show(t, "startFinally", runState, "startReset")
       /\ UNCHANGED <<remoteVars, drift>>
    \/ /\ runState # "PENDING"
       /\ Emit(t, "startFinally", runState)

\* STOP, whatever the prepare callback has emitted since.
StartReset(t) == Emit(t, "startReset", "STOP")

\* The service may run already: the prepare callback of a start before this one
\* has emitted START since, and the engine is gone.
StartHeadless(t) ==
    /\ pc[t] = "startBody" /\ ~engine
    /\ pc' = [pc EXCEPT ![t] = "startCall"]
    /\ Send(t, "start", runTime)
    /\ UNCHANGED <<runState, runTime, runLock, got, slotVars, linkVars, calls, faults>>
    /\ Drift(runState = "START")

StartStore(t) == Store(t, "startStore", "startEmit")

StartEmit(t) == Emit(t, "startEmit", "START")

\* invokeVpnPrepareCallback's coroutine reads the slot when it runs.
InvokePrepare(t) ==
    /\ pc[t] = "prep"
    /\ pc' = [pc EXCEPT ![t] = IF prepareSlot THEN "prepTaken" ELSE "prepClear"]
    /\ UNCHANGED <<runState, runTime, runLock, got, slotVars, linkVars, remoteVars, calls,
                   faults, drift>>

\* The callback does not look at the state again, nor take the lock.
CallPrepared(t) ==
    /\ pc[t] = "prepTaken"
    /\ pc' = [pc EXCEPT ![t] = "prepCall"]
    /\ Send(t, "start", runTime)
    /\ UNCHANGED <<runState, runTime, runLock, got, slotVars, linkVars, calls, faults>>
    /\ Drift(runState = "START")

StorePrepared(t) == Store(t, "prepStore", "prepEmit")

\* START; a startService between its look at the state and what it emits for it
\* overwrites it.
EmitPrepared(t) ==
    /\ Show(t, "prepEmit", "START", "prepClear")
    /\ UNCHANGED remoteVars
    /\ Drift(\E s \in Tasks : pc[s] \in GapPoints)

\* The slot is emptied, whichever callback it holds by now.
ClearPrepared(t) ==
    /\ pc[t] = "prepClear"
    /\ prepareSlot' = FALSE
    /\ pc' = [pc EXCEPT ![t] = "idle"]
    /\ UNCHANGED <<runState, runTime, runLock, got, engine, listening, noticeSlot, asking,
                   linkVars, remoteVars, calls, faults, drift>>

\* A queued start, stop or setup that finds another state.
Refuse(t) ==
    \/ Refused(t, "start", "STOP")
    \/ Refused(t, "setup", "STOP")
    \/ Refused(t, "stop", "START")

StopBegin(t) ==
    /\ Lock(t, "stop")
    /\ runState = "START"
    /\ runLock' = t
    /\ pc' = [pc EXCEPT ![t] = "stopChecked"]
    /\ UNCHANGED <<runState, runTime, got, slotVars, linkVars, remoteVars, calls, faults,
                   drift>>

StopPending(t) ==
    /\ Show(t, "stopChecked", "PENDING", "stopCall")
    /\ Send(t, "stop", 0)
    /\ Drift(FALSE)

\* Variant: the answer of stopService is not stored.
StopStoreNothing(t) ==
    /\ pc[t] = "stopStore"
    /\ pc' = [pc EXCEPT ![t] = "stopEmit"]
    /\ UNCHANGED <<runState, runTime, runLock, got, slotVars, linkVars, remoteVars, calls,
                   faults, drift>>

StopStore(t) == Store(t, "stopStore", "stopEmit")

\* The finally that follows finds no PENDING: only the holder emits it.
StopEmit(t) == Emit(t, "stopEmit", "STOP")

\* handleSyncState: bind, and read the service's run time.
SyncBegin(t) ==
    /\ Lock(t, "sync")
    /\ runLock' = t
    /\ bound' = TRUE
    /\ pc' = [pc EXCEPT ![t] = "syncCall"]
    /\ UNCHANGED <<runState, runTime, got, slotVars, disconnected, remoteVars, calls,
                   faults>>
    /\ Drift(FALSE)

\* A read while nothing else is under way: the two agree again.
SyncRead(t) ==
    /\ pc[t] = "syncCall" /\ bound
    /\ Answer(t, remoteTime)
    /\ drift' = ~(/\ \A s \in Tasks \ {t} : pc[s] \notin CallPoints
                  /\ \A s \in Tasks : command[s] = "none"
                  /\ disconnected = {}
                  /\ up = (remoteTime # 0) /\ attached = up)
    /\ UNCHANGED <<runState, runTime, runLock, slotVars, linkVars, remoteVars, calls,
                   faults>>

SyncStore(t) == Store(t, "syncStore", "syncJudge")

\* The run time is read back; the prepare callback may have written it since.
SyncJudge(t) ==
    /\ pc[t] = "syncJudge"
    /\ got' = [got EXCEPT ![t] = runTime]
    /\ pc' = [pc EXCEPT ![t] = "syncEmit"]
    /\ UNCHANGED <<runState, runTime, runLock, slotVars, linkVars, remoteVars, calls, faults,
                   drift>>

SyncEmit(t) == Emit(t, "syncEmit", IF got[t] = 0 THEN "STOP" ELSE "START")

-----------------------------------------------------------------------------
(* The service process, RemoteService.kt.                                  *)

\* quickSetup calls onStarted, and the app starts the service.
OnStarted(t) ==
    /\ command[t] = "setup"
    /\ command' = [command EXCEPT ![t] = "none"]
    /\ \E s \in Tasks \ {t} : Fresh(s) /\ pc' = [pc EXCEPT ![s] = "start"]
    /\ UNCHANGED <<runState, runTime, runLock, got, slotVars, linkVars, passed,
                   remoteLock, remoteTime, attached, up, calls, faults, drift>>

\* handleStartService: the intents always differ, so it binds anew.
RemoteStart(t) ==
    /\ command[t] = "start" /\ remoteLock = NoTask
    /\ remoteLock' = t
    /\ attached' = TRUE
    /\ command' = [command EXCEPT ![t] = "starting"]
    /\ UNCHANGED <<appVars, slotVars, linkVars, passed, remoteTime, up, calls, faults,
                   drift>>

RemoteStop(t) ==
    /\ command[t] = "stop" /\ remoteLock = NoTask
    /\ remoteLock' = t
    /\ command' = [command EXCEPT ![t] = "stopping"]
    /\ UNCHANGED <<appVars, slotVars, linkVars, passed, remoteTime, attached, up, calls,
                   faults, drift>>

\* Both answer whether or not the service did what it was asked.
RemoteAnswer(t, time, nextUp, nextAttached, failed) ==
    /\ remoteLock = t
    /\ remoteLock' = NoTask
    /\ remoteTime' = time
    /\ up' = nextUp
    /\ attached' = nextAttached
    /\ command' = [command EXCEPT ![t] = "none"]
    /\ passed' = [passed EXCEPT ![t] = 0]
    /\ faults' = IF failed THEN faults + 1 ELSE faults
    /\ faults' <= MaxFaults
    /\ Answer(t, time)
    /\ UNCHANGED <<runState, runTime, runLock, slotVars, linkVars, calls>>

RemoteStarted(t, failed) ==
    /\ command[t] = "starting"
    /\ \E now \in Times :
           RemoteAnswer(t, IF passed[t] # 0 THEN passed[t] ELSE now,
                        up \/ ~failed, TRUE, failed)
    /\ Drift(failed)

\* With no binding left useService times out here as well.
RemoteStopped(t, failed) ==
    /\ command[t] = "stopping"
    /\ IF failed \/ ~attached
       THEN RemoteAnswer(t, 0, up, attached, failed)
       ELSE RemoteAnswer(t, 0, FALSE, FALSE, FALSE)
    /\ Drift(failed)

-----------------------------------------------------------------------------
(* Deaths.                                                                 *)

\* The service process dies and what it was doing is lost.
RemoteDies ==
    /\ faults < MaxFaults
    /\ remoteTime # 0 \/ bound
    /\ faults' = faults + 1
    /\ remoteTime' = 0 /\ attached' = FALSE /\ up' = FALSE
    /\ remoteLock' = NoTask
    /\ command' = [t \in Tasks |-> IF command[t] = "waiting" THEN "waiting" ELSE "none"]
    /\ passed' = [t \in Tasks |-> IF command[t] = "waiting" THEN passed[t] ELSE 0]
    /\ disconnected' = disconnected \cup (IF bound THEN {"lost"} ELSE {})
    /\ UNCHANGED <<appVars, slotVars, bound, calls>>
    /\ Drift(TRUE)

\* ServiceDelegate.handleBind, told of it, unbinds.
HandleLost ==
    /\ "lost" \in disconnected
    /\ disconnected' = (disconnected \ {"lost"}) \cup {"unbound"}
    /\ bound' = FALSE
    /\ UNCHANGED <<appVars, slotVars, remoteVars, calls, faults, drift>>

\* ServicePlugin, once there is one, emits STOP, without the lock.
OnServiceDisconnected ==
    /\ "unbound" \in disconnected
    /\ disconnected' = disconnected \ {"unbound"}
    /\ runState' = IF listening THEN "STOP" ELSE runState
    /\ UNCHANGED <<runTime, runLock, pc, got, slotVars, bound, remoteVars, calls, faults,
                   drift>>

\* The app process dies and starts again; the service process goes on.
AppDies ==
    /\ faults < MaxFaults
    /\ \E t \in Tasks : pc[t] # "idle" \/ runState # "STOP"
    /\ faults' = faults + 1
    /\ runState' = "STOP" /\ runTime' = 0 /\ runLock' = NoTask
    /\ pc' = [t \in Tasks |-> "idle"]
    /\ engine' = FALSE /\ listening' = FALSE
    /\ noticeSlot' = FALSE /\ prepareSlot' = FALSE /\ asking' = 0
    /\ bound' = FALSE /\ disconnected' = {}
    /\ got' = [t \in Tasks |-> 0]
    /\ LET kept == {t \in Tasks : command[t] \notin {"none", "waiting", "setup"}}
       IN  /\ command' = [t \in Tasks |-> IF t \in kept THEN command[t] ELSE "none"]
           /\ passed' = [t \in Tasks |-> IF t \in kept THEN passed[t] ELSE 0]
    /\ UNCHANGED <<remoteLock, remoteTime, attached, up, calls>>
    /\ Drift(TRUE)

-----------------------------------------------------------------------------
TaskStep(t) ==
    \/ Toggle(t) \/ StartAction(t) \/ StopAction(t)
    \/ Setup(t) \/ SetupReturns(t) \/ Refuse(t)
    \/ StartBegin(t) \/ StartPending(t) \/ StartGivesUp(t) \/ Prepare(t)
    \/ StartFinally(t) \/ StartReset(t)
    \/ StartHeadless(t) \/ StartStore(t) \/ StartEmit(t)
    \/ InvokePrepare(t) \/ CallPrepared(t) \/ StorePrepared(t) \/ EmitPrepared(t)
    \/ ClearPrepared(t)
    \/ StopBegin(t) \/ StopPending(t) \/ StopStore(t) \/ StopEmit(t)
    \/ SyncBegin(t) \/ SyncRead(t) \/ SyncStore(t) \/ SyncJudge(t) \/ SyncEmit(t)
    \/ SendNow(t) \/ TimeOut(t)

RemoteStep(t) ==
    \/ OnStarted(t)
    \/ RemoteStart(t) \/ RemoteStop(t)
    \/ \E failed \in BOOLEAN : RemoteStarted(t, failed) \/ RemoteStopped(t, failed)

Entry(t) ==
    CallStart(t) \/ NoticeResult(t) \/ Call(t) \/ PrepareResult(t)

Next ==
    \/ \E t \in Tasks : TaskStep(t) \/ RemoteStep(t) \/ Entry(t)
    \/ AttachEngine \/ DetachEngine \/ PluginInit \/ Shutdown
    \/ RemoteDies \/ HandleLost \/ OnServiceDisconnected \/ AppDies

Spec == Init /\ [][Next]_vars

\* A coroutine, with what the service process does for it, goes on when it can.
FairSpec ==
    /\ Spec
    /\ \A t \in Tasks : WF_vars(TaskStep(t) \/ RemoteStep(t))

-----------------------------------------------------------------------------
\* The tile never sticks at "unavailable": PENDING is shown only by a start or
\* a stop that holds runLock and will emit again before it lets go (State.kt,
\* the finally of startService and handleStopService).
PendingIsHeld ==
    runState = "PENDING" =>
        \E t \in Tasks :
            /\ runLock = t
            /\ pc[t] \in StartingPoints \cup StoppingPoints

\* When nothing is under way the app and the service process agree on whether
\* the VPN runs and since when, and the service does what it says, unless a call
\* failed or was late, a process died, or the unlocked prepare callback met
\* another call, a running service, or a startService between its look at the
\* state and the PENDING or STOP it emits for it (State.kt:156-160, 176-177).  A
\* handleSyncState that runs alone makes them agree again.
Agreement ==
    Quiet /\ ~drift =>
        /\ (runState = "START") = (remoteTime # 0)
        /\ runTime = remoteTime
        /\ up = (remoteTime # 0)

\* Under the same conditions the service process never starts a service over a
\* running one: RemoteService.handleStartService would unbind it unstopped.
NoStartOverRunning ==
    [][\A t \in Tasks :
           command[t] = "start" /\ command'[t] = "starting" /\ ~drift' => ~up]_vars

\* runLock is always let go, whatever the service process does: no order of
\* starts, stops, late answers and deaths leaves a coroutine holding it (State.kt,
\* the timeout of ServiceDelegate.useService).
LockIsLetGo == (runLock # NoTask) ~> (runLock = NoTask)
=============================================================================
