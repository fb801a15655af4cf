------------------------- MODULE CoreSession_proofs -------------------------
(***************************************************************************)
(* Proofs about CoreSession: the type invariant, and what holds however    *)
(* many restarts overlap, for any number of cores, tasks and requests.     *)
(*                                                                         *)
(* With the type invariant OneOpenSocket and NoMissedSocket are inductive: *)
(* a socket is only attached while none is, and by then no socket is open  *)
(* and whoever waited for it is moved on in the same step.                 *)
(***************************************************************************)
EXTENDS CoreSession, TLAPS

USE DEF Points, Closing, appVars, coreVars, taskVars, callVars, history

TaskAction == \E t \in Tasks : (t \in Restarters /\ Restart(t)) \/ TaskStep(t)

CoreAction == \E c \in Cores : Dial(c) \/ Exit(c) \/ Crash(c) \/ SocketStep(c)

RequestAction ==
    \E r \in Requests :
        \/ Invoke(r) \/ NoSocket(r) \/ Handle(r) \/ HandleResult(r)
        \/ Timeout(r) \/ RemoveEntry(r) \/ Forget(r)

\* A step is one of a task, of a core or its socket, or of a request, or
\* changes nothing.
LEMMA SessionSplit ==
    [Next]_vars => TaskAction \/ CoreAction \/ RequestAction \/ UNCHANGED vars
BY DEF Next, Tasks, TaskAction, CoreAction, RequestAction

-----------------------------------------------------------------------------
(* Type correctness *)

\* The points of the tasks after one of them moved.
LEMMA GotoType ==
    ASSUME TypeOK, NEW t \in Tasks, NEW point \in Points, Goto(t, point)
    PROVE  pc' \in [Tasks -> Points]
BY DEF TypeOK, Goto

\* A shutdown that begins keeps the types of what it changes.
LEMMA BeginShutdownType ==
    ASSUME TypeOK, NEW t \in Tasks, NEW point \in Closing, BeginShutdown(t, point)
    PROVE  /\ attached' \in Cores \cup {NoCore}
           /\ shutdownDone' \in BOOLEAN
           /\ socket' \in [Cores -> {"none", "pending", "accepting", "open", "closed", "lost"}]
           /\ pc' \in [Tasks -> Points]
BY DEF TypeOK, BeginShutdown, DestroySocket, CloseAttached, ShutdownPoints

\* A socket that is attached keeps the types of what it changes.
LEMMA CompleteSocketType ==
    ASSUME TypeOK, NEW c \in Cores, CompleteSocket(c),
           UNCHANGED <<status, process, shutdownDone, core, killed, started, failed>>
    PROVE  TypeOK'
<1>1. CASE attached # NoCore
  BY <1>1 DEF TypeOK, CompleteSocket
<1>2. CASE attached = NoCore
  BY <1>2 DEF TypeOK, CompleteSocket, Send
<1>. QED
  BY <1>1, <1>2

\* A step of a task keeps the types.
LEMMA TaskType ==
    ASSUME TypeOK, TaskAction
    PROVE  TypeOK'
<1>1. PICK t \in Tasks : (t \in Restarters /\ Restart(t)) \/ TaskStep(t)
  BY DEF TaskAction
<1>2. CASE Restart(t)
  <2>1. CASE NothingToStop
    BY <1>2, <2>1, GotoType DEF TypeOK, Restart
  <2>2. CASE ~NothingToStop
    BY <1>2, <2>2, BeginShutdownType DEF TypeOK, Restart
  <2>. QED
    BY <2>1, <2>2
<1>3. CASE FinishShutdown(t)
  <2>1. AfterKill(t) \in Points
    BY <1>3 DEF FinishShutdown, AfterKill
  <2>2. pc' \in [Tasks -> Points]
    BY <1>3, <2>1, GotoType DEF FinishShutdown
  <2>. QED
    BY <1>3, <2>2 DEF TypeOK, FinishShutdown, ClearCompleters
<1>4. CASE Connect(t)
  <2>1. CASE process = NoCore
    BY <1>4, <2>1, GotoType DEF TypeOK, Connect
  <2>2. CASE process # NoCore
    BY <1>4, <2>2, BeginShutdownType DEF TypeOK, Connect
  <2>. QED
    BY <2>1, <2>2
<1>5. CASE Spawn(t)
  BY <1>5, GotoType DEF TypeOK, Spawn
<1>6. CASE SpawnFails(t)
  BY <1>6, GotoType DEF TypeOK, SpawnFails
<1>7. CASE StoreProcess(t)
  BY <1>7, GotoType DEF TypeOK, StoreProcess
<1>8. CASE Connected(t)
  BY <1>8, GotoType DEF TypeOK, Connected
<1>. QED
  BY <1>1, <1>2, <1>3, <1>4, <1>5, <1>6, <1>7, <1>8 DEF TaskStep

\* A step of a core or of its socket keeps the types.
LEMMA CoreType ==
    ASSUME TypeOK, CoreAction
    PROVE  TypeOK'
<1>1. PICK c \in Cores : Dial(c) \/ Exit(c) \/ Crash(c) \/ SocketStep(c)
  BY DEF CoreAction
<1>2. CASE Dial(c)
  BY <1>2 DEF TypeOK, Dial
<1>3. CASE Exit(c)
  BY <1>3 DEF TypeOK, Exit, CoreEnds
<1>4. CASE Crash(c)
  BY <1>4 DEF TypeOK, Crash, CoreEnds
<1>5. CASE Attach(c)
  BY <1>5, CompleteSocketType DEF Attach
<1>6. CASE AttachOver(c)
  BY <1>6 DEF TypeOK, AttachOver, CloseAttached
<1>7. CASE AttachAfterClose(c)
  BY <1>7, CompleteSocketType DEF AttachAfterClose
<1>8. CASE SocketDone(c)
  <2>1. PointsAfterDone \in [Tasks -> Points]
    BY DEF TypeOK, PointsAfterDone
  <2>2. CASE status = "connected" /\ ~NothingToStop
    <3>1. PICK t \in Crashers : pc' = ShutdownPoints(t, "closeCrash", PointsAfterDone)
      BY <1>8, <2>2 DEF SocketDone
    <3>2. pc' \in [Tasks -> Points]
      BY <2>1, <3>1 DEF ShutdownPoints
    <3>3. /\ status' \in {"disconnected", "connecting", "connected"}
          /\ socket' \in [Cores -> {"none", "pending", "accepting", "open", "closed", "lost"}]
          /\ attached' = NoCore /\ shutdownDone' = FALSE
      BY <1>8, <2>2 DEF TypeOK, SocketDone, StatusAfterDone, CloseAttached
    <3>. QED
      BY <1>8, <3>2, <3>3 DEF TypeOK, SocketDone
  <2>3. CASE ~(status = "connected" /\ ~NothingToStop)
    <3>1. pc' \in [Tasks -> Points]
      BY <1>8, <2>1, <2>3 DEF SocketDone
    <3>. QED
      BY <1>8, <2>3, <3>1 DEF TypeOK, SocketDone, StatusAfterDone
  <2>. QED
    BY <2>2, <2>3
<1>. QED
  BY <1>1, <1>2, <1>3, <1>4, <1>5, <1>6, <1>7, <1>8 DEF SocketStep

\* A step of a request keeps the types.
LEMMA RequestType ==
    ASSUME TypeOK, RequestAction
    PROVE  TypeOK'
<1>1. PICK r \in Requests :
        \/ Invoke(r) \/ NoSocket(r) \/ Handle(r) \/ HandleResult(r)
        \/ Timeout(r) \/ RemoveEntry(r) \/ Forget(r)
  BY DEF RequestAction
<1>2. CASE Invoke(r)
  BY <1>2 DEF TypeOK, Invoke, Send
<1>3. CASE NoSocket(r)
  BY <1>3 DEF TypeOK, NoSocket
<1>4. CASE Handle(r)
  BY <1>4 DEF TypeOK, Handle
<1>5. CASE HandleResult(r)
  BY <1>5 DEF TypeOK, HandleResult
<1>6. CASE Timeout(r)
  BY <1>6 DEF TypeOK, Timeout
<1>7. CASE RemoveEntry(r)
  BY <1>7 DEF TypeOK, RemoveEntry
<1>8. CASE Forget(r)
  BY <1>8 DEF TypeOK, Forget
<1>. QED
  BY <1>1, <1>2, <1>3, <1>4, <1>5, <1>6, <1>7, <1>8

\* The initial states are well typed.
LEMMA SessionTypeInit == Init => TypeOK
<1>. SUFFICES ASSUME Init PROVE TypeOK
  OBVIOUS
<1>1. pc \in [Tasks -> Points]
  BY DEF Init
<1>. QED
  BY <1>1 DEF Init, TypeOK

\* The state of the session keeps its types: service.dart for any number of
\* cores, restarts and requests.
THEOREM SessionTypeCorrect == Spec => []TypeOK
<1>1. TypeOK /\ [Next]_vars => TypeOK'
  <2>1. CASE UNCHANGED vars
    BY <2>1 DEF TypeOK, vars
  <2>. QED
    BY <2>1, SessionSplit, TaskType, CoreType, RequestType
<1>. QED
  BY <1>1, SessionTypeInit, PTL DEF Spec

-----------------------------------------------------------------------------
(* The socket, however many restarts overlap *)

\* What waits for the socket and what reads from it, as one invariant.
SocketInv == OneOpenSocket /\ NoMissedSocket

\* A shutdown closes the attached socket: none is open afterwards, and who
\* waits for one still has none.
LEMMA BeginShutdownSocket ==
    ASSUME TypeOK, SocketInv, NEW t \in Tasks, NEW point \in Closing,
           BeginShutdown(t, point)
    PROVE  OneOpenSocket' /\ attached' = NoCore
BY CoresAssumption
   DEF TypeOK, SocketInv, OneOpenSocket, BeginShutdown, DestroySocket, CloseAttached

\* A socket that arrives is either the only open one, and moves on who
\* waited for it, or is lost.
LEMMA CompleteSocketKeeps ==
    ASSUME TypeOK, SocketInv, NEW c \in Cores, CompleteSocket(c)
    PROVE  SocketInv'
<1>1. CASE attached # NoCore
  BY <1>1 DEF TypeOK, SocketInv, OneOpenSocket, NoMissedSocket, CompleteSocket
<1>2. CASE attached = NoCore
  <2>1. \A d \in Cores : socket[d] # "open"
    BY <1>2, CoresAssumption DEF SocketInv, OneOpenSocket
  <2>2. OneOpenSocket'
    BY <1>2, <2>1 DEF TypeOK, OneOpenSocket, CompleteSocket
  <2>3. NoMissedSocket'
    BY <1>2 DEF TypeOK, NoMissedSocket, CompleteSocket, Send
  <2>. QED
    BY <2>2, <2>3 DEF SocketInv
<1>. QED
  BY <1>1, <1>2

\* A step of a task keeps the invariant of the sockets.
LEMMA TaskSocket ==
    ASSUME TypeOK, SocketInv, TaskAction
    PROVE  SocketInv'
<1>. USE DEF SocketInv
<1>1. PICK t \in Tasks : (t \in Restarters /\ Restart(t)) \/ TaskStep(t)
  BY DEF TaskAction
<1>2. CASE Restart(t)
  <2>1. CASE NothingToStop
    BY <1>2, <2>1 DEF TypeOK, Restart, Goto, OneOpenSocket, NoMissedSocket
  <2>2. CASE ~NothingToStop
    <3>1. OneOpenSocket' /\ attached' = NoCore
      BY <1>2, <2>2, BeginShutdownSocket DEF Restart
    <3>. QED
      BY <3>1 DEF NoMissedSocket
  <2>. QED
    BY <2>1, <2>2
<1>3. CASE FinishShutdown(t)
  <2>1. AfterKill(t) # "awaitSocket"
    BY <1>3 DEF FinishShutdown, AfterKill
  <2>. QED
    BY <1>3, <2>1
       DEF TypeOK, FinishShutdown, ClearCompleters, Goto, OneOpenSocket, NoMissedSocket
<1>4. CASE Connect(t)
  <2>1. CASE process = NoCore
    BY <1>4, <2>1 DEF TypeOK, Connect, Goto, OneOpenSocket, NoMissedSocket
  <2>2. CASE process # NoCore
    <3>1. OneOpenSocket' /\ attached' = NoCore
      BY <1>4, <2>2, BeginShutdownSocket DEF Connect
    <3>. QED
      BY <3>1 DEF NoMissedSocket
  <2>. QED
    BY <2>1, <2>2
<1>5. CASE Spawn(t)
  BY <1>5 DEF TypeOK, Spawn, Goto, OneOpenSocket, NoMissedSocket
<1>6. CASE SpawnFails(t)
  BY <1>6 DEF TypeOK, SpawnFails, Goto, OneOpenSocket, NoMissedSocket
<1>7. CASE StoreProcess(t)
  BY <1>7 DEF TypeOK, StoreProcess, Goto, OneOpenSocket, NoMissedSocket
<1>8. CASE Connected(t)
  BY <1>8 DEF TypeOK, Connected, Goto, OneOpenSocket, NoMissedSocket
<1>. QED
  BY <1>1, <1>2, <1>3, <1>4, <1>5, <1>6, <1>7, <1>8 DEF TaskStep

\* A step of a core or of its socket keeps it.
LEMMA CoreSocket ==
    ASSUME TypeOK, SocketInv, CoreAction
    PROVE  SocketInv'
<1>1. PICK c \in Cores : Dial(c) \/ Exit(c) \/ Crash(c) \/ SocketStep(c)
  BY DEF CoreAction
<1>2. CASE Dial(c)
  BY <1>2 DEF TypeOK, Dial, SocketInv, OneOpenSocket, NoMissedSocket
<1>3. CASE Exit(c) \/ Crash(c)
  BY <1>3 DEF Exit, Crash, CoreEnds, SocketInv, OneOpenSocket, NoMissedSocket
<1>4. CASE Attach(c)
  BY <1>4, CompleteSocketKeeps DEF Attach
<1>5. CASE AttachOver(c)
  BY <1>5 DEF TypeOK, AttachOver, CloseAttached, SocketInv, OneOpenSocket, NoMissedSocket
<1>6. CASE AttachAfterClose(c)
  BY <1>6, CompleteSocketKeeps DEF AttachAfterClose
<1>7. CASE SocketDone(c)
  <2>1. CASE status = "connected" /\ ~NothingToStop
    <3>1. \A d \in Cores : CloseAttached[d] # "open"
      BY DEF CloseAttached, SocketInv, OneOpenSocket
    <3>2. attached' = NoCore /\ socket' = [CloseAttached EXCEPT ![c] = "none"]
      BY <1>7, <2>1 DEF SocketDone
    <3>3. \A d \in Cores : socket'[d] # "open"
      BY <3>1, <3>2 DEF CloseAttached
    <3>. QED
      BY <3>2, <3>3 DEF SocketInv, OneOpenSocket, NoMissedSocket
  <2>2. CASE ~(status = "connected" /\ ~NothingToStop)
    BY <1>7, <2>2
       DEF TypeOK, SocketDone, PointsAfterDone, SocketInv, OneOpenSocket, NoMissedSocket
  <2>. QED
    BY <2>1, <2>2
<1>. QED
  BY <1>1, <1>2, <1>3, <1>4, <1>5, <1>6, <1>7 DEF SocketStep

\* A step of a request keeps it.
LEMMA RequestSocket ==
    ASSUME TypeOK, SocketInv, RequestAction
    PROVE  SocketInv'
<1>. USE DEF TypeOK, SocketInv, OneOpenSocket, NoMissedSocket
<1>1. PICK r \in Requests :
        \/ Invoke(r) \/ NoSocket(r) \/ Handle(r) \/ HandleResult(r)
        \/ Timeout(r) \/ RemoveEntry(r) \/ Forget(r)
  BY DEF RequestAction
<1>2. CASE Invoke(r)
  BY <1>2 DEF Invoke, Send
<1>3. CASE NoSocket(r) \/ Timeout(r)
  BY <1>3 DEF NoSocket, Timeout
<1>4. CASE Handle(r) \/ RemoveEntry(r) \/ Forget(r)
  BY <1>4 DEF Handle, RemoveEntry, Forget
<1>5. CASE HandleResult(r)
  BY <1>5 DEF HandleResult
<1>. QED
  BY <1>1, <1>2, <1>3, <1>4, <1>5

\* It holds initially.
LEMMA SocketInitially == Init => SocketInv
BY DEF Init, SocketInv, OneOpenSocket, NoMissedSocket

\* The sockets keep their invariant through every step of the session.
THEOREM SocketInvariance == Spec => []SocketInv
<1>1. TypeOK /\ SocketInv /\ [Next]_vars => SocketInv'
  <2>1. CASE UNCHANGED vars
    BY <2>1 DEF SocketInv, OneOpenSocket, NoMissedSocket, vars
  <2>. QED
    BY <2>1, SessionSplit, TaskSocket, CoreSocket, RequestSocket
<1>. QED
  BY <1>1, SocketInitially, SessionTypeCorrect, PTL DEF Spec

\* However many restarts overlap, only the attached socket is read from
\* (_attachSocket, _destroySocket).
THEOREM OneOpenSocketSafe == Spec => []OneOpenSocket
<1>1. SocketInv => OneOpenSocket
  BY DEF SocketInv
<1>. QED
  BY <1>1, SocketInvariance, PTL

\* Nobody waits for a socket that is already there (start, _invoke).
THEOREM NoMissedSocketSafe == Spec => []NoMissedSocket
<1>1. SocketInv => NoMissedSocket
  BY DEF SocketInv
<1>. QED
  BY <1>1, SocketInvariance, PTL

-----------------------------------------------------------------------------
(***************************************************************************)
(* One restart at a time.  SessionInv says which core is live at each      *)
(* point of the restarter r: none while it connects, the one it started    *)
(* while it waits, the attached one while it is idle, and one whose socket *)
(* is closed while it shuts down.  onCrash only runs when none is.         *)
(***************************************************************************)

\* A core that runs, or whose socket has not ended yet.
Live(c) == Alive(c) \/ socket[c] # "none"

NoneLive == \A c \in Cores : ~Live(c)

\* Where the tasks can be.
TasksInv(r) ==
    /\ pc[r] \notin {"orphaned", "closeStart", "closeCrash"}
    /\ \A k \in Crashers : pc[k] \in {"idle", "closeCrash"}
    /\ \A t \in Tasks : started[t] # NoCore => t = r /\ pc[r] = "spawned"
    /\ pc[r] = "spawned" => started[r] # NoCore

\* The stored process, the attached socket and the status.
StoredInv(r) ==
    /\ pc[r] \in {"awaitDone", "connect", "spawn", "spawned"} => process = NoCore
    /\ attached # NoCore => \/ pc[r] \in {"idle", "connected"} /\ attached = process
                            \/ pc[r] = "spawned" /\ attached = started[r]
    /\ pc[r] = "connected" => attached # NoCore
    /\ status = "connected" => pc[r] = "idle" /\ attached # NoCore

\* The live core.
LiveInv(r) ==
    /\ \A c \in Cores : core[c] = "running" => socket[c] = "none"
    /\ \A c, d \in Cores : Live(c) /\ Live(d) => c = d
    /\ \A c \in Cores : Live(c) =>
          \/ pc[r] \in {"idle", "connected"} /\ c = attached /\ socket[c] = "open"
          \/ pc[r] = "closeUser" /\ socket[c] = "closed" /\ ~shutdownDone
                /\ (Alive(c) => c = process \/ c \in killed)
          \/ pc[r] = "awaitDone" /\ socket[c] = "closed"
                /\ (Alive(c) => c \in killed)
          \/ pc[r] = "spawned" /\ c = started[r] /\ attached = NoCore
                /\ socket[c] \in {"none", "pending"}
          \/ pc[r] = "spawned" /\ c = started[r] /\ attached = c /\ socket[c] = "open"
          \/ pc[r] = "awaitSocket" /\ c = process /\ socket[c] \in {"none", "pending"}

\* onCrash shuts down what is gone already, and one at a time does.
CrashInv(r) ==
    /\ \A k \in Crashers : pc[k] = "closeCrash" =>
          /\ NoneLive
          /\ attached = NoCore /\ ~shutdownDone
          /\ pc[r] \in {"idle", "closeUser", "awaitDone"}
          /\ pc[r] = "idle" => process # NoCore
    /\ \A k, l \in Crashers : pc[k] = "closeCrash" /\ pc[l] = "closeCrash" => k = l

\* The requests under way.
CallsInv ==
    /\ CompletedOnce
    /\ RequestsInSession
    /\ \A r \in Requests : completer[r] = "open" => sentTo[r] # NoCore

SessionInv(r) ==
    /\ TypeOK
    /\ TasksInv(r)
    /\ StoredInv(r)
    /\ LiveInv(r)
    /\ CrashInv(r)
    /\ CallsInv

-----------------------------------------------------------------------------
(* The steps of the restarter *)

\* The parts of SessionInv a step has to keep, beside the types.
Kept(r) == TasksInv(r) /\ StoredInv(r) /\ LiveInv(r) /\ CrashInv(r) /\ CallsInv

\* restartCore begins: the attached socket is closed.
LEMMA RestartKeeps ==
    ASSUME NEW r \in Restarters, Restarters = {r}, SessionInv(r), Restart(r)
    PROVE  Kept(r)'
<1>. USE TasksAssumption, CoresAssumption
     DEF SessionInv, TypeOK, Tasks, TasksInv, StoredInv, Restart
<1>1. CASE NothingToStop
  <2>1. NoneLive /\ \A k \in Crashers : pc[k] # "closeCrash"
    BY <1>1 DEF LiveInv, CrashInv, NothingToStop, NoneLive
  <2>2. pc' = [pc EXCEPT ![r] = "connect"]
        /\ UNCHANGED <<attached, shutdownDone, socket, process, core, killed, started,
                       caller, completer, sentTo, reply, stateError, failed>>
        /\ status' = "disconnected" /\ process = NoCore /\ attached = NoCore
    BY <1>1 DEF Goto, NothingToStop
  <2>3. TasksInv(r)' /\ StoredInv(r)'
    BY <2>2
  <2>4. LiveInv(r)' /\ CrashInv(r)'
    BY <2>1, <2>2 DEF LiveInv, CrashInv, NoneLive, Live, Alive
  <2>5. CallsInv'
    BY <2>2 DEF CallsInv, CompletedOnce, RequestsInSession
  <2>. QED
    BY <2>3, <2>4, <2>5 DEF Kept
<1>2. CASE ~NothingToStop
  <2>1. /\ shutdownDone' = FALSE /\ attached' = NoCore /\ status' = "disconnected"
        /\ socket' = CloseAttached
        /\ UNCHANGED <<process, core, killed, started,
                       caller, completer, sentTo, reply, stateError, failed>>
    BY <1>2 DEF BeginShutdown, DestroySocket
  <2>2. /\ pc'[r] = "closeUser"
        /\ \A k \in Crashers : pc'[k] = pc[k]
    BY <1>2 DEF BeginShutdown, ShutdownPoints
  <2>3. TasksInv(r)' /\ StoredInv(r)'
    BY <2>1, <2>2
  <2>4. \A c \in Cores : Live(c)' <=> Live(c)
    BY <2>1 DEF Live, Alive, CloseAttached
  <2>5. LiveInv(r)'
    <3>3. \A c \in Cores : Live(c) => socket'[c] = "closed"
      BY <2>1 DEF LiveInv, CloseAttached
    <3>4. \A c \in Cores : core'[c] = "running" => socket'[c] = "none"
      BY <2>1 DEF LiveInv, CloseAttached
    <3>. QED
      BY <2>1, <2>2, <2>4, <3>3, <3>4 DEF LiveInv
  <2>6. CrashInv(r)'
    BY <2>1, <2>2, <2>4 DEF CrashInv, NoneLive
  <2>7. CallsInv'
    BY <2>1, <2>2 DEF CallsInv, CompletedOnce, RequestsInSession, Closing
  <2>. QED
    BY <2>3, <2>5, <2>6, <2>7 DEF Kept
<1>. QED
  BY <1>1, <1>2

\* shutdown(true) finishes its shutdown.
LEMMA FinishUserKeeps ==
    ASSUME NEW r \in Restarters, Restarters = {r}, SessionInv(r), FinishShutdown(r)
    PROVE  Kept(r)'
<1>. USE TasksAssumption, CoresAssumption
     DEF SessionInv, TypeOK, Tasks, TasksInv, StoredInv, FinishShutdown, ClearCompleters
<1>1. pc[r] = "closeUser"
  BY DEF Closing
<1>2. pc' = [pc EXCEPT ![r] = IF shutdownDone THEN "connect" ELSE "awaitDone"]
  BY <1>1 DEF Goto, AfterKill
<1>3. attached = NoCore
  BY <1>1
<1>4. TasksInv(r)' /\ StoredInv(r)'
  BY <1>1, <1>2, <1>3
<1>5. LiveInv(r)'
  BY <1>1, <1>2 DEF LiveInv, Live, Alive
<1>6. CrashInv(r)'
  <2>1. \A k \in Crashers : pc'[k] = pc[k]
    BY <1>2
  <2>2. CASE shutdownDone
    BY <1>1, <1>2, <2>1, <2>2 DEF CrashInv, NoneLive, Live, Alive
  <2>. QED
    BY <1>1, <1>2, <2>1 DEF CrashInv, NoneLive, Live, Alive
<1>7. CallsInv'
  BY DEF CallsInv, CompletedOnce, RequestsInSession
<1>. QED
  BY <1>4, <1>5, <1>6, <1>7 DEF Kept

\* onCrash finishes its shutdown.
LEMMA FinishCrashKeeps ==
    ASSUME NEW r \in Restarters, Restarters = {r}, SessionInv(r),
           NEW k \in Crashers, FinishShutdown(k)
    PROVE  Kept(r)'
<1>. USE TasksAssumption, CoresAssumption
     DEF SessionInv, TypeOK, Tasks, TasksInv, StoredInv, FinishShutdown, ClearCompleters
<1>1. pc[k] = "closeCrash"
  BY DEF Closing
<1>2. pc' = [pc EXCEPT ![k] = "idle"]
  BY <1>1 DEF Goto, AfterKill
<1>3. k # r /\ pc'[r] = pc[r]
  BY <1>2
<1>4. attached = NoCore /\ NoneLive /\ pc[r] \in {"idle", "closeUser", "awaitDone"}
  BY <1>1 DEF CrashInv
<1>5. TasksInv(r)' /\ StoredInv(r)'
  BY <1>2, <1>3, <1>4
<1>6. LiveInv(r)'
  BY <1>3, <1>4 DEF LiveInv, NoneLive, Live, Alive
<1>7. CrashInv(r)'
  BY <1>1, <1>2 DEF CrashInv
<1>8. CallsInv'
  BY DEF CallsInv, CompletedOnce, RequestsInSession
<1>. QED
  BY <1>5, <1>6, <1>7, <1>8 DEF Kept

\* _connectCore begins: no process is stored, so start does not shut down.
LEMMA ConnectKeeps ==
    ASSUME NEW r \in Restarters, Restarters = {r}, SessionInv(r),
           Connect(r) \/ SpawnFails(r)
    PROVE  Kept(r)'
<1>. USE TasksAssumption, CoresAssumption
     DEF SessionInv, TypeOK, Tasks, TasksInv, StoredInv, Connect, SpawnFails, Goto
<1>1. /\ process = NoCore /\ attached = NoCore /\ status' # "connected"
      /\ pc' \in {[pc EXCEPT ![r] = "spawn"], [pc EXCEPT ![r] = "idle"]}
      /\ UNCHANGED <<attached, shutdownDone, socket, process, core, killed, started,
                     caller, completer, sentTo, reply, stateError>>
  OBVIOUS
<1>2. NoneLive /\ \A k \in Crashers : pc[k] # "closeCrash"
  BY DEF LiveInv, CrashInv, NoneLive
<1>3. TasksInv(r)' /\ StoredInv(r)'
  BY <1>1
<1>4. LiveInv(r)' /\ CrashInv(r)'
  BY <1>1, <1>2 DEF LiveInv, CrashInv, NoneLive, Live, Alive
<1>5. CallsInv'
  BY <1>1, <1>2 DEF CallsInv, CompletedOnce, RequestsInSession, Closing
<1>. QED
  BY <1>3, <1>4, <1>5 DEF Kept

\* A core is started, or none can be.
LEMMA SpawnKeeps ==
    ASSUME NEW r \in Restarters, Restarters = {r}, SessionInv(r), Spawn(r)
    PROVE  Kept(r)'
<1>. USE TasksAssumption, CoresAssumption
     DEF SessionInv, TypeOK, Tasks, TasksInv, StoredInv, Goto
<1>1. PICK c \in Cores : /\ Fresh(c)
                         /\ core' = [core EXCEPT ![c] = "running"]
                         /\ socket' = [socket EXCEPT ![c] = "none"]
                         /\ started' = [started EXCEPT ![r] = c]
  BY DEF Spawn
<1>2. /\ pc[r] = "spawn" /\ pc' = [pc EXCEPT ![r] = "spawned"]
      /\ UNCHANGED <<status, process, attached, shutdownDone, killed,
                     caller, completer, sentTo, reply, stateError, failed>>
  BY DEF Spawn
<1>3. NoneLive /\ attached = NoCore /\ \A k \in Crashers : pc[k] # "closeCrash"
  BY <1>2 DEF LiveInv, CrashInv, NoneLive
<1>4. TasksInv(r)' /\ StoredInv(r)'
  BY <1>1, <1>2, <1>3
<1>5. \A d \in Cores : Live(d)' <=> d = c
  BY <1>1, <1>3 DEF NoneLive, Live, Alive
<1>6. LiveInv(r)' /\ CrashInv(r)'
  BY <1>1, <1>2, <1>3, <1>5 DEF LiveInv, CrashInv
<1>7. CallsInv'
  BY <1>2, <1>3 DEF CallsInv, CompletedOnce, RequestsInSession, Closing
<1>. QED
  BY <1>4, <1>6, <1>7 DEF Kept

\* start stores the process and waits for its socket, or goes on.
LEMMA StoreProcessKeeps ==
    ASSUME NEW r \in Restarters, Restarters = {r}, SessionInv(r), StoreProcess(r)
    PROVE  Kept(r)'
<1>. USE TasksAssumption, CoresAssumption
     DEF SessionInv, TypeOK, Tasks, TasksInv, StoredInv, StoreProcess, Goto
<1>1. \A k \in Crashers : pc[k] # "closeCrash" /\ pc'[k] # "closeCrash"
  BY DEF CrashInv
<1>2. TasksInv(r)' /\ StoredInv(r)'
  OBVIOUS
<1>3. LiveInv(r)'
  BY DEF LiveInv, Live, Alive
<1>4. CrashInv(r)'
  BY <1>1 DEF CrashInv
<1>5. CallsInv'
  BY <1>1 DEF CallsInv, CompletedOnce, RequestsInSession, Closing
<1>. QED
  BY <1>2, <1>3, <1>4, <1>5 DEF Kept

\* The session is connected.
LEMMA ConnectedKeeps ==
    ASSUME NEW r \in Restarters, Restarters = {r}, SessionInv(r), Connected(r)
    PROVE  Kept(r)'
<1>. USE TasksAssumption, CoresAssumption
     DEF SessionInv, TypeOK, Tasks, TasksInv, StoredInv, Connected, Goto
<1>1. \A k \in Crashers : pc[k] # "closeCrash" /\ pc'[k] # "closeCrash"
  BY DEF CrashInv
<1>2. TasksInv(r)' /\ StoredInv(r)'
  OBVIOUS
<1>3. LiveInv(r)'
  BY DEF LiveInv, Live, Alive
<1>4. CrashInv(r)'
  BY <1>1 DEF CrashInv
<1>5. CallsInv'
  BY <1>1 DEF CallsInv, CompletedOnce, RequestsInSession, Closing
<1>. QED
  BY <1>2, <1>3, <1>4, <1>5 DEF Kept

-----------------------------------------------------------------------------
(* The steps of the core, of its socket and of the requests *)

\* The core dials, or ends.
LEMMA CoreKeeps ==
    ASSUME NEW r \in Restarters, Restarters = {r}, SessionInv(r),
           NEW c \in Cores, Dial(c) \/ Exit(c) \/ Crash(c)
    PROVE  Kept(r)'
<1>. USE TasksAssumption, CoresAssumption DEF SessionInv, TypeOK
<1>1. /\ UNCHANGED <<status, process, attached, shutdownDone, pc, started,
                     caller, completer, sentTo, stateError>>
      /\ Live(c)
  BY DEF Dial, Exit, Crash, CoreEnds, Live, Alive
<1>2. TasksInv(r)' /\ StoredInv(r)'
  BY <1>1 DEF TasksInv, StoredInv
<1>3. LiveInv(r)'
  <2>1. CASE Dial(c)
    <3>1. socket[c] = "none" /\ core[c] = "running"
      BY <2>1 DEF LiveInv, Dial
    <3>2. socket[c] \in {"none", "pending"}
      BY <3>1
    <3>3. \A d \in Cores : Live(d)' <=> d = c
      BY <1>1, <2>1 DEF LiveInv, Dial, Live, Alive
    <3>4. socket' = [socket EXCEPT ![c] = "pending"]
      BY <2>1 DEF Dial
    <3>5. \/ pc[r] = "spawned" /\ c = started[r] /\ attached = NoCore
          \/ pc[r] = "awaitSocket" /\ c = process
      BY <1>1, <2>1, <3>2 DEF LiveInv, Dial
    <3>6. \A d \in Cores : core'[d] = "running" => socket'[d] = "none"
      BY <2>1, <3>4 DEF LiveInv, Dial
    <3>. QED
      BY <1>1, <3>3, <3>4, <3>5, <3>6 DEF LiveInv
  <2>2. CASE Exit(c) \/ Crash(c)
    BY <1>1, <2>2 DEF LiveInv, Exit, Crash, CoreEnds, Live, Alive
  <2>. QED
    BY <2>1, <2>2
<1>4. CrashInv(r)'
  BY <1>1 DEF CrashInv, NoneLive
<1>5. CallsInv'
  BY <1>1 DEF CallsInv, CompletedOnce, RequestsInSession
<1>. QED
  BY <1>2, <1>3, <1>4, <1>5 DEF Kept

\* A step of a request: its completer is open only in its own session.
LEMMA RequestKeeps ==
    ASSUME NEW r \in Restarters, Restarters = {r}, SessionInv(r), RequestAction
    PROVE  Kept(r)'
<1>. USE DEF SessionInv, TypeOK
<1>1. UNCHANGED <<status, process, attached, shutdownDone, core, killed, socket, pc, started>>
  BY DEF RequestAction, Invoke, NoSocket, Handle, HandleResult, Timeout, RemoveEntry, Forget
<1>2. TasksInv(r)' /\ StoredInv(r)' /\ LiveInv(r)' /\ CrashInv(r)'
  BY <1>1 DEF TasksInv, StoredInv, LiveInv, CrashInv, NoneLive, Live, Alive
<1>3. CallsInv'
  <2>. USE DEF CallsInv, CompletedOnce, RequestsInSession
  <2>1. PICK q \in Requests :
          \/ Invoke(q) \/ NoSocket(q) \/ Handle(q) \/ HandleResult(q)
          \/ Timeout(q) \/ RemoveEntry(q) \/ Forget(q)
    BY DEF RequestAction
  <2>2. CASE Invoke(q)
    BY <1>1, <2>2 DEF Invoke, Send
  <2>3. CASE NoSocket(q) \/ Timeout(q)
    BY <1>1, <2>3 DEF NoSocket, Timeout
  <2>4. CASE Handle(q) \/ RemoveEntry(q) \/ Forget(q)
    BY <1>1, <2>4 DEF Handle, RemoveEntry, Forget
  <2>5. CASE HandleResult(q)
    BY <1>1, <2>5 DEF HandleResult
  <2>. QED
    BY <2>1, <2>2, <2>3, <2>4, <2>5
<1>. QED
  BY <1>2, <1>3 DEF Kept

\* The server accepts a socket: there is none yet, and nothing shuts down.
LEMMA AttachKeeps ==
    ASSUME NEW r \in Restarters, Restarters = {r}, SessionInv(r),
           NEW c \in Cores, Attach(c) \/ AttachOver(c) \/ AttachAfterClose(c)
    PROVE  Kept(r)'
<1>. USE TasksAssumption, CoresAssumption DEF SessionInv, TypeOK, Tasks
<1>1. socket[c] \in {"pending", "accepting"}
  BY DEF Attach, AttachOver, AttachAfterClose
<1>2. Live(c)
  BY <1>1 DEF Live
<1>3. /\ socket[c] = "pending"
      /\ \/ pc[r] = "spawned" /\ c = started[r] /\ attached = NoCore
         \/ pc[r] = "awaitSocket" /\ c = process
  BY <1>1, <1>2 DEF LiveInv
<1>4. attached = NoCore
  BY <1>3 DEF StoredInv
<1>5. CompleteSocket(c) /\ UNCHANGED <<status, process, shutdownDone, core, killed, started, failed>>
  BY <1>3, <1>4 DEF Attach, AttachOver, AttachAfterClose
<1>6. /\ attached' = c
      /\ socket' = [socket EXCEPT ![c] = "open"]
      /\ pc' = [t \in Tasks |-> IF pc[t] = "awaitSocket" THEN "connected" ELSE pc[t]]
      /\ Send({q \in Requests : caller[q] = "waiting"}, c)
      /\ UNCHANGED stateError
  BY <1>4, <1>5 DEF CompleteSocket
<1>7. \A k \in Crashers : pc[k] # "closeCrash" /\ pc'[k] = "idle"
  BY <1>3, <1>6 DEF CrashInv, TasksInv
<1>8. pc'[r] = IF pc[r] = "awaitSocket" THEN "connected" ELSE pc[r]
  BY <1>6
<1>9. TasksInv(r)'
  BY <1>3, <1>5, <1>7, <1>8 DEF TasksInv
<1>10. StoredInv(r)'
  BY <1>3, <1>5, <1>6, <1>8 DEF StoredInv
<1>11. LiveInv(r)'
  <2>1. \A d \in Cores : Live(d)' <=> Live(d)
    BY <1>1, <1>5, <1>6 DEF Live, Alive
  <2>2. \A d \in Cores : Live(d) <=> d = c
    BY <1>2 DEF LiveInv
  <2>3. socket'[c] = "open" /\ attached' = c
    BY <1>6
  <2>4. core[c] # "running"
    BY <1>3 DEF LiveInv
  <2>5. \A d \in Cores : core'[d] = "running" => socket'[d] = "none"
    BY <1>5, <1>6, <2>4 DEF LiveInv
  <2>. QED
    BY <1>3, <1>5, <1>8, <2>1, <2>2, <2>3, <2>5 DEF LiveInv
<1>12. CrashInv(r)'
  BY <1>7 DEF CrashInv
<1>13. CallsInv'
  <2>1. \A q \in Requests : ~(completer[q] = "open" /\ caller[q] = "called")
    BY <1>3, <1>4, <1>7 DEF CallsInv, RequestsInSession, TasksInv, Closing
  <2>. QED
    BY <1>6, <2>1 DEF CallsInv, CompletedOnce, RequestsInSession, Send
<1>. QED
  BY <1>9, <1>10, <1>11, <1>12, <1>13 DEF Kept

\* The socket of a core that is gone ends.
LEMMA SocketDoneKeeps ==
    ASSUME NEW r \in Restarters, Restarters = {r}, SessionInv(r),
           NEW c \in Cores, SocketDone(c)
    PROVE  Kept(r)'
<1>. USE TasksAssumption, CoresAssumption DEF SessionInv, TypeOK, Tasks
<1>1. /\ socket[c] \in {"open", "closed"} /\ core[c] = "exited"
      /\ status' = StatusAfterDone
      /\ UNCHANGED <<process, core, killed, started, caller, completer, sentTo, reply,
                     stateError, failed>>
  BY DEF SocketDone
<1>2. Live(c) /\ \A d \in Cores : Live(d) => d = c
  BY <1>1 DEF Live, LiveInv
<1>3. \A k \in Crashers : pc[k] = "idle"
  BY <1>2 DEF CrashInv, NoneLive, TasksInv
<1>4. status' # "connected"
  BY <1>1 DEF StatusAfterDone
<1>5. CASE status = "connected" /\ ~NothingToStop
  <2>1. PICK k \in Crashers : /\ pc' = ShutdownPoints(k, "closeCrash", PointsAfterDone)
                              /\ shutdownDone' = FALSE
                              /\ attached' = NoCore
                              /\ socket' = [CloseAttached EXCEPT ![c] = "none"]
    BY <1>5 DEF SocketDone
  <2>2. pc[r] = "idle" /\ attached = c /\ process = c
    BY <1>2, <1>5 DEF StoredInv, LiveInv
  <2>3. pc'[r] = "idle" /\ pc'[k] = "closeCrash"
        /\ \A l \in Crashers : l # k => pc'[l] = "idle"
    BY <1>3, <2>1, <2>2 DEF ShutdownPoints, PointsAfterDone
  <2>4. \A d \in Cores : socket'[d] = "none"
    <3>1. \A d \in Cores : d # c => socket[d] = "none"
      BY <1>2 DEF Live
    <3>. QED
      BY <2>1, <3>1 DEF CloseAttached
  <2>5. NoneLive'
    BY <1>1, <1>2, <2>4 DEF NoneLive, Live, Alive
  <2>6. TasksInv(r)' /\ StoredInv(r)'
    BY <1>1, <1>4, <2>1, <2>2, <2>3 DEF TasksInv, StoredInv
  <2>7. LiveInv(r)' /\ CrashInv(r)'
    BY <1>1, <2>1, <2>2, <2>3, <2>4, <2>5 DEF LiveInv, CrashInv, NoneLive
  <2>8. CallsInv'
    BY <1>1, <2>3 DEF CallsInv, CompletedOnce, RequestsInSession, Closing
  <2>. QED
    BY <2>6, <2>7, <2>8 DEF Kept
<1>6. CASE ~(status = "connected" /\ ~NothingToStop)
  <2>1. /\ pc' = PointsAfterDone
        /\ shutdownDone' = TRUE
        /\ socket' = [socket EXCEPT ![c] = "none"]
        /\ UNCHANGED attached
    BY <1>6 DEF SocketDone
  <2>2. /\ pc'[r] = IF pc[r] = "awaitDone" THEN "connect" ELSE pc[r]
        /\ \A k \in Crashers : pc'[k] = "idle"
    BY <1>3, <2>1 DEF PointsAfterDone
  <2>3. NoneLive'
    BY <1>1, <1>2, <2>1 DEF NoneLive, Live, Alive
  <2>4. TasksInv(r)' /\ StoredInv(r)'
    BY <1>1, <1>4, <2>1, <2>2 DEF TasksInv, StoredInv
  <2>5. \A d \in Cores : core'[d] = "running" => socket'[d] = "none"
    BY <1>1, <2>1 DEF LiveInv
  <2>6. LiveInv(r)' /\ CrashInv(r)'
    BY <2>2, <2>3, <2>5 DEF LiveInv, CrashInv, NoneLive
  <2>7. CallsInv'
    BY <1>1, <1>3, <2>1, <2>2 DEF CallsInv, CompletedOnce, RequestsInSession, Closing, TasksInv
  <2>. QED
    BY <2>4, <2>6, <2>7 DEF Kept
<1>. QED
  BY <1>5, <1>6

-----------------------------------------------------------------------------
(* The invariant *)

\* SessionInv holds initially.
LEMMA SessionInit ==
    ASSUME NEW r \in Restarters, Restarters = {r}, Init
    PROVE  SessionInv(r)
<1>1. TypeOK
  BY SessionTypeInit
<1>2. pc = [u \in Tasks |-> IF u = r THEN "connect" ELSE "idle"]
  BY DEF Init
<1>3. pc[r] = "connect" /\ \A k \in Crashers : pc[k] = "idle"
  BY <1>2, TasksAssumption DEF Tasks
<1>4. TasksInv(r) /\ StoredInv(r)
  BY <1>3 DEF Init, TasksInv, StoredInv
<1>5. LiveInv(r) /\ CrashInv(r)
  BY <1>3 DEF Init, LiveInv, CrashInv, NoneLive, Live, Alive
<1>6. CallsInv
  BY DEF Init, CallsInv, CompletedOnce, RequestsInSession
<1>. QED
  BY <1>1, <1>4, <1>5, <1>6 DEF SessionInv

\* Every step keeps SessionInv.
LEMMA SessionStep ==
    ASSUME NEW r \in Restarters, Restarters = {r}, SessionInv(r), [Next]_vars
    PROVE  SessionInv(r)'
<1>1. TypeOK'
  <2>1. CASE UNCHANGED vars
    BY <2>1 DEF SessionInv, TypeOK, vars
  <2>. QED
    BY <2>1, SessionSplit, TaskType, CoreType, RequestType DEF SessionInv
<1>2. Kept(r)'
  <2>1. CASE TaskAction
    <3>1. PICK t \in Tasks : (t \in Restarters /\ Restart(t)) \/ TaskStep(t)
      BY <2>1 DEF TaskAction
    <3>2. CASE t = r
      BY <3>1, <3>2, RestartKeeps, FinishUserKeeps, ConnectKeeps, SpawnKeeps,
         StoreProcessKeeps, ConnectedKeeps DEF TaskStep
    <3>3. CASE t # r
      <4>1. t \in Crashers /\ pc[t] \in {"idle", "closeCrash"} /\ t \notin Restarters
        BY <3>1, <3>3 DEF Tasks, SessionInv, TasksInv
      <4>2. FinishShutdown(t)
        BY <3>1, <4>1 DEF TaskStep, Connect, Spawn, SpawnFails, StoreProcess, Connected
      <4>. QED
        BY <4>1, <4>2, FinishCrashKeeps
    <3>. QED
      BY <3>2, <3>3
  <2>2. CASE CoreAction
    BY <2>2, CoreKeeps, AttachKeeps, SocketDoneKeeps DEF CoreAction, SocketStep
  <2>3. CASE RequestAction
    BY <2>3, RequestKeeps
  <2>4. CASE UNCHANGED vars
    BY <2>4 DEF vars, SessionInv, Kept, TasksInv, StoredInv, LiveInv, CrashInv, CallsInv,
                NoneLive, Live, Alive, CompletedOnce, RequestsInSession
  <2>. QED
    BY <2>1, <2>2, <2>3, <2>4, SessionSplit
<1>. QED
  BY <1>1, <1>2 DEF SessionInv, Kept

\* What holds of a session whose restarts do not overlap.
THEOREM SessionInvariance ==
    ASSUME NEW r \in Restarters, Restarters = {r}
    PROVE  Spec => []SessionInv(r)
<1>1. Init => SessionInv(r)
  BY SessionInit
<1>2. SessionInv(r) /\ [Next]_vars => SessionInv(r)'
  BY SessionStep
<1>. QED
  BY <1>1, <1>2, PTL DEF Spec

\* Neither the socket's completer nor a request's is completed twice
\* (_attachSocket, handleResult, _clearCompleter).
THEOREM CompletedOnceSafe ==
    ASSUME NEW r \in Restarters, Restarters = {r}
    PROVE  Spec => []CompletedOnce
<1>1. SessionInv(r) => CompletedOnce
  BY DEF SessionInv, CallsInv
<1>. QED
  BY <1>1, SessionInvariance, PTL

\* The next core is started when the last one is gone (shutdown, start).
THEOREM OneCoreAliveSafe ==
    ASSUME NEW r \in Restarters, Restarters = {r}
    PROVE  Spec => []OneCoreAlive
<1>1. SessionInv(r) => OneCoreAlive
  BY DEF SessionInv, LiveInv, Live, OneCoreAlive
<1>. QED
  BY <1>1, SessionInvariance, PTL

\* Every core that runs is stored, about to be stored, or was killed (start,
\* shutdown).
THEOREM NoCoreForgottenSafe ==
    ASSUME NEW r \in Restarters, Restarters = {r}
    PROVE  Spec => []NoCoreForgotten
<1>1. ASSUME SessionInv(r), NEW c \in Cores, Alive(c)
      PROVE  c = process \/ (\E t \in Tasks : started[t] = c) \/ c \in killed
  <2>1. r \in Tasks /\ c # NoCore
    BY CoresAssumption DEF Tasks
  <2>2. Live(c)
    BY <1>1 DEF Live
  <2>. QED
    BY <1>1, <2>1, <2>2 DEF SessionInv, StoredInv, LiveInv
<1>2. SessionInv(r) => NoCoreForgotten
  BY <1>1 DEF NoCoreForgotten
<1>. QED
  BY <1>2, SessionInvariance, PTL

\* The status and the completer tryStartCore looks at agree (_connectCore,
\* onCrash).
THEOREM StatusAgreesSafe ==
    ASSUME NEW r \in Restarters, Restarters = {r}
    PROVE  Spec => []StatusAgrees
<1>1. SessionInv(r) => StatusAgrees
  BY DEF SessionInv, StoredInv, StatusAgrees
<1>. QED
  BY <1>1, SessionInvariance, PTL

\* No request outlives its session (_clearCompleter).
THEOREM RequestsInSessionSafe ==
    ASSUME NEW r \in Restarters, Restarters = {r}
    PROVE  Spec => []RequestsInSession
<1>1. SessionInv(r) => RequestsInSession
  BY DEF SessionInv, CallsInv
<1>. QED
  BY <1>1, SessionInvariance, PTL

\* The end of an old socket never takes down the session that replaced it
\* (onDone, onCrash).
THEOREM NoStaleCrashSafe ==
    ASSUME NEW r \in Restarters, Restarters = {r}
    PROVE  Spec => NoStaleCrash
<1>. DEFINE Stale == \A c \in Cores :
                        /\ status = "connected" /\ status' = "disconnected"
                        /\ socket[c] \in {"open", "closed"} /\ socket'[c] = "none"
                        => attached = c
<1>1. SessionInv(r) => Stale
  <2>1. SUFFICES ASSUME SessionInv(r), NEW c \in Cores, status = "connected",
                        socket[c] \in {"open", "closed"}
                 PROVE  attached = c
    OBVIOUS
  <2>2. pc[r] = "idle" /\ Live(c)
    BY <2>1 DEF SessionInv, StoredInv, Live
  <2>. QED
    BY <2>1, <2>2 DEF SessionInv, LiveInv
<1>2. SessionInv(r) /\ [Next]_vars => [Stale]_vars
  BY <1>1
<1>. QED
  BY <1>2, SessionInvariance, PTL DEF Spec, NoStaleCrash
=============================================================================
