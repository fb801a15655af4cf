--------------------------- MODULE RunState_proofs ---------------------------
(***************************************************************************)
(* Proofs about RunState, for any number of coroutines and any times.      *)
(*                                                                         *)
(* runLock is held exactly at the locked points (LockDiscipline).  While   *)
(* nothing has drifted at most one coroutine is inside a call of the       *)
(* service (OneCall), and where it is says what both processes know        *)
(* (Phases): that is why they agree when it is done.                       *)
(***************************************************************************)
EXTENDS RunState, TLAPS

LockDiscipline == \A t \in Tasks : runLock = t <=> pc[t] \in LockedPoints

OneCall == drift \/ ~Overlap

StartPoints == {"prepCall", "startCall"}

RemoteRuns == up /\ attached /\ remoteTime # 0
RemoteRests == ~up /\ ~attached /\ remoteTime = 0

AppAgrees == (runState = "START" <=> remoteTime # 0) /\ runTime = remoteTime

\* What is known of the state that a coroutine has looked at.
Looked(t) ==
    /\ pc[t] \in GapPoints => runState # "START"
    /\ pc[t] = "stopChecked" => runState = "START"

\* What is known at each point of a call.
Phase(t) ==
    /\ pc[t] \in PreparePoints \cap CallPoints => runState # "START"
    /\ pc[t] \in StartPoints =>
           /\ command[t] \in {"waiting", "start", "starting"}
           /\ runTime = 0 /\ passed[t] = 0 /\ runState # "START"
           /\ ~up /\ remoteTime = 0
           /\ attached = (command[t] = "starting")
    /\ pc[t] \in {"prepStore", "startStore"} => RemoteRuns /\ got[t] = remoteTime
    /\ pc[t] \in {"prepEmit", "startEmit"} => RemoteRuns /\ runTime = remoteTime
    /\ pc[t] = "stopCall" =>
           command[t] \in {"waiting", "stop", "stopping"} /\ RemoteRuns
    /\ pc[t] = "stopStore" => RemoteRests /\ got[t] = 0
    /\ pc[t] = "stopEmit" => RemoteRests /\ runTime = 0
    /\ pc[t] = "syncCall" => (RemoteRuns \/ RemoteRests) /\ AppAgrees
    /\ pc[t] = "syncStore" => (RemoteRuns \/ RemoteRests) /\ got[t] = remoteTime
    /\ pc[t] \in {"syncJudge", "syncEmit"} =>
           (RemoteRuns \/ RemoteRests) /\ runTime = remoteTime
    /\ pc[t] = "syncEmit" => got[t] = remoteTime
    /\ pc[t] \notin StartPoints \cup {"stopCall"} => command[t] \in {"none", "setup"}

Phases ==
    ~drift =>
        /\ disconnected = {}
        /\ \A t \in Tasks : Looked(t) /\ Phase(t)
        /\ (\A t \in Tasks : pc[t] \notin CallPoints) =>
               (RemoteRuns \/ RemoteRests) /\ AppAgrees

IInv ==
    /\ TypeOK
    /\ LockDiscipline
    /\ PendingIsHeld
    /\ OneCall
    /\ Phases

-----------------------------------------------------------------------------
\* Every step keeps the types.
LEMMA TypeStep ==
    ASSUME TypeOK, [Next]_vars
    PROVE  TypeOK'
<1>1. ASSUME NEW t \in Tasks, Toggle(t) PROVE TypeOK'
  BY <1>1, TimesAssumption DEF Toggle, TypeOK, ToggleAction, Lock,
     Checked, slotVars, linkVars, remoteVars, States, Points, LockedPoints,
     Commands, PreparePoints, StartingPoints, StoppingPoints
<1>2. ASSUME NEW t \in Tasks, StartAction(t) PROVE TypeOK'
  <2>1. pc' \in [Tasks -> Points]
    BY <1>2 DEF StartAction, Refused, Checked, Lock, TypeOK, Points
  <2> QED
    BY <1>2, <2>1 DEF StartAction, Refused, Checked, Lock, TypeOK, slotVars, linkVars, remoteVars
<1>3. ASSUME NEW t \in Tasks, StopAction(t) PROVE TypeOK'
  <2>1. pc' \in [Tasks -> Points]
    BY <1>3 DEF StopAction, Refused, Checked, Lock, TypeOK, Points
  <2> QED
    BY <1>3, <2>1 DEF StopAction, Refused, Checked, Lock, TypeOK, slotVars, linkVars, remoteVars
<1>4. ASSUME NEW t \in Tasks, Setup(t) PROVE TypeOK'
  BY <1>4, TimesAssumption DEF Setup, TypeOK, Lock, slotVars, States,
     Points, LockedPoints, Commands, PreparePoints, StartingPoints,
     StoppingPoints
<1>5. ASSUME NEW t \in Tasks, SetupReturns(t) PROVE TypeOK'
  BY <1>5, TimesAssumption DEF SetupReturns, TypeOK, slotVars, linkVars,
     remoteVars, States, Points, LockedPoints, Commands, PreparePoints,
     StartingPoints, StoppingPoints
<1>6. ASSUME NEW t \in Tasks, Refuse(t) PROVE TypeOK'
  <2>1. pc' \in [Tasks -> Points]
    BY <1>6 DEF Refuse, Refused, Checked, Lock, TypeOK, Points
  <2> QED
    BY <1>6, <2>1 DEF Refuse, Refused, Checked, Lock, TypeOK, slotVars, linkVars, remoteVars
<1>7. ASSUME NEW t \in Tasks, StartBegin(t) PROVE TypeOK'
  BY <1>7, TimesAssumption DEF StartBegin, TypeOK, Lock, slotVars,
     linkVars, remoteVars, States, Points, LockedPoints, Commands,
     PreparePoints, StartingPoints, StoppingPoints
<1>8. ASSUME NEW t \in Tasks, StartPending(t) PROVE TypeOK'
  BY <1>8, TimesAssumption DEF StartPending, TypeOK, Show, slotVars,
     linkVars, remoteVars, States, Points, LockedPoints, Commands,
     PreparePoints, StartingPoints, StoppingPoints
<1>9. ASSUME NEW t \in Tasks, StartGivesUp(t) PROVE TypeOK'
  BY <1>9, TimesAssumption DEF StartGivesUp, TypeOK, slotVars, linkVars,
     remoteVars, States, Points, LockedPoints, Commands, PreparePoints,
     StartingPoints, StoppingPoints
<1>10. ASSUME NEW t \in Tasks, Prepare(t) PROVE TypeOK'
  BY <1>10, TimesAssumption DEF Prepare, TypeOK, Free, Fresh, linkVars,
     remoteVars, States, Points, LockedPoints, Commands, PreparePoints,
     StartingPoints, StoppingPoints
<1>11. ASSUME NEW t \in Tasks, StartFinally(t) PROVE TypeOK'
  <2>1. pc' \in [Tasks -> Points]
    BY <1>11 DEF StartFinally, Show, Emit, TypeOK, Points, LockedPoints, StartingPoints
  <2>2. got' \in [Tasks -> Times \cup {0}]
    BY <1>11 DEF StartFinally, Show, Emit, TypeOK
  <2> QED
    BY <1>11, <2>1, <2>2 DEF StartFinally, Show, Emit, TypeOK, slotVars, linkVars, remoteVars
<1>12. ASSUME NEW t \in Tasks, StartReset(t) PROVE TypeOK'
  BY <1>12, TimesAssumption DEF StartReset, TypeOK, Emit, slotVars,
     linkVars, remoteVars, States, Points, LockedPoints, Commands,
     PreparePoints, StartingPoints, StoppingPoints
<1>13. ASSUME NEW t \in Tasks, StartHeadless(t) PROVE TypeOK'
  BY <1>13, TimesAssumption DEF StartHeadless, TypeOK, Send, slotVars,
     linkVars, Drift, States, Points, LockedPoints, Commands, PreparePoints,
     StartingPoints, StoppingPoints
<1>14. ASSUME NEW t \in Tasks, StartStore(t) PROVE TypeOK'
  BY <1>14, TimesAssumption DEF StartStore, TypeOK, Store, slotVars,
     linkVars, remoteVars, States, Points, LockedPoints, Commands,
     PreparePoints, StartingPoints, StoppingPoints
<1>15. ASSUME NEW t \in Tasks, StartEmit(t) PROVE TypeOK'
  BY <1>15, TimesAssumption DEF StartEmit, TypeOK, Emit, slotVars,
     linkVars, remoteVars, States, Points, LockedPoints, Commands,
     PreparePoints, StartingPoints, StoppingPoints
<1>16. ASSUME NEW t \in Tasks, InvokePrepare(t) PROVE TypeOK'
  BY <1>16, TimesAssumption DEF InvokePrepare, TypeOK, slotVars, linkVars,
     remoteVars, States, Points, LockedPoints, Commands, PreparePoints,
     StartingPoints, StoppingPoints
<1>17. ASSUME NEW t \in Tasks, CallPrepared(t) PROVE TypeOK'
  BY <1>17, TimesAssumption DEF CallPrepared, TypeOK, Send, slotVars,
     linkVars, Drift, States, Points, LockedPoints, Commands, PreparePoints,
     StartingPoints, StoppingPoints
<1>18. ASSUME NEW t \in Tasks, StorePrepared(t) PROVE TypeOK'
  BY <1>18, TimesAssumption DEF StorePrepared, TypeOK, Store, slotVars,
     linkVars, remoteVars, States, Points, LockedPoints, Commands,
     PreparePoints, StartingPoints, StoppingPoints
<1>19. ASSUME NEW t \in Tasks, EmitPrepared(t) PROVE TypeOK'
  BY <1>19, TimesAssumption DEF EmitPrepared, TypeOK, Show, slotVars,
     linkVars, remoteVars, Drift, States, Points, LockedPoints, Commands,
     PreparePoints, StartingPoints, StoppingPoints, GapPoints
<1>20. ASSUME NEW t \in Tasks, ClearPrepared(t) PROVE TypeOK'
  <2>1. pc' \in [Tasks -> Points]
    BY <1>20 DEF ClearPrepared, TypeOK, Points
  <2> QED
    BY <1>20, <2>1 DEF ClearPrepared, TypeOK, linkVars, remoteVars
<1>21. ASSUME NEW t \in Tasks, StopBegin(t) PROVE TypeOK'
  BY <1>21, TimesAssumption DEF StopBegin, TypeOK, Lock, slotVars,
     linkVars, remoteVars, States, Points, LockedPoints, Commands,
     PreparePoints, StartingPoints, StoppingPoints
<1>22. ASSUME NEW t \in Tasks, StopPending(t) PROVE TypeOK'
  BY <1>22, TimesAssumption DEF StopPending, TypeOK, Show, Send, slotVars,
     linkVars, Drift, States, Points, LockedPoints, Commands, PreparePoints,
     StartingPoints, StoppingPoints
<1>23. ASSUME NEW t \in Tasks, StopStore(t) PROVE TypeOK'
  BY <1>23, TimesAssumption DEF StopStore, TypeOK, Store, slotVars,
     linkVars, remoteVars, States, Points, LockedPoints, Commands,
     PreparePoints, StartingPoints, StoppingPoints
<1>24. ASSUME NEW t \in Tasks, StopEmit(t) PROVE TypeOK'
  BY <1>24, TimesAssumption DEF StopEmit, TypeOK, Emit, slotVars,
     linkVars, remoteVars, States, Points, LockedPoints, Commands,
     PreparePoints, StartingPoints, StoppingPoints
<1>25. ASSUME NEW t \in Tasks, SyncBegin(t) PROVE TypeOK'
  BY <1>25, TimesAssumption DEF SyncBegin, TypeOK, Lock, slotVars,
     remoteVars, Drift, States, Points, LockedPoints, Commands,
     PreparePoints, StartingPoints, StoppingPoints
<1>26. ASSUME NEW t \in Tasks, SyncRead(t) PROVE TypeOK'
  BY <1>26, TimesAssumption DEF SyncRead, TypeOK, Answer, CallPoint,
     slotVars, linkVars, remoteVars, States, Points, CallPoints,
     LockedPoints, Commands, PreparePoints, StartingPoints, StoppingPoints
<1>27. ASSUME NEW t \in Tasks, SyncStore(t) PROVE TypeOK'
  BY <1>27, TimesAssumption DEF SyncStore, TypeOK, Store, slotVars,
     linkVars, remoteVars, States, Points, LockedPoints, Commands,
     PreparePoints, StartingPoints, StoppingPoints
<1>28. ASSUME NEW t \in Tasks, SyncJudge(t) PROVE TypeOK'
  BY <1>28, TimesAssumption DEF SyncJudge, TypeOK, slotVars, linkVars,
     remoteVars, States, Points, LockedPoints, Commands, PreparePoints,
     StartingPoints, StoppingPoints
<1>29. ASSUME NEW t \in Tasks, SyncEmit(t) PROVE TypeOK'
  BY <1>29, TimesAssumption DEF SyncEmit, TypeOK, Emit, slotVars,
     linkVars, remoteVars, States, Points, LockedPoints, Commands,
     PreparePoints, StartingPoints, StoppingPoints
<1>30. ASSUME NEW t \in Tasks, SendNow(t) PROVE TypeOK'
  BY <1>30, TimesAssumption DEF SendNow, TypeOK, appVars, slotVars,
     linkVars, States, Points, LockedPoints, Commands, PreparePoints,
     StartingPoints, StoppingPoints
<1>31. ASSUME NEW t \in Tasks, TimeOut(t) PROVE TypeOK'
  BY <1>31, TimesAssumption DEF TimeOut, TypeOK, Answer, CallPoint,
     slotVars, linkVars, Drift, States, Points, LockedPoints, Commands,
     PreparePoints, StartingPoints, StoppingPoints
<1>32. ASSUME NEW t \in Tasks, OnStarted(t) PROVE TypeOK'
  BY <1>32, TimesAssumption DEF OnStarted, TypeOK, Free, Fresh, slotVars,
     linkVars, States, Points, LockedPoints, Commands, PreparePoints,
     StartingPoints, StoppingPoints
<1>33. ASSUME NEW t \in Tasks, RemoteStart(t) PROVE TypeOK'
  BY <1>33, TimesAssumption DEF RemoteStart, TypeOK, appVars, slotVars,
     linkVars, States, Points, LockedPoints, Commands, PreparePoints,
     StartingPoints, StoppingPoints
<1>34. ASSUME NEW t \in Tasks, RemoteStop(t) PROVE TypeOK'
  BY <1>34, TimesAssumption DEF RemoteStop, TypeOK, appVars, slotVars,
     linkVars, States, Points, LockedPoints, Commands, PreparePoints,
     StartingPoints, StoppingPoints
<1>35. ASSUME NEW t \in Tasks, NEW failed \in BOOLEAN,
             RemoteStarted(t, failed)
      PROVE  TypeOK'
  BY <1>35, TimesAssumption DEF RemoteStarted, TypeOK, Answer, CallPoint,
     RemoteAnswer, slotVars, linkVars, Drift, States, Points, LockedPoints,
     Commands, PreparePoints, StartingPoints, StoppingPoints
<1>36. ASSUME NEW t \in Tasks, NEW failed \in BOOLEAN,
             RemoteStopped(t, failed)
      PROVE  TypeOK'
  <2>1. /\ remoteLock' \in Tasks \cup {NoTask}
        /\ remoteTime' \in Times \cup {0}
        /\ attached' \in BOOLEAN /\ up' \in BOOLEAN
    BY <1>36 DEF RemoteStopped, RemoteAnswer, TypeOK
  <2>2. command' \in [Tasks -> Commands]
    BY <1>36 DEF RemoteStopped, RemoteAnswer, TypeOK, Commands
  <2>3. faults' \in Nat
    BY <1>36 DEF RemoteStopped, RemoteAnswer, TypeOK
  <2>4. got' \in [Tasks -> Times \cup {0}]
    BY <1>36 DEF RemoteStopped, RemoteAnswer, Answer, TypeOK
  <2>5. passed' \in [Tasks -> Times \cup {0}]
    BY <1>36 DEF RemoteStopped, RemoteAnswer, TypeOK
  <2>6. pc' \in [Tasks -> Points]
    BY <1>36 DEF RemoteStopped, RemoteAnswer, Answer, CallPoint, TypeOK, Points, PreparePoints,
            LockedPoints, StartingPoints, StoppingPoints
  <2>7. drift' \in BOOLEAN
    BY <1>36 DEF RemoteStopped, Drift, Overlap, TypeOK
  <2> QED
    BY <1>36, <2>1, <2>2, <2>3, <2>4, <2>5, <2>6, <2>7
       DEF RemoteStopped, RemoteAnswer, TypeOK, slotVars, linkVars
<1>37. ASSUME NEW t \in Tasks, CallStart(t) PROVE TypeOK'
  <2>1. calls' \in Nat
    BY <1>37 DEF CallStart, Launch, TypeOK
  <2>2. pc' \in [Tasks -> Points]
    BY <1>37 DEF CallStart, Launch, TypeOK, Points, appVars
  <2>3. noticeSlot' \in BOOLEAN
    BY <1>37 DEF CallStart, TypeOK
  <2> QED
    BY <1>37, <2>1, <2>2, <2>3 DEF CallStart, Launch, TypeOK, appVars, linkVars, remoteVars
<1>38. ASSUME NEW t \in Tasks, NoticeResult(t) PROVE TypeOK'
  <2>1. calls' \in Nat
    BY <1>38 DEF NoticeResult, Launch, TypeOK
  <2>2. pc' \in [Tasks -> Points]
    BY <1>38 DEF NoticeResult, Launch, TypeOK, Points, appVars
  <2>3. noticeSlot' \in BOOLEAN
    BY <1>38 DEF NoticeResult, TypeOK
  <2> QED
    BY <1>38, <2>1, <2>2, <2>3 DEF NoticeResult, Launch, TypeOK, appVars, linkVars, remoteVars
<1>39. ASSUME NEW t \in Tasks, Call(t) PROVE TypeOK'
  BY <1>39, TimesAssumption DEF Call, TypeOK, Free, Fresh, Launch,
     slotVars, linkVars, remoteVars, States, Points, LockedPoints, Commands,
     PreparePoints, StartingPoints, StoppingPoints
<1>40. ASSUME NEW t \in Tasks, PrepareResult(t) PROVE TypeOK'
  <2>1. pc' \in [Tasks -> Points]
    BY <1>40 DEF PrepareResult, Launch, TypeOK, Points, PreparePoints, appVars
  <2>2. calls' \in Nat /\ asking' \in Nat
    BY <1>40 DEF PrepareResult, Launch, TypeOK
  <2> QED
    BY <1>40, <2>1, <2>2 DEF PrepareResult, Launch, TypeOK, appVars, linkVars, remoteVars
<1>41. CASE AttachEngine
  <2>1. calls' \in Nat
    BY <1>41 DEF AttachEngine, TypeOK
  <2>2. /\ engine' \in BOOLEAN /\ noticeSlot' \in BOOLEAN
        /\ prepareSlot' \in BOOLEAN /\ asking' \in Nat
    BY <1>41 DEF AttachEngine
  <2>3. UNCHANGED <<appVars, listening, linkVars, remoteVars, faults, drift>>
    BY <1>41 DEF AttachEngine
  <2> QED
    BY <2>1, <2>2, <2>3 DEF TypeOK, appVars, linkVars, remoteVars
<1>42. CASE DetachEngine
  <2>1. calls' \in Nat
    BY <1>42 DEF DetachEngine, TypeOK
  <2>2. engine' \in BOOLEAN /\ noticeSlot' \in BOOLEAN /\ asking' \in Nat
    BY <1>42 DEF DetachEngine
  <2>3. UNCHANGED <<appVars, listening, prepareSlot, linkVars, remoteVars,
                    faults, drift>>
    BY <1>42 DEF DetachEngine
  <2> QED
    BY <2>1, <2>2, <2>3 DEF TypeOK, appVars, linkVars, remoteVars
<1>43. CASE PluginInit
  BY <1>43, TimesAssumption DEF PluginInit, TypeOK, appVars, remoteVars,
     States, Points, LockedPoints, Commands, PreparePoints, StartingPoints,
     StoppingPoints
<1>44. CASE Shutdown
  <2>1. calls' \in Nat
    BY <1>44 DEF Shutdown, TypeOK
  <2>2. bound' \in BOOLEAN
    BY <1>44 DEF Shutdown
  <2>3. UNCHANGED <<appVars, slotVars, disconnected, remoteVars, faults, drift>>
    BY <1>44 DEF Shutdown
  <2> QED
    BY <2>1, <2>2, <2>3 DEF TypeOK, appVars, slotVars, remoteVars
<1>45. CASE RemoteDies
  <2>1. command' \in [Tasks -> Commands] /\ passed' \in [Tasks -> Times \cup {0}]
    BY <1>45 DEF RemoteDies, TypeOK, Commands
  <2>2. faults' \in Nat /\ drift' \in BOOLEAN
    BY <1>45 DEF RemoteDies, Drift, Overlap, TypeOK
  <2>3. disconnected' \subseteq {"lost", "unbound"}
    BY <1>45 DEF RemoteDies, TypeOK
  <2> QED
    BY <1>45, <2>1, <2>2, <2>3 DEF RemoteDies, TypeOK, appVars, slotVars
<1>46. CASE HandleLost
  <2>1. disconnected' \subseteq {"lost", "unbound"} /\ bound' \in BOOLEAN
    BY <1>46 DEF HandleLost, TypeOK
  <2> QED
    BY <1>46, <2>1 DEF HandleLost, TypeOK, appVars, slotVars, remoteVars
<1>47. CASE OnServiceDisconnected
  <2>1. disconnected' \subseteq {"lost", "unbound"} /\ runState' \in States
    BY <1>47 DEF OnServiceDisconnected, TypeOK, States
  <2> QED
    BY <1>47, <2>1 DEF OnServiceDisconnected, TypeOK, slotVars, remoteVars
<1>48. CASE AppDies
  <2>1. command' \in [Tasks -> Commands] /\ passed' \in [Tasks -> Times \cup {0}]
    BY <1>48 DEF AppDies, TypeOK, Commands
  <2>2. pc' \in [Tasks -> Points] /\ got' \in [Tasks -> Times \cup {0}]
    BY <1>48 DEF AppDies, TypeOK, Points
  <2>3. faults' \in Nat /\ drift' \in BOOLEAN
    BY <1>48 DEF AppDies, Drift, Overlap, TypeOK
  <2>4. runState' \in States
    BY <1>48 DEF AppDies, States
  <2> QED
    BY <1>48, <2>1, <2>2, <2>3, <2>4 DEF AppDies, TypeOK
<1>49. CASE UNCHANGED vars
  BY <1>49 DEF vars, TypeOK, appVars, slotVars, linkVars, remoteVars,
     States, Points, LockedPoints, Commands, PreparePoints, StartingPoints,
     StoppingPoints
<1> QED
  BY <1>1, <1>2, <1>3, <1>4, <1>5, <1>6, <1>7, <1>8, <1>9, <1>10, <1>11,
     <1>12, <1>13, <1>14, <1>15, <1>16, <1>17, <1>18, <1>19, <1>20, <1>21,
     <1>22, <1>23, <1>24, <1>25, <1>26, <1>27, <1>28, <1>29, <1>30, <1>31,
     <1>32, <1>33, <1>34, <1>35, <1>36, <1>37, <1>38, <1>39, <1>40, <1>41,
     <1>42, <1>43, <1>44, <1>45, <1>46, <1>47, <1>48, <1>49 DEF Next,
     TaskStep, RemoteStep, Entry

\* runLock is taken and let go together with the locked points.
LEMMA LockStep ==
    ASSUME TypeOK, LockDiscipline, [Next]_vars
    PROVE  LockDiscipline'
<1>1. ASSUME NEW t \in Tasks, Toggle(t) PROVE LockDiscipline'
  BY <1>1, TasksAssumption DEF Toggle, TypeOK, LockDiscipline,
     ToggleAction, Lock, Checked, slotVars, linkVars, remoteVars, States,
     LockedPoints, StartingPoints, StoppingPoints
<1>2. ASSUME NEW t \in Tasks, StartAction(t) PROVE LockDiscipline'
  BY <1>2, TasksAssumption DEF StartAction, TypeOK, LockDiscipline, Lock,
     Checked, Refused, slotVars, linkVars, remoteVars, States, LockedPoints,
     StartingPoints, StoppingPoints
<1>3. ASSUME NEW t \in Tasks, StopAction(t) PROVE LockDiscipline'
  BY <1>3, TasksAssumption DEF StopAction, TypeOK, LockDiscipline, Lock,
     Checked, Refused, slotVars, linkVars, remoteVars, States, LockedPoints,
     StartingPoints, StoppingPoints
<1>4. ASSUME NEW t \in Tasks, Setup(t) PROVE LockDiscipline'
  BY <1>4, TasksAssumption DEF Setup, TypeOK, LockDiscipline, Lock,
     slotVars, States, LockedPoints, StartingPoints, StoppingPoints
<1>5. ASSUME NEW t \in Tasks, SetupReturns(t) PROVE LockDiscipline'
  BY <1>5, TasksAssumption DEF SetupReturns, TypeOK, LockDiscipline,
     slotVars, linkVars, remoteVars, States, LockedPoints, StartingPoints,
     StoppingPoints
<1>6. ASSUME NEW t \in Tasks, Refuse(t) PROVE LockDiscipline'
  BY <1>6, TasksAssumption DEF Refuse, TypeOK, LockDiscipline, Lock,
     Checked, Refused, slotVars, linkVars, remoteVars, States, LockedPoints,
     StartingPoints, StoppingPoints
<1>7. ASSUME NEW t \in Tasks, StartBegin(t) PROVE LockDiscipline'
  BY <1>7, TasksAssumption DEF StartBegin, TypeOK, LockDiscipline, Lock,
     slotVars, linkVars, remoteVars, States, LockedPoints, StartingPoints,
     StoppingPoints
<1>8. ASSUME NEW t \in Tasks, StartPending(t) PROVE LockDiscipline'
  BY <1>8, TasksAssumption DEF StartPending, TypeOK, LockDiscipline, Show,
     slotVars, linkVars, remoteVars, States, LockedPoints, StartingPoints,
     StoppingPoints
<1>9. ASSUME NEW t \in Tasks, StartGivesUp(t) PROVE LockDiscipline'
  BY <1>9, TasksAssumption DEF StartGivesUp, TypeOK, LockDiscipline,
     slotVars, linkVars, remoteVars, States, LockedPoints, StartingPoints,
     StoppingPoints
<1>10. ASSUME NEW t \in Tasks, Prepare(t) PROVE LockDiscipline'
  BY <1>10, TasksAssumption DEF Prepare, TypeOK, LockDiscipline, Free,
     Fresh, linkVars, remoteVars, States, LockedPoints, StartingPoints,
     StoppingPoints
<1>11. ASSUME NEW t \in Tasks, StartFinally(t) PROVE LockDiscipline'
  BY <1>11, TasksAssumption DEF StartFinally, TypeOK, LockDiscipline,
     Show, Emit, slotVars, linkVars, remoteVars, States, LockedPoints,
     StartingPoints, StoppingPoints
<1>12. ASSUME NEW t \in Tasks, StartReset(t) PROVE LockDiscipline'
  BY <1>12, TasksAssumption DEF StartReset, TypeOK, LockDiscipline, Emit,
     slotVars, linkVars, remoteVars, States, LockedPoints, StartingPoints,
     StoppingPoints
<1>13. ASSUME NEW t \in Tasks, StartHeadless(t) PROVE LockDiscipline'
  BY <1>13, TasksAssumption DEF StartHeadless, TypeOK, LockDiscipline,
     Send, slotVars, linkVars, States, LockedPoints, StartingPoints,
     StoppingPoints
<1>14. ASSUME NEW t \in Tasks, StartStore(t) PROVE LockDiscipline'
  BY <1>14, TasksAssumption DEF StartStore, TypeOK, LockDiscipline, Store,
     slotVars, linkVars, remoteVars, States, LockedPoints, StartingPoints,
     StoppingPoints
<1>15. ASSUME NEW t \in Tasks, StartEmit(t) PROVE LockDiscipline'
  BY <1>15, TasksAssumption DEF StartEmit, TypeOK, LockDiscipline, Emit,
     slotVars, linkVars, remoteVars, States, LockedPoints, StartingPoints,
     StoppingPoints
<1>16. ASSUME NEW t \in Tasks, InvokePrepare(t) PROVE LockDiscipline'
  BY <1>16, TasksAssumption DEF InvokePrepare, TypeOK, LockDiscipline,
     slotVars, linkVars, remoteVars, States, LockedPoints, StartingPoints,
     StoppingPoints
<1>17. ASSUME NEW t \in Tasks, CallPrepared(t) PROVE LockDiscipline'
  BY <1>17, TasksAssumption DEF CallPrepared, TypeOK, LockDiscipline,
     Send, slotVars, linkVars, States, LockedPoints, StartingPoints,
     StoppingPoints
<1>18. ASSUME NEW t \in Tasks, StorePrepared(t) PROVE LockDiscipline'
  BY <1>18, TasksAssumption DEF StorePrepared, TypeOK, LockDiscipline,
     Store, slotVars, linkVars, remoteVars, States, LockedPoints,
     StartingPoints, StoppingPoints
<1>19. ASSUME NEW t \in Tasks, EmitPrepared(t) PROVE LockDiscipline'
  BY <1>19, TasksAssumption DEF EmitPrepared, TypeOK, LockDiscipline,
     Show, slotVars, linkVars, remoteVars, States, LockedPoints,
     StartingPoints, StoppingPoints, GapPoints
<1>20. ASSUME NEW t \in Tasks, ClearPrepared(t) PROVE LockDiscipline'
  BY <1>20, TasksAssumption DEF ClearPrepared, TypeOK, LockDiscipline,
     linkVars, remoteVars, States, LockedPoints, StartingPoints,
     StoppingPoints
<1>21. ASSUME NEW t \in Tasks, StopBegin(t) PROVE LockDiscipline'
  BY <1>21, TasksAssumption DEF StopBegin, TypeOK, LockDiscipline, Lock,
     slotVars, linkVars, remoteVars, States, LockedPoints, StartingPoints,
     StoppingPoints
<1>22. ASSUME NEW t \in Tasks, StopPending(t) PROVE LockDiscipline'
  BY <1>22, TasksAssumption DEF StopPending, TypeOK, LockDiscipline, Show,
     Send, slotVars, linkVars, States, LockedPoints, StartingPoints,
     StoppingPoints
<1>23. ASSUME NEW t \in Tasks, StopStore(t) PROVE LockDiscipline'
  BY <1>23, TasksAssumption DEF StopStore, TypeOK, LockDiscipline, Store,
     slotVars, linkVars, remoteVars, States, LockedPoints, StartingPoints,
     StoppingPoints
<1>24. ASSUME NEW t \in Tasks, StopEmit(t) PROVE LockDiscipline'
  BY <1>24, TasksAssumption DEF StopEmit, TypeOK, LockDiscipline, Emit,
     slotVars, linkVars, remoteVars, States, LockedPoints, StartingPoints,
     StoppingPoints
<1>25. ASSUME NEW t \in Tasks, SyncBegin(t) PROVE LockDiscipline'
  BY <1>25, TasksAssumption DEF SyncBegin, TypeOK, LockDiscipline, Lock,
     slotVars, remoteVars, States, LockedPoints, StartingPoints,
     StoppingPoints
<1>26. ASSUME NEW t \in Tasks, SyncRead(t) PROVE LockDiscipline'
  BY <1>26, TasksAssumption DEF SyncRead, TypeOK, LockDiscipline, Answer,
     CallPoint, slotVars, linkVars, remoteVars, States, LockedPoints,
     StartingPoints, StoppingPoints
<1>27. ASSUME NEW t \in Tasks, SyncStore(t) PROVE LockDiscipline'
  BY <1>27, TasksAssumption DEF SyncStore, TypeOK, LockDiscipline, Store,
     slotVars, linkVars, remoteVars, States, LockedPoints, StartingPoints,
     StoppingPoints
<1>28. ASSUME NEW t \in Tasks, SyncJudge(t) PROVE LockDiscipline'
  BY <1>28, TasksAssumption DEF SyncJudge, TypeOK, LockDiscipline,
     slotVars, linkVars, remoteVars, States, LockedPoints, StartingPoints,
     StoppingPoints
<1>29. ASSUME NEW t \in Tasks, SyncEmit(t) PROVE LockDiscipline'
  BY <1>29, TasksAssumption DEF SyncEmit, TypeOK, LockDiscipline, Emit,
     slotVars, linkVars, remoteVars, States, LockedPoints, StartingPoints,
     StoppingPoints
<1>30. ASSUME NEW t \in Tasks, SendNow(t) PROVE LockDiscipline'
  BY <1>30, TasksAssumption DEF SendNow, TypeOK, LockDiscipline, appVars,
     slotVars, linkVars, States, LockedPoints, StartingPoints, StoppingPoints
<1>31. ASSUME NEW t \in Tasks, TimeOut(t) PROVE LockDiscipline'
  BY <1>31, TasksAssumption DEF TimeOut, TypeOK, LockDiscipline, Answer,
     CallPoint, slotVars, linkVars, States, LockedPoints, StartingPoints,
     StoppingPoints
<1>32. ASSUME NEW t \in Tasks, OnStarted(t) PROVE LockDiscipline'
  BY <1>32, TasksAssumption DEF OnStarted, TypeOK, LockDiscipline, Free,
     Fresh, slotVars, linkVars, States, LockedPoints, StartingPoints,
     StoppingPoints
<1>33. ASSUME NEW t \in Tasks, RemoteStart(t) PROVE LockDiscipline'
  BY <1>33, TasksAssumption DEF RemoteStart, TypeOK, LockDiscipline,
     appVars, slotVars, linkVars, States, LockedPoints, StartingPoints,
     StoppingPoints
<1>34. ASSUME NEW t \in Tasks, RemoteStop(t) PROVE LockDiscipline'
  BY <1>34, TasksAssumption DEF RemoteStop, TypeOK, LockDiscipline,
     appVars, slotVars, linkVars, States, LockedPoints, StartingPoints,
     StoppingPoints
<1>35. ASSUME NEW t \in Tasks, NEW failed \in BOOLEAN,
             RemoteStarted(t, failed)
      PROVE  LockDiscipline'
  BY <1>35, TasksAssumption DEF RemoteStarted, TypeOK, LockDiscipline,
     Answer, CallPoint, RemoteAnswer, slotVars, linkVars, States,
     LockedPoints, StartingPoints, StoppingPoints
<1>36. ASSUME NEW t \in Tasks, NEW failed \in BOOLEAN,
             RemoteStopped(t, failed)
      PROVE  LockDiscipline'
  BY <1>36, TasksAssumption DEF RemoteStopped, TypeOK, LockDiscipline,
     Answer, CallPoint, RemoteAnswer, slotVars, linkVars, States,
     LockedPoints, StartingPoints, StoppingPoints
<1>37. ASSUME NEW t \in Tasks, CallStart(t) PROVE LockDiscipline'
  BY <1>37, TasksAssumption DEF CallStart, TypeOK, LockDiscipline, Free,
     Fresh, Launch, appVars, linkVars, remoteVars, States, LockedPoints,
     StartingPoints, StoppingPoints
<1>38. ASSUME NEW t \in Tasks, NoticeResult(t) PROVE LockDiscipline'
  BY <1>38, TasksAssumption DEF NoticeResult, TypeOK, LockDiscipline,
     Free, Fresh, Launch, linkVars, remoteVars, States, LockedPoints,
     StartingPoints, StoppingPoints
<1>39. ASSUME NEW t \in Tasks, Call(t) PROVE LockDiscipline'
  BY <1>39, TasksAssumption DEF Call, TypeOK, LockDiscipline, Free, Fresh,
     Launch, slotVars, linkVars, remoteVars, States, LockedPoints,
     StartingPoints, StoppingPoints
<1>40. ASSUME NEW t \in Tasks, PrepareResult(t) PROVE LockDiscipline'
  BY <1>40, TasksAssumption DEF PrepareResult, TypeOK, LockDiscipline,
     Free, Fresh, Launch, appVars, linkVars, remoteVars, States,
     LockedPoints, StartingPoints, StoppingPoints
<1>41. CASE AttachEngine
  BY <1>41, TasksAssumption DEF AttachEngine, TypeOK, LockDiscipline,
     appVars, linkVars, remoteVars, States, LockedPoints, PreparePoints,
     StartingPoints, StoppingPoints
<1>42. CASE DetachEngine
  BY <1>42, TasksAssumption DEF DetachEngine, TypeOK, LockDiscipline,
     appVars, linkVars, remoteVars, States, LockedPoints, StartingPoints,
     StoppingPoints
<1>43. CASE PluginInit
  BY <1>43, TasksAssumption DEF PluginInit, TypeOK, LockDiscipline,
     appVars, remoteVars, States, LockedPoints, StartingPoints,
     StoppingPoints
<1>44. CASE Shutdown
  BY <1>44, TasksAssumption DEF Shutdown, TypeOK, LockDiscipline, appVars,
     slotVars, remoteVars, States, LockedPoints, StartingPoints,
     StoppingPoints
<1>45. CASE RemoteDies
  BY <1>45, TasksAssumption DEF RemoteDies, TypeOK, LockDiscipline,
     appVars, slotVars, States, LockedPoints, StartingPoints, StoppingPoints
<1>46. CASE HandleLost
  BY <1>46, TasksAssumption DEF HandleLost, TypeOK, LockDiscipline,
     appVars, slotVars, remoteVars, States, LockedPoints, StartingPoints,
     StoppingPoints
<1>47. CASE OnServiceDisconnected
  BY <1>47, TasksAssumption DEF OnServiceDisconnected, TypeOK,
     LockDiscipline, slotVars, remoteVars, States, LockedPoints,
     StartingPoints, StoppingPoints
<1>48. CASE AppDies
  BY <1>48, TasksAssumption DEF AppDies, TypeOK, LockDiscipline, States,
     LockedPoints, StartingPoints, StoppingPoints
<1>49. CASE UNCHANGED vars
  BY <1>49 DEF vars, TypeOK, LockDiscipline, appVars, slotVars, linkVars,
     remoteVars, States, LockedPoints, StartingPoints, StoppingPoints
<1> QED
  BY <1>1, <1>2, <1>3, <1>4, <1>5, <1>6, <1>7, <1>8, <1>9, <1>10, <1>11,
     <1>12, <1>13, <1>14, <1>15, <1>16, <1>17, <1>18, <1>19, <1>20, <1>21,
     <1>22, <1>23, <1>24, <1>25, <1>26, <1>27, <1>28, <1>29, <1>30, <1>31,
     <1>32, <1>33, <1>34, <1>35, <1>36, <1>37, <1>38, <1>39, <1>40, <1>41,
     <1>42, <1>43, <1>44, <1>45, <1>46, <1>47, <1>48, <1>49 DEF Next,
     TaskStep, RemoteStep, Entry

\* Only the holder shows PENDING, and only until it lets go.
LEMMA PendingStep ==
    ASSUME TypeOK, LockDiscipline, PendingIsHeld, [Next]_vars
    PROVE  PendingIsHeld'
<1>1. ASSUME NEW t \in Tasks, Toggle(t) PROVE PendingIsHeld'
  BY <1>1, TasksAssumption DEF Toggle, TypeOK, LockDiscipline,
     PendingIsHeld, ToggleAction, Lock, Checked, slotVars, linkVars,
     remoteVars, States, LockedPoints, StartingPoints, StoppingPoints
<1>2. ASSUME NEW t \in Tasks, StartAction(t) PROVE PendingIsHeld'
  BY <1>2, TasksAssumption DEF StartAction, TypeOK, LockDiscipline,
     PendingIsHeld, Lock, Checked, Refused, slotVars, linkVars, remoteVars,
     States, LockedPoints, StartingPoints, StoppingPoints
<1>3. ASSUME NEW t \in Tasks, StopAction(t) PROVE PendingIsHeld'
  BY <1>3, TasksAssumption DEF StopAction, TypeOK, LockDiscipline,
     PendingIsHeld, Lock, Checked, Refused, slotVars, linkVars, remoteVars,
     States, LockedPoints, StartingPoints, StoppingPoints
<1>4. ASSUME NEW t \in Tasks, Setup(t) PROVE PendingIsHeld'
  BY <1>4, TasksAssumption DEF Setup, TypeOK, LockDiscipline,
     PendingIsHeld, Lock, slotVars, States, LockedPoints, StartingPoints,
     StoppingPoints
<1>5. ASSUME NEW t \in Tasks, SetupReturns(t) PROVE PendingIsHeld'
  BY <1>5, TasksAssumption DEF SetupReturns, TypeOK, LockDiscipline,
     PendingIsHeld, slotVars, linkVars, remoteVars, States, LockedPoints,
     StartingPoints, StoppingPoints
<1>6. ASSUME NEW t \in Tasks, Refuse(t) PROVE PendingIsHeld'
  BY <1>6, TasksAssumption DEF Refuse, TypeOK, LockDiscipline,
     PendingIsHeld, Lock, Checked, Refused, slotVars, linkVars, remoteVars,
     States, LockedPoints, StartingPoints, StoppingPoints
<1>7. ASSUME NEW t \in Tasks, StartBegin(t) PROVE PendingIsHeld'
  BY <1>7, TasksAssumption DEF StartBegin, TypeOK, LockDiscipline,
     PendingIsHeld, Lock, slotVars, linkVars, remoteVars, States,
     LockedPoints, StartingPoints, StoppingPoints
<1>8. ASSUME NEW t \in Tasks, StartPending(t) PROVE PendingIsHeld'
  BY <1>8, TasksAssumption DEF StartPending, TypeOK, LockDiscipline,
     PendingIsHeld, Show, slotVars, linkVars, remoteVars, States,
     LockedPoints, StartingPoints, StoppingPoints
<1>9. ASSUME NEW t \in Tasks, StartGivesUp(t) PROVE PendingIsHeld'
  BY <1>9, TasksAssumption DEF StartGivesUp, TypeOK, LockDiscipline,
     PendingIsHeld, slotVars, linkVars, remoteVars, States, LockedPoints,
     StartingPoints, StoppingPoints
<1>10. ASSUME NEW t \in Tasks, Prepare(t) PROVE PendingIsHeld'
  BY <1>10, TasksAssumption DEF Prepare, TypeOK, LockDiscipline,
     PendingIsHeld, Free, Fresh, linkVars, remoteVars, States, LockedPoints,
     StartingPoints, StoppingPoints
<1>11. ASSUME NEW t \in Tasks, StartFinally(t) PROVE PendingIsHeld'
  BY <1>11, TasksAssumption DEF StartFinally, TypeOK, LockDiscipline,
     PendingIsHeld, Show, Emit, slotVars, linkVars, remoteVars, States,
     LockedPoints, StartingPoints, StoppingPoints
<1>12. ASSUME NEW t \in Tasks, StartReset(t) PROVE PendingIsHeld'
  BY <1>12, TasksAssumption DEF StartReset, TypeOK, LockDiscipline,
     PendingIsHeld, Emit, slotVars, linkVars, remoteVars, States,
     LockedPoints, StartingPoints, StoppingPoints
<1>13. ASSUME NEW t \in Tasks, StartHeadless(t) PROVE PendingIsHeld'
  BY <1>13, TasksAssumption DEF StartHeadless, TypeOK, LockDiscipline,
     PendingIsHeld, Send, slotVars, linkVars, States, LockedPoints,
     StartingPoints, StoppingPoints
<1>14. ASSUME NEW t \in Tasks, StartStore(t) PROVE PendingIsHeld'
  BY <1>14, TasksAssumption DEF StartStore, TypeOK, LockDiscipline,
     PendingIsHeld, Store, slotVars, linkVars, remoteVars, States,
     LockedPoints, StartingPoints, StoppingPoints
<1>15. ASSUME NEW t \in Tasks, StartEmit(t) PROVE PendingIsHeld'
  BY <1>15, TasksAssumption DEF StartEmit, TypeOK, LockDiscipline,
     PendingIsHeld, Emit, slotVars, linkVars, remoteVars, States,
     LockedPoints, StartingPoints, StoppingPoints
<1>16. ASSUME NEW t \in Tasks, InvokePrepare(t) PROVE PendingIsHeld'
  BY <1>16, TasksAssumption DEF InvokePrepare, TypeOK, LockDiscipline,
     PendingIsHeld, slotVars, linkVars, remoteVars, States, LockedPoints,
     StartingPoints, StoppingPoints
<1>17. ASSUME NEW t \in Tasks, CallPrepared(t) PROVE PendingIsHeld'
  BY <1>17, TasksAssumption DEF CallPrepared, TypeOK, LockDiscipline,
     PendingIsHeld, Send, slotVars, linkVars, States, LockedPoints,
     StartingPoints, StoppingPoints
<1>18. ASSUME NEW t \in Tasks, StorePrepared(t) PROVE PendingIsHeld'
  BY <1>18, TasksAssumption DEF StorePrepared, TypeOK, LockDiscipline,
     PendingIsHeld, Store, slotVars, linkVars, remoteVars, States,
     LockedPoints, StartingPoints, StoppingPoints
<1>19. ASSUME NEW t \in Tasks, EmitPrepared(t) PROVE PendingIsHeld'
  BY <1>19, TasksAssumption DEF EmitPrepared, TypeOK, LockDiscipline,
     PendingIsHeld, Show, slotVars, linkVars, remoteVars, States,
     LockedPoints, StartingPoints, StoppingPoints, GapPoints
<1>20. ASSUME NEW t \in Tasks, ClearPrepared(t) PROVE PendingIsHeld'
  BY <1>20, TasksAssumption DEF ClearPrepared, TypeOK, LockDiscipline,
     PendingIsHeld, linkVars, remoteVars, States, LockedPoints,
     StartingPoints, StoppingPoints
<1>21. ASSUME NEW t \in Tasks, StopBegin(t) PROVE PendingIsHeld'
  BY <1>21, TasksAssumption DEF StopBegin, TypeOK, LockDiscipline,
     PendingIsHeld, Lock, slotVars, linkVars, remoteVars, States,
     LockedPoints, StartingPoints, StoppingPoints
<1>22. ASSUME NEW t \in Tasks, StopPending(t) PROVE PendingIsHeld'
  BY <1>22, TasksAssumption DEF StopPending, TypeOK, LockDiscipline,
     PendingIsHeld, Show, Send, slotVars, linkVars, States, LockedPoints,
     StartingPoints, StoppingPoints
<1>23. ASSUME NEW t \in Tasks, StopStore(t) PROVE PendingIsHeld'
  BY <1>23, TasksAssumption DEF StopStore, TypeOK, LockDiscipline,
     PendingIsHeld, Store, slotVars, linkVars, remoteVars, States,
     LockedPoints, StartingPoints, StoppingPoints
<1>24. ASSUME NEW t \in Tasks, StopEmit(t) PROVE PendingIsHeld'
  BY <1>24, TasksAssumption DEF StopEmit, TypeOK, LockDiscipline,
     PendingIsHeld, Emit, slotVars, linkVars, remoteVars, States,
     LockedPoints, StartingPoints, StoppingPoints
<1>25. ASSUME NEW t \in Tasks, SyncBegin(t) PROVE PendingIsHeld'
  BY <1>25, TasksAssumption DEF SyncBegin, TypeOK, LockDiscipline,
     PendingIsHeld, Lock, slotVars, remoteVars, States, LockedPoints,
     StartingPoints, StoppingPoints
<1>26. ASSUME NEW t \in Tasks, SyncRead(t) PROVE PendingIsHeld'
  BY <1>26, TasksAssumption DEF SyncRead, TypeOK, LockDiscipline,
     PendingIsHeld, Answer, CallPoint, slotVars, linkVars, remoteVars,
     States, LockedPoints, StartingPoints, StoppingPoints
<1>27. ASSUME NEW t \in Tasks, SyncStore(t) PROVE PendingIsHeld'
  BY <1>27, TasksAssumption DEF SyncStore, TypeOK, LockDiscipline,
     PendingIsHeld, Store, slotVars, linkVars, remoteVars, States,
     LockedPoints, StartingPoints, StoppingPoints
<1>28. ASSUME NEW t \in Tasks, SyncJudge(t) PROVE PendingIsHeld'
  BY <1>28, TasksAssumption DEF SyncJudge, TypeOK, LockDiscipline,
     PendingIsHeld, slotVars, linkVars, remoteVars, States, LockedPoints,
     StartingPoints, StoppingPoints
<1>29. ASSUME NEW t \in Tasks, SyncEmit(t) PROVE PendingIsHeld'
  BY <1>29, TasksAssumption DEF SyncEmit, TypeOK, LockDiscipline,
     PendingIsHeld, Emit, slotVars, linkVars, remoteVars, States,
     LockedPoints, StartingPoints, StoppingPoints
<1>30. ASSUME NEW t \in Tasks, SendNow(t) PROVE PendingIsHeld'
  BY <1>30, TasksAssumption DEF SendNow, TypeOK, LockDiscipline,
     PendingIsHeld, appVars, slotVars, linkVars, States, LockedPoints,
     StartingPoints, StoppingPoints
<1>31. ASSUME NEW t \in Tasks, TimeOut(t) PROVE PendingIsHeld'
  BY <1>31, TasksAssumption DEF TimeOut, TypeOK, LockDiscipline,
     PendingIsHeld, Answer, CallPoint, slotVars, linkVars, States,
     LockedPoints, StartingPoints, StoppingPoints
<1>32. ASSUME NEW t \in Tasks, OnStarted(t) PROVE PendingIsHeld'
  BY <1>32, TasksAssumption DEF OnStarted, TypeOK, LockDiscipline,
     PendingIsHeld, Free, Fresh, slotVars, linkVars, States, LockedPoints,
     StartingPoints, StoppingPoints
<1>33. ASSUME NEW t \in Tasks, RemoteStart(t) PROVE PendingIsHeld'
  BY <1>33, TasksAssumption DEF RemoteStart, TypeOK, LockDiscipline,
     PendingIsHeld, appVars, slotVars, linkVars, States, LockedPoints,
     StartingPoints, StoppingPoints
<1>34. ASSUME NEW t \in Tasks, RemoteStop(t) PROVE PendingIsHeld'
  BY <1>34, TasksAssumption DEF RemoteStop, TypeOK, LockDiscipline,
     PendingIsHeld, appVars, slotVars, linkVars, States, LockedPoints,
     StartingPoints, StoppingPoints
<1>35. ASSUME NEW t \in Tasks, NEW failed \in BOOLEAN,
             RemoteStarted(t, failed)
      PROVE  PendingIsHeld'
  BY <1>35, TasksAssumption DEF RemoteStarted, TypeOK, LockDiscipline,
     PendingIsHeld, Answer, CallPoint, RemoteAnswer, slotVars, linkVars,
     States, LockedPoints, StartingPoints, StoppingPoints
<1>36. ASSUME NEW t \in Tasks, NEW failed \in BOOLEAN,
             RemoteStopped(t, failed)
      PROVE  PendingIsHeld'
  BY <1>36, TasksAssumption DEF RemoteStopped, TypeOK, LockDiscipline,
     PendingIsHeld, Answer, CallPoint, RemoteAnswer, slotVars, linkVars,
     States, LockedPoints, StartingPoints, StoppingPoints
<1>37. ASSUME NEW t \in Tasks, CallStart(t) PROVE PendingIsHeld'
  BY <1>37, TasksAssumption DEF CallStart, TypeOK, LockDiscipline,
     PendingIsHeld, Free, Fresh, Launch, appVars, linkVars, remoteVars,
     States, LockedPoints, StartingPoints, StoppingPoints
<1>38. ASSUME NEW t \in Tasks, NoticeResult(t) PROVE PendingIsHeld'
  BY <1>38, TasksAssumption DEF NoticeResult, TypeOK, LockDiscipline,
     PendingIsHeld, Free, Fresh, Launch, linkVars, remoteVars, States,
     LockedPoints, StartingPoints, StoppingPoints
<1>39. ASSUME NEW t \in Tasks, Call(t) PROVE PendingIsHeld'
  BY <1>39, TasksAssumption DEF Call, TypeOK, LockDiscipline,
     PendingIsHeld, Free, Fresh, Launch, slotVars, linkVars, remoteVars,
     States, LockedPoints, StartingPoints, StoppingPoints
<1>40. ASSUME NEW t \in Tasks, PrepareResult(t) PROVE PendingIsHeld'
  BY <1>40, TasksAssumption DEF PrepareResult, TypeOK, LockDiscipline,
     PendingIsHeld, Free, Fresh, Launch, appVars, linkVars, remoteVars,
     States, LockedPoints, StartingPoints, StoppingPoints
<1>41. CASE AttachEngine
  BY <1>41, TasksAssumption DEF AttachEngine, TypeOK, LockDiscipline,
     PendingIsHeld, appVars, linkVars, remoteVars, States, LockedPoints,
     PreparePoints, StartingPoints, StoppingPoints
<1>42. CASE DetachEngine
  BY <1>42, TasksAssumption DEF DetachEngine, TypeOK, LockDiscipline,
     PendingIsHeld, appVars, linkVars, remoteVars, States, LockedPoints,
     StartingPoints, StoppingPoints
<1>43. CASE PluginInit
  BY <1>43, TasksAssumption DEF PluginInit, TypeOK, LockDiscipline,
     PendingIsHeld, appVars, remoteVars, States, LockedPoints,
     StartingPoints, StoppingPoints
<1>44. CASE Shutdown
  BY <1>44, TasksAssumption DEF Shutdown, TypeOK, LockDiscipline,
     PendingIsHeld, appVars, slotVars, remoteVars, States, LockedPoints,
     StartingPoints, StoppingPoints
<1>45. CASE RemoteDies
  BY <1>45, TasksAssumption DEF RemoteDies, TypeOK, LockDiscipline,
     PendingIsHeld, appVars, slotVars, States, LockedPoints, StartingPoints,
     StoppingPoints
<1>46. CASE HandleLost
  BY <1>46, TasksAssumption DEF HandleLost, TypeOK, LockDiscipline,
     PendingIsHeld, appVars, slotVars, remoteVars, States, LockedPoints,
     StartingPoints, StoppingPoints
<1>47. CASE OnServiceDisconnected
  BY <1>47, TasksAssumption DEF OnServiceDisconnected, TypeOK,
     LockDiscipline, PendingIsHeld, slotVars, remoteVars, States,
     LockedPoints, StartingPoints, StoppingPoints
<1>48. CASE AppDies
  BY <1>48, TasksAssumption DEF AppDies, TypeOK, LockDiscipline,
     PendingIsHeld, States, LockedPoints, StartingPoints, StoppingPoints
<1>49. CASE UNCHANGED vars
  BY <1>49 DEF vars, TypeOK, LockDiscipline, PendingIsHeld, appVars,
     slotVars, linkVars, remoteVars, States, LockedPoints, StartingPoints,
     StoppingPoints
<1> QED
  BY <1>1, <1>2, <1>3, <1>4, <1>5, <1>6, <1>7, <1>8, <1>9, <1>10, <1>11,
     <1>12, <1>13, <1>14, <1>15, <1>16, <1>17, <1>18, <1>19, <1>20, <1>21,
     <1>22, <1>23, <1>24, <1>25, <1>26, <1>27, <1>28, <1>29, <1>30, <1>31,
     <1>32, <1>33, <1>34, <1>35, <1>36, <1>37, <1>38, <1>39, <1>40, <1>41,
     <1>42, <1>43, <1>44, <1>45, <1>46, <1>47, <1>48, <1>49 DEF Next,
     TaskStep, RemoteStep, Entry

\* A second call beside the first is noticed (drift) when it begins.
LEMMA OneCallStep ==
    ASSUME TypeOK, LockDiscipline, OneCall, [Next]_vars
    PROVE  OneCall'
<1>1. ASSUME NEW t \in Tasks, Toggle(t) PROVE OneCall'
  BY <1>1, TasksAssumption DEF Toggle, TypeOK, LockDiscipline, OneCall,
     ToggleAction, Lock, Checked, slotVars, linkVars, remoteVars, States,
     Overlap, CallPoints, LockedPoints, StartingPoints, StoppingPoints
<1>2. ASSUME NEW t \in Tasks, StartAction(t) PROVE OneCall'
  BY <1>2, TasksAssumption DEF StartAction, TypeOK, LockDiscipline,
     OneCall, Lock, Checked, Refused, slotVars, linkVars, remoteVars, States,
     Overlap, CallPoints, LockedPoints, StartingPoints, StoppingPoints
<1>3. ASSUME NEW t \in Tasks, StopAction(t) PROVE OneCall'
  BY <1>3, TasksAssumption DEF StopAction, TypeOK, LockDiscipline,
     OneCall, Lock, Checked, Refused, slotVars, linkVars, remoteVars, States,
     Overlap, CallPoints, LockedPoints, StartingPoints, StoppingPoints
<1>4. ASSUME NEW t \in Tasks, Setup(t) PROVE OneCall'
  BY <1>4, TasksAssumption DEF Setup, TypeOK, LockDiscipline, OneCall,
     Lock, slotVars, States, Overlap, CallPoints, LockedPoints,
     StartingPoints, StoppingPoints
<1>5. ASSUME NEW t \in Tasks, SetupReturns(t) PROVE OneCall'
  BY <1>5, TasksAssumption DEF SetupReturns, TypeOK, LockDiscipline,
     OneCall, slotVars, linkVars, remoteVars, States, Overlap, CallPoints,
     LockedPoints, StartingPoints, StoppingPoints
<1>6. ASSUME NEW t \in Tasks, Refuse(t) PROVE OneCall'
  BY <1>6, TasksAssumption DEF Refuse, TypeOK, LockDiscipline, OneCall,
     Lock, Checked, Refused, slotVars, linkVars, remoteVars, States, Overlap,
     CallPoints, LockedPoints, StartingPoints, StoppingPoints
<1>7. ASSUME NEW t \in Tasks, StartBegin(t) PROVE OneCall'
  BY <1>7, TasksAssumption DEF StartBegin, TypeOK, LockDiscipline,
     OneCall, Lock, slotVars, linkVars, remoteVars, States, Overlap,
     CallPoints, LockedPoints, StartingPoints, StoppingPoints
<1>8. ASSUME NEW t \in Tasks, StartPending(t) PROVE OneCall'
  BY <1>8, TasksAssumption DEF StartPending, TypeOK, LockDiscipline,
     OneCall, Show, slotVars, linkVars, remoteVars, States, Overlap,
     CallPoints, LockedPoints, StartingPoints, StoppingPoints
<1>9. ASSUME NEW t \in Tasks, StartGivesUp(t) PROVE OneCall'
  BY <1>9, TasksAssumption DEF StartGivesUp, TypeOK, LockDiscipline,
     OneCall, slotVars, linkVars, remoteVars, States, Overlap, CallPoints,
     LockedPoints, StartingPoints, StoppingPoints
<1>10. ASSUME NEW t \in Tasks, Prepare(t) PROVE OneCall'
  BY <1>10, TasksAssumption DEF Prepare, TypeOK, LockDiscipline, OneCall,
     Free, Fresh, linkVars, remoteVars, States, Overlap, CallPoints,
     LockedPoints, StartingPoints, StoppingPoints
<1>11. ASSUME NEW t \in Tasks, StartFinally(t) PROVE OneCall'
  BY <1>11, TasksAssumption DEF StartFinally, TypeOK, LockDiscipline,
     OneCall, Show, Emit, slotVars, linkVars, remoteVars, States, Overlap,
     CallPoints, LockedPoints, StartingPoints, StoppingPoints
<1>12. ASSUME NEW t \in Tasks, StartReset(t) PROVE OneCall'
  BY <1>12, TasksAssumption DEF StartReset, TypeOK, LockDiscipline,
     OneCall, Emit, slotVars, linkVars, remoteVars, States, Overlap,
     CallPoints, LockedPoints, StartingPoints, StoppingPoints
<1>13. ASSUME NEW t \in Tasks, StartHeadless(t) PROVE OneCall'
  BY <1>13, TasksAssumption DEF StartHeadless, TypeOK, LockDiscipline,
     OneCall, Send, slotVars, linkVars, States, Drift, Overlap, CallPoints,
     LockedPoints, StartingPoints, StoppingPoints
<1>14. ASSUME NEW t \in Tasks, StartStore(t) PROVE OneCall'
  BY <1>14, TasksAssumption DEF StartStore, TypeOK, LockDiscipline,
     OneCall, Store, slotVars, linkVars, remoteVars, States, Overlap,
     CallPoints, LockedPoints, StartingPoints, StoppingPoints
<1>15. ASSUME NEW t \in Tasks, StartEmit(t) PROVE OneCall'
  BY <1>15, TasksAssumption DEF StartEmit, TypeOK, LockDiscipline,
     OneCall, Emit, slotVars, linkVars, remoteVars, States, Overlap,
     CallPoints, LockedPoints, StartingPoints, StoppingPoints
<1>16. ASSUME NEW t \in Tasks, InvokePrepare(t) PROVE OneCall'
  BY <1>16, TasksAssumption DEF InvokePrepare, TypeOK, LockDiscipline,
     OneCall, slotVars, linkVars, remoteVars, States, Overlap, CallPoints,
     LockedPoints, StartingPoints, StoppingPoints
<1>17. ASSUME NEW t \in Tasks, CallPrepared(t) PROVE OneCall'
  BY <1>17, TasksAssumption DEF CallPrepared, TypeOK, LockDiscipline,
     OneCall, Send, slotVars, linkVars, States, Drift, Overlap, CallPoints,
     LockedPoints, StartingPoints, StoppingPoints
<1>18. ASSUME NEW t \in Tasks, StorePrepared(t) PROVE OneCall'
  BY <1>18, TasksAssumption DEF StorePrepared, TypeOK, LockDiscipline,
     OneCall, Store, slotVars, linkVars, remoteVars, States, Overlap,
     CallPoints, LockedPoints, StartingPoints, StoppingPoints
<1>19. ASSUME NEW t \in Tasks, EmitPrepared(t) PROVE OneCall'
  BY <1>19, TasksAssumption DEF EmitPrepared, TypeOK, LockDiscipline,
     OneCall, Show, slotVars, linkVars, remoteVars, States, Drift, Overlap,
     CallPoints, LockedPoints, StartingPoints, StoppingPoints, GapPoints
<1>20. ASSUME NEW t \in Tasks, ClearPrepared(t) PROVE OneCall'
  BY <1>20, TasksAssumption DEF ClearPrepared, TypeOK, LockDiscipline,
     OneCall, linkVars, remoteVars, States, Overlap, CallPoints,
     LockedPoints, StartingPoints, StoppingPoints
<1>21. ASSUME NEW t \in Tasks, StopBegin(t) PROVE OneCall'
  BY <1>21, TasksAssumption DEF StopBegin, TypeOK, LockDiscipline,
     OneCall, Lock, slotVars, linkVars, remoteVars, States, Overlap,
     CallPoints, LockedPoints, StartingPoints, StoppingPoints
<1>22. ASSUME NEW t \in Tasks, StopPending(t) PROVE OneCall'
  BY <1>22, TasksAssumption DEF StopPending, TypeOK, LockDiscipline,
     OneCall, Show, Send, slotVars, linkVars, States, Drift, Overlap,
     CallPoints, LockedPoints, StartingPoints, StoppingPoints
<1>23. ASSUME NEW t \in Tasks, StopStore(t) PROVE OneCall'
  BY <1>23, TasksAssumption DEF StopStore, TypeOK, LockDiscipline,
     OneCall, Store, slotVars, linkVars, remoteVars, States, Overlap,
     CallPoints, LockedPoints, StartingPoints, StoppingPoints
<1>24. ASSUME NEW t \in Tasks, StopEmit(t) PROVE OneCall'
  BY <1>24, TasksAssumption DEF StopEmit, TypeOK, LockDiscipline, OneCall,
     Emit, slotVars, linkVars, remoteVars, States, Overlap, CallPoints,
     LockedPoints, StartingPoints, StoppingPoints
<1>25. ASSUME NEW t \in Tasks, SyncBegin(t) PROVE OneCall'
  BY <1>25, TasksAssumption DEF SyncBegin, TypeOK, LockDiscipline,
     OneCall, Lock, slotVars, remoteVars, States, Drift, Overlap, CallPoints,
     LockedPoints, StartingPoints, StoppingPoints
<1>26. ASSUME NEW t \in Tasks, SyncRead(t) PROVE OneCall'
  BY <1>26, TasksAssumption DEF SyncRead, TypeOK, LockDiscipline, OneCall,
     Answer, CallPoint, slotVars, linkVars, remoteVars, States, Overlap,
     CallPoints, LockedPoints, StartingPoints, StoppingPoints
<1>27. ASSUME NEW t \in Tasks, SyncStore(t) PROVE OneCall'
  BY <1>27, TasksAssumption DEF SyncStore, TypeOK, LockDiscipline,
     OneCall, Store, slotVars, linkVars, remoteVars, States, Overlap,
     CallPoints, LockedPoints, StartingPoints, StoppingPoints
<1>28. ASSUME NEW t \in Tasks, SyncJudge(t) PROVE OneCall'
  BY <1>28, TasksAssumption DEF SyncJudge, TypeOK, LockDiscipline,
     OneCall, slotVars, linkVars, remoteVars, States, Overlap, CallPoints,
     LockedPoints, StartingPoints, StoppingPoints
<1>29. ASSUME NEW t \in Tasks, SyncEmit(t) PROVE OneCall'
  BY <1>29, TasksAssumption DEF SyncEmit, TypeOK, LockDiscipline, OneCall,
     Emit, slotVars, linkVars, remoteVars, States, Overlap, CallPoints,
     LockedPoints, StartingPoints, StoppingPoints
<1>30. ASSUME NEW t \in Tasks, SendNow(t) PROVE OneCall'
  BY <1>30, TasksAssumption DEF SendNow, TypeOK, LockDiscipline, OneCall,
     appVars, slotVars, linkVars, States, Overlap, CallPoints, LockedPoints,
     StartingPoints, StoppingPoints
<1>31. ASSUME NEW t \in Tasks, TimeOut(t) PROVE OneCall'
  BY <1>31, TasksAssumption DEF TimeOut, TypeOK, LockDiscipline, OneCall,
     Answer, CallPoint, slotVars, linkVars, States, Drift, Overlap,
     CallPoints, LockedPoints, StartingPoints, StoppingPoints
<1>32. ASSUME NEW t \in Tasks, OnStarted(t) PROVE OneCall'
  BY <1>32, TasksAssumption DEF OnStarted, TypeOK, LockDiscipline,
     OneCall, Free, Fresh, slotVars, linkVars, States, Overlap, CallPoints,
     LockedPoints, StartingPoints, StoppingPoints
<1>33. ASSUME NEW t \in Tasks, RemoteStart(t) PROVE OneCall'
  BY <1>33, TasksAssumption DEF RemoteStart, TypeOK, LockDiscipline,
     OneCall, appVars, slotVars, linkVars, States, Overlap, CallPoints,
     LockedPoints, StartingPoints, StoppingPoints
<1>34. ASSUME NEW t \in Tasks, RemoteStop(t) PROVE OneCall'
  BY <1>34, TasksAssumption DEF RemoteStop, TypeOK, LockDiscipline,
     OneCall, appVars, slotVars, linkVars, States, Overlap, CallPoints,
     LockedPoints, StartingPoints, StoppingPoints
<1>35. ASSUME NEW t \in Tasks, NEW failed \in BOOLEAN,
             RemoteStarted(t, failed)
      PROVE  OneCall'
  BY <1>35, TasksAssumption DEF RemoteStarted, TypeOK, LockDiscipline,
     OneCall, Answer, CallPoint, RemoteAnswer, slotVars, linkVars, States,
     Drift, Overlap, CallPoints, LockedPoints, StartingPoints, StoppingPoints
<1>36. ASSUME NEW t \in Tasks, NEW failed \in BOOLEAN,
             RemoteStopped(t, failed)
      PROVE  OneCall'
  BY <1>36, TasksAssumption DEF RemoteStopped, TypeOK, LockDiscipline,
     OneCall, Answer, CallPoint, RemoteAnswer, slotVars, linkVars, States,
     Drift, Overlap, CallPoints, LockedPoints, StartingPoints, StoppingPoints
<1>37. ASSUME NEW t \in Tasks, CallStart(t) PROVE OneCall'
  BY <1>37, TasksAssumption DEF CallStart, TypeOK, LockDiscipline,
     OneCall, Free, Fresh, Launch, appVars, linkVars, remoteVars, States,
     Overlap, CallPoints, LockedPoints, StartingPoints, StoppingPoints
<1>38. ASSUME NEW t \in Tasks, NoticeResult(t) PROVE OneCall'
  BY <1>38, TasksAssumption DEF NoticeResult, TypeOK, LockDiscipline,
     OneCall, Free, Fresh, Launch, linkVars, remoteVars, States, Overlap,
     CallPoints, LockedPoints, StartingPoints, StoppingPoints
<1>39. ASSUME NEW t \in Tasks, Call(t) PROVE OneCall'
  BY <1>39, TasksAssumption DEF Call, TypeOK, LockDiscipline, OneCall,
     Free, Fresh, Launch, slotVars, linkVars, remoteVars, States, Overlap,
     CallPoints, LockedPoints, StartingPoints, StoppingPoints
<1>40. ASSUME NEW t \in Tasks, PrepareResult(t) PROVE OneCall'
  BY <1>40, TasksAssumption DEF PrepareResult, TypeOK, LockDiscipline,
     OneCall, Free, Fresh, Launch, appVars, linkVars, remoteVars, States,
     Overlap, CallPoints, LockedPoints, StartingPoints, StoppingPoints
<1>41. CASE AttachEngine
  BY <1>41, TasksAssumption DEF AttachEngine, TypeOK, LockDiscipline,
     OneCall, appVars, linkVars, remoteVars, States, Overlap, CallPoints,
     LockedPoints, PreparePoints, StartingPoints, StoppingPoints
<1>42. CASE DetachEngine
  BY <1>42, TasksAssumption DEF DetachEngine, TypeOK, LockDiscipline,
     OneCall, appVars, linkVars, remoteVars, States, Overlap, CallPoints,
     LockedPoints, StartingPoints, StoppingPoints
<1>43. CASE PluginInit
  BY <1>43, TasksAssumption DEF PluginInit, TypeOK, LockDiscipline,
     OneCall, appVars, remoteVars, States, Overlap, CallPoints, LockedPoints,
     StartingPoints, StoppingPoints
<1>44. CASE Shutdown
  BY <1>44, TasksAssumption DEF Shutdown, TypeOK, LockDiscipline, OneCall,
     appVars, slotVars, remoteVars, States, Overlap, CallPoints,
     LockedPoints, StartingPoints, StoppingPoints
<1>45. CASE RemoteDies
  BY <1>45, TasksAssumption DEF RemoteDies, TypeOK, LockDiscipline,
     OneCall, appVars, slotVars, States, Drift, Overlap, CallPoints,
     LockedPoints, StartingPoints, StoppingPoints
<1>46. CASE HandleLost
  BY <1>46, TasksAssumption DEF HandleLost, TypeOK, LockDiscipline,
     OneCall, appVars, slotVars, remoteVars, States, Overlap, CallPoints,
     LockedPoints, StartingPoints, StoppingPoints
<1>47. CASE OnServiceDisconnected
  BY <1>47, TasksAssumption DEF OnServiceDisconnected, TypeOK,
     LockDiscipline, OneCall, slotVars, remoteVars, States, Overlap,
     CallPoints, LockedPoints, StartingPoints, StoppingPoints
<1>48. CASE AppDies
  BY <1>48, TasksAssumption DEF AppDies, TypeOK, LockDiscipline, OneCall,
     States, Drift, Overlap, CallPoints, LockedPoints, StartingPoints,
     StoppingPoints
<1>49. CASE UNCHANGED vars
  BY <1>49 DEF vars, TypeOK, LockDiscipline, OneCall, appVars, slotVars,
     linkVars, remoteVars, States, Overlap, CallPoints, LockedPoints,
     StartingPoints, StoppingPoints
<1> QED
  BY <1>1, <1>2, <1>3, <1>4, <1>5, <1>6, <1>7, <1>8, <1>9, <1>10, <1>11,
     <1>12, <1>13, <1>14, <1>15, <1>16, <1>17, <1>18, <1>19, <1>20, <1>21,
     <1>22, <1>23, <1>24, <1>25, <1>26, <1>27, <1>28, <1>29, <1>30, <1>31,
     <1>32, <1>33, <1>34, <1>35, <1>36, <1>37, <1>38, <1>39, <1>40, <1>41,
     <1>42, <1>43, <1>44, <1>45, <1>46, <1>47, <1>48, <1>49 DEF Next,
     TaskStep, RemoteStep, Entry

\* A coroutine that goes from one point outside every call to another, having
\* looked at nothing, disturbs nothing.
LEMMA QuietMove ==
    ASSUME TypeOK, Phases, NEW t \in Tasks,
           NEW next, next \notin CallPoints \cup GapPoints \cup {"stopChecked"},
           pc[t] \notin CallPoints, pc' = [pc EXCEPT ![t] = next],
           UNCHANGED <<runState, runTime, got, disconnected, remoteVars, drift>>
    PROVE  Phases'
<1> SUFFICES ASSUME ~drift PROVE Phases'
  BY DEF Phases
<1>1. Looked(t)' /\ Phase(t)'
  BY DEF TypeOK, Phases, Looked, Phase, StartPoints, CallPoints, PreparePoints, remoteVars
<1>2. \A s \in Tasks \ {t} : Looked(s)' /\ Phase(s)'
  BY DEF TypeOK, Phases, Looked, Phase, RemoteRuns, RemoteRests, AppAgrees, remoteVars
<1>3. (\A s \in Tasks : pc'[s] \notin CallPoints) => \A s \in Tasks : pc[s] \notin CallPoints
  BY DEF TypeOK
<1> QED
  BY <1>1, <1>2, <1>3 DEF Phases, RemoteRuns, RemoteRests, AppAgrees, remoteVars

\* Each step of a call leads from what is known before it to what is known after.
LEMMA PhasesStep ==
    ASSUME TypeOK, LockDiscipline, PendingIsHeld, OneCall, Phases, [Next]_vars
    PROVE  Phases'
<1>1. ASSUME NEW t \in Tasks, Toggle(t) PROVE Phases'
  <2>1. ToggleAction[runState] \in {"idle", "stopAction", "startAction"}
    BY DEF ToggleAction, TypeOK, States
  <2>2. pc[t] = "toggle" /\ pc' = [pc EXCEPT ![t] = ToggleAction[runState]]
    BY <1>1 DEF Toggle, Checked, Lock
  <2>3. UNCHANGED <<runState, runTime, got, disconnected, remoteVars, drift>>
    BY <1>1 DEF Toggle, Checked, Lock, linkVars
  <2> QED
    BY <2>1, <2>2, <2>3, QuietMove DEF CallPoints, GapPoints
<1>2. ASSUME NEW t \in Tasks, StartAction(t) PROVE Phases'
  <2>1. \E next \in {"idle", "setup"} : pc' = [pc EXCEPT ![t] = next]
    BY <1>2 DEF StartAction, Refused, Checked, Lock, TypeOK, States
  <2>2. pc[t] \notin CallPoints
    BY <1>2 DEF StartAction, Refused, Checked, Lock, CallPoints
  <2>3. UNCHANGED <<runState, runTime, got, disconnected, remoteVars, drift>>
    BY <1>2 DEF StartAction, Refused, Checked, Lock, linkVars
  <2> QED
    BY <2>1, <2>2, <2>3, QuietMove DEF CallPoints, PreparePoints, GapPoints
<1>3. ASSUME NEW t \in Tasks, StopAction(t) PROVE Phases'
  <2>1. \E next \in {"idle", "stop"} : pc' = [pc EXCEPT ![t] = next]
    BY <1>3 DEF StopAction, Refused, Checked, Lock, TypeOK, States
  <2>2. pc[t] \notin CallPoints
    BY <1>3 DEF StopAction, Refused, Checked, Lock, CallPoints
  <2>3. UNCHANGED <<runState, runTime, got, disconnected, remoteVars, drift>>
    BY <1>3 DEF StopAction, Refused, Checked, Lock, linkVars
  <2> QED
    BY <2>1, <2>2, <2>3, QuietMove DEF CallPoints, PreparePoints, GapPoints
<1>4. ASSUME NEW t \in Tasks, Setup(t) PROVE Phases'
  BY <1>4, TasksAssumption, TimesAssumption DEF Setup, TypeOK,
     LockDiscipline, PendingIsHeld, OneCall, Phases, Lock, slotVars, Looked,
     Phase, StartPoints, RemoteRuns, RemoteRests, AppAgrees, Overlap,
     CallPoints, LockedPoints, PreparePoints, StartingPoints, StoppingPoints,
     GapPoints
<1>5. ASSUME NEW t \in Tasks, SetupReturns(t) PROVE Phases'
  BY <1>5, TasksAssumption, TimesAssumption DEF SetupReturns, TypeOK,
     LockDiscipline, PendingIsHeld, OneCall, Phases, slotVars, linkVars,
     remoteVars, Looked, Phase, StartPoints, RemoteRuns, RemoteRests,
     AppAgrees, Overlap, CallPoints, LockedPoints, PreparePoints,
     StartingPoints, StoppingPoints, GapPoints
<1>6. ASSUME NEW t \in Tasks, Refuse(t) PROVE Phases'
  <2>1. \E next \in {"idle"} : pc' = [pc EXCEPT ![t] = next]
    BY <1>6 DEF Refuse, Refused, Checked, Lock, TypeOK, States
  <2>2. pc[t] \notin CallPoints
    BY <1>6 DEF Refuse, Refused, Checked, Lock, CallPoints
  <2>3. UNCHANGED <<runState, runTime, got, disconnected, remoteVars, drift>>
    BY <1>6 DEF Refuse, Refused, Checked, Lock, linkVars
  <2> QED
    BY <2>1, <2>2, <2>3, QuietMove DEF CallPoints, PreparePoints, GapPoints
<1>7. ASSUME NEW t \in Tasks, StartBegin(t) PROVE Phases'
  BY <1>7, TasksAssumption, TimesAssumption DEF StartBegin, TypeOK,
     LockDiscipline, PendingIsHeld, OneCall, Phases, Lock, slotVars,
     linkVars, remoteVars, Looked, Phase, StartPoints, RemoteRuns,
     RemoteRests, AppAgrees, Overlap, CallPoints, LockedPoints,
     PreparePoints, StartingPoints, StoppingPoints, GapPoints
<1>8. ASSUME NEW t \in Tasks, StartPending(t) PROVE Phases'
  BY <1>8, TasksAssumption, TimesAssumption DEF StartPending, TypeOK,
     LockDiscipline, PendingIsHeld, OneCall, Phases, Show, slotVars,
     linkVars, remoteVars, Looked, Phase, StartPoints, RemoteRuns,
     RemoteRests, AppAgrees, Overlap, CallPoints, LockedPoints,
     PreparePoints, StartingPoints, StoppingPoints, GapPoints
<1>9. ASSUME NEW t \in Tasks, StartGivesUp(t) PROVE Phases'
  BY <1>9, TasksAssumption, TimesAssumption DEF StartGivesUp, TypeOK,
     LockDiscipline, PendingIsHeld, OneCall, Phases, slotVars, linkVars,
     remoteVars, Looked, Phase, StartPoints, RemoteRuns, RemoteRests,
     AppAgrees, Overlap, CallPoints, LockedPoints, PreparePoints,
     StartingPoints, StoppingPoints, GapPoints
<1>10. ASSUME NEW t \in Tasks, Prepare(t) PROVE Phases'
  BY <1>10, TasksAssumption, TimesAssumption DEF Prepare, TypeOK,
     LockDiscipline, PendingIsHeld, OneCall, Phases, Free, Fresh, linkVars,
     remoteVars, Looked, Phase, StartPoints, RemoteRuns, RemoteRests,
     AppAgrees, Overlap, CallPoints, LockedPoints, PreparePoints,
     StartingPoints, StoppingPoints, GapPoints
<1>11. ASSUME NEW t \in Tasks, StartFinally(t) PROVE Phases'
  <2>1. CASE runState # "PENDING"
    <3>1. pc[t] = "startFinally" /\ got' = [got EXCEPT ![t] = 0]
      BY <1>11, <2>1 DEF StartFinally, Emit, Show
    <3>2. pc' = [pc EXCEPT ![t] = "idle"]
      BY <1>11, <2>1 DEF StartFinally, Emit, Show
    <3>3. UNCHANGED <<runState, runTime, disconnected, remoteVars, drift>>
      BY <1>11, <2>1 DEF StartFinally, Emit, Show, linkVars
    <3> QED
      BY <3>1, <3>2, <3>3 DEF TypeOK, Phases, Looked, Phase, StartPoints, RemoteRuns,
         RemoteRests, AppAgrees, CallPoints, PreparePoints, GapPoints, remoteVars
  <2>2. CASE runState = "PENDING"
    <3>1. pc[t] = "startFinally" /\ pc' = [pc EXCEPT ![t] = "startReset"]
      BY <1>11, <2>2 DEF StartFinally, Emit, Show
    <3>2. UNCHANGED <<runState, runTime, got, disconnected, remoteVars, drift>>
      BY <1>11, <2>2 DEF StartFinally, Emit, Show, linkVars
    <3> QED
      BY <2>2, <3>1, <3>2 DEF TypeOK, Phases, Looked, Phase, StartPoints, RemoteRuns,
         RemoteRests, AppAgrees, CallPoints, PreparePoints, GapPoints, remoteVars
  <2> QED
    BY <2>1, <2>2
<1>12. ASSUME NEW t \in Tasks, StartReset(t) PROVE Phases'
  BY <1>12, TasksAssumption, TimesAssumption DEF StartReset, TypeOK,
     LockDiscipline, PendingIsHeld, OneCall, Phases, Emit, slotVars,
     linkVars, remoteVars, Looked, Phase, StartPoints, RemoteRuns,
     RemoteRests, AppAgrees, Overlap, CallPoints, LockedPoints,
     PreparePoints, StartingPoints, StoppingPoints, GapPoints
<1>13. ASSUME NEW t \in Tasks, StartHeadless(t) PROVE Phases'
  BY <1>13, TasksAssumption, TimesAssumption DEF StartHeadless, TypeOK,
     LockDiscipline, PendingIsHeld, OneCall, Phases, Send, slotVars,
     linkVars, Looked, Phase, StartPoints, RemoteRuns, RemoteRests,
     AppAgrees, Drift, Overlap, CallPoints, LockedPoints, PreparePoints,
     StartingPoints, StoppingPoints, GapPoints
<1>14. ASSUME NEW t \in Tasks, StartStore(t) PROVE Phases'
  BY <1>14, TasksAssumption, TimesAssumption DEF StartStore, TypeOK,
     LockDiscipline, PendingIsHeld, OneCall, Phases, Store, slotVars,
     linkVars, remoteVars, Looked, Phase, StartPoints, RemoteRuns,
     RemoteRests, AppAgrees, Overlap, CallPoints, LockedPoints,
     PreparePoints, StartingPoints, StoppingPoints, GapPoints
<1>15. ASSUME NEW t \in Tasks, StartEmit(t) PROVE Phases'
  BY <1>15, TasksAssumption, TimesAssumption DEF StartEmit, TypeOK,
     LockDiscipline, PendingIsHeld, OneCall, Phases, Emit, slotVars,
     linkVars, remoteVars, Looked, Phase, StartPoints, RemoteRuns,
     RemoteRests, AppAgrees, Overlap, CallPoints, LockedPoints,
     PreparePoints, StartingPoints, StoppingPoints, GapPoints
<1>16. ASSUME NEW t \in Tasks, InvokePrepare(t) PROVE Phases'
  BY <1>16, TasksAssumption, TimesAssumption DEF InvokePrepare, TypeOK,
     LockDiscipline, PendingIsHeld, OneCall, Phases, slotVars, linkVars,
     remoteVars, Looked, Phase, StartPoints, RemoteRuns, RemoteRests,
     AppAgrees, Overlap, CallPoints, LockedPoints, PreparePoints,
     StartingPoints, StoppingPoints, GapPoints
<1>17. ASSUME NEW t \in Tasks, CallPrepared(t) PROVE Phases'
  <2> SUFFICES ASSUME ~drift' PROVE Phases'
    BY DEF Phases
  <2>1. ~drift /\ runState # "START" /\ ~Overlap'
    BY <1>17 DEF CallPrepared, Drift
  <2>2. /\ pc[t] = "prepTaken" /\ pc' = [pc EXCEPT ![t] = "prepCall"]
        /\ command' = [command EXCEPT ![t] = IF bound THEN "start" ELSE "waiting"]
        /\ passed' = [passed EXCEPT ![t] = runTime]
        /\ UNCHANGED <<runState, runTime, got, disconnected, remoteLock, remoteTime,
                       attached, up>>
    BY <1>17 DEF CallPrepared, Send, linkVars
  <2>3. \A s \in Tasks \ {t} : pc[s] \notin CallPoints
    BY <2>1, <2>2 DEF Overlap, TypeOK, CallPoints
  <2>4. RemoteRests /\ runTime = 0
    BY <2>1, <2>2, <2>3 DEF Phases, RemoteRuns, RemoteRests, AppAgrees, CallPoints
  <2>5. Looked(t)' /\ Phase(t)'
    BY <2>1, <2>2, <2>4 DEF TypeOK, Looked, Phase, StartPoints, RemoteRests, GapPoints
  <2>6. \A s \in Tasks \ {t} : Looked(s)' /\ Phase(s)'
    BY <2>1, <2>2, <2>3 DEF TypeOK, Phases, Looked, Phase, StartPoints, CallPoints,
                         PreparePoints
  <2> QED
    BY <2>1, <2>2, <2>5, <2>6 DEF Phases, TypeOK, CallPoints
<1>18. ASSUME NEW t \in Tasks, StorePrepared(t) PROVE Phases'
  BY <1>18, TasksAssumption, TimesAssumption DEF StorePrepared, TypeOK,
     LockDiscipline, PendingIsHeld, OneCall, Phases, Store, slotVars,
     linkVars, remoteVars, Looked, Phase, StartPoints, RemoteRuns,
     RemoteRests, AppAgrees, Overlap, CallPoints, LockedPoints,
     PreparePoints, StartingPoints, StoppingPoints, GapPoints
<1>19. ASSUME NEW t \in Tasks, EmitPrepared(t) PROVE Phases'
  BY <1>19, TasksAssumption, TimesAssumption DEF EmitPrepared, TypeOK,
     LockDiscipline, PendingIsHeld, OneCall, Phases, Show, slotVars,
     linkVars, remoteVars, Looked, Phase, StartPoints, RemoteRuns,
     RemoteRests, AppAgrees, Drift, Overlap, CallPoints, LockedPoints,
     PreparePoints, StartingPoints, StoppingPoints, GapPoints
<1>20. ASSUME NEW t \in Tasks, ClearPrepared(t) PROVE Phases'
  BY <1>20, TasksAssumption, TimesAssumption DEF ClearPrepared, TypeOK,
     LockDiscipline, PendingIsHeld, OneCall, Phases, linkVars, remoteVars,
     Looked, Phase, StartPoints, RemoteRuns, RemoteRests, AppAgrees, Overlap,
     CallPoints, LockedPoints, PreparePoints, StartingPoints, StoppingPoints,
     GapPoints
<1>21. ASSUME NEW t \in Tasks, StopBegin(t) PROVE Phases'
  BY <1>21, TasksAssumption, TimesAssumption DEF StopBegin, TypeOK,
     LockDiscipline, PendingIsHeld, OneCall, Phases, Lock, slotVars,
     linkVars, remoteVars, Looked, Phase, StartPoints, RemoteRuns,
     RemoteRests, AppAgrees, Overlap, CallPoints, LockedPoints,
     PreparePoints, StartingPoints, StoppingPoints, GapPoints
<1>22. ASSUME NEW t \in Tasks, StopPending(t) PROVE Phases'
  BY <1>22, TasksAssumption, TimesAssumption DEF StopPending, TypeOK,
     LockDiscipline, PendingIsHeld, OneCall, Phases, Show, Send, slotVars,
     linkVars, Looked, Phase, StartPoints, RemoteRuns, RemoteRests,
     AppAgrees, Drift, Overlap, CallPoints, LockedPoints, PreparePoints,
     StartingPoints, StoppingPoints, GapPoints
<1>23. ASSUME NEW t \in Tasks, StopStore(t) PROVE Phases'
  BY <1>23, TasksAssumption, TimesAssumption DEF StopStore, TypeOK,
     LockDiscipline, PendingIsHeld, OneCall, Phases, Store, slotVars,
     linkVars, remoteVars, Looked, Phase, StartPoints, RemoteRuns,
     RemoteRests, AppAgrees, Overlap, CallPoints, LockedPoints,
     PreparePoints, StartingPoints, StoppingPoints, GapPoints
<1>24. ASSUME NEW t \in Tasks, StopEmit(t) PROVE Phases'
  BY <1>24, TasksAssumption, TimesAssumption DEF StopEmit, TypeOK,
     LockDiscipline, PendingIsHeld, OneCall, Phases, Emit, slotVars,
     linkVars, remoteVars, Looked, Phase, StartPoints, RemoteRuns,
     RemoteRests, AppAgrees, Overlap, CallPoints, LockedPoints,
     PreparePoints, StartingPoints, StoppingPoints, GapPoints
<1>25. ASSUME NEW t \in Tasks, SyncBegin(t) PROVE Phases'
  BY <1>25, TasksAssumption, TimesAssumption DEF SyncBegin, TypeOK,
     LockDiscipline, PendingIsHeld, OneCall, Phases, Lock, slotVars,
     remoteVars, Looked, Phase, StartPoints, RemoteRuns, RemoteRests,
     AppAgrees, Drift, Overlap, CallPoints, LockedPoints, PreparePoints,
     StartingPoints, StoppingPoints, GapPoints
<1>26. ASSUME NEW t \in Tasks, SyncRead(t) PROVE Phases'
  BY <1>26, TasksAssumption, TimesAssumption DEF SyncRead, TypeOK,
     LockDiscipline, PendingIsHeld, OneCall, Phases, Answer, CallPoint,
     slotVars, linkVars, remoteVars, Looked, Phase, StartPoints, RemoteRuns,
     RemoteRests, AppAgrees, Overlap, CallPoints, LockedPoints,
     PreparePoints, StartingPoints, StoppingPoints, GapPoints
<1>27. ASSUME NEW t \in Tasks, SyncStore(t) PROVE Phases'
  BY <1>27, TasksAssumption, TimesAssumption DEF SyncStore, TypeOK,
     LockDiscipline, PendingIsHeld, OneCall, Phases, Store, slotVars,
     linkVars, remoteVars, Looked, Phase, StartPoints, RemoteRuns,
     RemoteRests, AppAgrees, Overlap, CallPoints, LockedPoints,
     PreparePoints, StartingPoints, StoppingPoints, GapPoints
<1>28. ASSUME NEW t \in Tasks, SyncJudge(t) PROVE Phases'
  BY <1>28, TasksAssumption, TimesAssumption DEF SyncJudge, TypeOK,
     LockDiscipline, PendingIsHeld, OneCall, Phases, slotVars, linkVars,
     remoteVars, Looked, Phase, StartPoints, RemoteRuns, RemoteRests,
     AppAgrees, Overlap, CallPoints, LockedPoints, PreparePoints,
     StartingPoints, StoppingPoints, GapPoints
<1>29. ASSUME NEW t \in Tasks, SyncEmit(t) PROVE Phases'
  BY <1>29, TasksAssumption, TimesAssumption DEF SyncEmit, TypeOK,
     LockDiscipline, PendingIsHeld, OneCall, Phases, Emit, slotVars,
     linkVars, remoteVars, Looked, Phase, StartPoints, RemoteRuns,
     RemoteRests, AppAgrees, Overlap, CallPoints, LockedPoints,
     PreparePoints, StartingPoints, StoppingPoints, GapPoints
<1>30. ASSUME NEW t \in Tasks, SendNow(t) PROVE Phases'
  BY <1>30, TasksAssumption, TimesAssumption DEF SendNow, TypeOK,
     LockDiscipline, PendingIsHeld, OneCall, Phases, appVars, slotVars,
     linkVars, Looked, Phase, StartPoints, RemoteRuns, RemoteRests,
     AppAgrees, Overlap, CallPoints, LockedPoints, PreparePoints,
     StartingPoints, StoppingPoints, GapPoints
<1>31. ASSUME NEW t \in Tasks, TimeOut(t) PROVE Phases'
  BY <1>31, TasksAssumption, TimesAssumption DEF TimeOut, TypeOK,
     LockDiscipline, PendingIsHeld, OneCall, Phases, Answer, CallPoint,
     slotVars, linkVars, Looked, Phase, StartPoints, RemoteRuns, RemoteRests,
     AppAgrees, Drift, Overlap, CallPoints, LockedPoints, PreparePoints,
     StartingPoints, StoppingPoints, GapPoints
<1>32. ASSUME NEW t \in Tasks, OnStarted(t) PROVE Phases'
  BY <1>32, TasksAssumption, TimesAssumption DEF OnStarted, TypeOK,
     LockDiscipline, PendingIsHeld, OneCall, Phases, Free, Fresh, slotVars,
     linkVars, Looked, Phase, StartPoints, RemoteRuns, RemoteRests,
     AppAgrees, Overlap, CallPoints, LockedPoints, PreparePoints,
     StartingPoints, StoppingPoints, GapPoints
<1>33. ASSUME NEW t \in Tasks, RemoteStart(t) PROVE Phases'
  <2> SUFFICES ASSUME ~drift PROVE Phases'
    BY <1>33 DEF RemoteStart, Phases
  <2>1. pc[t] \in StartPoints
    BY <1>33 DEF RemoteStart, Phases, Phase, StartPoints
  <2>2. \A s \in Tasks \ {t} : pc[s] \notin CallPoints
    BY <2>1 DEF OneCall, Overlap, StartPoints, CallPoints
  <2>3. Phase(t)'
    BY <1>33, <2>1 DEF RemoteStart, TypeOK, Phases, Phase, StartPoints, appVars
  <2>4. \A s \in Tasks \ {t} : Phase(s)'
    BY <1>33, <2>2 DEF RemoteStart, TypeOK, Phases, Phase, StartPoints, CallPoints,
                   appVars
  <2>5. \A s \in Tasks : Looked(s)'
    BY <1>33 DEF RemoteStart, Phases, Looked, appVars
  <2> QED
    BY <1>33, <2>1, <2>3, <2>4, <2>5 DEF RemoteStart, Phases, StartPoints, CallPoints,
                                     appVars, linkVars
<1>34. ASSUME NEW t \in Tasks, RemoteStop(t) PROVE Phases'
  BY <1>34, TasksAssumption, TimesAssumption DEF RemoteStop, TypeOK,
     LockDiscipline, PendingIsHeld, OneCall, Phases, appVars, slotVars,
     linkVars, Looked, Phase, StartPoints, RemoteRuns, RemoteRests,
     AppAgrees, Overlap, CallPoints, LockedPoints, PreparePoints,
     StartingPoints, StoppingPoints, GapPoints
<1>35. ASSUME NEW t \in Tasks, NEW failed \in BOOLEAN,
             RemoteStarted(t, failed)
      PROVE  Phases'
  <2> SUFFICES ASSUME ~drift' PROVE Phases'
    BY DEF Phases
  <2>1. ~drift /\ ~failed
    BY <1>35 DEF RemoteStarted, Drift
  <2>2. pc[t] \in StartPoints /\ runState # "START"
    BY <1>35, <2>1 DEF RemoteStarted, Phases, Phase, StartPoints
  <2>3. \A s \in Tasks \ {t} : pc[s] \notin CallPoints
    BY <2>1, <2>2 DEF OneCall, Overlap, StartPoints, CallPoints
  <2>4. RemoteRuns' /\ got'[t] = remoteTime'
    BY <1>35, <2>1, <2>2, TimesAssumption
       DEF RemoteStarted, RemoteAnswer, Answer, CallPoint, TypeOK, Phases, Phase,
           StartPoints, RemoteRuns
  <2>5. pc'[t] \in {"prepStore", "startStore"} /\ command'[t] = "none"
    BY <1>35, <2>2 DEF RemoteStarted, RemoteAnswer, Answer, CallPoint, TypeOK,
                   StartPoints
  <2>6. runState' = runState
    BY <1>35 DEF RemoteStarted, RemoteAnswer
  <2>7. Looked(t)' /\ Phase(t)'
    BY <2>2, <2>4, <2>5, <2>6 DEF Looked, Phase, StartPoints, GapPoints
  <2>8. \A s \in Tasks \ {t} : pc'[s] = pc[s] /\ command'[s] = command[s]
    BY <1>35 DEF RemoteStarted, RemoteAnswer, Answer, TypeOK
  <2>9. \A s \in Tasks \ {t} : Looked(s)' /\ Phase(s)'
    BY <2>1, <2>3, <2>6, <2>8 DEF Phases, Looked, Phase, StartPoints, CallPoints
  <2> QED
    BY <1>35, <2>1, <2>5, <2>7, <2>9 DEF RemoteStarted, RemoteAnswer, Phases, CallPoints,
                                     linkVars
<1>36. ASSUME NEW t \in Tasks, NEW failed \in BOOLEAN,
             RemoteStopped(t, failed)
      PROVE  Phases'
  <2> SUFFICES ASSUME ~drift' PROVE Phases'
    BY DEF Phases
  <2>1. ~drift /\ ~failed
    BY <1>36 DEF RemoteStopped, Drift
  <2>2. pc[t] = "stopCall" /\ RemoteRuns
    BY <1>36, <2>1 DEF RemoteStopped, Phases, Phase, StartPoints
  <2>3. \A s \in Tasks \ {t} : pc[s] \notin CallPoints
    BY <2>1, <2>2 DEF OneCall, Overlap, CallPoints
  <2>4. RemoteRests' /\ got'[t] = 0
    BY <1>36, <2>1, <2>2 DEF RemoteStopped, RemoteAnswer, Answer, CallPoint, TypeOK,
                         RemoteRuns, RemoteRests
  <2>5. pc'[t] = "stopStore" /\ command'[t] = "none"
    BY <1>36, <2>2 DEF RemoteStopped, RemoteAnswer, Answer, CallPoint, TypeOK
  <2>6. runState' = runState
    BY <1>36 DEF RemoteStopped, RemoteAnswer
  <2>7. Looked(t)' /\ Phase(t)'
    BY <2>4, <2>5 DEF Looked, Phase, StartPoints, GapPoints, PreparePoints
  <2>8. \A s \in Tasks \ {t} : pc'[s] = pc[s] /\ command'[s] = command[s]
    BY <1>36 DEF RemoteStopped, RemoteAnswer, Answer, TypeOK
  <2>9. \A s \in Tasks \ {t} : Looked(s)' /\ Phase(s)'
    BY <2>1, <2>3, <2>6, <2>8 DEF Phases, Looked, Phase, StartPoints, CallPoints
  <2> QED
    BY <1>36, <2>1, <2>5, <2>7, <2>9 DEF RemoteStopped, RemoteAnswer, Phases, CallPoints,
                                     linkVars
<1>37. ASSUME NEW t \in Tasks, CallStart(t) PROVE Phases'
  <2>1. CASE Launch(t, "start")
    <3>1. pc[t] \notin CallPoints /\ pc' = [pc EXCEPT ![t] = "start"]
      BY <2>1 DEF Launch, Fresh, Free, CallPoints, PreparePoints
    <3>2. UNCHANGED <<runState, runTime, got, disconnected, remoteVars, drift>>
      BY <2>1 DEF Launch, linkVars
    <3> QED
      BY <3>1, <3>2, QuietMove DEF CallPoints, PreparePoints, GapPoints
  <2>2. CASE UNCHANGED <<appVars, linkVars, remoteVars, faults, drift>>
    BY <2>2 DEF Phases, Looked, Phase, StartPoints, RemoteRuns, RemoteRests, AppAgrees,
                appVars, linkVars, remoteVars
  <2> QED
    BY <1>37, <2>1, <2>2 DEF CallStart
<1>38. ASSUME NEW t \in Tasks, NoticeResult(t) PROVE Phases'
  BY <1>38, TasksAssumption, TimesAssumption DEF NoticeResult, TypeOK,
     LockDiscipline, PendingIsHeld, OneCall, Phases, Free, Fresh, Launch,
     linkVars, remoteVars, Looked, Phase, StartPoints, RemoteRuns,
     RemoteRests, AppAgrees, Overlap, CallPoints, LockedPoints,
     PreparePoints, StartingPoints, StoppingPoints, GapPoints
<1>39. ASSUME NEW t \in Tasks, Call(t) PROVE Phases'
  BY <1>39, TasksAssumption, TimesAssumption DEF Call, TypeOK,
     LockDiscipline, PendingIsHeld, OneCall, Phases, Free, Fresh, Launch,
     slotVars, linkVars, remoteVars, Looked, Phase, StartPoints, RemoteRuns,
     RemoteRests, AppAgrees, Overlap, CallPoints, LockedPoints,
     PreparePoints, StartingPoints, StoppingPoints, GapPoints
<1>40. ASSUME NEW t \in Tasks, PrepareResult(t) PROVE Phases'
  <2>1. CASE Launch(t, "prep")
    <3>1. pc[t] \notin CallPoints /\ pc' = [pc EXCEPT ![t] = "prep"]
      BY <2>1 DEF Launch, Fresh, Free, CallPoints, PreparePoints
    <3>2. UNCHANGED <<runState, runTime, got, disconnected, remoteVars, drift>>
      BY <2>1 DEF Launch, linkVars
    <3> QED
      BY <3>1, <3>2, QuietMove DEF CallPoints, PreparePoints, GapPoints
  <2>2. CASE UNCHANGED <<appVars, linkVars, remoteVars, faults, drift>>
    BY <2>2 DEF Phases, Looked, Phase, StartPoints, RemoteRuns, RemoteRests, AppAgrees,
                appVars, linkVars, remoteVars
  <2> QED
    BY <1>40, <2>1, <2>2 DEF PrepareResult
<1>41. CASE AttachEngine
  BY <1>41, TasksAssumption, TimesAssumption DEF AttachEngine, TypeOK,
     LockDiscipline, PendingIsHeld, OneCall, Phases, appVars, linkVars,
     remoteVars, Looked, Phase, StartPoints, RemoteRuns, RemoteRests,
     AppAgrees, Overlap, CallPoints, LockedPoints, PreparePoints,
     StartingPoints, StoppingPoints, GapPoints
<1>42. CASE DetachEngine
  BY <1>42, TasksAssumption, TimesAssumption DEF DetachEngine, TypeOK,
     LockDiscipline, PendingIsHeld, OneCall, Phases, appVars, linkVars,
     remoteVars, Looked, Phase, StartPoints, RemoteRuns, RemoteRests,
     AppAgrees, Overlap, CallPoints, LockedPoints, PreparePoints,
     StartingPoints, StoppingPoints, GapPoints
<1>43. CASE PluginInit
  BY <1>43, TasksAssumption, TimesAssumption DEF PluginInit, TypeOK,
     LockDiscipline, PendingIsHeld, OneCall, Phases, appVars, remoteVars,
     Looked, Phase, StartPoints, RemoteRuns, RemoteRests, AppAgrees, Overlap,
     CallPoints, LockedPoints, PreparePoints, StartingPoints, StoppingPoints,
     GapPoints
<1>44. CASE Shutdown
  BY <1>44, TasksAssumption, TimesAssumption DEF Shutdown, TypeOK,
     LockDiscipline, PendingIsHeld, OneCall, Phases, appVars, slotVars,
     remoteVars, Looked, Phase, StartPoints, RemoteRuns, RemoteRests,
     AppAgrees, Overlap, CallPoints, LockedPoints, PreparePoints,
     StartingPoints, StoppingPoints, GapPoints
<1>45. CASE RemoteDies
  BY <1>45, TasksAssumption, TimesAssumption DEF RemoteDies, TypeOK,
     LockDiscipline, PendingIsHeld, OneCall, Phases, appVars, slotVars,
     Looked, Phase, StartPoints, RemoteRuns, RemoteRests, AppAgrees, Drift,
     Overlap, CallPoints, LockedPoints, PreparePoints, StartingPoints,
     StoppingPoints, GapPoints
<1>46. CASE HandleLost
  BY <1>46, TasksAssumption, TimesAssumption DEF HandleLost, TypeOK,
     LockDiscipline, PendingIsHeld, OneCall, Phases, appVars, slotVars,
     remoteVars, Looked, Phase, StartPoints, RemoteRuns, RemoteRests,
     AppAgrees, Overlap, CallPoints, LockedPoints, PreparePoints,
     StartingPoints, StoppingPoints, GapPoints
<1>47. CASE OnServiceDisconnected
  BY <1>47, TasksAssumption, TimesAssumption DEF OnServiceDisconnected,
     TypeOK, LockDiscipline, PendingIsHeld, OneCall, Phases, slotVars,
     remoteVars, Looked, Phase, StartPoints, RemoteRuns, RemoteRests,
     AppAgrees, Overlap, CallPoints, LockedPoints, PreparePoints,
     StartingPoints, StoppingPoints, GapPoints
<1>48. CASE AppDies
  BY <1>48, TasksAssumption, TimesAssumption DEF AppDies, TypeOK,
     LockDiscipline, PendingIsHeld, OneCall, Phases, Looked, Phase,
     StartPoints, RemoteRuns, RemoteRests, AppAgrees, Drift, Overlap,
     CallPoints, LockedPoints, PreparePoints, StartingPoints, StoppingPoints,
     GapPoints
<1>49. CASE UNCHANGED vars
  BY <1>49 DEF vars, TypeOK, LockDiscipline, PendingIsHeld, OneCall,
     Phases, appVars, slotVars, linkVars, remoteVars, Looked, Phase,
     StartPoints, RemoteRuns, RemoteRests, AppAgrees, Overlap, CallPoints,
     LockedPoints, PreparePoints, StartingPoints, StoppingPoints, GapPoints
<1> QED
  BY <1>1, <1>2, <1>3, <1>4, <1>5, <1>6, <1>7, <1>8, <1>9, <1>10, <1>11,
     <1>12, <1>13, <1>14, <1>15, <1>16, <1>17, <1>18, <1>19, <1>20, <1>21,
     <1>22, <1>23, <1>24, <1>25, <1>26, <1>27, <1>28, <1>29, <1>30, <1>31,
     <1>32, <1>33, <1>34, <1>35, <1>36, <1>37, <1>38, <1>39, <1>40, <1>41,
     <1>42, <1>43, <1>44, <1>45, <1>46, <1>47, <1>48, <1>49 DEF Next,
     TaskStep, RemoteStep, Entry

\* Only a read of the run time ends the drift, and it asks for nothing.
LEMMA DriftStep ==
    ASSUME drift, [Next]_vars
    PROVE  drift' \/ command' = command
<1>1. ASSUME NEW t \in Tasks, Toggle(t) PROVE drift' \/ command' = command
  BY <1>1 DEF Toggle, ToggleAction, Lock, Checked, slotVars, linkVars,
     remoteVars
<1>2. ASSUME NEW t \in Tasks, StartAction(t) PROVE drift' \/ command' = command
  BY <1>2 DEF StartAction, Lock, Checked, Refused, slotVars, linkVars,
     remoteVars
<1>3. ASSUME NEW t \in Tasks, StopAction(t) PROVE drift' \/ command' = command
  BY <1>3 DEF StopAction, Lock, Checked, Refused, slotVars, linkVars,
     remoteVars
<1>4. ASSUME NEW t \in Tasks, Setup(t) PROVE drift' \/ command' = command
  BY <1>4 DEF Setup, Lock, slotVars
<1>5. ASSUME NEW t \in Tasks, SetupReturns(t) PROVE drift' \/ command' = command
  BY <1>5 DEF SetupReturns, slotVars, linkVars, remoteVars
<1>6. ASSUME NEW t \in Tasks, Refuse(t) PROVE drift' \/ command' = command
  BY <1>6 DEF Refuse, Lock, Checked, Refused, slotVars, linkVars,
     remoteVars
<1>7. ASSUME NEW t \in Tasks, StartBegin(t) PROVE drift' \/ command' = command
  BY <1>7 DEF StartBegin, Lock, slotVars, linkVars, remoteVars
<1>8. ASSUME NEW t \in Tasks, StartPending(t) PROVE drift' \/ command' = command
  BY <1>8 DEF StartPending, Show, slotVars, linkVars, remoteVars
<1>9. ASSUME NEW t \in Tasks, StartGivesUp(t) PROVE drift' \/ command' = command
  BY <1>9 DEF StartGivesUp, slotVars, linkVars, remoteVars
<1>10. ASSUME NEW t \in Tasks, Prepare(t) PROVE drift' \/ command' = command
  BY <1>10 DEF Prepare, Free, Fresh, linkVars, remoteVars
<1>11. ASSUME NEW t \in Tasks, StartFinally(t) PROVE drift' \/ command' = command
  BY <1>11 DEF StartFinally, Show, Emit, slotVars, linkVars, remoteVars
<1>12. ASSUME NEW t \in Tasks, StartReset(t) PROVE drift' \/ command' = command
  BY <1>12 DEF StartReset, Emit, slotVars, linkVars, remoteVars
<1>13. ASSUME NEW t \in Tasks, StartHeadless(t) PROVE drift' \/ command' = command
  BY <1>13 DEF StartHeadless, Send, slotVars, linkVars, Drift
<1>14. ASSUME NEW t \in Tasks, StartStore(t) PROVE drift' \/ command' = command
  BY <1>14 DEF StartStore, Store, slotVars, linkVars, remoteVars
<1>15. ASSUME NEW t \in Tasks, StartEmit(t) PROVE drift' \/ command' = command
  BY <1>15 DEF StartEmit, Emit, slotVars, linkVars, remoteVars
<1>16. ASSUME NEW t \in Tasks, InvokePrepare(t) PROVE drift' \/ command' = command
  BY <1>16 DEF InvokePrepare, slotVars, linkVars, remoteVars
<1>17. ASSUME NEW t \in Tasks, CallPrepared(t) PROVE drift' \/ command' = command
  BY <1>17 DEF CallPrepared, Send, slotVars, linkVars, Drift
<1>18. ASSUME NEW t \in Tasks, StorePrepared(t) PROVE drift' \/ command' = command
  BY <1>18 DEF StorePrepared, Store, slotVars, linkVars, remoteVars
<1>19. ASSUME NEW t \in Tasks, EmitPrepared(t) PROVE drift' \/ command' = command
  BY <1>19 DEF EmitPrepared, Show, slotVars, linkVars, remoteVars, Drift
<1>20. ASSUME NEW t \in Tasks, ClearPrepared(t) PROVE drift' \/ command' = command
  BY <1>20 DEF ClearPrepared, linkVars, remoteVars
<1>21. ASSUME NEW t \in Tasks, StopBegin(t) PROVE drift' \/ command' = command
  BY <1>21 DEF StopBegin, Lock, slotVars, linkVars, remoteVars
<1>22. ASSUME NEW t \in Tasks, StopPending(t) PROVE drift' \/ command' = command
  BY <1>22 DEF StopPending, Show, Send, slotVars, linkVars, Drift
<1>23. ASSUME NEW t \in Tasks, StopStore(t) PROVE drift' \/ command' = command
  BY <1>23 DEF StopStore, Store, slotVars, linkVars, remoteVars
<1>24. ASSUME NEW t \in Tasks, StopEmit(t) PROVE drift' \/ command' = command
  BY <1>24 DEF StopEmit, Emit, slotVars, linkVars, remoteVars
<1>25. ASSUME NEW t \in Tasks, SyncBegin(t) PROVE drift' \/ command' = command
  BY <1>25 DEF SyncBegin, Lock, slotVars, remoteVars, Drift
<1>26. ASSUME NEW t \in Tasks, SyncRead(t) PROVE drift' \/ command' = command
  BY <1>26 DEF SyncRead, Answer, CallPoint, slotVars, linkVars, remoteVars
<1>27. ASSUME NEW t \in Tasks, SyncStore(t) PROVE drift' \/ command' = command
  BY <1>27 DEF SyncStore, Store, slotVars, linkVars, remoteVars
<1>28. ASSUME NEW t \in Tasks, SyncJudge(t) PROVE drift' \/ command' = command
  BY <1>28 DEF SyncJudge, slotVars, linkVars, remoteVars
<1>29. ASSUME NEW t \in Tasks, SyncEmit(t) PROVE drift' \/ command' = command
  BY <1>29 DEF SyncEmit, Emit, slotVars, linkVars, remoteVars
<1>30. ASSUME NEW t \in Tasks, SendNow(t) PROVE drift' \/ command' = command
  BY <1>30 DEF SendNow, appVars, slotVars, linkVars
<1>31. ASSUME NEW t \in Tasks, TimeOut(t) PROVE drift' \/ command' = command
  BY <1>31 DEF TimeOut, Answer, CallPoint, slotVars, linkVars, Drift
<1>32. ASSUME NEW t \in Tasks, OnStarted(t) PROVE drift' \/ command' = command
  BY <1>32 DEF OnStarted, Free, Fresh, slotVars, linkVars
<1>33. ASSUME NEW t \in Tasks, RemoteStart(t) PROVE drift' \/ command' = command
  BY <1>33 DEF RemoteStart, appVars, slotVars, linkVars
<1>34. ASSUME NEW t \in Tasks, RemoteStop(t) PROVE drift' \/ command' = command
  BY <1>34 DEF RemoteStop, appVars, slotVars, linkVars
<1>35. ASSUME NEW t \in Tasks, NEW failed \in BOOLEAN,
             RemoteStarted(t, failed)
      PROVE  drift' \/ command' = command
  BY <1>35 DEF RemoteStarted, Answer, CallPoint, RemoteAnswer, slotVars,
     linkVars, Drift
<1>36. ASSUME NEW t \in Tasks, NEW failed \in BOOLEAN,
             RemoteStopped(t, failed)
      PROVE  drift' \/ command' = command
  BY <1>36 DEF RemoteStopped, Answer, CallPoint, RemoteAnswer, slotVars,
     linkVars, Drift
<1>37. ASSUME NEW t \in Tasks, CallStart(t) PROVE drift' \/ command' = command
  BY <1>37 DEF CallStart, Free, Fresh, Launch, appVars, linkVars,
     remoteVars
<1>38. ASSUME NEW t \in Tasks, NoticeResult(t) PROVE drift' \/ command' = command
  BY <1>38 DEF NoticeResult, Free, Fresh, Launch, linkVars, remoteVars
<1>39. ASSUME NEW t \in Tasks, Call(t) PROVE drift' \/ command' = command
  BY <1>39 DEF Call, Free, Fresh, Launch, slotVars, linkVars, remoteVars
<1>40. ASSUME NEW t \in Tasks, PrepareResult(t) PROVE drift' \/ command' = command
  BY <1>40 DEF PrepareResult, Free, Fresh, Launch, appVars, linkVars,
     remoteVars
<1>41. CASE AttachEngine
  BY <1>41 DEF AttachEngine, appVars, linkVars, remoteVars
<1>42. CASE DetachEngine
  BY <1>42 DEF DetachEngine, appVars, linkVars, remoteVars
<1>43. CASE PluginInit
  BY <1>43 DEF PluginInit, appVars, remoteVars
<1>44. CASE Shutdown
  BY <1>44 DEF Shutdown, appVars, slotVars, remoteVars
<1>45. CASE RemoteDies
  BY <1>45 DEF RemoteDies, appVars, slotVars, Drift
<1>46. CASE HandleLost
  BY <1>46 DEF HandleLost, appVars, slotVars, remoteVars
<1>47. CASE OnServiceDisconnected
  BY <1>47 DEF OnServiceDisconnected, slotVars, remoteVars
<1>48. CASE AppDies
  BY <1>48 DEF AppDies, Drift
<1>49. CASE UNCHANGED vars
  BY <1>49 DEF vars, appVars, slotVars, linkVars, remoteVars
<1> QED
  BY <1>1, <1>2, <1>3, <1>4, <1>5, <1>6, <1>7, <1>8, <1>9, <1>10, <1>11,
     <1>12, <1>13, <1>14, <1>15, <1>16, <1>17, <1>18, <1>19, <1>20, <1>21,
     <1>22, <1>23, <1>24, <1>25, <1>26, <1>27, <1>28, <1>29, <1>30, <1>31,
     <1>32, <1>33, <1>34, <1>35, <1>36, <1>37, <1>38, <1>39, <1>40, <1>41,
     <1>42, <1>43, <1>44, <1>45, <1>46, <1>47, <1>48, <1>49 DEF Next,
     TaskStep, RemoteStep, Entry

-----------------------------------------------------------------------------
LEMMA InitIInv == Init => IInv
<1> SUFFICES ASSUME Init PROVE IInv
  OBVIOUS
<1>1. TypeOK
  BY TimesAssumption DEF Init, TypeOK, States, Points, Commands
<1>2. LockDiscipline /\ PendingIsHeld
  BY TasksAssumption DEF Init, LockDiscipline, PendingIsHeld, LockedPoints,
     StartingPoints, StoppingPoints
<1>3. OneCall
  BY DEF Init, OneCall, Overlap, CallPoints
<1>4. Phases
  BY DEF Init, Phases, Looked, Phase, GapPoints, StartPoints, RemoteRests, AppAgrees, CallPoints
<1> QED
  BY <1>1, <1>2, <1>3, <1>4 DEF IInv

LEMMA StepIInv == IInv /\ [Next]_vars => IInv'
<1> SUFFICES ASSUME IInv, [Next]_vars PROVE IInv'
  OBVIOUS
<1> QED
  BY TypeStep, LockStep, PendingStep, OneCallStep, PhasesStep DEF IInv

\* The invariant the others follow from.
THEOREM Inductive == Spec => []IInv
BY InitIInv, StepIInv, PTL DEF Spec

\* The state, the locks and the requests have the values State.kt and
\* RemoteService.kt give them.
THEOREM TypeCorrect == Spec => []TypeOK
<1>1. IInv => TypeOK
  BY DEF IInv
<1> QED
  BY Inductive, <1>1, PTL

\* Only a start or a stop that holds runLock shows PENDING: the tile never
\* sticks.
THEOREM PendingHeld == Spec => []PendingIsHeld
<1>1. IInv => PendingIsHeld
  BY DEF IInv
<1> QED
  BY Inductive, <1>1, PTL

LEMMA PhasesAgree == IInv => Agreement
<1> SUFFICES ASSUME IInv, Quiet, ~drift
             PROVE  /\ (runState = "START") = (remoteTime # 0)
                    /\ runTime = remoteTime
                    /\ up = (remoteTime # 0)
  BY DEF Agreement
<1>1. (RemoteRuns \/ RemoteRests) /\ AppAgrees
  BY DEF IInv, Phases, Quiet
<1>2. up \in BOOLEAN
  BY DEF IInv, TypeOK
<1> QED
  BY <1>1, <1>2 DEF RemoteRuns, RemoteRests, AppAgrees

\* At rest the app and the service process agree on whether the VPN runs and
\* since when, unless something failed, was late or met since they last did.
THEOREM ProcessesAgree == Spec => []Agreement
BY Inductive, PhasesAgree, PTL

\* Under the same conditions no start reaches a service that runs.
THEOREM StartsFromRest == Spec => NoStartOverRunning
<1>1. IInv /\ [Next]_vars =>
          [\A t \in Tasks :
               command[t] = "start" /\ command'[t] = "starting" /\ ~drift' => ~up]_vars
  <2> SUFFICES ASSUME IInv, [Next]_vars, NEW t \in Tasks,
                      command[t] = "start", command'[t] = "starting", ~drift'
               PROVE  ~up
    OBVIOUS
  <2>1. ~drift => ~up
    BY DEF IInv, TypeOK, Phases, Phase, StartPoints
  <2>2. drift => drift'
    BY DriftStep
  <2> QED
    BY <2>1, <2>2
<1> QED
  BY Inductive, <1>1, PTL DEF Spec, NoStartOverRunning
=============================================================================
