----------------------------- MODULE Core_proofs -----------------------------
(***************************************************************************)
(* Proofs about CoreHub and about TunHandler, which extends it: the types  *)
(* and the safety invariants of the request handlers, for any number of    *)
(* requests, any set of methods, configuration files and ports, and those  *)
(* of the tunnel's thread, for any number of connections and handlers.     *)
(*                                                                         *)
(* None of ListenersFollow, SetupSettles and LockOwned is inductive.       *)
(* HubInv adds what the handlers rely on: a request that reached the       *)
(* second half of quickSetup found the core initialised, a stopped core    *)
(* and a core without configuration have no open port, and the last setup  *)
(* sent is either still to come to its reading of config.yaml or has left  *)
(* the content it read in currentConfig.                                   *)
(*                                                                         *)
(* TunInv adds three parts for the tunnel.  References says, phase by      *)
(* phase, which handlers hold a reference, a callback and a listener;      *)
(* Permits ties the semaphore to the dialers; ThreadLocks ties runLock to  *)
(* the section of TunHandler.start.  The JNI references are then used as   *)
(* CallbackLease says, nothing is left over between two calls of startTUN  *)
(* and stopTun, and the invariants of CoreHub survive the tunnel's thread. *)
(***************************************************************************)
EXTENDS TunHandler, TLAPS

\* One step of the core's own request handlers or of the client.
HubAction == WriteFile \/ \E g \in Goroutines : Dispatch(g) \/ Request(g)

USE DEF Points, Holding, AllMethods, lifecycle, listeners, client

-----------------------------------------------------------------------------
(* Facts about the operators *)

\* A parsed file is a configuration, and never nil.
LEMMA ParsedType ==
    ASSUME NEW content \in Files \cup {BadFile}
    PROVE  Parsed(content) \in Configs /\ Parsed(content) # NoConfig
BY FilesAssumption, ConfigAssumption DEF Parsed, Configs

\* Patching the port of a configuration keeps its file.
LEMMA PatchedType ==
    ASSUME NEW config \in Configs, NEW port \in Ports
    PROVE  /\ [config EXCEPT !.port = port] \in Configs
           /\ [config EXCEPT !.port = port] # NoConfig
           /\ [config EXCEPT !.port = port].file = config.file
BY ConfigAssumption DEF Configs

\* What updateListeners leaves behind: no change if the core is stopped or
\* has no configuration, else listeners of that configuration or none.
LEMMA UpdateListenersResult ==
    ASSUME NEW running \in BOOLEAN, NEW config \in Configs \cup {NoConfig},
           ports \in Ports \cup {Closed},
           inbounds \in Files \cup {DefaultFile, Closed},
           UpdateListeners(running, config)
    PROVE  /\ ports' \in Ports \cup {Closed}
           /\ inbounds' \in Files \cup {DefaultFile, Closed}
           /\ running /\ config # NoConfig =>
                 /\ ports' \in {config.port, Closed}
                 /\ inbounds' \in {config.file, Closed}
           /\ ~running \/ config = NoConfig => UNCHANGED <<ports, inbounds>>
<1>1. CASE running /\ config # NoConfig
  <2>1. config \in Configs
    BY <1>1
  <2>2. config.port \in Ports /\ config.file \in Files \cup {DefaultFile}
    BY <2>1 DEF Configs
  <2>. QED
    BY <1>1, <2>2 DEF UpdateListeners, Reopen
<1>2. CASE ~(running /\ config # NoConfig)
  BY <1>2 DEF UpdateListeners
<1>. QED
  BY <1>1, <1>2

-----------------------------------------------------------------------------
(* Type correctness *)

\* Every step keeps the type invariant.
LEMMA TypeStep ==
    ASSUME TypeOK, HubAction
    PROVE  TypeOK'
<1>. USE DEF TypeOK, Goto, Section
<1>1. CASE WriteFile
  BY <1>1 DEF WriteFile
<1>2. ASSUME NEW g \in Goroutines, Dispatch(g) PROVE TypeOK'
  BY <1>2, MethodsAssumption DEF Dispatch
<1>3. ASSUME NEW g \in Goroutines, Request(g) PROVE TypeOK'
  <2>1. CASE Reply(g)
    BY <2>1 DEF Reply
  <2>2. CASE RejectUpdate(g)
    BY <2>2 DEF RejectUpdate
  <2>3. CASE InitClash(g)
    BY <2>3 DEF InitClash
  <2>4. CASE UpdateConfig(g)
    <3>1. CASE currentConfig = NoConfig
      BY <2>4, <3>1 DEF UpdateConfig
    <3>2. CASE currentConfig # NoConfig
      <4>1. PICK port \in Ports :
              /\ currentConfig' = [currentConfig EXCEPT !.port = port]
              /\ UpdateListeners(isRunning, currentConfig')
              /\ pc' = [pc EXCEPT ![g] = "reply"]
              /\ UNCHANGED panicked
        BY <2>4, <3>2 DEF UpdateConfig
      <4>2. currentConfig' \in Configs
        BY <3>2, <4>1, PatchedType
      <4>3. ports' \in Ports \cup {Closed} /\ inbounds' \in Files \cup {DefaultFile, Closed}
        BY <4>1, <4>2, UpdateListenersResult
      <4>. QED
        BY <2>4, <4>1, <4>2, <4>3 DEF UpdateConfig
    <3>. QED
      BY <3>1, <3>2
  <2>5. CASE StartListener(g)
    <3>1. ports' \in Ports \cup {Closed} /\ inbounds' \in Files \cup {DefaultFile, Closed}
      BY <2>5, UpdateListenersResult DEF StartListener, StartListenerSection
    <3>. QED
      BY <2>5, <3>1 DEF StartListener, StartListenerSection
  <2>6. CASE StopListenerRequest(g)
    BY <2>6 DEF StopListenerRequest, StopListenerSection, StopListener
  <2>7. CASE Query(g)
    BY <2>7 DEF Query
  <2>8. CASE ChangeProxy(g)
    BY <2>8 DEF ChangeProxy
  <2>9. CASE AnswerChangeProxy(g)
    BY <2>9 DEF AnswerChangeProxy
  <2>10. CASE QuickInit(g)
    BY <2>10 DEF QuickInit
  <2>11. CASE MarkRunning(g)
    BY <2>11 DEF MarkRunning
  <2>12. CASE CheckInit(g)
    BY <2>12 DEF CheckInit
  <2>13. CASE LockSetup(g)
    BY <2>13 DEF LockSetup
  <2>14. CASE LoadConfig(g)
    BY <2>14, ParsedType DEF LoadConfig
  <2>15. CASE ApplyConfig(g)
    <3>1. ports' \in Ports \cup {Closed} /\ inbounds' \in Files \cup {DefaultFile, Closed}
      BY <2>15, UpdateListenersResult DEF ApplyConfig
    <3>. QED
      BY <2>15, <3>1 DEF ApplyConfig
  <2>. QED
    BY <1>3, <2>1, <2>2, <2>3, <2>4, <2>5, <2>6, <2>7, <2>8, <2>9, <2>10,
       <2>11, <2>12, <2>13, <2>14, <2>15 DEF Request
<1>. QED
  BY <1>1, <1>2, <1>3 DEF HubAction

\* The initial states are well typed.
LEMMA TypeInit == HubInit => TypeOK
BY DEF HubInit, TypeOK

\* A step of the specification is a step of a handler or the client, or
\* changes nothing.
LEMMA HubNextSplit == [HubNext]_hubVars => HubAction \/ UNCHANGED hubVars
BY DEF HubNext, HubAction, Dead

\* Type correctness of the core's shared state (core/common.go).
THEOREM TypeCorrect == HubSpec => []TypeOK
<1>1. TypeOK /\ UNCHANGED hubVars => TypeOK'
  BY DEF TypeOK, hubVars
<1>2. TypeOK /\ [HubNext]_hubVars => TypeOK'
  BY <1>1, TypeStep, HubNextSplit
<1>. QED
  BY <1>2, TypeInit, PTL DEF HubSpec

-----------------------------------------------------------------------------
(* runLock *)

\* Every step keeps the ownership of runLock.
LEMMA LockStep ==
    ASSUME TypeOK, LockOwned, HubAction
    PROVE  LockOwned'
<1>. USE ThreadsAssumption DEF TypeOK, LockOwned, Goto, Section
<1>1. CASE WriteFile
  BY <1>1 DEF WriteFile
<1>2. ASSUME NEW g \in Goroutines, Dispatch(g) PROVE LockOwned'
  BY <1>2 DEF Dispatch
<1>3. ASSUME NEW g \in Goroutines, Request(g) PROVE LockOwned'
  <2>1. CASE \/ Reply(g) \/ RejectUpdate(g) \/ InitClash(g) \/ StartListener(g)
             \/ StopListenerRequest(g) \/ Query(g) \/ QuickInit(g)
             \/ MarkRunning(g) \/ CheckInit(g)
    BY <2>1 DEF Reply, RejectUpdate, InitClash, StartListener,
                StopListenerRequest, Query, QuickInit, MarkRunning, CheckInit
  <2>2. CASE UpdateConfig(g)
    <3>1. runLock' = runLock /\ pc[g] = "section"
      BY <2>2 DEF UpdateConfig
    <3>2. pc' = pc \/ pc' = [pc EXCEPT ![g] = "reply"]
      BY <2>2 DEF UpdateConfig
    <3>. QED
      BY <3>1, <3>2
  <2>3. CASE ChangeProxy(g) \/ LockSetup(g)
    BY <2>3 DEF ChangeProxy, LockSetup
  <2>4. CASE LoadConfig(g)
    BY <2>4 DEF LoadConfig
  <2>5. CASE AnswerChangeProxy(g) \/ ApplyConfig(g)
    BY <2>5 DEF AnswerChangeProxy, ApplyConfig
  <2>. QED
    BY <1>3, <2>1, <2>2, <2>3, <2>4, <2>5 DEF Request
<1>. QED
  BY <1>1, <1>2, <1>3 DEF HubAction

\* runLock is free initially.
LEMMA LockInit == HubInit => LockOwned
BY ThreadsAssumption DEF HubInit, LockOwned

\* runLock is held exactly by the request inside a long section: every path
\* out of applyConfig and of handleChangeProxy's goroutine gives it back.
THEOREM LockSafe == HubSpec => []LockOwned
<1>1. TypeOK /\ LockOwned /\ UNCHANGED hubVars => LockOwned'
  BY DEF LockOwned, hubVars
<1>2. TypeOK /\ LockOwned /\ [HubNext]_hubVars => LockOwned'
  BY <1>1, LockStep, HubNextSplit
<1>. QED
  BY <1>2, LockInit, TypeCorrect, PTL DEF HubSpec

-----------------------------------------------------------------------------
(* The inductive invariant *)

\* quickSetup reaches its second half in an initialised core only.
QuickInitialised ==
    \A g \in Goroutines :
        /\ pc[g] = "mark" => op[g] = "quickSetup"
        /\ op[g] = "quickSetup" /\ pc[g] \in {"mark", "check", "setup", "load", "apply"} => isInit

\* No general port is open in a stopped core, nor before the first setup.
StoppedClosed == ~isRunning \/ currentConfig = NoConfig => ports = Closed

\* Unless a setup has replaced the configuration and not yet applied it, or
\* a quickSetup is on its way to do so, a running core listens as configured.
ListenersAgree ==
    /\ \A g \in Goroutines : pc[g] # "apply" /\ ~QuickPending(g)
    /\ isRunning
    /\ currentConfig # NoConfig
    => /\ ports \in {currentConfig.port, Closed}
       /\ inbounds \in {currentConfig.file, Closed}

\* The last setup sent is still to read config.yaml, or has.
SetupTracked ==
    ~unsent =>
        /\ isInit
        /\ \/ currentConfig # NoConfig /\ currentConfig.file = Parsed(disk).file
           \/ \E g \in Goroutines : pc[g] \in {"check", "setup", "load"}

HubInv ==
    /\ TypeOK
    /\ LockOwned
    /\ QuickInitialised
    /\ StoppedClosed
    /\ ListenersAgree
    /\ SetupTracked

\* HubInv implies the properties the runs check.
LEMMA InvImplies == HubInv => ListenersFollow /\ SetupSettles
<1>. SUFFICES ASSUME HubInv PROVE ListenersFollow /\ SetupSettles
  OBVIOUS
<1>1. ListenersFollow
  <2>. SUFFICES ASSUME runLock = Nobody, \A g \in Goroutines : ~QuickPending(g)
                PROVE  /\ ~isRunning \/ currentConfig = NoConfig => ports = Closed
                       /\ isRunning /\ currentConfig # NoConfig =>
                             /\ ports \in {currentConfig.port, Closed}
                             /\ inbounds \in {currentConfig.file, Closed}
    BY DEF ListenersFollow
  <2>1. \A g \in Goroutines : pc[g] # "apply"
    BY ThreadsAssumption DEF HubInv, LockOwned
  <2>. QED
    BY <2>1 DEF HubInv, StoppedClosed, ListenersAgree
<1>2. SetupSettles
  BY DEF HubInv, SetupTracked, SetupSettles, SetupPending
<1>. QED
  BY <1>1, <1>2

\* HubInv holds initially.
LEMMA InvInit == HubInit => HubInv
BY TypeInit, LockInit
   DEF HubInit, HubInv, QuickInitialised, StoppedClosed, ListenersAgree, SetupTracked

\* isInit is never reset, and a request enters quickSetup's second half only
\* after it was set.
LEMMA QuickStep ==
    ASSUME TypeOK, QuickInitialised, HubAction
    PROVE  QuickInitialised' /\ (isInit => isInit')
<1>. USE DEF TypeOK, QuickInitialised, Goto, Section
<1>1. CASE WriteFile
  BY <1>1 DEF WriteFile
<1>2. ASSUME NEW g \in Goroutines, Dispatch(g)
      PROVE  QuickInitialised' /\ (isInit => isInit')
  <2>1. PICK method \in Methods :
          /\ op' = [op EXCEPT ![g] = method]
          /\ pc' = [pc EXCEPT ![g] = IF method = "setupConfig" THEN "check" ELSE "section"]
    BY <1>2 DEF Dispatch
  <2>. QED
    BY <1>2, <2>1 DEF Dispatch
<1>3. ASSUME NEW g \in Goroutines, Request(g)
      PROVE  QuickInitialised' /\ (isInit => isInit')
  <2>1. CASE \/ Reply(g) \/ RejectUpdate(g) \/ InitClash(g) \/ StartListener(g)
             \/ StopListenerRequest(g) \/ Query(g) \/ MarkRunning(g)
             \/ CheckInit(g) \/ LockSetup(g) \/ LoadConfig(g) \/ ApplyConfig(g)
    BY <2>1 DEF Reply, RejectUpdate, InitClash, StartListener, StopListenerRequest,
                Query, MarkRunning, CheckInit, LockSetup, LoadConfig, ApplyConfig
  <2>2. CASE ChangeProxy(g) \/ AnswerChangeProxy(g)
    BY <2>2 DEF ChangeProxy, AnswerChangeProxy
  <2>3. CASE UpdateConfig(g)
    <3>1. /\ op' = op /\ isInit' = isInit
          /\ pc' = pc \/ pc' = [pc EXCEPT ![g] = "reply"]
      BY <2>3 DEF UpdateConfig
    <3>. QED
      BY <3>1
  <2>4. CASE QuickInit(g)
    BY <2>4 DEF QuickInit
  <2>. QED
    BY <1>3, <2>1, <2>2, <2>3, <2>4 DEF Request
<1>. QED
  BY <1>1, <1>2, <1>3 DEF HubAction

\* Every step that can touch the listeners keeps a stopped core closed.
LEMMA StoppedStep ==
    ASSUME TypeOK, StoppedClosed, HubAction
    PROVE  StoppedClosed'
<1>. USE DEF StoppedClosed, Section
<1>0. /\ isRunning \in BOOLEAN /\ currentConfig \in Configs \cup {NoConfig}
      /\ ports \in Ports \cup {Closed}
      /\ inbounds \in Files \cup {DefaultFile, Closed}
      /\ disk \in Files \cup {BadFile}
  BY DEF TypeOK
<1>1. CASE WriteFile
  BY <1>1 DEF WriteFile
<1>2. ASSUME NEW g \in Goroutines, Dispatch(g) PROVE StoppedClosed'
  BY <1>2 DEF Dispatch
<1>3. ASSUME NEW g \in Goroutines, Request(g) PROVE StoppedClosed'
  <2>1. CASE \/ Reply(g) \/ RejectUpdate(g) \/ InitClash(g) \/ Query(g)
             \/ ChangeProxy(g) \/ AnswerChangeProxy(g) \/ QuickInit(g)
             \/ CheckInit(g) \/ LockSetup(g)
    BY <2>1 DEF Reply, RejectUpdate, InitClash, Query, ChangeProxy,
                AnswerChangeProxy, QuickInit, CheckInit, LockSetup
  <2>2. CASE UpdateConfig(g)
    <3>1. CASE currentConfig = NoConfig
      BY <2>2, <3>1 DEF UpdateConfig
    <3>2. CASE currentConfig # NoConfig
      <4>1. PICK port \in Ports :
              /\ currentConfig' = [currentConfig EXCEPT !.port = port]
              /\ UpdateListeners(isRunning, currentConfig')
        BY <2>2, <3>2 DEF UpdateConfig
      <4>2. currentConfig' \in Configs /\ currentConfig' # NoConfig
        BY <1>0, <3>2, <4>1, PatchedType
      <4>3. isRunning' = isRunning
        BY <2>2 DEF UpdateConfig
      <4>. QED
        BY <1>0, <3>2, <4>1, <4>2, <4>3, UpdateListenersResult
    <3>. QED
      BY <3>1, <3>2
  <2>3. CASE StartListener(g)
    BY <1>0, <2>3, UpdateListenersResult DEF StartListener, StartListenerSection
  <2>4. CASE StopListenerRequest(g)
    BY <2>4 DEF StopListenerRequest, StopListenerSection, StopListener
  <2>5. CASE MarkRunning(g)
    BY <2>5 DEF MarkRunning
  <2>6. CASE LoadConfig(g)
    <3>1. currentConfig' # NoConfig /\ isRunning' = isRunning /\ ports' = ports
      BY <1>0, <2>6, ParsedType DEF LoadConfig
    <3>. QED
      BY <3>1
  <2>7. CASE ApplyConfig(g)
    BY <1>0, <2>7, UpdateListenersResult DEF ApplyConfig
  <2>. QED
    BY <1>3, <2>1, <2>2, <2>3, <2>4, <2>5, <2>6, <2>7 DEF Request
<1>. QED
  BY <1>1, <1>2, <1>3 DEF HubAction

\* Every step keeps a running core listening as configured.
LEMMA ListenersStep ==
    ASSUME TypeOK, QuickInitialised, StoppedClosed, ListenersAgree, HubAction
    PROVE  ListenersAgree'
<1>. DEFINE Settled == \A g \in Goroutines : pc[g] # "apply" /\ ~QuickPending(g)
            Agree == isRunning /\ currentConfig # NoConfig =>
                        /\ ports \in {currentConfig.port, Closed}
                        /\ inbounds \in {currentConfig.file, Closed}
<1>0. /\ isRunning \in BOOLEAN /\ currentConfig \in Configs \cup {NoConfig}
      /\ ports \in Ports \cup {Closed}
      /\ inbounds \in Files \cup {DefaultFile, Closed}
      /\ disk \in Files \cup {BadFile}
      /\ pc \in [Goroutines -> Points] /\ op \in [Goroutines -> AllMethods]
  BY DEF TypeOK
<1>. SUFFICES ASSUME Settled' PROVE Agree'
  BY DEF ListenersAgree
<1>. USE DEF Section, Goto
<1>1. CASE WriteFile
  <2>1. Settled
    BY <1>1 DEF WriteFile, QuickPending
  <2>. QED
    BY <1>1, <2>1 DEF WriteFile, ListenersAgree
<1>2. ASSUME NEW g \in Goroutines, Dispatch(g) PROVE Agree'
  <2>1. PICK method \in Methods :
          /\ pc[g] = "idle"
          /\ op' = [op EXCEPT ![g] = method]
          /\ pc' = [pc EXCEPT ![g] = IF method = "setupConfig" THEN "check" ELSE "section"]
    BY <1>2 DEF Dispatch
  <2>2. Settled
    BY <1>0, <2>1 DEF QuickPending
  <2>. QED
    BY <1>2, <2>2 DEF Dispatch, ListenersAgree
<1>3. ASSUME NEW g \in Goroutines, Request(g) PROVE Agree'
  <2>1. CASE \/ Reply(g) \/ RejectUpdate(g) \/ InitClash(g) \/ Query(g)
             \/ ChangeProxy(g) \/ AnswerChangeProxy(g) \/ QuickInit(g) \/ LockSetup(g)
    <3>1. /\ UNCHANGED <<isRunning, currentConfig, ports, inbounds, op>>
          /\ pc[g] # "apply" /\ ~(QuickPending(g) /\ ~QuickPending(g)')
          /\ \A r \in Goroutines \ {g} : pc'[r] = pc[r]
      BY <1>0, <2>1 DEF Reply, RejectUpdate, InitClash, Query, ChangeProxy,
                  AnswerChangeProxy, QuickInit, LockSetup, QuickPending
    <3>2. Settled
      BY <3>1 DEF QuickPending
    <3>. QED
      BY <3>1, <3>2 DEF ListenersAgree
  <2>2. CASE UpdateConfig(g)
    <3>1. CASE currentConfig = NoConfig
      BY <2>2, <3>1 DEF UpdateConfig
    <3>2. CASE currentConfig # NoConfig
      <4>1. PICK port \in Ports :
              /\ currentConfig' = [currentConfig EXCEPT !.port = port]
              /\ UpdateListeners(isRunning, currentConfig')
        BY <2>2, <3>2 DEF UpdateConfig
      <4>2. currentConfig' \in Configs /\ currentConfig' # NoConfig
        BY <1>0, <3>2, <4>1, PatchedType
      <4>3. isRunning' = isRunning
        BY <2>2 DEF UpdateConfig
      <4>. QED
        BY <1>0, <4>1, <4>2, <4>3, UpdateListenersResult
    <3>. QED
      BY <3>1, <3>2
  <2>3. CASE StartListener(g)
    BY <1>0, <2>3, UpdateListenersResult DEF StartListener, StartListenerSection
  <2>4. CASE StopListenerRequest(g)
    BY <2>4 DEF StopListenerRequest, StopListenerSection
  <2>5. CASE MarkRunning(g)
    <3>1. op[g] = "quickSetup" => QuickPending(g)'
      BY <1>0, <2>5 DEF MarkRunning, QuickPending
    <3>2. op[g] = "quickSetup"
      BY <2>5 DEF MarkRunning, QuickInitialised
    <3>. QED
      BY <3>1, <3>2
  <2>6. CASE CheckInit(g)
    <3>1. op[g] = "quickSetup" => QuickPending(g)'
      BY <1>0, <2>6 DEF CheckInit, QuickInitialised, QuickPending
    <3>2. op[g] # "quickSetup"
      BY <3>1
    <3>3. Settled
      BY <1>0, <2>6, <3>2 DEF CheckInit, QuickPending
    <3>. QED
      BY <2>6, <3>3 DEF CheckInit, ListenersAgree
  <2>7. CASE LoadConfig(g)
    BY <1>0, <2>7 DEF LoadConfig
  <2>8. CASE ApplyConfig(g)
    BY <1>0, <2>8, UpdateListenersResult DEF ApplyConfig
  <2>. QED
    BY <1>3, <2>1, <2>2, <2>3, <2>4, <2>5, <2>6, <2>7, <2>8 DEF Request
<1>. QED
  BY <1>1, <1>2, <1>3 DEF HubAction

\* Every step keeps the last setup on its way, or its result in place.
LEMMA SetupStep ==
    ASSUME TypeOK, SetupTracked, HubAction
    PROVE  SetupTracked'
<1>. DEFINE Fresh == currentConfig # NoConfig /\ currentConfig.file = Parsed(disk).file
            OnItsWay == \E g \in Goroutines : pc[g] \in {"check", "setup", "load"}
<1>0. /\ currentConfig \in Configs \cup {NoConfig} /\ disk \in Files \cup {BadFile}
      /\ pc \in [Goroutines -> Points] /\ op \in [Goroutines -> AllMethods]
      /\ isInit \in BOOLEAN /\ unsent \in BOOLEAN
  BY DEF TypeOK
<1>. SUFFICES ASSUME ~unsent' PROVE isInit' /\ (Fresh' \/ OnItsWay')
  BY DEF SetupTracked
<1>. USE DEF Section, Goto
<1>1. CASE WriteFile
  BY <1>1 DEF WriteFile
<1>2. ASSUME NEW g \in Goroutines, Dispatch(g)
      PROVE  isInit' /\ (Fresh' \/ OnItsWay')
  <2>1. PICK method \in Methods :
          /\ pc' = [pc EXCEPT ![g] = IF method = "setupConfig" THEN "check" ELSE "section"]
          /\ unsent' = (unsent /\ ~(method = "setupConfig" /\ isInit))
    BY <1>2 DEF Dispatch
  <2>2. CASE method = "setupConfig" /\ isInit
    BY <1>0, <1>2, <2>1, <2>2 DEF Dispatch
  <2>3. CASE ~(method = "setupConfig" /\ isInit)
    <3>1. isInit /\ (Fresh \/ OnItsWay)
      BY <2>1, <2>3 DEF SetupTracked
    <3>2. OnItsWay => OnItsWay'
      BY <1>0, <1>2, <2>1 DEF Dispatch
    <3>. QED
      BY <1>2, <3>1, <3>2 DEF Dispatch
  <2>. QED
    BY <2>2, <2>3
<1>3. ASSUME NEW g \in Goroutines, Request(g)
      PROVE  isInit' /\ (Fresh' \/ OnItsWay')
  <2>1. CASE \/ Reply(g) \/ RejectUpdate(g) \/ InitClash(g) \/ StartListener(g)
             \/ StopListenerRequest(g) \/ Query(g) \/ ChangeProxy(g)
             \/ AnswerChangeProxy(g) \/ QuickInit(g) \/ MarkRunning(g) \/ ApplyConfig(g)
    <3>1. /\ UNCHANGED <<currentConfig, disk, unsent>> /\ (isInit => isInit')
          /\ pc[g] \notin {"check", "setup", "load"}
          /\ \A r \in Goroutines \ {g} : pc'[r] = pc[r]
      BY <1>0, <2>1 DEF Reply, RejectUpdate, InitClash, StartListener,
            StopListenerRequest, Query, ChangeProxy, AnswerChangeProxy, QuickInit,
            MarkRunning, ApplyConfig
    <3>. QED
      BY <3>1 DEF SetupTracked
  <2>2. CASE UpdateConfig(g)
    <3>1. /\ UNCHANGED <<disk, unsent, isInit>> /\ pc[g] = "section"
          /\ pc' = pc \/ pc' = [pc EXCEPT ![g] = "reply"]
      BY <2>2 DEF UpdateConfig
    <3>2. OnItsWay => OnItsWay'
      BY <1>0, <3>1
    <3>3. CASE currentConfig = NoConfig
      BY <3>1, <3>2, <3>3 DEF SetupTracked
    <3>4. CASE currentConfig # NoConfig
      <4>1. PICK port \in Ports : currentConfig' = [currentConfig EXCEPT !.port = port]
        BY <2>2, <3>4 DEF UpdateConfig
      <4>2. currentConfig' # NoConfig /\ currentConfig'.file = currentConfig.file
        BY <1>0, <3>4, <4>1, PatchedType
      <4>. QED
        BY <3>1, <3>2, <4>2 DEF SetupTracked
    <3>. QED
      BY <3>3, <3>4
  <2>3. CASE CheckInit(g) \/ LockSetup(g)
    <3>1. /\ UNCHANGED <<currentConfig, disk, unsent, isInit>>
          /\ isInit => pc'[g] \in {"check", "setup", "load"}
          /\ pc' \in [Goroutines -> Points]
      BY <1>0, <2>3 DEF CheckInit, LockSetup
    <3>2. isInit => OnItsWay'
      BY <3>1
    <3>. QED
      BY <3>1, <3>2 DEF SetupTracked
  <2>4. CASE LoadConfig(g)
    <3>1. Fresh'
      BY <1>0, <2>4, ParsedType DEF LoadConfig
    <3>. QED
      BY <2>4, <3>1 DEF LoadConfig, SetupTracked
  <2>. QED
    BY <1>3, <2>1, <2>2, <2>3, <2>4 DEF Request
<1>. QED
  BY <1>1, <1>2, <1>3 DEF HubAction

\* Every step of a handler or of the client keeps the whole invariant.
LEMMA InvStep ==
    ASSUME HubInv, HubAction
    PROVE  HubInv'
BY TypeStep, LockStep, QuickStep, StoppedStep, ListenersStep, SetupStep DEF HubInv

\* The invariant depends on nothing but the variables of CoreHub.
LEMMA InvStutter ==
    ASSUME HubInv, UNCHANGED hubVars
    PROVE  HubInv'
BY DEF HubInv, TypeOK, LockOwned, QuickInitialised, StoppedClosed, ListenersAgree,
       QuickPending, SetupTracked, Parsed, hubVars

\* HubInv is inductive, so it always holds.
THEOREM Invariance == HubSpec => []HubInv
<1>1. HubInv /\ [HubNext]_hubVars => HubInv'
  BY InvStep, InvStutter, HubNextSplit
<1>. QED
  BY <1>1, InvInit, PTL DEF HubSpec

\* The open listeners always are those the flags and the configuration ask
\* for, however the handlers overlap (updateListeners, applyConfig).
THEOREM ListenersSafe == HubSpec => []ListenersFollow
BY Invariance, InvImplies, PTL

\* Once the setups sent are over the core runs what config.yaml says,
\* whatever order they took runLock in (applyConfig).
THEOREM SetupSafe == HubSpec => []SetupSettles
BY Invariance, InvImplies, PTL

-----------------------------------------------------------------------------
(* The tunnel's thread.                                                    *)

\* The thread has all the permits of the current handler.
Owning == {"unhook", "destroy", "hook", "open", "unhookNew", "destroyNew"}

\* The current handler is the one stopTun or startTUN found, or the new one.
Closing  == {"stop", "drain", "unhook", "destroy"}
Starting == {"lock", "acquire", "hook", "open", "unhookNew", "destroyNew"}
Resting  == {"idle", "afterStart", "listen", "reset", "afterStop", "unlisten"}

\* Which handlers have a listener, a callback and a reference in each phase.
References ==
    /\ tunListener \subseteq {tunHandler}
    /\ tpc \in Resting =>
          /\ callback = tunListener
          /\ refs = tunListener
    /\ tpc \in Closing =>
          /\ callback = tunListener
          /\ newHandler = NoHandler \/ newHandler # tunHandler
          /\ refs = tunListener \cup ({newHandler} \cap Handlers)
    /\ tpc = "install" =>
          /\ tunListener = {}
          /\ callback = {}
          /\ newHandler \in Handlers
          /\ refs = {newHandler}
    /\ tpc \in Starting =>
          /\ tunListener = {}
          /\ callback = {tunHandler}
          /\ refs = {tunHandler}

\* Where the hook is set, and which handler the thread works on.
Hooks ==
    /\ tpc \in Resting \cup {"stop", "drain", "unhook"} => hook = (tunListener # {})
    /\ tpc \in {"destroy", "install", "lock", "acquire", "hook", "destroyNew"} => ~hook
    /\ tpc \in {"open", "unhookNew"} => hook
    /\ tpc \in Starting \cup (Closing \ {"stop"}) => tunHandler \in Handlers
    /\ tpc \in {"idle", "afterStop", "unlisten"} => newHandler = NoHandler

\* Who holds the permits, and what a dialer inside the handler can rely on.
Permits ==
    /\ owned = IF tpc \in Owning THEN {tunHandler} ELSE {}
    /\ \A h \in owned : users[h] = {}
    /\ \A d \in Dialers :
          /\ dpc[d] = "enter" => tunHandler \in Handlers
          /\ dpc[d] \in {"wait", "permit", "calling"} => target[d] \in Handlers
          /\ \A h \in Handlers :
                d \in users[h] <=> dpc[d] \in {"permit", "calling"} /\ target[d] = h
          /\ dpc[d] = "calling" => target[d] \in tunListener

ThreadLocks == runLock = TunThread <=> tpc \in Opening

TunInv ==
    /\ TunTypeOK
    /\ HubInv
    /\ References
    /\ Hooks
    /\ Permits
    /\ ThreadLocks

-----------------------------------------------------------------------------
(* The actions, grouped by who takes them *)

ThreadAction == StartTun \/ StopTun \/ ThreadStep

DialAction(d) == SeeHook(d) \/ SeeResolver(d) \/ DialStep(d)

RequestAction == HubAction /\ UNCHANGED tunVars

\* A step is one of the thread, of a dialer or of the handlers of CoreHub,
\* or changes nothing.
LEMMA NextSplit ==
    [Next]_allVars => \/ ThreadAction
                      \/ \E d \in Dialers : DialAction(d)
                      \/ RequestAction
                      \/ UNCHANGED allVars
BY DEF Next, ThreadAction, DialAction, RequestAction, HubAction, HubStep, TunDead

-----------------------------------------------------------------------------
(* CoreHub's invariant beside the tunnel *)

\* runLock can pass between the thread and nobody without disturbing it.
LEMMA HubFrame ==
    ASSUME HubInv,
           UNCHANGED <<isInit, isRunning, currentConfig, ports, inbounds,
                       disk, pc, op, unsent>>,
           panicked' \in BOOLEAN,
           \/ runLock' = runLock
           \/ runLock \notin Goroutines /\ runLock' \in {TunThread, Nobody}
    PROVE  HubInv'
<1>1. TypeOK'
  BY DEF HubInv, TypeOK
<1>2. LockOwned'
  BY ThreadsAssumption DEF HubInv, LockOwned
<1>3. QuickInitialised' /\ StoppedClosed' /\ ListenersAgree' /\ SetupTracked'
  BY DEF HubInv, QuickInitialised, StoppedClosed, ListenersAgree, QuickPending,
         SetupTracked, Parsed
<1>. QED
  BY <1>1, <1>2, <1>3 DEF HubInv

\* The sections of handleStartListener and handleStopListener keep it,
\* whoever runs them.
LEMMA ListenerSections ==
    ASSUME HubInv, StartListenerSection \/ StopListenerSection,
           UNCHANGED <<runLock, isInit, currentConfig, disk, pc, op, unsent, panicked>>
    PROVE  HubInv'
<1>0. /\ TypeOK /\ isRunning \in BOOLEAN /\ currentConfig \in Configs \cup {NoConfig}
      /\ ports \in Ports \cup {Closed}
      /\ inbounds \in Files \cup {DefaultFile, Closed}
  BY DEF HubInv, TypeOK
<1>1. LockOwned' /\ QuickInitialised' /\ SetupTracked'
  BY DEF HubInv, LockOwned, QuickInitialised, SetupTracked, Parsed
<1>2. CASE StartListenerSection
  <2>1. /\ ports' \in Ports \cup {Closed}
        /\ inbounds' \in Files \cup {DefaultFile, Closed}
        /\ currentConfig # NoConfig =>
              /\ ports' \in {currentConfig.port, Closed}
              /\ inbounds' \in {currentConfig.file, Closed}
        /\ currentConfig = NoConfig => UNCHANGED <<ports, inbounds>>
    BY <1>0, <1>2, UpdateListenersResult DEF StartListenerSection
  <2>2. isRunning' = TRUE
    BY <1>2 DEF StartListenerSection
  <2>3. TypeOK'
    BY <1>0, <2>1, <2>2 DEF TypeOK
  <2>4. StoppedClosed'
    BY <2>1, <2>2 DEF HubInv, StoppedClosed
  <2>5. ListenersAgree'
    BY <2>1 DEF ListenersAgree
  <2>. QED
    BY <1>1, <2>3, <2>4, <2>5 DEF HubInv
<1>3. CASE StopListenerSection
  <2>1. isRunning' = FALSE /\ ports' = Closed /\ inbounds' = inbounds
    BY <1>3 DEF StopListenerSection, StopListener
  <2>2. TypeOK'
    BY <1>0, <2>1 DEF TypeOK
  <2>3. StoppedClosed' /\ ListenersAgree'
    BY <2>1 DEF StoppedClosed, ListenersAgree
  <2>. QED
    BY <1>1, <2>2, <2>3 DEF HubInv
<1>. QED
  BY <1>2, <1>3

\* Every step keeps CoreHub's invariant.
LEMMA HubKept ==
    ASSUME HubInv, ThreadLocks,
           ThreadAction \/ (\E d \in Dialers : DialAction(d)) \/ RequestAction
    PROVE  HubInv'
<1>0. panicked \in BOOLEAN
  BY DEF HubInv, TypeOK
<1>1. CASE ThreadAction
  <2>1. CASE \/ StartTun \/ StopTun \/ HandleStopTun \/ Drain \/ Unhook \/ Destroy
             \/ Install \/ AcquireStart \/ InitHook \/ OpenFails \/ UnhookNew
             \/ TestAfterStart \/ ResetAfterStart \/ TestAfterStop
    <3>1. UNCHANGED hubVars
      BY <2>1 DEF StartTun, StopTun, HandleStopTun, Drain, Unhook, UnhookNew,
         RemoveHook, Destroy, Install, AcquireStart, InitHook, OpenFails,
         TestAfterStart, ResetAfterStart, TestAfterStop
    <3>. QED
      BY <3>1, InvStutter
  <2>2. CASE LockStart
    BY <1>0, <2>2, HubFrame, ThreadsAssumption DEF LockStart, lifecycle, listeners, client
  <2>3. CASE OpenTun \/ DestroyNew
    <3>1. runLock = TunThread
      BY <2>3 DEF ThreadLocks, Opening, OpenTun, DestroyNew
    <3>. QED
      BY <1>0, <2>3, <3>1, HubFrame, ThreadsAssumption
         DEF OpenTun, DestroyNew, LeaveStart, lifecycle, listeners, client
  <2>4. CASE ListenAfterStart
    BY <2>4, ListenerSections DEF ListenAfterStart, client
  <2>5. CASE UnlistenAfterStop
    BY <2>5, ListenerSections DEF UnlistenAfterStop, client
  <2>. QED
    BY <1>1, <2>1, <2>2, <2>3, <2>4, <2>5 DEF ThreadAction, ThreadStep
<1>2. ASSUME NEW d \in Dialers, DialAction(d) PROVE HubInv'
  <2>1. CASE CallHook(d)
    BY <1>0, <2>1, HubFrame DEF CallHook, lifecycle, listeners, client
  <2>2. CASE ~CallHook(d)
    <3>1. UNCHANGED hubVars
      BY <1>2, <2>2 DEF DialAction, DialStep, SeeHook, SeeResolver, EnterHandler,
         GetPermit, CheckListener, SkipClosed, CallReturns, LeaveHandler
    <3>. QED
      BY <3>1, InvStutter
  <2>. QED
    BY <2>1, <2>2
<1>3. CASE RequestAction
  BY <1>3, InvStep DEF RequestAction
<1>. QED
  BY <1>1, <1>2, <1>3

-----------------------------------------------------------------------------
(* Dials and requests leave the thread and the handlers alone *)

\* Dials and requests leave the thread and the handlers alone.
LEMMA ThreadFrame ==
    ASSUME (\E d \in Dialers : DialAction(d)) \/ RequestAction
    PROVE  UNCHANGED <<tpc, newHandler, tunHandler, tunListener, callback, refs, hook, owned>>
<1>1. ASSUME NEW d \in Dialers, DialAction(d)
      PROVE  UNCHANGED <<tpc, newHandler, tunHandler, tunListener, callback, refs, hook, owned>>
  BY <1>1 DEF DialAction, DialStep, SeeHook, SeeResolver, CallHook, EnterHandler,
     GetPermit, AcquireOne, CheckListener, SkipClosed, CallReturns, LeaveHandler,
     ReleaseOne, threadVars, handlerVars, limitVars
<1>2. CASE RequestAction
  BY <1>2 DEF RequestAction, tunVars, threadVars, handlerVars, limitVars
<1>. QED
  BY <1>1, <1>2

\* The thread leaves the dialers alone.
LEMMA DialFrame ==
    ASSUME ThreadAction
    PROVE  UNCHANGED <<dpc, target, users>>
BY DEF ThreadAction, ThreadStep, StartTun, StopTun, HandleStopTun, Drain, Unhook,
   UnhookNew, RemoveHook, Destroy, Install, LockStart, AcquireStart, InitHook,
   OpenTun, OpenFails, DestroyNew, LeaveStart, TestAfterStart, ListenAfterStart,
   ResetAfterStart, TestAfterStop, UnlistenAfterStop, Return, AcquireAll,
   ReleaseAll, dialVars, limitVars

-----------------------------------------------------------------------------
(* The references *)

\* Every step keeps the account of listeners, callbacks and references.
LEMMA ReferencesStep ==
    ASSUME TunInv,
           ThreadAction \/ (\E d \in Dialers : DialAction(d)) \/ RequestAction
    PROVE  References' /\ Hooks'
<1>. USE DEF Resting, Closing, Starting, ThreadTo, handlerVars
<1>0. /\ tpc \in ThreadPoints
      /\ newHandler \in Handlers \cup {NoHandler}
      /\ tunHandler \in Handlers \cup {NoHandler}
      /\ tunListener \subseteq Handlers
      /\ hook \in BOOLEAN
      /\ NoHandler \notin Handlers
      /\ References /\ Hooks
  BY DialersAssumption DEF TunInv, TunTypeOK
<1>1. CASE ThreadAction
  <2>1. CASE StartTun
    <3>1. PICK h \in Handlers : /\ Unreferenced(h)
                                /\ newHandler' = h
                                /\ refs' = refs \cup {h}
      BY <2>1 DEF StartTun
    <3>2. tpc = "idle" /\ tpc' = "stop" /\ UNCHANGED <<tunHandler, tunListener, callback, hook>>
      BY <2>1 DEF StartTun
    <3>. QED
      BY <1>0, <3>1, <3>2 DEF References, Hooks, Unreferenced
  <2>2. CASE StopTun
    BY <1>0, <2>2 DEF StopTun, References, Hooks
  <2>3. CASE HandleStopTun
    <3>1. UNCHANGED <<newHandler, tunHandler, tunListener, callback, refs, hook>>
      BY <2>3 DEF HandleStopTun
    <3>2. CASE tunHandler = NoHandler
      <4>1. tpc = "stop" /\ tpc' = IF newHandler = NoHandler THEN "afterStop" ELSE "install"
        BY <2>3, <3>2 DEF HandleStopTun, AfterClose
      <4>2. tunListener = {}
        BY <1>0, <3>2 DEF References
      <4>. QED
        BY <1>0, <3>1, <4>1, <4>2 DEF References, Hooks
    <3>3. CASE tunHandler # NoHandler
      <4>1. tpc = "stop" /\ tpc' = "drain"
        BY <2>3, <3>3 DEF HandleStopTun
      <4>. QED
        BY <1>0, <3>1, <3>3, <4>1 DEF References, Hooks
    <3>. QED
      BY <3>2, <3>3
  <2>4. CASE Drain
    BY <1>0, <2>4 DEF Drain, References, Hooks
  <2>5. CASE Unhook
    BY <1>0, <2>5 DEF Unhook, RemoveHook, References, Hooks
  <2>6. CASE Destroy
    <3>1. /\ tpc = "destroy"
          /\ tpc' = IF newHandler = NoHandler THEN "afterStop" ELSE "install"
          /\ tunListener' = tunListener \ {tunHandler}
          /\ refs' = IF tunHandler \in callback THEN refs \ {tunHandler} ELSE refs
          /\ callback' = callback \ {tunHandler}
          /\ UNCHANGED <<newHandler, tunHandler, hook>>
      BY <2>6 DEF Destroy, Clear, AfterClose
    <3>2. /\ tunListener \subseteq {tunHandler} /\ callback = tunListener
          /\ newHandler = NoHandler \/ newHandler # tunHandler
          /\ refs = tunListener \cup ({newHandler} \cap Handlers)
          /\ tunHandler \in Handlers
      BY <1>0, <3>1 DEF References, Hooks
    <3>3. tunListener' = {} /\ callback' = {} /\ refs' = {newHandler} \cap Handlers
      BY <1>0, <3>1, <3>2
    <3>. QED
      BY <1>0, <3>1, <3>2, <3>3 DEF References, Hooks
  <2>7. CASE Install
    BY <1>0, <2>7 DEF Install, References, Hooks
  <2>8. CASE LockStart
    BY <1>0, <2>8 DEF LockStart, References, Hooks
  <2>9. CASE AcquireStart
    BY <1>0, <2>9 DEF AcquireStart, References, Hooks
  <2>10. CASE InitHook
    BY <1>0, <2>10 DEF InitHook, References, Hooks
  <2>11. CASE OpenTun
    BY <1>0, <2>11 DEF OpenTun, LeaveStart, References, Hooks
  <2>12. CASE OpenFails
    BY <1>0, <2>12 DEF OpenFails, References, Hooks
  <2>13. CASE UnhookNew
    BY <1>0, <2>13 DEF UnhookNew, RemoveHook, References, Hooks
  <2>14. CASE DestroyNew
    BY <1>0, <2>14 DEF DestroyNew, Clear, LeaveStart, References, Hooks
  <2>15. CASE TestAfterStart \/ TestAfterStop
    BY <1>0, <2>15 DEF TestAfterStart, TestAfterStop, References, Hooks
  <2>16. CASE ListenAfterStart \/ ResetAfterStart \/ UnlistenAfterStop
    BY <1>0, <2>16 DEF ListenAfterStart, ResetAfterStart, UnlistenAfterStop, Return,
                       References, Hooks
  <2>. QED
    BY <1>1, <2>1, <2>2, <2>3, <2>4, <2>5, <2>6, <2>7, <2>8, <2>9, <2>10, <2>11,
       <2>12, <2>13, <2>14, <2>15, <2>16 DEF ThreadAction, ThreadStep
<1>2. CASE (\E d \in Dialers : DialAction(d)) \/ RequestAction
  BY <1>0, <1>2, ThreadFrame DEF References, Hooks
<1>. QED
  BY <1>1, <1>2

-----------------------------------------------------------------------------
(* The permits *)

\* A step of the thread keeps the account of the permits.
LEMMA PermitsThread ==
    ASSUME TunInv, ThreadAction
    PROVE  Permits'
<1>. USE DEF Owning, ThreadTo
<1>0. /\ Permits /\ UNCHANGED <<dpc, target, users>>
      /\ tunHandler \in Handlers \cup {NoHandler}
      /\ newHandler \in Handlers \cup {NoHandler}
      /\ tpc \in {"drain", "unhook", "destroy"} => tunHandler \in Handlers
      /\ tpc = "install" => tunListener = {} /\ newHandler \in Handlers
      /\ owned \subseteq Handlers /\ users \in [Handlers -> SUBSET Dialers]
  BY DialFrame DEF TunInv, TunTypeOK, Hooks, References, Starting, Closing
<1>1. CASE \/ StartTun \/ StopTun \/ HandleStopTun \/ Unhook \/ LockStart \/ InitHook
           \/ OpenFails \/ UnhookNew \/ TestAfterStart \/ ListenAfterStart
           \/ ResetAfterStart \/ TestAfterStop \/ UnlistenAfterStop
  <2>1. /\ UNCHANGED <<tunHandler, tunListener, owned>>
        /\ tpc' \in Owning <=> tpc \in Owning
    BY <1>1 DEF StartTun, StopTun, HandleStopTun, AfterClose, Unhook, UnhookNew,
       RemoveHook, LockStart, InitHook, OpenFails, TestAfterStart, ListenAfterStart,
       ResetAfterStart, TestAfterStop, UnlistenAfterStop, Return, handlerVars, limitVars
  <2>. QED
    BY <1>0, <2>1 DEF Permits
<1>2. CASE Drain \/ AcquireStart
  <2>1. /\ UNCHANGED <<tunHandler, tunListener>>
        /\ tpc \notin Owning /\ tpc' \in Owning
        /\ users[tunHandler] = {} /\ owned' = owned \cup {tunHandler}
    BY <1>2 DEF Drain, AcquireStart, AcquireAll, handlerVars
  <2>. QED
    BY <1>0, <2>1 DEF Permits
<1>3. CASE Destroy \/ DestroyNew
  <2>1. /\ tpc \in Owning /\ tpc' \notin Owning /\ tunHandler' = tunHandler
        /\ owned' = owned \ {tunHandler} /\ tunListener' = tunListener \ {tunHandler}
    BY <1>3 DEF Destroy, DestroyNew, Clear, AfterClose, LeaveStart, ReleaseAll
  <2>2. owned = {tunHandler} /\ users[tunHandler] = {} /\ tunHandler \in Handlers
    BY <1>0, <2>1 DEF Permits
  <2>3. \A d \in Dialers : dpc[d] = "calling" => target[d] # tunHandler
    BY <1>0, <2>2 DEF Permits
  <2>. QED
    BY <1>0, <2>1, <2>2, <2>3 DEF Permits
<1>4. CASE Install
  <2>1. /\ UNCHANGED <<tunListener, owned>> /\ tunHandler' = newHandler
        /\ tpc = "install" /\ tpc' = "lock"
    BY <1>4 DEF Install, limitVars
  <2>. QED
    BY <1>0, <2>1 DEF Permits
<1>5. CASE OpenTun
  <2>1. /\ tpc = "open" /\ tpc' = "afterStart" /\ tunHandler' = tunHandler
        /\ owned' = owned \ {tunHandler} /\ tunListener' = tunListener \cup {tunHandler}
    BY <1>5 DEF OpenTun, LeaveStart, ReleaseAll
  <2>. QED
    BY <1>0, <2>1 DEF Permits
<1>. QED
  BY <1>1, <1>2, <1>3, <1>4, <1>5 DEF ThreadAction, ThreadStep

\* A step of a dialer, or of a request, keeps it too.
LEMMA PermitsDial ==
    ASSUME TunInv, (\E d \in Dialers : DialAction(d)) \/ RequestAction
    PROVE  Permits'
<1>0. /\ Permits /\ UNCHANGED <<tpc, tunHandler, tunListener, owned>>
      /\ dpc \in [Dialers -> DialPoints]
      /\ target \in [Dialers -> Handlers \cup {NoHandler}]
      /\ users \in [Handlers -> SUBSET Dialers]
      /\ owned \subseteq Handlers
      /\ NoHandler \notin Handlers
      /\ tunListener \subseteq {tunHandler} /\ tunListener \subseteq Handlers
      /\ hook => tunHandler \in Handlers
  <2>1. /\ dpc \in [Dialers -> DialPoints]
        /\ target \in [Dialers -> Handlers \cup {NoHandler}]
        /\ users \in [Handlers -> SUBSET Dialers]
        /\ owned \subseteq Handlers
        /\ tunListener \subseteq {tunHandler} /\ tunListener \subseteq Handlers
        /\ tpc \in ThreadPoints /\ hook \in BOOLEAN
        /\ Hooks /\ Permits
    BY DEF TunInv, TunTypeOK, References
  <2>2. hook => tunHandler \in Handlers
    BY <2>1 DEF Hooks, Resting, Starting, Closing, ThreadPoints
  <2>. QED
    BY <2>1, <2>2, ThreadFrame, DialersAssumption
<1>1. ASSUME NEW d \in Dialers, DialAction(d) PROVE Permits'
  <2>. USE DEF DialTo, DialPoints
  <2>1. CASE SeeHook(d) \/ CallHook(d) \/ SeeResolver(d)
    <3>1. /\ UNCHANGED <<users, target>> /\ dpc[d] \in {"idle", "hooked"}
          /\ \/ dpc' = dpc
             \/ dpc' = [dpc EXCEPT ![d] = "hooked"]
             \/ dpc' = [dpc EXCEPT ![d] = "idle"]
             \/ hook /\ dpc' = [dpc EXCEPT ![d] = "enter"]
      BY <2>1 DEF SeeHook, CallHook, SeeResolver, limitVars
    <3>. QED
      BY <1>0, <3>1 DEF Permits
  <2>2. CASE EnterHandler(d)
    BY <1>0, <2>2 DEF EnterHandler, Permits
  <2>3. CASE GetPermit(d)
    BY <1>0, <2>3 DEF GetPermit, AcquireOne, Permits
  <2>4. CASE CheckListener(d)
    BY <1>0, <2>4 DEF CheckListener, Permits, limitVars
  <2>5. CASE SkipClosed(d) \/ CallReturns(d)
    <3>1. /\ dpc[d] \in {"permit", "calling"}
          /\ users' = [users EXCEPT ![target[d]] = @ \ {d}]
          /\ target' = [target EXCEPT ![d] = NoHandler]
          /\ dpc' = [dpc EXCEPT ![d] = "idle"]
      BY <2>5 DEF SkipClosed, CallReturns, LeaveHandler, ReleaseOne
    <3>2. target[d] \in Handlers
      BY <1>0, <3>1 DEF Permits
    <3>. QED
      BY <1>0, <3>1, <3>2 DEF Permits
  <2>. QED
    BY <1>1, <2>1, <2>2, <2>3, <2>4, <2>5 DEF DialAction, DialStep
<1>2. CASE RequestAction
  <2>1. UNCHANGED <<users, target, dpc>>
    BY <1>2 DEF RequestAction, tunVars, limitVars, dialVars
  <2>. QED
    BY <1>0, <2>1 DEF Permits
<1>. QED
  BY <1>1, <1>2

-----------------------------------------------------------------------------
(* runLock and the types *)

\* The handlers of CoreHub never take runLock from the thread or for it.
LEMMA LocksRequest ==
    ASSUME HubInv, HubAction
    PROVE  runLock' = TunThread <=> runLock = TunThread
<1>0. \A g \in Goroutines : pc[g] \in Holding => runLock = g
  BY DEF HubInv, LockOwned
<1>1. CASE WriteFile
  BY <1>1 DEF WriteFile
<1>2. ASSUME NEW g \in Goroutines, Dispatch(g)
      PROVE  runLock' = TunThread <=> runLock = TunThread
  BY <1>2 DEF Dispatch
<1>3. ASSUME NEW g \in Goroutines, Request(g)
      PROVE  runLock' = TunThread <=> runLock = TunThread
  <2>1. CASE ChangeProxy(g) \/ LockSetup(g)
    BY <2>1, ThreadsAssumption DEF ChangeProxy, LockSetup
  <2>2. CASE AnswerChangeProxy(g) \/ ApplyConfig(g)
    <3>1. pc[g] \in Holding /\ runLock' = Nobody
      BY <2>2 DEF AnswerChangeProxy, ApplyConfig, Holding
    <3>. QED
      BY <1>0, <3>1, ThreadsAssumption
  <2>3. CASE ~(ChangeProxy(g) \/ LockSetup(g) \/ AnswerChangeProxy(g) \/ ApplyConfig(g))
    <3>1. runLock' = runLock
      BY <1>3, <2>3 DEF Request, Section, Reply, RejectUpdate, InitClash, UpdateConfig,
         StartListener, StopListenerRequest, Query, QuickInit, MarkRunning, CheckInit,
         LoadConfig
    <3>. QED
      BY <3>1
  <2>. QED
    BY <2>1, <2>2, <2>3
<1>. QED
  BY <1>1, <1>2, <1>3 DEF HubAction

\* The thread holds runLock exactly inside TunHandler.start.
LEMMA LocksStep ==
    ASSUME TunInv,
           ThreadAction \/ (\E d \in Dialers : DialAction(d)) \/ RequestAction
    PROVE  ThreadLocks'
<1>. USE DEF ThreadLocks, Opening, ThreadTo
<1>0. ThreadLocks /\ HubInv
  BY DEF TunInv
<1>1. CASE ThreadAction
  <2>1. CASE LockStart
    BY <2>1 DEF LockStart
  <2>2. CASE OpenTun \/ DestroyNew
    BY <2>2, ThreadsAssumption DEF OpenTun, DestroyNew, LeaveStart
  <2>3. CASE ~(LockStart \/ OpenTun \/ DestroyNew)
    <3>1. runLock' = runLock /\ (tpc' \in Opening <=> tpc \in Opening)
      BY <1>1, <2>3 DEF ThreadAction, ThreadStep, StartTun, StopTun, HandleStopTun,
         AfterClose, Drain, Unhook, UnhookNew, RemoveHook, Destroy, Install,
         AcquireStart, InitHook, OpenFails, TestAfterStart, ListenAfterStart,
         ResetAfterStart, TestAfterStop, UnlistenAfterStop, Return, hubVars
    <3>. QED
      BY <1>0, <3>1
  <2>. QED
    BY <2>1, <2>2, <2>3
<1>2. ASSUME NEW d \in Dialers, DialAction(d) PROVE ThreadLocks'
  <2>1. runLock' = runLock /\ tpc' = tpc
    BY <1>2 DEF DialAction, DialStep, SeeHook, SeeResolver, CallHook, EnterHandler,
       GetPermit, CheckListener, SkipClosed, CallReturns, LeaveHandler,
       threadVars, hubVars
  <2>. QED
    BY <1>0, <2>1
<1>3. CASE RequestAction
  <2>1. tpc' = tpc /\ HubAction
    BY <1>3 DEF RequestAction, tunVars, threadVars
  <2>. QED
    BY <1>0, <2>1, LocksRequest
<1>. QED
  BY <1>1, <1>2, <1>3

\* Waiting at a semaphore keeps its queue a sequence of processes.
LEMMA QueueType ==
    ASSUME waiters \in [Handlers -> Seq(Dialers \cup {TunThread})],
           NEW h \in Handlers, NEW p \in Dialers \cup {TunThread},
           Enqueue(h, p) \/ (IsNext(h, p) /\ Dequeue(h))
    PROVE  waiters' \in [Handlers -> Seq(Dialers \cup {TunThread})]
<1>. DEFINE Queues == Seq(Dialers \cup {TunThread})
<1>1. waiters[h] \in Queues
  OBVIOUS
<1>2. Append(waiters[h], p) \in Queues
  BY <1>1
<1>3. waiters[h] # <<>> => Tail(waiters[h]) \in Queues
  BY <1>1
<1>4. CASE Enqueue(h, p)
  <2>1. waiters' = [waiters EXCEPT ![h] = Append(waiters[h], p)]
    BY <1>4 DEF Enqueue
  <2>. QED
    BY <1>2, <2>1
<1>5. CASE IsNext(h, p) /\ Dequeue(h)
  <2>1. waiters[h] # <<>> /\ waiters' = [waiters EXCEPT ![h] = Tail(waiters[h])]
    BY <1>5 DEF IsNext, Dequeue
  <2>. QED
    BY <1>3, <2>1
<1>. QED
  BY <1>4, <1>5

\* Every step keeps the types.
LEMMA TunTypeStep ==
    ASSUME TunInv,
           ThreadAction \/ (\E d \in Dialers : DialAction(d)) \/ RequestAction
    PROVE  TunTypeOK'
<1>0. /\ TunTypeOK /\ Permits /\ TypeOK'
      /\ tpc \in Starting \cup (Closing \ {"stop"}) => tunHandler \in Handlers
      /\ tpc = "install" => newHandler \in Handlers
  BY HubKept DEF TunInv, HubInv, Hooks, References
<1>. USE DEF TunTypeOK, ThreadPoints, DialPoints, ThreadTo, DialTo, Starting, Closing
<1>1. CASE ThreadAction
  <2>1. CASE StartTun \/ StopTun
    BY <1>0, <2>1 DEF StartTun, StopTun, limitVars, dialVars, handlerVars
  <2>2. CASE HandleStopTun
    <3>1. waiters' \in [Handlers -> Seq(Dialers \cup {TunThread})]
      BY <1>0, <2>2, QueueType DEF HandleStopTun
    <3>. QED
      BY <1>0, <2>2, <3>1 DEF HandleStopTun, AfterClose, dialVars, handlerVars
  <2>3. CASE Drain \/ AcquireStart
    <3>1. /\ tunHandler \in Handlers /\ owned' = owned \cup {tunHandler}
          /\ tpc' \in ThreadPoints
          /\ UNCHANGED <<newHandler, tunHandler, tunListener, callback, refs, hook,
                         users, dpc, target>>
      BY <1>0, <2>3 DEF Drain, AcquireStart, AcquireAll, handlerVars, dialVars
    <3>2. waiters' \in [Handlers -> Seq(Dialers \cup {TunThread})]
      BY <1>0, <2>3, <3>1, QueueType DEF Drain, AcquireStart, AcquireAll
    <3>. QED
      BY <1>0, <3>1, <3>2
  <2>4. CASE Unhook \/ UnhookNew \/ InitHook \/ OpenFails \/ TestAfterStart \/ TestAfterStop
    BY <1>0, <2>4 DEF Unhook, UnhookNew, RemoveHook, InitHook, OpenFails,
       TestAfterStart, TestAfterStop, limitVars, dialVars, handlerVars
  <2>5. CASE Destroy
    BY <1>0, <2>5 DEF Destroy, Clear, ReleaseAll, AfterClose, dialVars
  <2>6. CASE Install
    BY <1>0, <2>6 DEF Install, limitVars, dialVars
  <2>7. CASE LockStart
    <3>1. waiters' \in [Handlers -> Seq(Dialers \cup {TunThread})]
      BY <1>0, <2>7, QueueType DEF LockStart
    <3>. QED
      BY <1>0, <2>7, <3>1 DEF LockStart, dialVars, handlerVars
  <2>8. CASE OpenTun \/ DestroyNew
    BY <1>0, <2>8 DEF OpenTun, DestroyNew, Clear, LeaveStart, ReleaseAll, dialVars
  <2>9. CASE ListenAfterStart \/ ResetAfterStart \/ UnlistenAfterStop
    BY <1>0, <2>9 DEF ListenAfterStart, ResetAfterStart, UnlistenAfterStop, Return,
       limitVars, dialVars, handlerVars
  <2>. QED
    BY <1>1, <2>1, <2>2, <2>3, <2>4, <2>5, <2>6, <2>7, <2>8, <2>9
       DEF ThreadAction, ThreadStep
<1>2. ASSUME NEW d \in Dialers, DialAction(d) PROVE TunTypeOK'
  <2>0. /\ UNCHANGED <<tpc, newHandler, tunHandler, tunListener, callback, refs, hook, owned>>
        /\ dpc[d] \in {"wait", "permit", "calling"} => target[d] \in Handlers
        /\ dpc[d] = "enter" => tunHandler \in Handlers
    BY <1>0, <1>2, ThreadFrame DEF Permits
  <2>1. CASE SeeHook(d) \/ SeeResolver(d) \/ CallHook(d) \/ CheckListener(d)
    BY <1>0, <2>0, <2>1 DEF SeeHook, SeeResolver, CallHook, CheckListener, limitVars
  <2>2. CASE EnterHandler(d)
    <3>1. waiters' \in [Handlers -> Seq(Dialers \cup {TunThread})]
      BY <1>0, <2>0, <2>2, QueueType DEF EnterHandler
    <3>. QED
      BY <1>0, <2>0, <2>2, <3>1 DEF EnterHandler
  <2>3. CASE GetPermit(d)
    <3>1. waiters' \in [Handlers -> Seq(Dialers \cup {TunThread})]
      BY <1>0, <2>0, <2>3, QueueType DEF GetPermit, AcquireOne
    <3>. QED
      BY <1>0, <2>0, <2>3, <3>1 DEF GetPermit, AcquireOne
  <2>4. CASE SkipClosed(d) \/ CallReturns(d)
    <3>1. /\ target[d] \in Handlers
          /\ users' = [users EXCEPT ![target[d]] = @ \ {d}]
          /\ target' = [target EXCEPT ![d] = NoHandler]
          /\ dpc' = [dpc EXCEPT ![d] = "idle"]
          /\ waiters' = waiters
      BY <2>0, <2>4 DEF SkipClosed, CallReturns, LeaveHandler, ReleaseOne
    <3>. QED
      BY <1>0, <2>0, <3>1
  <2>. QED
    BY <1>2, <2>1, <2>2, <2>3, <2>4 DEF DialAction, DialStep
<1>3. CASE RequestAction
  BY <1>0, <1>3 DEF RequestAction, tunVars, threadVars, handlerVars, limitVars, dialVars
<1>. QED
  BY <1>1, <1>2, <1>3

-----------------------------------------------------------------------------
(* The theorems *)

\* TunInv holds initially.
LEMMA TunInit == Init => TunInv
<1>. SUFFICES ASSUME Init PROVE TunInv
  OBVIOUS
<1>1. HubInv
  BY InvInit DEF Init
<1>2. TunTypeOK
  <2>1. [h \in Handlers |-> <<>>] \in [Handlers -> Seq(Dialers \cup {TunThread})]
    OBVIOUS
  <2>. QED
    BY <1>1, <2>1 DEF Init, HubInv, TunTypeOK, ThreadPoints, DialPoints
<1>3. References /\ Hooks
  BY DEF Init, References, Hooks, Resting, Closing, Starting
<1>4. Permits
  BY DEF Init, Permits, Owning
<1>5. ThreadLocks
  BY ThreadsAssumption DEF Init, HubInit, ThreadLocks, Opening
<1>. QED
  BY <1>1, <1>2, <1>3, <1>4, <1>5 DEF TunInv

\* Every step keeps TunInv.
LEMMA TunStep == TunInv /\ [Next]_allVars => TunInv'
<1>. SUFFICES ASSUME TunInv, [Next]_allVars PROVE TunInv'
  OBVIOUS
<1>1. CASE ThreadAction \/ (\E d \in Dialers : DialAction(d)) \/ RequestAction
  <2>1. TunTypeOK' /\ References' /\ Hooks' /\ ThreadLocks'
    BY <1>1, TunTypeStep, ReferencesStep, LocksStep
  <2>2. HubInv'
    BY <1>1, HubKept DEF TunInv
  <2>3. Permits'
    BY <1>1, PermitsThread, PermitsDial
  <2>. QED
    BY <2>1, <2>2, <2>3 DEF TunInv
<1>2. CASE UNCHANGED allVars
  <2>1. UNCHANGED hubVars /\ UNCHANGED <<threadVars, handlerVars, limitVars, dialVars>>
    BY <1>2 DEF allVars, tunVars
  <2>2. HubInv'
    BY <2>1, InvStutter DEF TunInv
  <2>3. TypeOK'
    BY <2>2 DEF HubInv
  <2>4. runLock' = runLock
    BY <2>1 DEF hubVars
  <2>5. TunTypeOK'
    BY <2>1, <2>3 DEF TunInv, TunTypeOK, threadVars, handlerVars, limitVars, dialVars
  <2>6. References' /\ Hooks' /\ Permits' /\ ThreadLocks'
    BY <2>1, <2>4 DEF TunInv, References, Hooks, Permits, ThreadLocks,
                      threadVars, handlerVars, limitVars, dialVars
  <2>. QED
    BY <2>2, <2>5, <2>6 DEF TunInv
<1>. QED
  BY <1>1, <1>2, NextSplit

\* TunInv is inductive, so it always holds.
THEOREM TunInvariance == Spec => []TunInv
BY TunInit, TunStep, PTL DEF Spec

\* Type correctness of TunHandler and of CoreHub beside it.
THEOREM TunTypeCorrect == Spec => []TunTypeOK
<1>1. TunInv => TunTypeOK
  BY DEF TunInv
<1>. QED
  BY <1>1, TunInvariance, PTL

\* Between two calls of startTUN and stopTun nothing is left over.
THEOREM TunSettledSafe == Spec => []TunSettled
<1>1. TunInv => TunSettled
  BY DEF TunInv, TunSettled, References, Hooks, Permits, Resting, Owning
<1>. QED
  BY <1>1, TunInvariance, PTL

\* The listeners follow the flags and the configuration when the thread of
\* startTUN and stopTun starts and stops them too.
THEOREM TunListenersSafe == Spec => []ListenersFollow
<1>1. TunInv => ListenersFollow
  BY InvImplies DEF TunInv
<1>. QED
  BY <1>1, TunInvariance, PTL

-----------------------------------------------------------------------------
(* TunHandler implements CallbackLease *)

\* Who is inside a call through a handler's reference.
Inside == [h \in Handlers |-> {d \in Dialers : dpc[d] = "calling" /\ target[d] = h}]

\* No reference exists initially.
LEMMA LeaseInit == Init => Lease!Init
BY DEF Init, Lease!Init

\* The thread grants and revokes leases; it revokes one only while it holds
\* every permit, so nobody is inside.
LEMMA LeaseThread ==
    ASSUME TunInv, ThreadAction
    PROVE  [Lease!Next]_Lease!vars
<1>1. Inside' = Inside
  BY DialFrame DEF Inside
<1>2. CASE StartTun
  <2>1. PICK h \in Handlers : h \notin refs /\ refs' = refs \cup {h}
    BY <1>2 DEF StartTun, Unreferenced
  <2>2. Lease!Grant(h)
    BY <1>1, <2>1 DEF Lease!Grant, Inside
  <2>. QED
    BY <2>2 DEF Lease!Next
<1>3. CASE Destroy \/ DestroyNew
  <2>1. /\ tpc \in Owning /\ tunHandler \in Handlers
        /\ refs' = IF tunHandler \in callback THEN refs \ {tunHandler} ELSE refs
    BY <1>3 DEF Destroy, DestroyNew, Clear, Owning, TunInv, Hooks, Starting, Closing
  <2>2. users[tunHandler] = {}
    BY <2>1 DEF TunInv, Permits
  <2>3. {d \in Dialers : dpc[d] = "calling" /\ target[d] = tunHandler} = {}
    BY <2>1, <2>2 DEF TunInv, Permits
  <2>4. CASE tunHandler \in callback
    <3>1. tunHandler \in refs
      BY <1>3, <2>4 DEF Destroy, DestroyNew, TunInv, References, Starting, Closing
    <3>2. Inside[tunHandler] = {}
      BY <2>1, <2>3 DEF Inside
    <3>3. Lease!Revoke(tunHandler)
      BY <1>1, <2>1, <2>4, <3>1, <3>2 DEF Lease!Revoke, Inside
    <3>. QED
      BY <2>1, <3>3 DEF Lease!Next
  <2>5. CASE tunHandler \notin callback
    BY <1>1, <2>1, <2>5 DEF Lease!vars, Inside
  <2>. QED
    BY <2>4, <2>5
<1>4. CASE ~(StartTun \/ Destroy \/ DestroyNew)
  <2>1. refs' = refs
    BY <1>4 DEF ThreadAction, ThreadStep, StopTun, HandleStopTun, Drain, Unhook,
       UnhookNew, RemoveHook, Install, LockStart, AcquireStart, InitHook, OpenTun,
       OpenFails, TestAfterStart, ListenAfterStart, ResetAfterStart, TestAfterStop,
       UnlistenAfterStop, Return, handlerVars
  <2>. QED
    BY <1>1, <2>1 DEF Lease!vars, Inside
<1>. QED
  BY <1>2, <1>3, <1>4

\* A dialer enters a call only through the open listener of a handler whose
\* reference exists.
LEMMA LeaseDial ==
    ASSUME TunInv, NEW d \in Dialers, DialAction(d)
    PROVE  [Lease!Next]_Lease!vars
<1>0. /\ refs' = refs
      /\ dpc \in [Dialers -> DialPoints]
      /\ target \in [Dialers -> Handlers \cup {NoHandler}]
      /\ dpc[d] \in {"wait", "permit", "calling"} => target[d] \in Handlers
  BY ThreadFrame DEF TunInv, TunTypeOK, Permits
<1>1. CASE CheckListener(d)
  <2>1. /\ dpc[d] = "permit" /\ target[d] \in tunListener
        /\ dpc' = [dpc EXCEPT ![d] = "calling"] /\ target' = target
    BY <1>1 DEF CheckListener, DialTo
  <2>2. PICK h \in Handlers : target[d] = h
    BY <1>0, <2>1
  <2>3. h \in refs
    BY <2>1, <2>2 DEF TunInv, TunTypeOK, References, ThreadPoints, Resting, Closing, Starting
  <2>4. Inside' = [Inside EXCEPT ![h] = @ \cup {d}] /\ d \notin Inside[h]
    BY <1>0, <2>1, <2>2 DEF Inside
  <2>5. Lease!Enter(h, d)
    BY <1>0, <2>3, <2>4 DEF Lease!Enter, Inside
  <2>. QED
    BY <2>5 DEF Lease!Next
<1>2. CASE CallReturns(d)
  <2>1. /\ dpc[d] = "calling"
        /\ dpc' = [dpc EXCEPT ![d] = "idle"]
        /\ target' = [target EXCEPT ![d] = NoHandler]
    BY <1>2 DEF CallReturns, LeaveHandler, DialTo
  <2>2. PICK h \in Handlers : target[d] = h
    BY <1>0, <2>1
  <2>3. Inside' = [Inside EXCEPT ![h] = @ \ {d}] /\ d \in Inside[h]
    BY <1>0, <2>1, <2>2 DEF Inside
  <2>4. Lease!Leave(h, d)
    BY <1>0, <2>3 DEF Lease!Leave, Inside
  <2>. QED
    BY <2>4 DEF Lease!Next
<1>3. CASE ~(CheckListener(d) \/ CallReturns(d))
  <2>1. /\ dpc[d] # "calling" /\ dpc'[d] # "calling"
        /\ \A e \in Dialers \ {d} : dpc'[e] = dpc[e] /\ target'[e] = target[e]
    BY <1>0, <1>3 DEF DialAction, DialStep, SeeHook, SeeResolver, CallHook,
       EnterHandler, GetPermit, SkipClosed, LeaveHandler, DialTo
  <2>2. Inside' = Inside
    BY <2>1 DEF Inside
  <2>. QED
    BY <1>0, <2>2 DEF Lease!vars, Inside
<1>. QED
  BY <1>1, <1>2, <1>3

\* The references of the VPN service are used as it expects: called only
\* while they exist, and deleted once, when no call is inside.
THEOREM LeaseSafe == Spec => LeaseKept
<1>1. TunInv /\ [Next]_allVars => [Lease!Next]_Lease!vars
  <2>. SUFFICES ASSUME TunInv, [Next]_allVars PROVE [Lease!Next]_Lease!vars
    OBVIOUS
  <2>1. CASE RequestAction \/ UNCHANGED allVars
    BY <2>1 DEF RequestAction, allVars, tunVars, handlerVars, dialVars, Lease!vars
  <2>. QED
    BY <2>1, LeaseThread, LeaseDial, NextSplit
<1>. QED
  BY <1>1, LeaseInit, TunInvariance, PTL DEF Spec, LeaseKept, Lease!Spec
=============================================================================
