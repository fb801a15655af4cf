-------------------------- MODULE ServiceDelegate --------------------------
(***************************************************************************)
(* common/Service.kt: one delegate, which binds to an Android service.     *)
(* The app has one for its service process, the service process has one    *)
(* for the VPN or the common service.                                      *)
(*                                                                         *)
(* bind and unbind are called from any thread and take turns on one atomic *)
(* flag only; what follows the compareAndSet is not atomic.  bind launches *)
(* a job that collects bindServiceFlow (Ext.kt): it asks Android, on the   *)
(* main thread, for a connection and receives its events until it is       *)
(* cancelled.  handleBind runs in that job and unbinds when the service is *)
(* gone.  A step ends where another thread can be seen.                    *)
(***************************************************************************)
EXTENDS Naturals, FiniteSets

CONSTANTS
    Callers,      \* the threads that call bind and unbind
    Jobs,         \* the collecting jobs that can exist at once
    None,         \* job == null, _serviceState.value == null
    MaxRetries    \* maxRetries of bindServiceFlow

ASSUME JobsAssumption == None \notin Jobs /\ Callers \cap Jobs = {}
ASSUME FiniteAssumption == IsFiniteSet(Callers) /\ IsFiniteSet(Jobs)
ASSUME RetriesAssumption == MaxRetries \in Nat

Actors == Callers \cup Jobs

VARIABLES
    bindingState,  \* _bindingState
    serviceState,  \* whose binder _serviceState holds; None for null
    job,           \* job
    phase,         \* how far each job is
    retries,       \* failed bindService calls of a job
    event,         \* what Android has told a job and it has not collected
    pc,            \* where each caller, and each job in handleBind, is
    raced          \* history: two of them were inside at the same time

vars == <<bindingState, serviceState, job, phase, retries, event, pc, raced>>

Phases == {"unused",
           "binding",   \* bindService is queued on the main thread
           "opening",   \* bindService has returned true there
           "open",      \* in awaitClose
           "closing",   \* cancelled; unbindService is posted
           "ended",     \* gave up retrying
           "leaked"}    \* cancelled between bindService and awaitClose

Live == {"binding", "opening", "open"}

Points == {"idle", "bindCancel", "bindForget", "bindLaunch", "unbindCancel",
           "unbindForget", "connected", "gone", "notify", "reset"}

TypeOK ==
    /\ bindingState \in BOOLEAN
    /\ serviceState \in Jobs \cup {None}
    /\ job \in Jobs \cup {None}
    /\ phase \in [Jobs -> Phases]
    /\ retries \in [Jobs -> 0 .. MaxRetries]
    /\ event \in [Jobs -> {"none", "connected", "lost"}]
    /\ pc \in [Actors -> Points]
    /\ raced \in BOOLEAN

Init ==
    /\ bindingState = FALSE /\ serviceState = None /\ job = None
    /\ phase = [j \in Jobs |-> "unused"]
    /\ retries = [j \in Jobs |-> 0]
    /\ event = [j \in Jobs |-> "none"]
    /\ pc = [a \in Actors |-> "idle"]
    /\ raced = FALSE

Inside(points) == {a \in Actors : points[a] # "idle"}

\* Move a and notice whether somebody else is inside.
Goto(a, point) ==
    /\ pc' = [pc EXCEPT ![a] = point]
    /\ raced' = (raced \/ Cardinality(Inside(pc')) > 1)

Unused(j) == phase[j] = "unused" /\ serviceState # j /\ pc[j] = "idle"

-----------------------------------------------------------------------------
(* bind and unbind.                                                        *)

\* compareAndSet(false, true); a job is left for the launch that follows.
Bind(c) ==
    /\ pc[c] = "idle"
    /\ ~bindingState
    /\ Cardinality({j \in Jobs : Unused(j)}) >
           Cardinality({a \in Actors : pc[a] \in {"bindCancel", "bindForget",
                                                  "bindLaunch"}})
    /\ bindingState' = TRUE
    /\ Goto(c, "bindCancel")
    /\ UNCHANGED <<serviceState, job, phase, retries, event>>

\* compareAndSet(true, false), by a caller or by handleBind.
Unbind(a) ==
    /\ pc[a] = IF a \in Jobs THEN "gone" ELSE "idle"
    /\ IF bindingState
       THEN bindingState' = FALSE /\ Goto(a, "unbindCancel")
       ELSE a \in Jobs /\ Goto(a, "notify") /\ UNCHANGED bindingState
    /\ UNCHANGED <<serviceState, job, phase, retries, event>>

\* Where a job goes when it is cancelled: in awaitClose it unbinds; between
\* bindService and awaitClose withContext throws and nobody will.
Cancelled == [p \in Phases |-> CASE p \in {"binding", "ended"} -> "unused"
                                 [] p = "opening" -> "leaked"
                                 [] p = "open" -> "closing"
                                 [] OTHER -> p]

\* Variant: the job is only forgotten.
CancelJobNever(a) ==
    /\ pc[a] \in {"bindCancel", "unbindCancel"}
    /\ Goto(a, IF pc[a] = "bindCancel" THEN "bindForget" ELSE "unbindForget")
    /\ UNCHANGED <<bindingState, serviceState, job, phase, retries, event>>

\* job?.cancel(): the job collects nothing more.
CancelJob(a) ==
    /\ pc[a] \in {"bindCancel", "unbindCancel"}
    /\ IF job = None THEN UNCHANGED <<phase, event, retries>>
       ELSE /\ phase' = [phase EXCEPT ![job] = Cancelled[@]]
            /\ event' = [event EXCEPT ![job] = "none"]
            /\ retries' = [retries EXCEPT ![job] = 0]
    /\ Goto(a, IF pc[a] = "bindCancel" THEN "bindForget" ELSE "unbindForget")
    /\ UNCHANGED <<bindingState, serviceState, job>>

\* job = null; _serviceState.value = null
ForgetJob(a) ==
    /\ pc[a] \in {"bindForget", "unbindForget"}
    /\ job' = None
    /\ serviceState' = None
    /\ Goto(a, CASE pc[a] = "bindForget" -> "bindLaunch"
                 [] pc[a] = "unbindForget" /\ a \in Jobs -> "notify"
                 [] OTHER -> "idle")
    /\ UNCHANGED <<bindingState, phase, retries, event>>

LaunchJob(c) ==
    /\ pc[c] = "bindLaunch"
    /\ \E j \in Jobs :
           /\ Unused(j)
           /\ job' = j
           /\ phase' = [phase EXCEPT ![j] = "binding"]
    /\ Goto(c, "idle")
    /\ UNCHANGED <<bindingState, serviceState, retries, event>>

-----------------------------------------------------------------------------
(* bindServiceFlow, and Android.                                           *)

Env == UNCHANGED <<bindingState, serviceState, job, pc, raced>>

BindService(j) ==
    /\ phase[j] = "binding"
    /\ \/ phase' = [phase EXCEPT ![j] = "opening"] /\ UNCHANGED retries
       \/ /\ retries[j] < MaxRetries
          /\ retries' = [retries EXCEPT ![j] = @ + 1]
          /\ UNCHANGED phase
       \/ /\ retries[j] = MaxRetries
          /\ phase' = [phase EXCEPT ![j] = "ended"]
          /\ UNCHANGED retries
    /\ UNCHANGED event
    /\ Env

AwaitClose(j) ==
    /\ phase[j] = "opening"
    /\ phase' = [phase EXCEPT ![j] = "open"]
    /\ UNCHANGED <<retries, event>>
    /\ Env

\* Variant: the connection is only listened to until awaitClose.
OnServiceConnectedEarly(j) ==
    /\ phase[j] = "opening"
    /\ event[j] = "none" /\ serviceState # j /\ pc[j] = "idle"
    /\ event' = [event EXCEPT ![j] = "connected"]
    /\ UNCHANGED <<phase, retries>>
    /\ Env

OnServiceConnected(j) ==
    /\ phase[j] \in {"opening", "open"}
    /\ event[j] = "none" /\ serviceState # j /\ pc[j] = "idle"
    /\ event' = [event EXCEPT ![j] = "connected"]
    /\ UNCHANGED <<phase, retries>>
    /\ Env

\* The service's process died, or Android gave no binder.
OnServiceDisconnected(j) ==
    /\ phase[j] \in {"opening", "open"}
    /\ event[j] # "lost"
    /\ event' = [event EXCEPT ![j] = "lost"]
    /\ UNCHANGED <<phase, retries>>
    /\ Env

UnbindService(j) ==
    /\ phase[j] = "closing"
    /\ phase' = [phase EXCEPT ![j] = "unused"]
    /\ UNCHANGED <<retries, event>>
    /\ Env

-----------------------------------------------------------------------------
(* handleBind, in the job.                                                 *)

\* The job collects an event; a missing binder is shown at once.
Collect(j) ==
    /\ phase[j] \in Live
    /\ event[j] # "none"
    /\ pc[j] = "idle"
    /\ event' = [event EXCEPT ![j] = "none"]
    /\ IF event[j] = "lost"
       THEN serviceState' = None /\ Goto(j, "gone")
       ELSE UNCHANGED serviceState /\ Goto(j, "connected")
    /\ UNCHANGED <<bindingState, job, phase, retries>>

\* _serviceState.value = Pair(interfaceCreator(it), ...)
ShowBinder(j) ==
    /\ pc[j] = "connected"
    /\ serviceState' = j
    /\ Goto(j, "idle")
    /\ UNCHANGED <<bindingState, job, phase, retries, event>>

\* onServiceDisconnected?.invoke
Notify(j) ==
    /\ pc[j] = "notify"
    /\ Goto(j, "reset")
    /\ UNCHANGED <<bindingState, serviceState, job, phase, retries, event>>

\* _bindingState.set(false)
ResetBinding(j) ==
    /\ pc[j] = "reset"
    /\ bindingState' = FALSE
    /\ Goto(j, "idle")
    /\ UNCHANGED <<serviceState, job, phase, retries, event>>

-----------------------------------------------------------------------------
Thread(a) == Unbind(a) \/ CancelJob(a) \/ ForgetJob(a)

Handler(j) == Collect(j) \/ ShowBinder(j) \/ Notify(j) \/ ResetBinding(j)

Main(j) ==
    BindService(j) \/ AwaitClose(j) \/ OnServiceConnected(j) \/ UnbindService(j)

Next ==
    \/ \E c \in Callers : Bind(c) \/ LaunchJob(c)
    \/ \E a \in Actors : Thread(a)
    \/ \E j \in Jobs : Handler(j) \/ Main(j) \/ OnServiceDisconnected(j)

Spec == Init /\ [][Next]_vars

FairSpec ==
    /\ Spec
    /\ \A c \in Callers :
           WF_vars(CancelJob(c) \/ ForgetJob(c) \/ LaunchJob(c))
    /\ \A j \in Jobs : WF_vars(Thread(j)) /\ WF_vars(Handler(j)) /\ WF_vars(Main(j))

-----------------------------------------------------------------------------
\* Nobody is inside bind, unbind or handleBind.
Quiet == Inside(pc) = {}

\* As long as bind, unbind and handleBind never overlapped: an unbound delegate
\* shows no binder and no job of it goes on; a bound one has one job, and shows
\* no binder but that job's.  What the compareAndSet of Service.kt is for.
Consistent ==
    Quiet /\ ~raced =>
        /\ {j \in Jobs : phase[j] \in Live \cup {"ended"}} = {job} \ {None}
        /\ bindingState = (job # None)
        /\ serviceState \in {job, None}

\* A delegate that was bound gets a binder, is unbound again, or has given up
\* after the last retry; unless its callers raced.
BindingSettles ==
    bindingState ~> \/ serviceState # None
                    \/ ~bindingState
                    \/ raced
                    \/ job # None /\ phase[job] = "ended"
=============================================================================
