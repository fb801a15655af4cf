------------------------ MODULE ServiceDelegate_proofs ------------------------
(***************************************************************************)
(* Proofs about ServiceDelegate, for any number of callers, jobs and       *)
(* retries.                                                                *)
(*                                                                         *)
(* As long as nothing raced at most one thread is inside bind, unbind or   *)
(* handleBind (OneInside), so that where it is says what the delegate      *)
(* holds (Stages).                                                         *)
(***************************************************************************)
EXTENDS ServiceDelegate, FiniteSetTheorems, TLAPS

Going == Live \cup {"ended"}

OneInside ==
    ~raced => \A a, b \in Actors : pc[a] # "idle" /\ pc[b] # "idle" => a = b

\* Only a job handles events.
HandlersAreJobs ==
    \A a \in Actors : pc[a] \in {"connected", "gone", "notify", "reset"} => a \in Jobs

Released ==
    /\ ~bindingState
    /\ job = None /\ serviceState = None
    /\ \A j \in Jobs : phase[j] \notin Going

\* A binding that another bind cannot enter.
Entering ==
    /\ bindingState
    /\ job = None /\ serviceState = None
    /\ \A j \in Jobs : phase[j] \notin Going

Bound ==
    /\ job \in Jobs
    /\ serviceState \in {job, None}
    /\ \A j \in Jobs : phase[j] \in Going <=> j = job

\* What the delegate holds at each point of the one thread inside.
Stage(a) ==
    /\ pc[a] \in {"bindCancel", "bindForget", "bindLaunch"} => Entering
    /\ pc[a] = "unbindCancel" => Bound /\ ~bindingState
    /\ pc[a] = "unbindForget" =>
           ~bindingState /\ \A j \in Jobs : phase[j] \notin Going
    /\ pc[a] \in {"connected", "gone"} => Bound /\ bindingState /\ job = a
    /\ pc[a] \in {"notify", "reset"} => Released

Stages ==
    ~raced =>
        /\ \A a \in Actors : Stage(a)
        /\ (\A a \in Actors : pc[a] = "idle") => Released \/ (Bound /\ bindingState)

IInv == TypeOK /\ HandlersAreJobs /\ OneInside /\ Stages

-----------------------------------------------------------------------------
\* Every step keeps the types.
LEMMA TypeStep ==
    ASSUME TypeOK, HandlersAreJobs, [Next]_vars
    PROVE  TypeOK'
<1>1. ASSUME NEW c \in Callers, Bind(c) PROVE TypeOK'
  BY <1>1, RetriesAssumption DEF Bind, TypeOK, HandlersAreJobs, Goto,
     Unused, Phases, Points, Actors
<1>2. ASSUME NEW c \in Callers, LaunchJob(c) PROVE TypeOK'
  BY <1>2, RetriesAssumption DEF LaunchJob, TypeOK, HandlersAreJobs, Goto,
     Unused, Phases, Points, Actors
<1>3. ASSUME NEW a \in Actors, Unbind(a) PROVE TypeOK'
  BY <1>3, RetriesAssumption DEF Unbind, TypeOK, HandlersAreJobs, Goto,
     Phases, Points, Actors
<1>4. ASSUME NEW a \in Actors, CancelJob(a) PROVE TypeOK'
  BY <1>4, RetriesAssumption DEF CancelJob, TypeOK, HandlersAreJobs, Goto,
     Cancelled, Phases, Points, Actors
<1>5. ASSUME NEW a \in Actors, ForgetJob(a) PROVE TypeOK'
  BY <1>5, RetriesAssumption DEF ForgetJob, TypeOK, HandlersAreJobs, Goto,
     Phases, Points, Actors
<1>6. ASSUME NEW j \in Jobs, Collect(j) PROVE TypeOK'
  BY <1>6, RetriesAssumption DEF Collect, TypeOK, HandlersAreJobs, Goto,
     Phases, Points, Actors, Live
<1>7. ASSUME NEW j \in Jobs, ShowBinder(j) PROVE TypeOK'
  BY <1>7, RetriesAssumption DEF ShowBinder, TypeOK, HandlersAreJobs,
     Goto, Phases, Points, Actors
<1>8. ASSUME NEW j \in Jobs, Notify(j) PROVE TypeOK'
  BY <1>8, RetriesAssumption DEF Notify, TypeOK, HandlersAreJobs, Goto,
     Phases, Points, Actors
<1>9. ASSUME NEW j \in Jobs, ResetBinding(j) PROVE TypeOK'
  BY <1>9, RetriesAssumption DEF ResetBinding, TypeOK, HandlersAreJobs,
     Goto, Phases, Points, Actors
<1>10. ASSUME NEW j \in Jobs, BindService(j) PROVE TypeOK'
  BY <1>10, RetriesAssumption DEF BindService, TypeOK, HandlersAreJobs,
     Env, Phases, Points, Actors
<1>11. ASSUME NEW j \in Jobs, AwaitClose(j) PROVE TypeOK'
  BY <1>11, RetriesAssumption DEF AwaitClose, TypeOK, HandlersAreJobs,
     Env, Phases, Points, Actors
<1>12. ASSUME NEW j \in Jobs, OnServiceConnected(j) PROVE TypeOK'
  BY <1>12, RetriesAssumption DEF OnServiceConnected, TypeOK,
     HandlersAreJobs, Env, Phases, Points, Actors
<1>13. ASSUME NEW j \in Jobs, UnbindService(j) PROVE TypeOK'
  BY <1>13, RetriesAssumption DEF UnbindService, TypeOK, HandlersAreJobs,
     Env, Phases, Points, Actors
<1>14. ASSUME NEW j \in Jobs, OnServiceDisconnected(j) PROVE TypeOK'
  BY <1>14, RetriesAssumption DEF OnServiceDisconnected, TypeOK,
     HandlersAreJobs, Env, Phases, Points, Actors
<1>15. CASE UNCHANGED vars
  BY <1>15 DEF vars, TypeOK, HandlersAreJobs, Phases, Points, Actors
<1> QED
  BY <1>1, <1>2, <1>3, <1>4, <1>5, <1>6, <1>7, <1>8, <1>9, <1>10, <1>11,
     <1>12, <1>13, <1>14, <1>15 DEF Next, Thread, Handler, Main

\* Callers do not handle events.
LEMMA HandlersStep ==
    ASSUME TypeOK, HandlersAreJobs, [Next]_vars
    PROVE  HandlersAreJobs'
<1>1. ASSUME NEW c \in Callers, Bind(c) PROVE HandlersAreJobs'
  BY <1>1, JobsAssumption DEF Bind, TypeOK, HandlersAreJobs, Goto, Unused,
     Actors
<1>2. ASSUME NEW c \in Callers, LaunchJob(c) PROVE HandlersAreJobs'
  BY <1>2, JobsAssumption DEF LaunchJob, TypeOK, HandlersAreJobs, Goto,
     Unused, Actors
<1>3. ASSUME NEW a \in Actors, Unbind(a) PROVE HandlersAreJobs'
  BY <1>3, JobsAssumption DEF Unbind, TypeOK, HandlersAreJobs, Goto,
     Actors
<1>4. ASSUME NEW a \in Actors, CancelJob(a) PROVE HandlersAreJobs'
  BY <1>4, JobsAssumption DEF CancelJob, TypeOK, HandlersAreJobs, Goto,
     Cancelled, Actors
<1>5. ASSUME NEW a \in Actors, ForgetJob(a) PROVE HandlersAreJobs'
  BY <1>5, JobsAssumption DEF ForgetJob, TypeOK, HandlersAreJobs, Goto,
     Actors
<1>6. ASSUME NEW j \in Jobs, Collect(j) PROVE HandlersAreJobs'
  BY <1>6, JobsAssumption DEF Collect, TypeOK, HandlersAreJobs, Goto,
     Actors
<1>7. ASSUME NEW j \in Jobs, ShowBinder(j) PROVE HandlersAreJobs'
  BY <1>7, JobsAssumption DEF ShowBinder, TypeOK, HandlersAreJobs, Goto,
     Actors
<1>8. ASSUME NEW j \in Jobs, Notify(j) PROVE HandlersAreJobs'
  BY <1>8, JobsAssumption DEF Notify, TypeOK, HandlersAreJobs, Goto,
     Actors
<1>9. ASSUME NEW j \in Jobs, ResetBinding(j) PROVE HandlersAreJobs'
  BY <1>9, JobsAssumption DEF ResetBinding, TypeOK, HandlersAreJobs, Goto,
     Actors
<1>10. ASSUME NEW j \in Jobs, BindService(j) PROVE HandlersAreJobs'
  BY <1>10, JobsAssumption DEF BindService, TypeOK, HandlersAreJobs, Env,
     Actors
<1>11. ASSUME NEW j \in Jobs, AwaitClose(j) PROVE HandlersAreJobs'
  BY <1>11, JobsAssumption DEF AwaitClose, TypeOK, HandlersAreJobs, Env,
     Actors
<1>12. ASSUME NEW j \in Jobs, OnServiceConnected(j) PROVE HandlersAreJobs'
  BY <1>12, JobsAssumption DEF OnServiceConnected, TypeOK,
     HandlersAreJobs, Env, Actors
<1>13. ASSUME NEW j \in Jobs, UnbindService(j) PROVE HandlersAreJobs'
  BY <1>13, JobsAssumption DEF UnbindService, TypeOK, HandlersAreJobs,
     Env, Actors
<1>14. ASSUME NEW j \in Jobs, OnServiceDisconnected(j) PROVE HandlersAreJobs'
  BY <1>14, JobsAssumption DEF OnServiceDisconnected, TypeOK,
     HandlersAreJobs, Env, Actors
<1>15. CASE UNCHANGED vars
  BY <1>15 DEF vars, TypeOK, HandlersAreJobs, Actors
<1> QED
  BY <1>1, <1>2, <1>3, <1>4, <1>5, <1>6, <1>7, <1>8, <1>9, <1>10, <1>11,
     <1>12, <1>13, <1>14, <1>15 DEF Next, Thread, Handler, Main

\* Who is let in while nothing raced is alone.
LEMMA GotoInside ==
    ASSUME NEW a, NEW point, TypeOK', Goto(a, point)
    PROVE  OneInside'
<1> SUFFICES ASSUME ~raced', NEW x \in Actors, NEW y \in Actors,
                    pc'[x] # "idle", pc'[y] # "idle", x # y
             PROVE  FALSE
  BY DEF OneInside
<1>1. Cardinality(Inside(pc')) <= 1
  <2>1. IsFiniteSet(Actors)
    BY FiniteAssumption, FS_Union DEF Actors
  <2>2. IsFiniteSet(Inside(pc'))
    BY <2>1, FS_Subset DEF Inside
  <2>3. Cardinality(Inside(pc')) \in Nat
    BY <2>2, FS_CardinalityType
  <2>4. ~(Cardinality(Inside(pc')) > 1)
    BY Zenon DEF Goto
  <2> QED
    BY <2>3, <2>4
<1>2. {x, y} \subseteq Inside(pc')
  BY DEF Inside
<1>3. IsFiniteSet(Inside(pc'))
  <2>1. IsFiniteSet(Actors)
    BY FiniteAssumption, FS_Union DEF Actors
  <2> QED
    BY <2>1, FS_Subset DEF Inside
<1>4. Cardinality({x, y}) <= Cardinality(Inside(pc'))
  BY <1>2, <1>3, FS_Subset
<1>5. Cardinality({x, y}) = 2
  <2>1. IsFiniteSet({x}) /\ Cardinality({x}) = 1
    BY FS_Singleton
  <2>2. Cardinality({x} \cup {y}) = Cardinality({x}) + 1
    BY <2>1, FS_AddElement
  <2>3. {x} \cup {y} = {x, y}
    OBVIOUS
  <2> QED
    BY <2>1, <2>2, <2>3
<1>6. Cardinality(Inside(pc')) \in Nat
  BY <1>3, FS_CardinalityType
<1> QED
  BY <1>1, <1>4, <1>5, <1>6

\* Every step either moves one thread by Goto or moves none.
LEMMA OneInsideStep ==
    ASSUME TypeOK', OneInside, [Next]_vars
    PROVE  OneInside'
<1>1. ASSUME NEW a, NEW point, Goto(a, point) PROVE OneInside'
  BY <1>1, GotoInside
<1>2. CASE UNCHANGED <<pc, raced>>
  BY <1>2 DEF OneInside
<1>3. ASSUME NEW c \in Callers, Bind(c) \/ LaunchJob(c) PROVE OneInside'
  BY <1>1, <1>3 DEF Bind, LaunchJob
<1>4. ASSUME NEW a \in Actors, Thread(a) PROVE OneInside'
  <2>1. CASE Unbind(a)
    BY <1>1, <2>1 DEF Unbind
  <2>2. CASE CancelJob(a)
    BY <1>1, <2>2 DEF CancelJob
  <2>3. CASE ForgetJob(a)
    BY <1>1, <2>3 DEF ForgetJob
  <2> QED
    BY <1>4, <2>1, <2>2, <2>3 DEF Thread
<1>5. ASSUME NEW j \in Jobs, Handler(j) PROVE OneInside'
  BY <1>1, <1>5 DEF Handler, Collect, ShowBinder, Notify, ResetBinding
<1>6. ASSUME NEW j \in Jobs, Main(j) \/ OnServiceDisconnected(j) PROVE OneInside'
  BY <1>2, <1>6 DEF Main, BindService, AwaitClose, OnServiceConnected, UnbindService,
                    OnServiceDisconnected, Env
<1>7. CASE UNCHANGED vars
  BY <1>2, <1>7 DEF vars
<1> QED
  BY <1>3, <1>4, <1>5, <1>6, <1>7 DEF Next

\* Each step of the one thread inside leads from what the delegate holds before it
\* to what it holds after.
LEMMA StagesStep ==
    ASSUME TypeOK, HandlersAreJobs, OneInside, OneInside', Stages, [Next]_vars
    PROVE  Stages'
<1>1. ASSUME NEW c \in Callers, Bind(c) PROVE Stages'
  BY <1>1, JobsAssumption DEF Bind, TypeOK, HandlersAreJobs, OneInside,
     Stages, Goto, Unused, Stage, Released, Entering, Bound, Going, Live,
     Phases, Actors
<1>2. ASSUME NEW c \in Callers, LaunchJob(c) PROVE Stages'
  BY <1>2, JobsAssumption DEF LaunchJob, TypeOK, HandlersAreJobs,
     OneInside, Stages, Goto, Unused, Stage, Released, Entering, Bound,
     Going, Live, Phases, Actors
<1>3. ASSUME NEW a \in Actors, Unbind(a) PROVE Stages'
  BY <1>3, JobsAssumption DEF Unbind, TypeOK, HandlersAreJobs, OneInside,
     Stages, Goto, Stage, Released, Entering, Bound, Going, Live, Phases,
     Actors
<1>4. ASSUME NEW a \in Actors, CancelJob(a) PROVE Stages'
  BY <1>4, JobsAssumption DEF CancelJob, TypeOK, HandlersAreJobs,
     OneInside, Stages, Goto, Cancelled, Stage, Released, Entering, Bound,
     Going, Live, Phases, Actors
<1>5. ASSUME NEW a \in Actors, ForgetJob(a) PROVE Stages'
  BY <1>5, JobsAssumption DEF ForgetJob, TypeOK, HandlersAreJobs,
     OneInside, Stages, Goto, Stage, Released, Entering, Bound, Going, Live,
     Phases, Actors
<1>6. ASSUME NEW j \in Jobs, Collect(j) PROVE Stages'
  BY <1>6, JobsAssumption DEF Collect, TypeOK, HandlersAreJobs, OneInside,
     Stages, Goto, Stage, Released, Entering, Bound, Going, Live, Phases,
     Actors
<1>7. ASSUME NEW j \in Jobs, ShowBinder(j) PROVE Stages'
  BY <1>7, JobsAssumption DEF ShowBinder, TypeOK, HandlersAreJobs,
     OneInside, Stages, Goto, Stage, Released, Entering, Bound, Going, Live,
     Phases, Actors
<1>8. ASSUME NEW j \in Jobs, Notify(j) PROVE Stages'
  BY <1>8, JobsAssumption DEF Notify, TypeOK, HandlersAreJobs, OneInside,
     Stages, Goto, Stage, Released, Entering, Bound, Going, Live, Phases,
     Actors
<1>9. ASSUME NEW j \in Jobs, ResetBinding(j) PROVE Stages'
  BY <1>9, JobsAssumption DEF ResetBinding, TypeOK, HandlersAreJobs,
     OneInside, Stages, Goto, Stage, Released, Entering, Bound, Going, Live,
     Phases, Actors
<1>10. ASSUME NEW j \in Jobs, BindService(j) PROVE Stages'
  BY <1>10, JobsAssumption DEF BindService, TypeOK, HandlersAreJobs,
     OneInside, Stages, Env, Stage, Released, Entering, Bound, Going, Live,
     Phases, Actors
<1>11. ASSUME NEW j \in Jobs, AwaitClose(j) PROVE Stages'
  BY <1>11, JobsAssumption DEF AwaitClose, TypeOK, HandlersAreJobs,
     OneInside, Stages, Env, Stage, Released, Entering, Bound, Going, Live,
     Phases, Actors
<1>12. ASSUME NEW j \in Jobs, OnServiceConnected(j) PROVE Stages'
  BY <1>12, JobsAssumption DEF OnServiceConnected, TypeOK,
     HandlersAreJobs, OneInside, Stages, Env, Stage, Released, Entering,
     Bound, Going, Live, Phases, Actors
<1>13. ASSUME NEW j \in Jobs, UnbindService(j) PROVE Stages'
  BY <1>13, JobsAssumption DEF UnbindService, TypeOK, HandlersAreJobs,
     OneInside, Stages, Env, Stage, Released, Entering, Bound, Going, Live,
     Phases, Actors
<1>14. ASSUME NEW j \in Jobs, OnServiceDisconnected(j) PROVE Stages'
  BY <1>14, JobsAssumption DEF OnServiceDisconnected, TypeOK,
     HandlersAreJobs, OneInside, Stages, Env, Stage, Released, Entering,
     Bound, Going, Live, Phases, Actors
<1>15. CASE UNCHANGED vars
  BY <1>15 DEF vars, TypeOK, HandlersAreJobs, OneInside, Stages, Stage,
     Released, Entering, Bound, Going, Live, Phases, Actors
<1> QED
  BY <1>1, <1>2, <1>3, <1>4, <1>5, <1>6, <1>7, <1>8, <1>9, <1>10, <1>11,
     <1>12, <1>13, <1>14, <1>15 DEF Next, Thread, Handler, Main

-----------------------------------------------------------------------------
LEMMA InitIInv == Init => IInv
<1> SUFFICES ASSUME Init PROVE IInv
  OBVIOUS
<1>1. TypeOK
  <2>1. retries \in [Jobs -> 0 .. MaxRetries]
    BY RetriesAssumption DEF Init
  <2>2. phase \in [Jobs -> Phases] /\ event \in [Jobs -> {"none", "connected", "lost"}]
    BY DEF Init, Phases
  <2>3. pc \in [Actors -> Points]
    BY DEF Init, Points
  <2> QED
    BY <2>1, <2>2, <2>3 DEF Init, TypeOK
<1>2. HandlersAreJobs /\ OneInside
  BY DEF Init, HandlersAreJobs, OneInside
<1>3. Stages
  BY DEF Init, Stages, Stage, Released, Going, Live
<1> QED
  BY <1>1, <1>2, <1>3 DEF IInv

LEMMA StepIInv == IInv /\ [Next]_vars => IInv'
<1> SUFFICES ASSUME IInv, [Next]_vars PROVE IInv'
  OBVIOUS
<1>1. TypeOK' /\ HandlersAreJobs'
  BY TypeStep, HandlersStep DEF IInv
<1>2. OneInside'
  BY <1>1, OneInsideStep DEF IInv
<1> QED
  BY <1>1, <1>2, StagesStep DEF IInv

\* The invariant the others follow from.
THEOREM Inductive == Spec => []IInv
BY InitIInv, StepIInv, PTL DEF Spec

\* The flag, the job, its retries and the binder have the values Service.kt gives
\* them.
THEOREM TypeCorrect == Spec => []TypeOK
<1>1. IInv => TypeOK
  BY DEF IInv
<1> QED
  BY Inductive, <1>1, PTL

\* If bind, unbind and handleBind never overlapped, an unbound delegate shows no
\* binder and keeps no job, and a bound one has one job and shows only its binder.
THEOREM DelegateConsistent == Spec => []Consistent
<1>1. IInv => Consistent
  <2> SUFFICES ASSUME IInv, Quiet, ~raced
               PROVE  /\ {j \in Jobs : phase[j] \in Live \cup {"ended"}} = {job} \ {None}
                      /\ bindingState = (job # None)
                      /\ serviceState \in {job, None}
    BY DEF Consistent
  <2>1. Released \/ (Bound /\ bindingState)
    BY DEF IInv, Stages, Quiet, Inside
  <2> QED
    BY <2>1, JobsAssumption DEF IInv, TypeOK, Released, Bound, Going
<1> QED
  BY Inductive, <1>1, PTL
=============================================================================
