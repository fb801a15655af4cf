-------------------------- MODULE BrandConfig_proofs --------------------------
(***************************************************************************)
(* Proofs about BrandConfig, for any number of refreshes, URLs and         *)
(* configurations: the counting race implements FirstAnswer, and what is   *)
(* shown is cached.                                                        *)
(*                                                                         *)
(* The race's counter is the number of URLs still asked as long as nothing *)
(* completed it (Counts).  Refreshes that never overlapped run alone       *)
(* (Alone), and where the one is says what is shown and cached (Stages).   *)
(***************************************************************************)
EXTENDS BrandConfig, FiniteSetTheorems, TLAPS

Counts ==
    \A r \in Refreshers :
        /\ Cardinality(inflight[r]) <= pending[r]
        /\ completer[r] = {} => pc[r] = "race" /\ pending[r] = Cardinality(inflight[r])

Alone ==
    /\ history = "none" => \A r \in Refreshers : pc[r] = "idle"
    /\ history = "serial" =>
           \A r, s \in Refreshers : pc[r] # "idle" /\ pc[s] # "idle" => r = s

ReadyAsCached == status = "ready" /\ data = cache /\ cache # None

\* What is shown and cached at each point of the one refresh.
Stage(r) ==
    /\ pc[r] \in {"race", "save"} /\ cached[r] # None => ReadyAsCached
    /\ pc[r] = "save" => remote[r] # None
    /\ pc[r] = "show" => remote[r] = cache /\ cache # None

Stages == history = "serial" => \A r \in Refreshers : Stage(r)

IInv == TypeOK /\ Counts /\ Alone /\ Stages /\ ShownIsCached

-----------------------------------------------------------------------------
\* How the sizes of the sets of URLs behave.
LEMMA UrlsSize == Cardinality(Urls) \in Nat \ {0}
BY UrlsAssumption, FS_CardinalityType, FS_EmptySet

LEMMA AskedSize ==
    ASSUME NEW S \in SUBSET Urls
    PROVE  /\ IsFiniteSet(S)
           /\ Cardinality(S) \in Nat
           /\ \A u \in S : Cardinality(S \ {u}) = Cardinality(S) - 1
BY UrlsAssumption, FS_Subset, FS_CardinalityType, FS_RemoveElement

LEMMA LastAsked ==
    ASSUME NEW S \in SUBSET Urls, NEW u \in S
    PROVE  Cardinality(S) = 1 <=> S = {u}
<1>1. IsFiniteSet(S)
  BY AskedSize
<1>2. Cardinality({u}) = 1
  BY FS_Singleton
<1>3. ASSUME Cardinality(S) = 1 PROVE S = {u}
  <2>1. PICK v : S = {v}
    BY <1>1, <1>3, FS_Singleton
  <2> QED
    BY <2>1
<1> QED
  BY <1>2, <1>3

-----------------------------------------------------------------------------
\* Every step keeps the types.
LEMMA TypeStep ==
    ASSUME TypeOK, Counts, [Next]_vars
    PROVE  TypeOK'
<1>1. ASSUME NEW r \in Refreshers, Begin(r) PROVE TypeOK'
  BY <1>1, UrlsSize DEF Begin, TypeOK, Goto, Show, shown, race,
     Configuration
<1>2. ASSUME NEW r \in Refreshers, LoadFromCache(r) PROVE TypeOK'
  BY <1>2, UrlsSize DEF LoadFromCache, TypeOK, Goto, Show, StartRace,
     shown, race, Configuration
<1>3. ASSUME NEW r \in Refreshers, RaceReturns(r) PROVE TypeOK'
  BY <1>3, UrlsSize DEF RaceReturns, TypeOK, Goto, Show, GiveUp, RaceEnds,
     shown, race, Configuration
<1>4. ASSUME NEW r \in Refreshers, RaceTimesOut(r) PROVE TypeOK'
  BY <1>4, UrlsSize DEF RaceTimesOut, TypeOK, Goto, Show, GiveUp,
     RaceEnds, shown, race, Configuration
<1>5. ASSUME NEW r \in Refreshers, SaveToCache(r) PROVE TypeOK'
  BY <1>5, UrlsSize DEF SaveToCache, TypeOK, Goto, Show, GiveUp, shown,
     race, Configuration
<1>6. ASSUME NEW r \in Refreshers, ShowRemote(r) PROVE TypeOK'
  BY <1>6, UrlsSize DEF ShowRemote, TypeOK, Goto, Show, race,
     Configuration
<1>7. ASSUME NEW r \in Refreshers, NEW u \in Urls, Fail(r, u) PROVE TypeOK'
  <2>1. inflight[r] \in SUBSET Urls /\ u \in inflight[r]
    BY <1>7 DEF Fail, TypeOK
  <2>2. Cardinality(inflight[r]) \in Nat /\ Cardinality(inflight[r] \ {u}) \in Nat
    BY <2>1, AskedSize
  <2>3. Cardinality(inflight[r] \ {u}) = Cardinality(inflight[r]) - 1
    BY <2>1, AskedSize
  <2>4. pending[r] - 1 \in 0 .. Cardinality(Urls)
    BY <2>2, <2>3, UrlsSize DEF TypeOK, Counts
  <2>5. pending' \in [Refreshers -> 0 .. Cardinality(Urls)]
    BY <1>7, <2>4 DEF Fail, TypeOK
  <2>6. /\ inflight' \in [Refreshers -> SUBSET Urls]
        /\ completer' \in [Refreshers -> SUBSET Configuration]
    BY <1>7 DEF Fail, TypeOK, Configuration
  <2> QED
    BY <1>7, <2>5, <2>6 DEF Fail, Rest, shown, TypeOK
<1>8. ASSUME NEW r \in Refreshers, NEW u \in Urls, NEW config \in Configs,
            Answer(r, u, config)
     PROVE  TypeOK'
  BY <1>8, UrlsSize DEF Answer, TypeOK, Rest, shown, race, Configuration
<1>9. CASE UNCHANGED vars
  BY <1>9 DEF vars, TypeOK, shown, race, Configuration
<1> QED
  BY <1>1, <1>2, <1>3, <1>4, <1>5, <1>6, <1>7, <1>8, <1>9 DEF Next,
     Refresh

\* The counter follows the failures until something completes the race.
LEMMA CountsStep ==
    ASSUME TypeOK, Counts, [Next]_vars
    PROVE  Counts'
<1>1. ASSUME NEW r \in Refreshers, Begin(r) PROVE Counts'
  BY <1>1, UrlsSize DEF Begin, TypeOK, Counts, Goto, Show, shown, race,
     Configuration
<1>2. ASSUME NEW r \in Refreshers, LoadFromCache(r) PROVE Counts'
  BY <1>2, UrlsSize DEF LoadFromCache, TypeOK, Counts, Goto, Show,
     StartRace, shown, race, Configuration
<1>3. ASSUME NEW r \in Refreshers, RaceReturns(r) PROVE Counts'
  BY <1>3, UrlsSize DEF RaceReturns, TypeOK, Counts, Goto, Show, GiveUp,
     RaceEnds, shown, race, Configuration
<1>4. ASSUME NEW r \in Refreshers, RaceTimesOut(r) PROVE Counts'
  BY <1>4, UrlsSize DEF RaceTimesOut, TypeOK, Counts, Goto, Show, GiveUp,
     RaceEnds, shown, race, Configuration
<1>5. ASSUME NEW r \in Refreshers, SaveToCache(r) PROVE Counts'
  BY <1>5, UrlsSize DEF SaveToCache, TypeOK, Counts, Goto, Show, GiveUp,
     shown, race, Configuration
<1>6. ASSUME NEW r \in Refreshers, ShowRemote(r) PROVE Counts'
  BY <1>6, UrlsSize DEF ShowRemote, TypeOK, Counts, Goto, Show, race,
     Configuration
<1>7. ASSUME NEW r \in Refreshers, NEW u \in Urls, Fail(r, u) PROVE Counts'
  BY <1>7, UrlsSize, AskedSize DEF Fail, TypeOK, Counts, Rest, shown,
     race, Configuration
<1>8. ASSUME NEW r \in Refreshers, NEW u \in Urls, NEW config \in Configs,
            Answer(r, u, config)
     PROVE  Counts'
  <2>1. inflight[r] \in SUBSET Urls /\ u \in inflight[r]
    BY <1>8 DEF Answer, TypeOK
  <2>2. /\ Cardinality(inflight[r]) \in Nat
        /\ Cardinality(inflight[r] \ {u}) = Cardinality(inflight[r]) - 1
    BY <2>1, AskedSize
  <2>3. inflight'[r] = inflight[r] \ {u} /\ pending'[r] = pending[r]
    BY <1>8 DEF Answer, TypeOK
  <2>4. Cardinality(inflight'[r]) <= pending'[r]
    BY <2>2, <2>3, UrlsSize DEF TypeOK, Counts
  <2>5. completer'[r] # {}
    BY <1>8 DEF Answer, TypeOK
  <2>6. \A s \in Refreshers \ {r} :
            inflight'[s] = inflight[s] /\ completer'[s] = completer[s]
    BY <1>8 DEF Answer, TypeOK
  <2> QED
    BY <1>8, <2>4, <2>5, <2>6 DEF Answer, Rest, Counts
<1>9. CASE UNCHANGED vars
  BY <1>9 DEF vars, TypeOK, Counts, shown, race, Configuration
<1> QED
  BY <1>1, <1>2, <1>3, <1>4, <1>5, <1>6, <1>7, <1>8, <1>9 DEF Next,
     Refresh

\* A refresh that begins beside another is noticed.
LEMMA AloneStep ==
    ASSUME TypeOK, Alone, [Next]_vars
    PROVE  Alone'
<1>1. ASSUME NEW r \in Refreshers, Begin(r) PROVE Alone'
  BY <1>1 DEF Begin, TypeOK, Alone, Goto, Show, shown, race
<1>2. ASSUME NEW r \in Refreshers, LoadFromCache(r) PROVE Alone'
  BY <1>2 DEF LoadFromCache, TypeOK, Alone, Goto, Show, StartRace, shown,
     race
<1>3. ASSUME NEW r \in Refreshers, RaceReturns(r) PROVE Alone'
  BY <1>3 DEF RaceReturns, TypeOK, Alone, Goto, Show, GiveUp, RaceEnds,
     shown, race
<1>4. ASSUME NEW r \in Refreshers, RaceTimesOut(r) PROVE Alone'
  BY <1>4 DEF RaceTimesOut, TypeOK, Alone, Goto, Show, GiveUp, RaceEnds,
     shown, race
<1>5. ASSUME NEW r \in Refreshers, SaveToCache(r) PROVE Alone'
  BY <1>5 DEF SaveToCache, TypeOK, Alone, Goto, Show, GiveUp, shown, race
<1>6. ASSUME NEW r \in Refreshers, ShowRemote(r) PROVE Alone'
  BY <1>6 DEF ShowRemote, TypeOK, Alone, Goto, Show, race
<1>7. ASSUME NEW r \in Refreshers, NEW u \in Urls, Fail(r, u) PROVE Alone'
  BY <1>7 DEF Fail, TypeOK, Alone, Rest, shown, race
<1>8. ASSUME NEW r \in Refreshers, NEW u \in Urls, NEW config \in Configs,
            Answer(r, u, config)
     PROVE  Alone'
  BY <1>8 DEF Answer, TypeOK, Alone, Rest, shown, race
<1>9. CASE UNCHANGED vars
  BY <1>9 DEF vars, TypeOK, Alone, shown, race
<1> QED
  BY <1>1, <1>2, <1>3, <1>4, <1>5, <1>6, <1>7, <1>8, <1>9 DEF Next,
     Refresh

\* Each step of a refresh leads from what is shown and cached before it to what
\* is shown and cached after.
LEMMA StagesStep ==
    ASSUME TypeOK, Alone, Stages, [Next]_vars
    PROVE  Stages'
<1>1. ASSUME NEW r \in Refreshers, Begin(r) PROVE Stages'
  BY <1>1, ConfigsAssumption DEF Begin, TypeOK, Alone, Stages, Goto, Show,
     shown, race, Stage, ReadyAsCached, Configuration
<1>2. ASSUME NEW r \in Refreshers, LoadFromCache(r) PROVE Stages'
  BY <1>2, ConfigsAssumption DEF LoadFromCache, TypeOK, Alone, Stages,
     Goto, Show, StartRace, shown, race, Stage, ReadyAsCached, Configuration
<1>3. ASSUME NEW r \in Refreshers, RaceReturns(r) PROVE Stages'
  BY <1>3, ConfigsAssumption DEF RaceReturns, TypeOK, Alone, Stages, Goto,
     Show, GiveUp, RaceEnds, shown, race, Stage, ReadyAsCached, Configuration
<1>4. ASSUME NEW r \in Refreshers, RaceTimesOut(r) PROVE Stages'
  BY <1>4, ConfigsAssumption DEF RaceTimesOut, TypeOK, Alone, Stages,
     Goto, Show, GiveUp, RaceEnds, shown, race, Stage, ReadyAsCached,
     Configuration
<1>5. ASSUME NEW r \in Refreshers, SaveToCache(r) PROVE Stages'
  BY <1>5, ConfigsAssumption DEF SaveToCache, TypeOK, Alone, Stages, Goto,
     Show, GiveUp, shown, race, Stage, ReadyAsCached, Configuration
<1>6. ASSUME NEW r \in Refreshers, ShowRemote(r) PROVE Stages'
  BY <1>6, ConfigsAssumption DEF ShowRemote, TypeOK, Alone, Stages, Goto,
     Show, race, Stage, ReadyAsCached, Configuration
<1>7. ASSUME NEW r \in Refreshers, NEW u \in Urls, Fail(r, u) PROVE Stages'
  BY <1>7, ConfigsAssumption DEF Fail, TypeOK, Alone, Stages, Rest, shown,
     race, Stage, ReadyAsCached, Configuration
<1>8. ASSUME NEW r \in Refreshers, NEW u \in Urls, NEW config \in Configs,
            Answer(r, u, config)
     PROVE  Stages'
  BY <1>8, ConfigsAssumption DEF Answer, TypeOK, Alone, Stages, Rest,
     shown, race, Stage, ReadyAsCached, Configuration
<1>9. CASE UNCHANGED vars
  BY <1>9 DEF vars, TypeOK, Alone, Stages, shown, race, Stage,
     ReadyAsCached, Configuration
<1> QED
  BY <1>1, <1>2, <1>3, <1>4, <1>5, <1>6, <1>7, <1>8, <1>9 DEF Next,
     Refresh

\* A refresh ends with what it shows cached, or with nothing.
LEMMA ShownStep ==
    ASSUME TypeOK, Alone, Stages, ShownIsCached, [Next]_vars
    PROVE  ShownIsCached'
<1>1. ASSUME NEW r \in Refreshers, Begin(r) PROVE ShownIsCached'
  BY <1>1, ConfigsAssumption DEF Begin, TypeOK, Alone, Stages,
     ShownIsCached, Goto, Show, shown, race, Stage, ReadyAsCached,
     Configuration
<1>2. ASSUME NEW r \in Refreshers, LoadFromCache(r) PROVE ShownIsCached'
  BY <1>2, ConfigsAssumption DEF LoadFromCache, TypeOK, Alone, Stages,
     ShownIsCached, Goto, Show, StartRace, shown, race, Stage, ReadyAsCached,
     Configuration
<1>3. ASSUME NEW r \in Refreshers, RaceReturns(r) PROVE ShownIsCached'
  BY <1>3, ConfigsAssumption DEF RaceReturns, TypeOK, Alone, Stages,
     ShownIsCached, Goto, Show, GiveUp, RaceEnds, shown, race, Stage,
     ReadyAsCached, Configuration
<1>4. ASSUME NEW r \in Refreshers, RaceTimesOut(r) PROVE ShownIsCached'
  BY <1>4, ConfigsAssumption DEF RaceTimesOut, TypeOK, Alone, Stages,
     ShownIsCached, Goto, Show, GiveUp, RaceEnds, shown, race, Stage,
     ReadyAsCached, Configuration
<1>5. ASSUME NEW r \in Refreshers, SaveToCache(r) PROVE ShownIsCached'
  BY <1>5, ConfigsAssumption DEF SaveToCache, TypeOK, Alone, Stages,
     ShownIsCached, Goto, Show, GiveUp, shown, race, Stage, ReadyAsCached,
     Configuration
<1>6. ASSUME NEW r \in Refreshers, ShowRemote(r) PROVE ShownIsCached'
  BY <1>6, ConfigsAssumption DEF ShowRemote, TypeOK, Alone, Stages,
     ShownIsCached, Goto, Show, race, Stage, ReadyAsCached, Configuration
<1>7. ASSUME NEW r \in Refreshers, NEW u \in Urls, Fail(r, u) PROVE ShownIsCached'
  BY <1>7, ConfigsAssumption DEF Fail, TypeOK, Alone, Stages,
     ShownIsCached, Rest, shown, race, Stage, ReadyAsCached, Configuration
<1>8. ASSUME NEW r \in Refreshers, NEW u \in Urls, NEW config \in Configs,
            Answer(r, u, config)
     PROVE  ShownIsCached'
  BY <1>8, ConfigsAssumption DEF Answer, TypeOK, Alone, Stages,
     ShownIsCached, Rest, shown, race, Stage, ReadyAsCached, Configuration
<1>9. CASE UNCHANGED vars
  BY <1>9 DEF vars, TypeOK, Alone, Stages, ShownIsCached, shown, race,
     Stage, ReadyAsCached, Configuration
<1> QED
  BY <1>1, <1>2, <1>3, <1>4, <1>5, <1>6, <1>7, <1>8, <1>9 DEF Next,
     Refresh

-----------------------------------------------------------------------------
LEMMA InitIInv == Init => IInv
<1> SUFFICES ASSUME Init PROVE IInv
  OBVIOUS
<1>1. TypeOK
  <2>1. pending \in [Refreshers -> 0 .. Cardinality(Urls)]
    BY UrlsSize DEF Init
  <2>2. inflight \in [Refreshers -> SUBSET Urls]
    BY DEF Init
  <2>3. completer \in [Refreshers -> SUBSET Configuration]
    BY DEF Init, Configuration
  <2> QED
    BY <2>1, <2>2, <2>3 DEF Init, TypeOK, Configuration
<1>2. Counts
  BY FS_EmptySet DEF Init, Counts
<1>3. Alone /\ Stages /\ ShownIsCached
  BY DEF Init, Alone, Stages, ShownIsCached
<1> QED
  BY <1>1, <1>2, <1>3 DEF IInv

LEMMA StepIInv == IInv /\ [Next]_vars => IInv'
<1> SUFFICES ASSUME IInv, [Next]_vars PROVE IInv'
  OBVIOUS
<1> QED
  BY TypeStep, CountsStep, AloneStep, StagesStep, ShownStep DEF IInv

\* The invariant the others follow from.
THEOREM Inductive == Spec => []IInv
BY InitIInv, StepIInv, PTL DEF Spec

\* The race never counts below zero, and what is cached or shown is a
\* configuration or none.
THEOREM TypeCorrect == Spec => []TypeOK
<1>1. IInv => TypeOK
  BY DEF IInv
<1> QED
  BY Inductive, <1>1, PTL

\* Refreshes that never overlapped leave on show what the next start will find in
\* the cache, or nothing.
THEOREM ShownCached == Spec => []ShownIsCached
<1>1. IInv => ShownIsCached
  BY DEF IInv
<1> QED
  BY Inductive, <1>1, PTL

-----------------------------------------------------------------------------
(* The race implements FirstAnswer.                                        *)

LEMMA InitPromise == Init => Promise!Init
BY DEF Init, Promise!Init

\* Begin, the cache and what follows the race do not concern the promise; a
\* race that begins asks anew, its timer is TimeUp, and its counter reaches zero
\* with the last URL.
LEMMA StepPromise ==
    ASSUME TypeOK, Counts, [Next]_vars
    PROVE  [Promise!Next]_(Promise!vars)
<1>1. ASSUME NEW r \in Refreshers, LoadFromCache(r) PROVE Promise!Next
  <2>1. completer[r] # {}
    BY <1>1 DEF LoadFromCache, Counts
  <2>2. Promise!Ask(r)
    BY <1>1, <2>1 DEF LoadFromCache, StartRace, Promise!Ask
  <2> QED
    BY <2>2 DEF Promise!Next
<1>2. ASSUME NEW r \in Refreshers, RaceTimesOut(r) PROVE Promise!Next
  <2>1. Promise!TimeUp(r)
    BY <1>2 DEF RaceTimesOut, RaceEnds, Promise!TimeUp
  <2> QED
    BY <2>1 DEF Promise!Next
<1>3. ASSUME NEW r \in Refreshers, NEW u \in Urls, NEW config \in Configs,
             Answer(r, u, config)
      PROVE  Promise!Next
  <2>1. Promise!Good(r, u, config)
    BY <1>3 DEF Answer, Promise!Good
  <2> QED
    BY <2>1 DEF Promise!Next
<1>4. ASSUME NEW r \in Refreshers, NEW u \in Urls, Fail(r, u) PROVE Promise!Next
  <2>1. inflight[r] \in SUBSET Urls /\ u \in inflight[r]
    BY <1>4 DEF Fail, TypeOK
  <2>2. completer[r] = {} => (pending'[r] = 0 <=> inflight[r] = {u})
    <3> SUFFICES ASSUME completer[r] = {} PROVE pending'[r] = 0 <=> inflight[r] = {u}
      OBVIOUS
    <3>1. pending[r] = Cardinality(inflight[r]) /\ pending'[r] = pending[r] - 1
      BY <1>4 DEF Fail, Counts, TypeOK
    <3>2. Cardinality(inflight[r]) \in Nat
      BY <2>1, AskedSize
    <3> QED
      BY <2>1, <3>1, <3>2, LastAsked
  <2>3. completer' = [completer EXCEPT ![r] =
                          IF @ = {} /\ inflight[r] = {u} THEN {None} ELSE @]
    BY <1>4, <2>2 DEF Fail, TypeOK
  <2>4. Promise!Bad(r, u)
    BY <1>4, <2>3 DEF Fail, Promise!Bad
  <2> QED
    BY <2>4 DEF Promise!Next
<1>5. ASSUME NEW r \in Refreshers,
             Begin(r) \/ RaceReturns(r) \/ SaveToCache(r) \/ ShowRemote(r)
      PROVE  UNCHANGED Promise!vars
  BY <1>5 DEF Begin, RaceReturns, RaceEnds, SaveToCache, ShowRemote, race, Promise!vars
<1>6. CASE UNCHANGED vars
  BY <1>6 DEF vars, race, Promise!vars
<1> QED
  BY <1>1, <1>2, <1>3, <1>4, <1>5, <1>6 DEF Next, Refresh

\* The counting race gives the first valid answer, and none only when every URL
\* failed or the time is up.
THEOREM RaceRefines == Spec => RaceKeepsPromise
<1>1. IInv /\ [Next]_vars => [Promise!Next]_(Promise!vars)
  BY StepPromise DEF IInv
<1> QED
  BY InitPromise, Inductive, <1>1, PTL DEF Spec, RaceKeepsPromise, Promise!Spec
=============================================================================
