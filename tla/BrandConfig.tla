---------------------------- MODULE BrandConfig ----------------------------
(***************************************************************************)
(* The brand configuration: providers/brand_config.dart refreshes it from  *)
(* the cache and then from the remote URLs, which                          *)
(* common/brand_config_service.dart asks all at once, keeping the first    *)
(* valid answer.                                                           *)
(*                                                                         *)
(* A configuration without a valid airport URL, one that cannot be read or *)
(* decrypted and an error are the same here: no configuration.  A step is  *)
(* what runs between two awaits.                                           *)
(***************************************************************************)
EXTENDS Naturals, FiniteSets

CONSTANTS
    Refreshers,  \* the calls of refresh that can overlap
    Urls,        \* BrandConfig.configUrls
    Configs,     \* valid configurations
    None         \* no configuration

ASSUME UrlsAssumption == IsFiniteSet(Urls) /\ Urls # {}
ASSUME ConfigsAssumption == None \notin Configs

VARIABLES
    status,      \* BrandConfigState.status
    data,        \* BrandConfigState.data
    cache,       \* the cached configuration
    pc,          \* where each refresh is
    cached,      \* what it found in the cache
    remote,      \* what the race gave it
    inflight,    \* the URLs its race waits for
    pending,     \* the race's counter
    completer,   \* {} until the race's completer is completed
    history      \* were there refreshes, and did two overlap

shown   == <<status, data>>
race    == <<inflight, pending, completer>>
vars == <<shown, cache, pc, cached, remote, race, history>>

Configuration == Configs \cup {None}

TypeOK ==
    /\ status \in {"loading", "ready", "invalid"}
    /\ data \in Configuration
    /\ cache \in Configuration
    /\ pc \in [Refreshers -> {"idle", "cache", "race", "save", "show"}]
    /\ cached \in [Refreshers -> Configuration]
    /\ remote \in [Refreshers -> Configuration]
    /\ inflight \in [Refreshers -> SUBSET Urls]
    /\ pending \in [Refreshers -> 0 .. Cardinality(Urls)]
    /\ completer \in [Refreshers -> SUBSET Configuration]
    /\ history \in {"none", "serial", "overlapped"}

Init ==
    /\ status = "loading" /\ data = None
    /\ cache \in Configuration
    /\ pc = [r \in Refreshers |-> "idle"]
    /\ cached = [r \in Refreshers |-> None]
    /\ remote = [r \in Refreshers |-> None]
    /\ inflight = [r \in Refreshers |-> {}]
    /\ pending = [r \in Refreshers |-> 0]
    /\ completer = [r \in Refreshers |-> {None}]
    /\ history = "none"

Goto(r, point) == pc' = [pc EXCEPT ![r] = point]

Show(newStatus, newData) == status' = newStatus /\ data' = newData

-----------------------------------------------------------------------------
(* The race, _fetchRemoteRace.                                             *)

StartRace(r) ==
    /\ inflight' = [inflight EXCEPT ![r] = Urls]
    /\ pending' = [pending EXCEPT ![r] = Cardinality(Urls)]
    /\ completer' = [completer EXCEPT ![r] = {}]

Rest == UNCHANGED <<shown, cache, pc, cached, remote, history>>

\* then: the first valid answer completes.
Answer(r, u, config) ==
    /\ u \in inflight[r]
    /\ inflight' = [inflight EXCEPT ![r] = @ \ {u}]
    /\ completer' = [completer EXCEPT ![r] = IF @ = {} THEN {config} ELSE @]
    /\ UNCHANGED pending
    /\ Rest

\* Variant: one failure too few.
FailEarly(r, u) ==
    /\ u \in inflight[r]
    /\ inflight' = [inflight EXCEPT ![r] = @ \ {u}]
    /\ pending' = [pending EXCEPT ![r] = @ - 1]
    /\ completer' = [completer EXCEPT ![r] =
                         IF @ = {} /\ pending'[r] <= 1 THEN {None} ELSE @]
    /\ Rest

\* onRequestFinished: an error, or no valid configuration; the last failure
\* completes with null.  A request is given up after _requestTimeout.
Fail(r, u) ==
    /\ u \in inflight[r]
    /\ inflight' = [inflight EXCEPT ![r] = @ \ {u}]
    /\ pending' = [pending EXCEPT ![r] = @ - 1]
    /\ completer' = [completer EXCEPT ![r] =
                         IF @ = {} /\ pending'[r] = 0 THEN {None} ELSE @]
    /\ Rest

-----------------------------------------------------------------------------
(* refresh.                                                                *)

Begin(r) ==
    /\ pc[r] = "idle"
    /\ Goto(r, "cache")
    /\ \/ Show("loading", data)
       \/ status = "ready" /\ UNCHANGED shown
    /\ history' = IF \E s \in Refreshers : pc[s] # "idle" THEN "overlapped"
                  ELSE IF history = "none" THEN "serial" ELSE history
    /\ UNCHANGED <<cache, cached, remote, race>>

\* loadFromCache, whose errors are no configuration; the race starts at once.
LoadFromCache(r) ==
    /\ pc[r] = "cache"
    /\ \E found \in {cache, None} :
           /\ cached' = [cached EXCEPT ![r] = found]
           /\ IF found = None THEN UNCHANGED shown ELSE Show("ready", found)
    /\ StartRace(r)
    /\ Goto(r, "race")
    /\ UNCHANGED <<cache, remote, history>>

\* Without a remote configuration the cached one stays.
GiveUp(r) ==
    /\ Goto(r, "idle")
    /\ IF cached[r] = None THEN Show("invalid", None) ELSE UNCHANGED shown

RaceEnds(r, config) ==
    /\ remote' = [remote EXCEPT ![r] = config]
    /\ IF config = None THEN GiveUp(r) ELSE Goto(r, "save") /\ UNCHANGED shown
    /\ UNCHANGED <<cache, cached, inflight, pending, history>>

\* await completer.future
RaceReturns(r) ==
    /\ pc[r] = "race"
    /\ \E config \in completer[r] : RaceEnds(r, config)
    /\ UNCHANGED completer

\* Variant: the timeout is only noticed at an answer.
RaceTimesOutLate(r) ==
    /\ pc[r] = "race" /\ completer[r] = {} /\ inflight[r] # Urls
    /\ RaceEnds(r, None)
    /\ completer' = [completer EXCEPT ![r] = {None}]

\* onTimeout, after _raceTimeout: what completes later is not waited for.
RaceTimesOut(r) ==
    /\ pc[r] = "race" /\ completer[r] = {}
    /\ RaceEnds(r, None)
    /\ completer' = [completer EXCEPT ![r] = {None}]

\* Variant: shown and not saved.
SaveToCacheNever(r) ==
    /\ pc[r] = "save"
    /\ Goto(r, "show")
    /\ UNCHANGED <<shown, cache, cached, remote, race, history>>

\* saveToCache writes, or throws into the catch of refresh.
SaveToCache(r) ==
    /\ pc[r] = "save"
    /\ \/ cache' = remote[r] /\ Goto(r, "show") /\ UNCHANGED shown
       \/ GiveUp(r) /\ UNCHANGED cache
    /\ UNCHANGED <<cached, remote, race, history>>

ShowRemote(r) ==
    /\ pc[r] = "show"
    /\ Show("ready", remote[r])
    /\ Goto(r, "idle")
    /\ UNCHANGED <<cache, cached, remote, race, history>>

Refresh(r) ==
    \/ LoadFromCache(r) \/ RaceReturns(r) \/ RaceTimesOut(r)
    \/ SaveToCache(r) \/ ShowRemote(r)

Next ==
    \E r \in Refreshers :
        \/ Begin(r) \/ Refresh(r)
        \/ \E u \in Urls : Fail(r, u) \/ \E config \in Configs : Answer(r, u, config)

Spec == Init /\ [][Next]_vars

\* Every await of a refresh ends: the race has a timer, the preferences answer.
FairSpec == Spec /\ \A r \in Refreshers : WF_vars(Refresh(r))

-----------------------------------------------------------------------------
\* The counting race gives the first valid answer, and null only when every URL
\* failed or the time is up (_fetchRemoteRace).
Promise == INSTANCE FirstAnswer WITH
    Askers <- Refreshers, Sources <- Urls, Answers <- Configs, Nothing <- None,
    waitingFor <- inflight, outcome <- completer

RaceKeepsPromise == Promise!Spec

\* When no refresh is under way and none overlapped another, what is shown is
\* what the next start will find in the cache, or nothing is, because neither
\* the URLs nor the cache gave a configuration; and nothing is left loading
\* (refresh).
ShownIsCached ==
    (\A r \in Refreshers : pc[r] = "idle") /\ history = "serial" =>
        \/ status = "ready" /\ data = cache /\ cache # None
        \/ status = "invalid" /\ data = None

\* Every refresh ends, whatever the URLs do: a start waits for it.
RefreshEnds == \A r \in Refreshers : (pc[r] # "idle") ~> (pc[r] = "idle")
=============================================================================
