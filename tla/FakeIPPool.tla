----------------------------- MODULE FakeIPPool -----------------------------
(***************************************************************************)
(* The fake-ip pools of the core, component/fakeip, with the persistent    *)
(* store, component/profile/cachefile/fakeip.go.                           *)
(*                                                                         *)
(* A pool gives each host an address of its range, in turn, and remembers  *)
(* both directions in the store.  Every configuration makes a new pool     *)
(* while the old one still serves (config.go, executor.go updateDNS): the  *)
(* pools have a mutex each and share one store.  Each operation of the     *)
(* store is one transaction; the process can die between two of them, and  *)
(* FlushFakeIP and StoreState do not take the mutex.                       *)
(***************************************************************************)
EXTENDS Integers

CONSTANTS
    Pools,        \* the pools that can be referenced at once
    Hosts,
    Nets,         \* the ranges a configuration can name, disjoint
    First, Last,  \* first and last address of a range, as numbers
    None          \* no host, no address

Offsets == First - 1 .. Last - 1
Addresses == Nets \X Offsets

ASSUME RangeAssumption == First \in Int /\ Last \in Int /\ First < Last
ASSUME NoneAssumption == None \notin Hosts \cup Addresses

VARIABLES
    role,         \* what each pool is used for
    net,          \* ipnet
    offset,       \* offset, the last address given
    cycle,        \* cycle: the range was used up
    step,         \* where the lookup that holds the mutex is
    host,         \* what it looks up
    flushing,     \* FlushFakeIP has emptied the store
    storing,      \* StoreState has written the offset
    hostOf,       \* the store: the host of an address
    ipOf,         \* the store: the address of a host
    offsetKey,    \* the store: offsetKey
    cycleKey,     \* the store: cycleKey is there
    saved,        \* history: StoreState ran and no address was given since
    exact,        \* history: a pool knows which addresses were given
    torn          \* history: two writers of the store met

poolVars  == <<role, net, offset, cycle>>
storeVars == <<hostOf, ipOf, offsetKey, cycleKey>>
history   == <<saved, exact, torn>>
vars == <<poolVars, step, host, flushing, storing, storeVars, history>>

TypeOK ==
    /\ role \in [Pools -> {"none", "next", "serving", "old"}]
    /\ net \in [Pools -> Nets \cup {None}]
    /\ offset \in [Pools -> Offsets]
    /\ cycle \in [Pools -> BOOLEAN]
    /\ step \in [Pools -> {"idle", "get", "del", "putIP", "putHost"}]
    /\ host \in [Pools -> Hosts \cup {None}]
    /\ flushing \in [Pools -> BOOLEAN]
    /\ storing \in [Pools -> BOOLEAN]
    /\ hostOf \in [Addresses -> Hosts \cup {None}]
    /\ ipOf \in [Hosts -> Addresses \cup {None}]
    /\ offsetKey \in Addresses \cup {None}
    /\ cycleKey \in BOOLEAN
    /\ saved \in BOOLEAN
    /\ exact \in [Pools -> BOOLEAN]
    /\ torn \in BOOLEAN

NoHosts == [a \in Addresses |-> None]
NoAddresses == [h \in Hosts |-> None]

Init ==
    /\ role = [p \in Pools |-> "none"]
    /\ net = [p \in Pools |-> None]
    /\ offset = [p \in Pools |-> First - 1]
    /\ cycle = [p \in Pools |-> FALSE]
    /\ step = [p \in Pools |-> "idle"]
    /\ host = [p \in Pools |-> None]
    /\ flushing = [p \in Pools |-> FALSE]
    /\ storing = [p \in Pools |-> FALSE]
    /\ hostOf = NoHosts /\ ipOf = NoAddresses
    /\ offsetKey = None /\ cycleKey = FALSE
    /\ saved = FALSE
    /\ exact = [p \in Pools |-> FALSE]
    /\ torn = FALSE

\* The address at p.offset.
At(p) == <<net[p], offset[p]>>

LookingUp == {p \in Pools : step[p] # "idle"}

-----------------------------------------------------------------------------
(* Lookup.                                                                 *)

Goto(p, point) == step' = [step EXCEPT ![p] = point]

\* What p gives, the other pools and the stored state do not know of.
Given(p) ==
    /\ saved' = FALSE
    /\ exact' = [q \in Pools |-> exact[q] /\ q = p]

\* A host without an address; one that has an address changes nothing.
Lookup(p, h) ==
    /\ role[p] \in {"serving", "old"}
    /\ step[p] = "idle"
    /\ ipOf[h] = None
    /\ Goto(p, "get")
    /\ host' = [host EXCEPT ![p] = h]
    /\ torn' = (torn \/ LookingUp # {} \/ \E q \in Pools : flushing[q])
    /\ UNCHANGED <<poolVars, flushing, storing, storeVars, saved, exact>>

\* Variant: the range starts again one address late.
AdvanceFar(p) ==
    /\ step[p] = "get"
    /\ IF offset[p] + 1 <= Last
       THEN offset' = [offset EXCEPT ![p] = @ + 1] /\ UNCHANGED cycle
       ELSE offset' = [offset EXCEPT ![p] = First] /\ cycle' = [cycle EXCEPT ![p] = TRUE]
    /\ Goto(p, "del")
    /\ Given(p)
    /\ UNCHANGED <<role, net, host, flushing, storing, storeVars, torn>>

\* get: the next address, from the first again at the end of the range.
Advance(p) ==
    /\ step[p] = "get"
    /\ IF offset[p] + 1 < Last
       THEN offset' = [offset EXCEPT ![p] = @ + 1] /\ UNCHANGED cycle
       ELSE offset' = [offset EXCEPT ![p] = First] /\ cycle' = [cycle EXCEPT ![p] = TRUE]
    /\ Goto(p, "del")
    /\ Given(p)
    /\ UNCHANGED <<role, net, host, flushing, storing, storeVars, torn>>

\* Variant: an address is taken as it is.
DelByIPNever(p) ==
    /\ step[p] = "del"
    /\ Goto(p, "putIP")
    /\ UNCHANGED <<poolVars, host, flushing, storing, storeVars, history>>

\* DelByIP, of an address that may have been given before: both directions.
DelByIP(p) ==
    /\ step[p] = "del"
    /\ Goto(p, "putIP")
    /\ hostOf' = [hostOf EXCEPT ![At(p)] = None]
    /\ ipOf' = [h \in Hosts |-> IF hostOf[At(p)] = h THEN None ELSE ipOf[h]]
    /\ UNCHANGED <<poolVars, host, flushing, storing, offsetKey, cycleKey, history>>

PutByIP(p) ==
    /\ step[p] = "putIP"
    /\ hostOf' = [hostOf EXCEPT ![At(p)] = host[p]]
    /\ Goto(p, "putHost")
    /\ Given(p)
    /\ UNCHANGED <<poolVars, host, flushing, storing, ipOf, offsetKey, cycleKey, torn>>

\* get has read p.offset again for its result.
PutByHost(p) ==
    /\ step[p] = "putHost"
    /\ ipOf' = [ipOf EXCEPT ![host[p]] = At(p)]
    /\ Goto(p, "idle")
    /\ host' = [host EXCEPT ![p] = None]
    /\ UNCHANGED <<poolVars, flushing, storing, hostOf, offsetKey, cycleKey, history>>

-----------------------------------------------------------------------------
(* FlushFakeIP and StoreState, without the mutex.                          *)

EmptyStore ==
    /\ hostOf' = NoHosts /\ ipOf' = NoAddresses
    /\ offsetKey' = None /\ cycleKey' = FALSE
    /\ saved' = FALSE
    /\ torn' = (LookingUp # {})

FlushStore(p) ==
    /\ role[p] = "serving" /\ ~flushing[p]
    /\ EmptyStore
    /\ flushing' = [flushing EXCEPT ![p] = TRUE]
    /\ UNCHANGED <<poolVars, step, host, storing, exact>>

\* Nothing was given since the store was emptied, or the two met.
FlushOffset(p) ==
    /\ flushing[p]
    /\ offset' = [offset EXCEPT ![p] = First - 1]
    /\ cycle' = [cycle EXCEPT ![p] = FALSE]
    /\ flushing' = [flushing EXCEPT ![p] = FALSE]
    /\ exact' = [exact EXCEPT ![p] = hostOf = NoHosts]
    /\ saved' = FALSE
    /\ UNCHANGED <<role, net, step, host, storing, storeVars, torn>>

StoreOffset(p) ==
    /\ role[p] = "serving" /\ ~storing[p]
    /\ offsetKey' = At(p)
    /\ storing' = [storing EXCEPT ![p] = TRUE]
    /\ saved' = FALSE
    /\ UNCHANGED <<poolVars, step, host, flushing, hostOf, ipOf, cycleKey, exact, torn>>

\* Variant: StoreState stores no cycle and counts as done.
StoreCycleNever(p) ==
    /\ storing[p]
    /\ storing' = [storing EXCEPT ![p] = FALSE]
    /\ saved' = (offsetKey = At(p) /\ exact[p] /\ ~flushing[p])
    /\ UNCHANGED <<poolVars, step, host, flushing, storeVars, exact, torn>>

StoreCycle(p) ==
    /\ storing[p]
    /\ cycleKey' = (cycleKey \/ cycle[p])
    /\ storing' = [storing EXCEPT ![p] = FALSE]
    /\ saved' = (offsetKey = At(p) /\ exact[p] /\ ~flushing[p])
    /\ UNCHANGED <<poolVars, step, host, flushing, hostOf, ipOf, offsetKey, exact, torn>>

-----------------------------------------------------------------------------
(* New, with restoreState; a configuration; the death of the process.      *)

\* The store belongs to another range, or to a process that stored no state.
MustFlush(n) ==
    \/ offsetKey # None /\ offsetKey[1] # n
    \/ offsetKey = None /\ hostOf[<<n, First>>] # None

\* Variant: restoreState does not look at the range.
NewAnyRange(p, n) ==
    /\ role[p] = "none" /\ \A q \in Pools : role[q] # "next"
    /\ role' = [role EXCEPT ![p] = "next"]
    /\ net' = [net EXCEPT ![p] = n]
    /\ offset' = [offset EXCEPT ![p] = IF offsetKey # None THEN offsetKey[2] ELSE First - 1]
    /\ cycle' = [cycle EXCEPT ![p] = cycleKey]
    /\ exact' = [exact EXCEPT ![p] = saved \/ hostOf = NoHosts]
    /\ UNCHANGED <<step, host, flushing, storing, storeVars, saved, torn>>

New(p, n) ==
    /\ role[p] = "none" /\ \A q \in Pools : role[q] # "next"
    /\ role' = [role EXCEPT ![p] = "next"]
    /\ net' = [net EXCEPT ![p] = n]
    /\ IF MustFlush(n)
       THEN /\ EmptyStore
            /\ offset' = [offset EXCEPT ![p] = First - 1]
            /\ cycle' = [cycle EXCEPT ![p] = FALSE]
            /\ exact' = [exact EXCEPT ![p] = TRUE]
       ELSE /\ UNCHANGED <<storeVars, saved, torn>>
            /\ offset' = [offset EXCEPT ![p] =
                              IF offsetKey # None THEN offsetKey[2] ELSE First - 1]
            /\ cycle' = [cycle EXCEPT ![p] = cycleKey]
            /\ exact' = [exact EXCEPT ![p] = saved \/ hostOf = NoHosts]
    /\ UNCHANGED <<step, host, flushing, storing>>

\* updateDNS puts the new pool in the old one's place.
Swap(p) ==
    /\ role[p] = "next"
    /\ role' = [q \in Pools |-> IF q = p THEN "serving"
                                ELSE IF role[q] = "serving" THEN "old" ELSE role[q]]
    /\ UNCHANGED <<net, offset, cycle, step, host, flushing, storing, storeVars, history>>

\* The last query lets go of an old pool; the rest of a configuration was bad.
Drop(p) ==
    /\ role[p] \in {"old", "next"}
    /\ step[p] = "idle" /\ ~flushing[p] /\ ~storing[p]
    /\ role' = [role EXCEPT ![p] = "none"]
    /\ net' = [net EXCEPT ![p] = None]
    /\ offset' = [offset EXCEPT ![p] = First - 1]
    /\ cycle' = [cycle EXCEPT ![p] = FALSE]
    /\ exact' = [exact EXCEPT ![p] = FALSE]
    /\ UNCHANGED <<step, host, flushing, storing, storeVars, saved, torn>>

Die ==
    /\ \E p \in Pools : role[p] # "none"
    /\ role' = [p \in Pools |-> "none"]
    /\ net' = [p \in Pools |-> None]
    /\ offset' = [p \in Pools |-> First - 1]
    /\ cycle' = [p \in Pools |-> FALSE]
    /\ step' = [p \in Pools |-> "idle"]
    /\ host' = [p \in Pools |-> None]
    /\ flushing' = [p \in Pools |-> FALSE]
    /\ storing' = [p \in Pools |-> FALSE]
    /\ exact' = [p \in Pools |-> FALSE]
    /\ UNCHANGED <<storeVars, saved, torn>>

-----------------------------------------------------------------------------
Next ==
    \/ \E p \in Pools :
           \/ \E h \in Hosts : Lookup(p, h)
           \/ Advance(p) \/ DelByIP(p) \/ PutByIP(p) \/ PutByHost(p)
           \/ FlushStore(p) \/ FlushOffset(p) \/ StoreOffset(p) \/ StoreCycle(p)
           \/ \E n \in Nets : New(p, n)
           \/ Swap(p) \/ Drop(p)
    \/ Die

Spec == Init /\ [][Next]_vars

-----------------------------------------------------------------------------
\* A host's address leads back to the host, so that no two hosts share one, in
\* the middle of every lookup and after a death at any point; as long as no
\* flush and no other pool's lookup came into a lookup (the order of get's
\* transactions).
AddressLeadsBack ==
    ~torn => \A h \in Hosts : ipOf[h] # None => hostOf[ipOf[h]] = h

\* Before the range is used up no host loses its address to another: what was
\* given lies at or below the offset, through restarts and configurations, if
\* the pool was made from a stored state or an empty store and none met it.
NoEarlyReuse ==
    \A p \in Pools :
        exact[p] /\ ~torn /\ ~cycle[p] /\ ~flushing[p] =>
            \A a \in Addresses : hostOf[a] # None => a[2] <= offset[p]

\* Under the same conditions no host keeps an address of another range: the
\* core would not recognise it (restoreState).
InRange ==
    \A p \in Pools :
        exact[p] /\ ~torn =>
            \A a \in Addresses : hostOf[a] # None => a[1] = net[p]
=============================================================================
