------------------------------- MODULE Dialer -------------------------------
(***************************************************************************)
(* The core's dialer, component/dialer/dialer.go: one DialContext over the *)
(* addresses of a host.                                                    *)
(*                                                                         *)
(* The addresses of a family are tried one after the other or all at once, *)
(* in goroutines that hand their result over an unbuffered channel; the    *)
(* two families race in goroutines of their own, with a head start for the *)
(* preferred one.  Who returns first closes `returned`, and a goroutine    *)
(* that finds nobody to take its connection closes it.                     *)
(***************************************************************************)
EXTENDS Naturals

CONSTANTS
    IPs,       \* what the host resolved to
    IPv4,      \* the IPv4 addresses of these, the others are IPv6
    None,      \* no result yet
    Failed     \* an error instead of a connection

ASSUME IPsAssumption == IPs # {} /\ IPv4 \subseteq IPs
ASSUME ResultsAssumption == None \notin IPs /\ Failed \notin IPs /\ None # Failed

Groups == {"all", "v4", "v6"}

Members == [g \in Groups |-> CASE g = "all" -> IPs
                               [] g = "v4" -> IPv4
                               [] g = "v6" -> IPs \ IPv4]

VARIABLES
    concurrent,  \* tcpConcurrent
    dual,        \* dualStackDialContext races the families
    prefer,      \* opt.prefer; 0 for none
    conn,        \* the connection of each address
    racer,       \* the goroutine, or the turn, of each address
    group,       \* the racer of each family; "all" when there is none
    result,      \* what it has got
    fallback,    \* the fallback of dualStackDialContext
    outcome      \* what DialContext returned

mode == <<concurrent, dual, prefer>>
vars == <<mode, conn, racer, group, result, fallback, outcome>>

TypeOK ==
    /\ concurrent \in BOOLEAN /\ dual \in BOOLEAN /\ prefer \in {0, 4, 6}
    /\ conn \in [IPs -> {"none", "open", "failed", "closed"}]
    /\ racer \in [IPs -> {"off", "dialing", "offering", "over"}]
    /\ group \in [Groups -> {"off", "dialing", "offering", "over"}]
    /\ result \in [Groups -> IPs \cup {None, Failed}]
    /\ fallback \in IPs \cup {None}
    /\ outcome \in IPs \cup {None, Failed}

\* The network and SetTcpConcurrent choose; concurrently the families race only
\* when one of them is preferred.
Init ==
    /\ concurrent \in BOOLEAN /\ dual \in BOOLEAN /\ prefer \in {0, 4, 6}
    /\ dual /\ concurrent => prefer # 0
    /\ conn = [ip \in IPs |-> "none"]
    /\ racer = [ip \in IPs |-> IF concurrent THEN "dialing" ELSE "off"]
    /\ group = [g \in Groups |->
                   IF Members[g] # {} /\ dual = (g # "all") THEN "dialing" ELSE "off"]
    /\ result = [g \in Groups |-> None]
    /\ fallback = None
    /\ outcome = None

-----------------------------------------------------------------------------
(* serialDialContext and parallelDialContext.                              *)

\* The dial of a group returns: to the racer of its family, or to the caller.
GroupReturns(g, res) ==
    /\ result' = [result EXCEPT ![g] = res]
    /\ group' = [group EXCEPT ![g] = IF dual THEN "offering" ELSE "over"]
    /\ outcome' = IF dual THEN outcome ELSE res

\* Its loop over the addresses has seen the result of ip.
Seen(g, ip) ==
    IF conn'[ip] = "open" THEN GroupReturns(g, ip)
    ELSE IF \A other \in Members[g] \ {ip} : racer[other] = "over"
         THEN GroupReturns(g, Failed)
         ELSE UNCHANGED <<result, group, outcome>>

DialEnds(ip) == \E end \in {"open", "failed"} : conn' = [conn EXCEPT ![ip] = end]

DialSerial(g, ip) ==
    /\ ~concurrent
    /\ group[g] = "dialing"
    /\ ip \in Members[g] /\ racer[ip] = "off"
    /\ DialEnds(ip)
    /\ racer' = [racer EXCEPT ![ip] = "over"]
    /\ Seen(g, ip)
    /\ UNCHANGED <<mode, fallback>>

DialParallel(ip) ==
    /\ racer[ip] = "dialing"
    /\ DialEnds(ip)
    /\ racer' = [racer EXCEPT ![ip] = "offering"]
    /\ UNCHANGED <<mode, group, result, fallback, outcome>>

\* results <- result, and the loop that receives it.
TakeResult(g, ip) ==
    /\ group[g] = "dialing"
    /\ ip \in Members[g] /\ racer[ip] = "offering"
    /\ racer' = [racer EXCEPT ![ip] = "over"]
    /\ UNCHANGED conn
    /\ Seen(g, ip)
    /\ UNCHANGED <<mode, fallback>>

\* Variant: no `returned` to select on.
DiscardResultNever(g, ip) == FALSE

\* <-returned: whoever is late closes its connection.
DiscardResult(g, ip) ==
    /\ group[g] \in {"offering", "over"}
    /\ ip \in Members[g] /\ racer[ip] = "offering"
    /\ racer' = [racer EXCEPT ![ip] = "over"]
    /\ conn' = [conn EXCEPT ![ip] = IF @ = "open" THEN "closed" ELSE @]
    /\ UNCHANGED <<mode, group, result, fallback, outcome>>

-----------------------------------------------------------------------------
(* dualStackDialContext.                                                   *)

Primary(g) == prefer = 0 \/ g = (IF prefer = 4 THEN "v4" ELSE "v6")

\* The loop receives from a racer: the primary's connection is returned, the
\* other's kept as the fallback.
TakeFamily(g) ==
    /\ dual /\ outcome = None
    /\ group[g] = "offering"
    /\ group' = [group EXCEPT ![g] = "over"]
    /\ outcome' = IF Primary(g) /\ result[g] # Failed THEN result[g] ELSE outcome
    /\ fallback' = IF ~Primary(g) /\ result[g] # Failed THEN result[g] ELSE fallback
    /\ UNCHANGED <<mode, conn, racer, result>>

\* Variant: a late racer only ends.
DiscardFamilyOpen(g) ==
    /\ outcome # None
    /\ group[g] = "offering"
    /\ group' = [group EXCEPT ![g] = "over"]
    /\ UNCHANGED <<mode, conn, racer, result, fallback, outcome>>

DiscardFamily(g) ==
    /\ outcome # None
    /\ group[g] = "offering"
    /\ group' = [group EXCEPT ![g] = "over"]
    /\ conn' = [ip \in IPs |-> IF ip = result[g] THEN "closed" ELSE conn[ip]]
    /\ UNCHANGED <<mode, racer, result, fallback, outcome>>

\* fallbackTicker
FallbackTick ==
    /\ dual /\ outcome = None
    /\ fallback # None
    /\ outcome' = fallback
    /\ UNCHANGED <<mode, conn, racer, group, result, fallback>>

\* Both racers are done and results is closed.
ResultsClosed ==
    /\ dual /\ outcome = None
    /\ \A g \in Groups : group[g] \in {"off", "over"}
    /\ outcome' = IF fallback # None THEN fallback ELSE Failed
    /\ UNCHANGED <<mode, conn, racer, group, result, fallback>>

-----------------------------------------------------------------------------
Next ==
    \/ \E ip \in IPs : DialParallel(ip)
    \/ \E g \in Groups :
           \/ TakeFamily(g) \/ DiscardFamily(g)
           \/ \E ip \in IPs :
                  DialSerial(g, ip) \/ TakeResult(g, ip) \/ DiscardResult(g, ip)
    \/ FallbackTick \/ ResultsClosed

Spec == Init /\ [][Next]_vars

\* Every dial ends, by its deadline at the latest, and goroutines run on.
FairSpec == Spec /\ WF_vars(Next)

-----------------------------------------------------------------------------
\* Every goroutine of the dial has ended.
Over ==
    /\ outcome # None
    /\ \A g \in Groups : group[g] \in {"off", "over"}
    /\ \A ip \in IPs : racer[ip] \in {"off", "over"}

\* The caller never gets a connection that a late goroutine has closed.
ReturnedIsOpen == outcome \in IPs => conn[outcome] = "open"

\* The dial fails only when every address failed.
FailsLast == outcome = Failed => \A ip \in IPs : conn[ip] = "failed"

\* When all is over no connection is left open but the one that was returned, and
\* a fallback that came first and was then overtaken by the primary: nobody
\* closes that one.
NothingLeftOpen ==
    Over => \A ip \in IPs : conn[ip] = "open" => ip = outcome \/ ip = fallback

\* The answer of the dial and what becomes of the connections of its race.
AnswerIsSound == ReturnedIsOpen /\ FailsLast /\ NothingLeftOpen

\* The dial returns and leaves no goroutine behind that waits for a receiver.
RaceEnds == <>Over
=============================================================================
