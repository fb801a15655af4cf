---------------------------- MODULE Dialer_proofs ----------------------------
(***************************************************************************)
(* Proofs about Dialer, for any addresses of either family.                *)
(*                                                                         *)
(* An address has at most one group that is not off, so that a connection  *)
(* has one owner at a time: its goroutine, the racer of its family, the    *)
(* caller.                                                                 *)
(***************************************************************************)
EXTENDS Dialer, TLAPS

\* Which groups race, and when they have a result.
GroupsRace ==
    /\ dual /\ concurrent => prefer # 0
    /\ \A g \in Groups :
           /\ group[g] # "off" <=> Members[g] # {} /\ dual = (g # "all")
           /\ group[g] \in {"off", "dialing"} <=> result[g] = None
           /\ group[g] = "offering" => dual
           /\ result[g] \in Members[g] \cup {None, Failed}

\* How far an address has come.
Addresses ==
    \A ip \in IPs :
        /\ racer[ip] \in {"off", "dialing"} <=> conn[ip] = "none"
        /\ racer[ip] = "offering" => conn[ip] \in {"open", "failed"}

\* What a group knows about its addresses.
GroupsKnow ==
    \A g \in Groups : \A ip \in Members[g] :
        /\ group[g] = "dialing" /\ racer[ip] = "over" => conn[ip] = "failed"
        /\ result[g] = Failed => racer[ip] = "over" /\ conn[ip] = "failed"
        /\ result[g] = ip => racer[ip] = "over"
        /\ group[g] = "offering" /\ result[g] = ip => conn[ip] = "open"

\* The fallback and the answer are results of groups that are over.
Held ==
    /\ fallback # None =>
           /\ dual
           /\ conn[fallback] = "open"
           /\ \E g \in Groups : ~Primary(g) /\ group[g] = "over" /\ result[g] = fallback
    /\ outcome \in IPs =>
           /\ conn[outcome] = "open"
           /\ \E g \in Groups : group[g] = "over" /\ result[g] = outcome
    /\ outcome = Failed =>
           \A g \in Groups : group[g] # "off" => group[g] = "over" /\ result[g] = Failed
    /\ outcome = None =>
           \A g \in Groups :
               group[g] = "over" =>
                   dual /\ (result[g] = Failed \/ (~Primary(g) /\ result[g] = fallback))

\* An open connection has an owner.
Owned ==
    \A ip \in IPs :
        conn[ip] = "open" =>
            \/ racer[ip] = "offering"
            \/ \E g \in Groups : group[g] = "offering" /\ result[g] = ip
            \/ ip \in {outcome, fallback}

IInv == TypeOK /\ GroupsRace /\ Addresses /\ GroupsKnow /\ Held /\ Owned

-----------------------------------------------------------------------------
\* A family is a part of the addresses.
LEMMA MembersAreIPs ==
    /\ Members["all"] = IPs /\ Members["v4"] = IPv4 /\ Members["v6"] = IPs \ IPv4
    /\ \A g \in Groups : Members[g] \subseteq IPs
BY IPsAssumption DEF Members, Groups

\* No address is raced for twice.
LEMMA OneGroup ==
    ASSUME GroupsRace, NEW g \in Groups, NEW h \in Groups,
           group[g] # "off", group[h] # "off",
           NEW ip \in Members[g], ip \in Members[h]
    PROVE  g = h
<1>1. dual = (g # "all") /\ dual = (h # "all")
  BY DEF GroupsRace
<1> QED
  BY <1>1, MembersAreIPs DEF Groups

\* Only one family is not preferred.
LEMMA OneFallback ==
    ASSUME TypeOK, GroupsRace, NEW g \in Groups, NEW h \in Groups, dual,
           group[g] # "off", group[h] # "off", ~Primary(g), ~Primary(h)
    PROVE  g = h
<1>1. g # "all" /\ h # "all"
  BY DEF GroupsRace
<1> QED
  BY <1>1 DEF Groups, Primary, TypeOK

\* Every address is raced for.
LEMMA SomeGroup ==
    ASSUME TypeOK, GroupsRace, NEW ip \in IPs
    PROVE  \E g \in Groups : group[g] # "off" /\ ip \in Members[g]
<1> DEFINE g == IF ~dual THEN "all" ELSE IF ip \in IPv4 THEN "v4" ELSE "v6"
<1>1. g \in Groups /\ ip \in Members[g] /\ dual = (g # "all")
  BY MembersAreIPs DEF Groups, TypeOK
<1> QED
  BY <1>1 DEF GroupsRace

\* Every step keeps the types.
LEMMA TypeStep ==
    ASSUME TypeOK, GroupsRace, [Next]_vars
    PROVE  TypeOK'
<1>1. ASSUME NEW ip \in IPs, DialParallel(ip) PROVE TypeOK'
  BY <1>1, MembersAreIPs, ResultsAssumption DEF DialParallel, TypeOK,
     GroupsRace, DialEnds, mode, Groups
<1>2. ASSUME NEW g \in Groups, TakeFamily(g) PROVE TypeOK'
  BY <1>2, MembersAreIPs, ResultsAssumption DEF TakeFamily, TypeOK,
     GroupsRace, Primary, mode, Groups
<1>3. ASSUME NEW g \in Groups, DiscardFamily(g) PROVE TypeOK'
  BY <1>3, MembersAreIPs, ResultsAssumption DEF DiscardFamily, TypeOK,
     GroupsRace, mode, Groups
<1>4. ASSUME NEW g \in Groups, NEW ip \in IPs, DialSerial(g, ip) PROVE TypeOK'
  BY <1>4, MembersAreIPs, ResultsAssumption DEF DialSerial, TypeOK,
     GroupsRace, GroupReturns, Seen, DialEnds, mode, Groups
<1>5. ASSUME NEW g \in Groups, NEW ip \in IPs, TakeResult(g, ip) PROVE TypeOK'
  BY <1>5, MembersAreIPs, ResultsAssumption DEF TakeResult, TypeOK,
     GroupsRace, GroupReturns, Seen, mode, Groups
<1>6. ASSUME NEW g \in Groups, NEW ip \in IPs, DiscardResult(g, ip) PROVE TypeOK'
  BY <1>6, MembersAreIPs, ResultsAssumption DEF DiscardResult, TypeOK,
     GroupsRace, mode, Groups
<1>7. CASE FallbackTick
  BY <1>7, MembersAreIPs, ResultsAssumption DEF FallbackTick, TypeOK,
     GroupsRace, mode, Groups
<1>8. CASE ResultsClosed
  BY <1>8, MembersAreIPs, ResultsAssumption DEF ResultsClosed, TypeOK,
     GroupsRace, mode, Groups
<1>9. CASE UNCHANGED vars
  BY <1>9 DEF vars, TypeOK, GroupsRace, mode, Groups
<1> QED
  BY <1>1, <1>2, <1>3, <1>4, <1>5, <1>6, <1>7, <1>8, <1>9 DEF Next

\* A group has a result once its dial returned.
LEMMA GroupsRaceStep ==
    ASSUME TypeOK, GroupsRace, [Next]_vars
    PROVE  GroupsRace'
<1>1. ASSUME NEW ip \in IPs, DialParallel(ip) PROVE GroupsRace'
  BY <1>1, MembersAreIPs, ResultsAssumption DEF DialParallel, TypeOK,
     GroupsRace, DialEnds, mode, Groups
<1>2. ASSUME NEW g \in Groups, TakeFamily(g) PROVE GroupsRace'
  BY <1>2, MembersAreIPs, ResultsAssumption DEF TakeFamily, TypeOK,
     GroupsRace, Primary, mode, Groups
<1>3. ASSUME NEW g \in Groups, DiscardFamily(g) PROVE GroupsRace'
  BY <1>3, MembersAreIPs, ResultsAssumption DEF DiscardFamily, TypeOK,
     GroupsRace, mode, Groups
<1>4. ASSUME NEW g \in Groups, NEW ip \in IPs, DialSerial(g, ip) PROVE GroupsRace'
  BY <1>4, MembersAreIPs, ResultsAssumption DEF DialSerial, TypeOK,
     GroupsRace, GroupReturns, Seen, DialEnds, mode, Groups
<1>5. ASSUME NEW g \in Groups, NEW ip \in IPs, TakeResult(g, ip) PROVE GroupsRace'
  BY <1>5, MembersAreIPs, ResultsAssumption DEF TakeResult, TypeOK,
     GroupsRace, GroupReturns, Seen, mode, Groups
<1>6. ASSUME NEW g \in Groups, NEW ip \in IPs, DiscardResult(g, ip) PROVE GroupsRace'
  BY <1>6, MembersAreIPs, ResultsAssumption DEF DiscardResult, TypeOK,
     GroupsRace, mode, Groups
<1>7. CASE FallbackTick
  BY <1>7, MembersAreIPs, ResultsAssumption DEF FallbackTick, TypeOK,
     GroupsRace, mode, Groups
<1>8. CASE ResultsClosed
  BY <1>8, MembersAreIPs, ResultsAssumption DEF ResultsClosed, TypeOK,
     GroupsRace, mode, Groups
<1>9. CASE UNCHANGED vars
  BY <1>9 DEF vars, TypeOK, GroupsRace, mode, Groups
<1> QED
  BY <1>1, <1>2, <1>3, <1>4, <1>5, <1>6, <1>7, <1>8, <1>9 DEF Next

\* An address is dialled once.
LEMMA AddressesStep ==
    ASSUME TypeOK, GroupsRace, Addresses, GroupsKnow, [Next]_vars
    PROVE  Addresses'
<1>1. ASSUME NEW ip \in IPs, DialParallel(ip) PROVE Addresses'
  BY <1>1, MembersAreIPs, ResultsAssumption DEF DialParallel, TypeOK,
     GroupsRace, Addresses, GroupsKnow, DialEnds, mode, Groups
<1>2. ASSUME NEW g \in Groups, TakeFamily(g) PROVE Addresses'
  BY <1>2, MembersAreIPs, ResultsAssumption DEF TakeFamily, TypeOK,
     GroupsRace, Addresses, GroupsKnow, Primary, mode, Groups
<1>3. ASSUME NEW g \in Groups, DiscardFamily(g) PROVE Addresses'
  BY <1>3, MembersAreIPs, ResultsAssumption DEF DiscardFamily, TypeOK,
     GroupsRace, Addresses, GroupsKnow, mode, Groups
<1>4. ASSUME NEW g \in Groups, NEW ip \in IPs, DialSerial(g, ip) PROVE Addresses'
  BY <1>4, MembersAreIPs, ResultsAssumption DEF DialSerial, TypeOK,
     GroupsRace, Addresses, GroupsKnow, GroupReturns, Seen, DialEnds, mode,
     Groups
<1>5. ASSUME NEW g \in Groups, NEW ip \in IPs, TakeResult(g, ip) PROVE Addresses'
  BY <1>5, MembersAreIPs, ResultsAssumption DEF TakeResult, TypeOK,
     GroupsRace, Addresses, GroupsKnow, GroupReturns, Seen, mode, Groups
<1>6. ASSUME NEW g \in Groups, NEW ip \in IPs, DiscardResult(g, ip) PROVE Addresses'
  BY <1>6, MembersAreIPs, ResultsAssumption DEF DiscardResult, TypeOK,
     GroupsRace, Addresses, GroupsKnow, mode, Groups
<1>7. CASE FallbackTick
  BY <1>7, MembersAreIPs, ResultsAssumption DEF FallbackTick, TypeOK,
     GroupsRace, Addresses, GroupsKnow, mode, Groups
<1>8. CASE ResultsClosed
  BY <1>8, MembersAreIPs, ResultsAssumption DEF ResultsClosed, TypeOK,
     GroupsRace, Addresses, GroupsKnow, mode, Groups
<1>9. CASE UNCHANGED vars
  BY <1>9 DEF vars, TypeOK, GroupsRace, Addresses, GroupsKnow, mode,
     Groups
<1> QED
  BY <1>1, <1>2, <1>3, <1>4, <1>5, <1>6, <1>7, <1>8, <1>9 DEF Next

\* A group fails when each of its addresses did.
LEMMA GroupsKnowStep ==
    ASSUME TypeOK, GroupsRace, Addresses, GroupsKnow, [Next]_vars
    PROVE  GroupsKnow'
<1>1. ASSUME NEW ip \in IPs, DialParallel(ip) PROVE GroupsKnow'
  BY <1>1, MembersAreIPs, OneGroup, ResultsAssumption DEF DialParallel,
     TypeOK, GroupsRace, Addresses, GroupsKnow, DialEnds, mode, Groups
<1>2. ASSUME NEW g \in Groups, TakeFamily(g) PROVE GroupsKnow'
  BY <1>2, MembersAreIPs, OneGroup, ResultsAssumption DEF TakeFamily,
     TypeOK, GroupsRace, Addresses, GroupsKnow, Primary, mode, Groups
<1>3. ASSUME NEW g \in Groups, DiscardFamily(g) PROVE GroupsKnow'
  BY <1>3, MembersAreIPs, OneGroup, ResultsAssumption DEF DiscardFamily,
     TypeOK, GroupsRace, Addresses, GroupsKnow, mode, Groups
<1>4. ASSUME NEW g \in Groups, NEW ip \in IPs, DialSerial(g, ip) PROVE GroupsKnow'
  BY <1>4, MembersAreIPs, OneGroup, ResultsAssumption DEF DialSerial,
     TypeOK, GroupsRace, Addresses, GroupsKnow, GroupReturns, Seen, DialEnds,
     mode, Groups
<1>5. ASSUME NEW g \in Groups, NEW ip \in IPs, TakeResult(g, ip) PROVE GroupsKnow'
  BY <1>5, MembersAreIPs, OneGroup, ResultsAssumption DEF TakeResult,
     TypeOK, GroupsRace, Addresses, GroupsKnow, GroupReturns, Seen, mode,
     Groups
<1>6. ASSUME NEW g \in Groups, NEW ip \in IPs, DiscardResult(g, ip) PROVE GroupsKnow'
  BY <1>6, MembersAreIPs, OneGroup, ResultsAssumption DEF DiscardResult,
     TypeOK, GroupsRace, Addresses, GroupsKnow, mode, Groups
<1>7. CASE FallbackTick
  BY <1>7, MembersAreIPs, OneGroup, ResultsAssumption DEF FallbackTick,
     TypeOK, GroupsRace, Addresses, GroupsKnow, mode, Groups
<1>8. CASE ResultsClosed
  BY <1>8, MembersAreIPs, OneGroup, ResultsAssumption DEF ResultsClosed,
     TypeOK, GroupsRace, Addresses, GroupsKnow, mode, Groups
<1>9. CASE UNCHANGED vars
  BY <1>9 DEF vars, TypeOK, GroupsRace, Addresses, GroupsKnow, mode,
     Groups
<1> QED
  BY <1>1, <1>2, <1>3, <1>4, <1>5, <1>6, <1>7, <1>8, <1>9 DEF Next

\* What was handed over is not closed.
LEMMA HeldStep ==
    ASSUME TypeOK, GroupsRace, Addresses, GroupsKnow, Held, [Next]_vars
    PROVE  Held'
<1>1. ASSUME NEW ip \in IPs, DialParallel(ip) PROVE Held'
  BY <1>1, MembersAreIPs, OneGroup, ResultsAssumption DEF DialParallel,
     TypeOK, GroupsRace, Addresses, GroupsKnow, Held, DialEnds, Primary,
     mode, Groups
<1>2. ASSUME NEW g \in Groups, TakeFamily(g) PROVE Held'
  <2>1. dual /\ outcome = None /\ group[g] = "offering" /\ UNCHANGED <<mode, conn, result>>
    BY <1>2 DEF TakeFamily
  <2>2. group' = [group EXCEPT ![g] = "over"]
    BY <1>2 DEF TakeFamily
  <2>3. result[g] \in IPs \cup {Failed} /\ (result[g] # Failed => conn[result[g]] = "open")
    BY <2>1, MembersAreIPs, ResultsAssumption DEF GroupsRace, GroupsKnow
  <2>4. \A h \in Groups : Primary(h)' = Primary(h)
    BY <2>1 DEF Primary, mode
  <2>5. group'[g] = "over" /\ \A h \in Groups \ {g} : group'[h] = group[h]
    BY <2>2 DEF TypeOK
  <2>6. \A h \in Groups : ~Primary(h) /\ group[h] = "over" => Primary(g) \/ h = g
    BY <2>1, OneFallback
  <2>7. CASE Primary(g)
    <3>1. fallback' = fallback /\ outcome' = IF result[g] # Failed THEN result[g] ELSE outcome
      BY <1>2, <2>7 DEF TakeFamily
    <3> QED
      BY <2>1, <2>3, <2>4, <2>5, <3>1, ResultsAssumption DEF Held, mode, TypeOK
  <2>8. CASE ~Primary(g)
    <3>1. outcome' = None /\ fallback' = IF result[g] # Failed THEN result[g] ELSE fallback
      BY <1>2, <2>1, <2>8 DEF TakeFamily
    <3>2. \A h \in Groups : group[h] = "over" => Primary(h)
      BY <2>1, <2>6, <2>8
    <3>3. fallback = None
      BY <3>2 DEF Held
    <3> QED
      BY <2>1, <2>3, <2>4, <2>5, <2>8, <3>1, <3>2, <3>3, ResultsAssumption DEF Held, mode, TypeOK
  <2> QED
    BY <2>7, <2>8
<1>3. ASSUME NEW g \in Groups, DiscardFamily(g) PROVE Held'
  BY <1>3, MembersAreIPs, OneGroup, ResultsAssumption DEF DiscardFamily,
     TypeOK, GroupsRace, Addresses, GroupsKnow, Held, Primary, mode, Groups
<1>4. ASSUME NEW g \in Groups, NEW ip \in IPs, DialSerial(g, ip) PROVE Held'
  BY <1>4, MembersAreIPs, OneGroup, ResultsAssumption DEF DialSerial,
     TypeOK, GroupsRace, Addresses, GroupsKnow, Held, GroupReturns, Seen,
     DialEnds, Primary, mode, Groups
<1>5. ASSUME NEW g \in Groups, NEW ip \in IPs, TakeResult(g, ip) PROVE Held'
  BY <1>5, MembersAreIPs, OneGroup, ResultsAssumption DEF TakeResult,
     TypeOK, GroupsRace, Addresses, GroupsKnow, Held, GroupReturns, Seen,
     Primary, mode, Groups
<1>6. ASSUME NEW g \in Groups, NEW ip \in IPs, DiscardResult(g, ip) PROVE Held'
  BY <1>6, MembersAreIPs, OneGroup, ResultsAssumption DEF DiscardResult,
     TypeOK, GroupsRace, Addresses, GroupsKnow, Held, Primary, mode, Groups
<1>7. CASE FallbackTick
  BY <1>7, MembersAreIPs, OneGroup, ResultsAssumption DEF FallbackTick,
     TypeOK, GroupsRace, Addresses, GroupsKnow, Held, Primary, mode, Groups
<1>8. CASE ResultsClosed
  BY <1>8, MembersAreIPs, OneGroup, ResultsAssumption DEF ResultsClosed,
     TypeOK, GroupsRace, Addresses, GroupsKnow, Held, Primary, mode, Groups
<1>9. CASE UNCHANGED vars
  BY <1>9 DEF vars, TypeOK, GroupsRace, Addresses, GroupsKnow, Held,
     Primary, mode, Groups
<1> QED
  BY <1>1, <1>2, <1>3, <1>4, <1>5, <1>6, <1>7, <1>8, <1>9 DEF Next

\* A connection that nobody takes is closed.
LEMMA OwnedStep ==
    ASSUME TypeOK, GroupsRace, Addresses, GroupsKnow, Held, Owned, [Next]_vars
    PROVE  Owned'
<1>1. ASSUME NEW ip \in IPs, DialParallel(ip) PROVE Owned'
  BY <1>1, MembersAreIPs, OneGroup, ResultsAssumption DEF DialParallel,
     TypeOK, GroupsRace, GroupsKnow, Held, Owned, DialEnds, Primary, mode,
     Groups
<1>2. ASSUME NEW g \in Groups, TakeFamily(g) PROVE Owned'
  <2>1. dual /\ outcome = None /\ group[g] = "offering" /\ UNCHANGED <<mode, conn, racer, result>>
    BY <1>2 DEF TakeFamily
  <2>2. group' = [group EXCEPT ![g] = "over"]
    BY <1>2 DEF TakeFamily
  <2>3. group'[g] = "over" /\ \A h \in Groups \ {g} : group'[h] = group[h]
    BY <2>2 DEF TypeOK
  <2>4. ~Primary(g) => fallback = None
    BY <2>1, OneFallback DEF Held
  <2>5. result[g] # Failed => result[g] \in {outcome', fallback'}
    BY <1>2 DEF TakeFamily
  <2>6. fallback # None => fallback' = fallback
    BY <1>2, <2>4 DEF TakeFamily
  <2> QED
    BY <2>1, <2>3, <2>5, <2>6, ResultsAssumption DEF Owned
<1>3. ASSUME NEW g \in Groups, DiscardFamily(g) PROVE Owned'
  BY <1>3, MembersAreIPs, OneGroup, ResultsAssumption DEF DiscardFamily,
     TypeOK, GroupsRace, GroupsKnow, Held, Owned, Primary, mode, Groups
<1>4. ASSUME NEW g \in Groups, NEW ip \in IPs, DialSerial(g, ip) PROVE Owned'
  BY <1>4, MembersAreIPs, OneGroup, ResultsAssumption DEF DialSerial,
     TypeOK, GroupsRace, GroupsKnow, Held, Owned, GroupReturns, Seen,
     DialEnds, Primary, mode, Groups
<1>5. ASSUME NEW g \in Groups, NEW ip \in IPs, TakeResult(g, ip) PROVE Owned'
  BY <1>5, MembersAreIPs, OneGroup, ResultsAssumption DEF TakeResult,
     TypeOK, GroupsRace, GroupsKnow, Held, Owned, GroupReturns, Seen,
     Primary, mode, Groups
<1>6. ASSUME NEW g \in Groups, NEW ip \in IPs, DiscardResult(g, ip) PROVE Owned'
  BY <1>6, MembersAreIPs, OneGroup, ResultsAssumption DEF DiscardResult,
     TypeOK, GroupsRace, GroupsKnow, Held, Owned, Primary, mode, Groups
<1>7. CASE FallbackTick
  BY <1>7, MembersAreIPs, OneGroup, ResultsAssumption DEF FallbackTick,
     TypeOK, GroupsRace, GroupsKnow, Held, Owned, Primary, mode, Groups
<1>8. CASE ResultsClosed
  BY <1>8, MembersAreIPs, OneGroup, ResultsAssumption DEF ResultsClosed,
     TypeOK, GroupsRace, GroupsKnow, Held, Owned, Primary, mode, Groups
<1>9. CASE UNCHANGED vars
  BY <1>9 DEF vars, TypeOK, GroupsRace, GroupsKnow, Held, Owned, Primary,
     mode, Groups
<1> QED
  BY <1>1, <1>2, <1>3, <1>4, <1>5, <1>6, <1>7, <1>8, <1>9 DEF Next

-----------------------------------------------------------------------------
LEMMA InitIInv == Init => IInv
<1> SUFFICES ASSUME Init PROVE IInv
  OBVIOUS
<1>1. TypeOK
  BY DEF Init, TypeOK
<1>2. GroupsRace
  BY ResultsAssumption DEF Init, GroupsRace
<1>3. Addresses /\ Owned
  BY DEF Init, Addresses, Owned
<1>4. GroupsKnow
  BY MembersAreIPs, ResultsAssumption DEF Init, GroupsKnow
<1>5. Held
  BY ResultsAssumption DEF Init, Held
<1> QED
  BY <1>1, <1>2, <1>3, <1>4, <1>5 DEF IInv

LEMMA StepIInv == IInv /\ [Next]_vars => IInv'
BY TypeStep, GroupsRaceStep, AddressesStep, GroupsKnowStep, HeldStep, OwnedStep
   DEF IInv

\* The invariant the others follow from.
THEOREM Inductive == Spec => []IInv
BY InitIInv, StepIInv, PTL DEF Spec

\* Connections, goroutines, the fallback and the answer have the values dialer.go
\* gives them: the answer is never the nil connection of a racer that failed.
THEOREM TypeCorrect == Spec => []TypeOK
<1>1. IInv => TypeOK
  BY DEF IInv
<1> QED
  BY Inductive, <1>1, PTL

\* In every mode of the dialer and for any addresses: the caller gets an open
\* connection, an error only when every address failed, and what else was opened
\* is closed, a fallback excepted.
THEOREM AnswerSound == Spec => []AnswerIsSound
<1>1. IInv => AnswerIsSound
  <2> SUFFICES ASSUME IInv PROVE AnswerIsSound
    OBVIOUS
  <2>1. ReturnedIsOpen
    BY DEF IInv, Held, ReturnedIsOpen
  <2>2. FailsLast
    <3> SUFFICES ASSUME outcome = Failed, NEW ip \in IPs PROVE conn[ip] = "failed"
      BY DEF FailsLast
    <3>1. PICK g \in Groups : group[g] # "off" /\ ip \in Members[g]
      BY SomeGroup DEF IInv
    <3>2. result[g] = Failed
      BY <3>1 DEF IInv, Held
    <3> QED
      BY <3>1, <3>2 DEF IInv, GroupsKnow
  <2>3. NothingLeftOpen
    <3> SUFFICES ASSUME Over, NEW ip \in IPs, conn[ip] = "open"
                 PROVE  ip = outcome \/ ip = fallback
      BY DEF NothingLeftOpen
    <3>1. racer[ip] # "offering" /\ \A g \in Groups : group[g] # "offering"
      BY DEF Over
    <3> QED
      BY <3>1 DEF IInv, Owned
  <2> QED
    BY <2>1, <2>2, <2>3 DEF AnswerIsSound
<1> QED
  BY Inductive, <1>1, PTL
=============================================================================
