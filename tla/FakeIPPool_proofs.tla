------------------------- MODULE FakeIPPool_proofs -------------------------
(***************************************************************************)
(* Proofs about FakeIPPool, for every set of pools, hosts and ranges.      *)
(*                                                                         *)
(* As long as no two writers met (~torn) at most one lookup runs and no    *)
(* flush does (OneWriter), so that what a lookup wrote in one transaction  *)
(* still stands in its next (Transactions), and a stored state bounds the  *)
(* addresses that a pool made from it will find (StoredState).             *)
(***************************************************************************)
EXTENDS FakeIPPool, TLAPS

\* Only a pool in use looks up, and with a host; it has a range.
Users ==
    \A p \in Pools :
        /\ role[p] # "none" => net[p] \in Nets
        /\ step[p] # "idle" => role[p] \in {"serving", "old"} /\ host[p] \in Hosts
        /\ flushing[p] \/ storing[p] => role[p] \in {"serving", "old"}

OneWriter ==
    ~torn => \A p, q \in Pools :
                 step[p] # "idle" => ~flushing[q] /\ (step[q] # "idle" => q = p)

Transactions ==
    ~torn => \A p \in Pools :
                 /\ step[p] = "putIP" => hostOf[At(p)] = None
                 /\ step[p] = "putHost" => hostOf[At(p)] = host[p]

StoredState ==
    saved /\ ~torn =>
        /\ offsetKey # None
        /\ \A a \in Addresses :
               hostOf[a] # None =>
                   a[1] = offsetKey[1] /\ (cycleKey \/ a[2] <= offsetKey[2])

IInv ==
    /\ TypeOK
    /\ Users
    /\ OneWriter
    /\ Transactions
    /\ AddressLeadsBack
    /\ StoredState
    /\ NoEarlyReuse
    /\ InRange

-----------------------------------------------------------------------------
\* Every step keeps the types.
LEMMA TypeStep ==
    ASSUME TypeOK, Users, [Next]_vars
    PROVE  TypeOK'
<1>1. ASSUME NEW p \in Pools, NEW h \in Hosts, Lookup(p, h) PROVE TypeOK'
  BY <1>1, RangeAssumption, NoneAssumption DEF Lookup, LookingUp, Goto,
     TypeOK, Users, Offsets, Addresses, poolVars, storeVars
<1>2. ASSUME NEW p \in Pools, Advance(p) PROVE TypeOK'
  <2>1. offset' \in [Pools -> Offsets]
    BY <1>2, RangeAssumption DEF Advance, TypeOK, Offsets
  <2>2. /\ cycle' \in [Pools -> BOOLEAN]
        /\ step' \in [Pools -> {"idle", "get", "del", "putIP", "putHost"}]
    BY <1>2 DEF Advance, Goto, TypeOK
  <2>3. saved' \in BOOLEAN /\ exact' \in [Pools -> BOOLEAN]
    BY <1>2 DEF Advance, Given, TypeOK
  <2> QED
    BY <1>2, <2>1, <2>2, <2>3 DEF Advance, TypeOK, storeVars
<1>3. ASSUME NEW p \in Pools, DelByIP(p) PROVE TypeOK'
  BY <1>3, RangeAssumption, NoneAssumption DEF DelByIP, Goto, TypeOK,
     Users, At, Offsets, Addresses, poolVars, history
<1>4. ASSUME NEW p \in Pools, PutByIP(p) PROVE TypeOK'
  BY <1>4, RangeAssumption, NoneAssumption DEF PutByIP, Goto, Given,
     TypeOK, Users, At, Offsets, Addresses, poolVars
<1>5. ASSUME NEW p \in Pools, PutByHost(p) PROVE TypeOK'
  BY <1>5, RangeAssumption, NoneAssumption DEF PutByHost, Goto, TypeOK,
     Users, At, Offsets, Addresses, poolVars, history
<1>6. ASSUME NEW p \in Pools, FlushStore(p) PROVE TypeOK'
  BY <1>6, RangeAssumption, NoneAssumption DEF FlushStore, EmptyStore,
     LookingUp, TypeOK, Users, NoHosts, NoAddresses, Offsets, Addresses,
     poolVars
<1>7. ASSUME NEW p \in Pools, FlushOffset(p) PROVE TypeOK'
  <2>1. offset' \in [Pools -> Offsets]
    BY <1>7, RangeAssumption DEF FlushOffset, TypeOK, Offsets
  <2>2. exact' \in [Pools -> BOOLEAN] /\ cycle' \in [Pools -> BOOLEAN]
    BY <1>7 DEF FlushOffset, TypeOK
  <2> QED
    BY <1>7, <2>1, <2>2 DEF FlushOffset, TypeOK, storeVars
<1>8. ASSUME NEW p \in Pools, StoreOffset(p) PROVE TypeOK'
  BY <1>8, RangeAssumption, NoneAssumption DEF StoreOffset, TypeOK, Users,
     At, Offsets, Addresses, poolVars
<1>9. ASSUME NEW p \in Pools, StoreCycle(p) PROVE TypeOK'
  BY <1>9, RangeAssumption, NoneAssumption DEF StoreCycle, TypeOK, Users,
     At, Offsets, Addresses, poolVars
<1>10. ASSUME NEW p \in Pools, NEW n \in Nets, New(p, n) PROVE TypeOK'
  <2>1. offset' \in [Pools -> Offsets]
    BY <1>10, RangeAssumption, NoneAssumption DEF New, EmptyStore, TypeOK, Offsets, Addresses
  <2>2. cycle' \in [Pools -> BOOLEAN] /\ exact' \in [Pools -> BOOLEAN]
    BY <1>10 DEF New, EmptyStore, TypeOK
  <2>3. CASE MustFlush(n)
    <3>1. /\ hostOf' \in [Addresses -> Hosts \cup {None}]
          /\ ipOf' \in [Hosts -> Addresses \cup {None}]
      BY <1>10, <2>3 DEF New, EmptyStore, NoHosts, NoAddresses
    <3>2. offsetKey' = None /\ cycleKey' = FALSE /\ saved' = FALSE /\ torn' \in BOOLEAN
      BY <1>10, <2>3 DEF New, EmptyStore
    <3> QED
      BY <1>10, <2>1, <2>2, <3>1, <3>2 DEF New, TypeOK
  <2>4. CASE ~MustFlush(n)
    BY <1>10, <2>1, <2>2, <2>4 DEF New, TypeOK, storeVars
  <2> QED
    BY <2>3, <2>4
<1>11. ASSUME NEW p \in Pools, Swap(p) PROVE TypeOK'
  BY <1>11, RangeAssumption, NoneAssumption DEF Swap, TypeOK, Users,
     Offsets, Addresses, storeVars, history
<1>12. ASSUME NEW p \in Pools, Drop(p) PROVE TypeOK'
  BY <1>12, RangeAssumption, NoneAssumption DEF Drop, TypeOK, Users,
     Offsets, Addresses, storeVars
<1>13. CASE Die
  BY <1>13, RangeAssumption, NoneAssumption DEF Die, TypeOK, Users,
     Offsets, Addresses, storeVars
<1>14. CASE UNCHANGED vars
  BY <1>14 DEF vars, TypeOK, Users, Offsets, Addresses, poolVars,
     storeVars, history
<1> QED
  BY <1>1, <1>2, <1>3, <1>4, <1>5, <1>6, <1>7, <1>8, <1>9, <1>10, <1>11,
     <1>12, <1>13, <1>14 DEF Next

\* Every step keeps to the pools in use.
LEMMA UsersStep ==
    ASSUME TypeOK, Users, [Next]_vars
    PROVE  Users'
<1>1. ASSUME NEW p \in Pools, NEW h \in Hosts, Lookup(p, h) PROVE Users'
  BY <1>1 DEF Lookup, LookingUp, Goto, TypeOK, Users, poolVars, storeVars
<1>2. ASSUME NEW p \in Pools, Advance(p) PROVE Users'
  BY <1>2 DEF Advance, Goto, Given, TypeOK, Users, storeVars
<1>3. ASSUME NEW p \in Pools, DelByIP(p) PROVE Users'
  BY <1>3 DEF DelByIP, Goto, TypeOK, Users, poolVars, history
<1>4. ASSUME NEW p \in Pools, PutByIP(p) PROVE Users'
  BY <1>4 DEF PutByIP, Goto, Given, TypeOK, Users, poolVars
<1>5. ASSUME NEW p \in Pools, PutByHost(p) PROVE Users'
  BY <1>5 DEF PutByHost, Goto, TypeOK, Users, poolVars, history
<1>6. ASSUME NEW p \in Pools, FlushStore(p) PROVE Users'
  BY <1>6 DEF FlushStore, EmptyStore, LookingUp, TypeOK, Users, poolVars
<1>7. ASSUME NEW p \in Pools, FlushOffset(p) PROVE Users'
  BY <1>7 DEF FlushOffset, TypeOK, Users, storeVars
<1>8. ASSUME NEW p \in Pools, StoreOffset(p) PROVE Users'
  BY <1>8 DEF StoreOffset, TypeOK, Users, poolVars
<1>9. ASSUME NEW p \in Pools, StoreCycle(p) PROVE Users'
  BY <1>9 DEF StoreCycle, TypeOK, Users, poolVars
<1>10. ASSUME NEW p \in Pools, NEW n \in Nets, New(p, n) PROVE Users'
  BY <1>10 DEF New, MustFlush, EmptyStore, LookingUp, TypeOK, Users,
     storeVars
<1>11. ASSUME NEW p \in Pools, Swap(p) PROVE Users'
  BY <1>11 DEF Swap, TypeOK, Users, storeVars, history
<1>12. ASSUME NEW p \in Pools, Drop(p) PROVE Users'
  BY <1>12 DEF Drop, TypeOK, Users, storeVars
<1>13. CASE Die
  BY <1>13 DEF Die, TypeOK, Users, storeVars
<1>14. CASE UNCHANGED vars
  BY <1>14 DEF vars, TypeOK, Users, poolVars, storeVars, history
<1> QED
  BY <1>1, <1>2, <1>3, <1>4, <1>5, <1>6, <1>7, <1>8, <1>9, <1>10, <1>11,
     <1>12, <1>13, <1>14 DEF Next

\* A second writer is noticed (torn) when it comes.
LEMMA OneWriterStep ==
    ASSUME TypeOK, Users, OneWriter, [Next]_vars
    PROVE  OneWriter'
<1>1. ASSUME NEW p \in Pools, NEW h \in Hosts, Lookup(p, h) PROVE OneWriter'
  <2>1. ~torn' => ~torn /\ \A q \in Pools : step[q] = "idle" /\ ~flushing[q]
    BY <1>1 DEF Lookup, LookingUp, TypeOK
  <2> QED
    BY <1>1, <2>1 DEF Lookup, Goto, TypeOK, OneWriter
<1>2. ASSUME NEW p \in Pools, Advance(p) PROVE OneWriter'
  BY <1>2 DEF Advance, Goto, Given, TypeOK, Users, OneWriter, storeVars
<1>3. ASSUME NEW p \in Pools, DelByIP(p) PROVE OneWriter'
  BY <1>3 DEF DelByIP, Goto, TypeOK, Users, OneWriter, poolVars, history
<1>4. ASSUME NEW p \in Pools, PutByIP(p) PROVE OneWriter'
  BY <1>4 DEF PutByIP, Goto, Given, TypeOK, Users, OneWriter, poolVars
<1>5. ASSUME NEW p \in Pools, PutByHost(p) PROVE OneWriter'
  BY <1>5 DEF PutByHost, Goto, TypeOK, Users, OneWriter, poolVars, history
<1>6. ASSUME NEW p \in Pools, FlushStore(p) PROVE OneWriter'
  BY <1>6 DEF FlushStore, EmptyStore, LookingUp, TypeOK, Users, OneWriter,
     poolVars
<1>7. ASSUME NEW p \in Pools, FlushOffset(p) PROVE OneWriter'
  BY <1>7 DEF FlushOffset, TypeOK, Users, OneWriter, storeVars
<1>8. ASSUME NEW p \in Pools, StoreOffset(p) PROVE OneWriter'
  BY <1>8 DEF StoreOffset, TypeOK, Users, OneWriter, poolVars
<1>9. ASSUME NEW p \in Pools, StoreCycle(p) PROVE OneWriter'
  BY <1>9 DEF StoreCycle, TypeOK, Users, OneWriter, poolVars
<1>10. ASSUME NEW p \in Pools, NEW n \in Nets, New(p, n) PROVE OneWriter'
  BY <1>10 DEF New, MustFlush, EmptyStore, LookingUp, TypeOK, Users,
     OneWriter, storeVars
<1>11. ASSUME NEW p \in Pools, Swap(p) PROVE OneWriter'
  BY <1>11 DEF Swap, TypeOK, Users, OneWriter, storeVars, history
<1>12. ASSUME NEW p \in Pools, Drop(p) PROVE OneWriter'
  BY <1>12 DEF Drop, TypeOK, Users, OneWriter, storeVars
<1>13. CASE Die
  BY <1>13 DEF Die, TypeOK, Users, OneWriter, storeVars
<1>14. CASE UNCHANGED vars
  BY <1>14 DEF vars, TypeOK, Users, OneWriter, poolVars, storeVars,
     history
<1> QED
  BY <1>1, <1>2, <1>3, <1>4, <1>5, <1>6, <1>7, <1>8, <1>9, <1>10, <1>11,
     <1>12, <1>13, <1>14 DEF Next

\* What a lookup wrote stands until it ends.
LEMMA TransactionsStep ==
    ASSUME TypeOK, Users, OneWriter, Transactions, [Next]_vars
    PROVE  Transactions'
<1>1. ASSUME NEW p \in Pools, NEW h \in Hosts, Lookup(p, h) PROVE Transactions'
  BY <1>1 DEF Lookup, LookingUp, Goto, TypeOK, Users, OneWriter,
     Transactions, At, poolVars, storeVars
<1>2. ASSUME NEW p \in Pools, Advance(p) PROVE Transactions'
  BY <1>2 DEF Advance, Goto, Given, TypeOK, Users, OneWriter,
     Transactions, At, storeVars
<1>3. ASSUME NEW p \in Pools, DelByIP(p) PROVE Transactions'
  <2>1. At(p) \in Addresses /\ At(p)' = At(p)
    BY <1>3 DEF DelByIP, TypeOK, Users, At, Addresses, poolVars
  <2>2. hostOf'[At(p)'] = None
    BY <1>3, <2>1 DEF DelByIP, TypeOK
  <2>3. ~torn' => \A q \in Pools \ {p} : step'[q] = "idle"
    BY <1>3 DEF DelByIP, Goto, TypeOK, OneWriter, history
  <2>4. step'[p] = "putIP"
    BY <1>3 DEF DelByIP, Goto, TypeOK
  <2> QED
    BY <2>2, <2>3, <2>4 DEF Transactions
<1>4. ASSUME NEW p \in Pools, PutByIP(p) PROVE Transactions'
  <2>1. At(p) \in Addresses /\ At(p)' = At(p) /\ host'[p] = host[p]
    BY <1>4 DEF PutByIP, TypeOK, Users, At, Addresses, poolVars
  <2>2. hostOf'[At(p)'] = host'[p]
    BY <1>4, <2>1 DEF PutByIP, TypeOK
  <2>3. ~torn' => \A q \in Pools \ {p} : step'[q] = "idle"
    BY <1>4 DEF PutByIP, Goto, TypeOK, OneWriter
  <2>4. step'[p] = "putHost"
    BY <1>4 DEF PutByIP, Goto, TypeOK
  <2> QED
    BY <2>2, <2>3, <2>4 DEF Transactions
<1>5. ASSUME NEW p \in Pools, PutByHost(p) PROVE Transactions'
  BY <1>5 DEF PutByHost, Goto, TypeOK, Users, OneWriter, Transactions, At,
     poolVars, history
<1>6. ASSUME NEW p \in Pools, FlushStore(p) PROVE Transactions'
  BY <1>6 DEF FlushStore, EmptyStore, LookingUp, TypeOK, Users, OneWriter,
     Transactions, At, NoHosts, poolVars
<1>7. ASSUME NEW p \in Pools, FlushOffset(p) PROVE Transactions'
  BY <1>7 DEF FlushOffset, TypeOK, Users, OneWriter, Transactions, At,
     NoHosts, storeVars
<1>8. ASSUME NEW p \in Pools, StoreOffset(p) PROVE Transactions'
  BY <1>8 DEF StoreOffset, TypeOK, Users, OneWriter, Transactions, At,
     poolVars
<1>9. ASSUME NEW p \in Pools, StoreCycle(p) PROVE Transactions'
  BY <1>9 DEF StoreCycle, TypeOK, Users, OneWriter, Transactions, At,
     poolVars
<1>10. ASSUME NEW p \in Pools, NEW n \in Nets, New(p, n) PROVE Transactions'
  <2>1. step' = step /\ step[p] = "idle"
    BY <1>10 DEF New, TypeOK, Users
  <2>2. \A q \in Pools \ {p} : At(q)' = At(q) /\ host'[q] = host[q]
    BY <1>10 DEF New, TypeOK, At
  <2>3. CASE MustFlush(n)
    BY <1>10, <2>1, <2>3 DEF New, EmptyStore, LookingUp, Transactions
  <2>4. CASE ~MustFlush(n)
    BY <1>10, <2>1, <2>2, <2>4 DEF New, Transactions, storeVars
  <2> QED
    BY <2>3, <2>4
<1>11. ASSUME NEW p \in Pools, Swap(p) PROVE Transactions'
  BY <1>11 DEF Swap, TypeOK, Users, OneWriter, Transactions, At,
     storeVars, history
<1>12. ASSUME NEW p \in Pools, Drop(p) PROVE Transactions'
  BY <1>12 DEF Drop, TypeOK, Users, OneWriter, Transactions, At, storeVars
<1>13. CASE Die
  BY <1>13 DEF Die, TypeOK, Users, OneWriter, Transactions, At, storeVars
<1>14. CASE UNCHANGED vars
  BY <1>14 DEF vars, TypeOK, Users, OneWriter, Transactions, At, poolVars,
     storeVars, history
<1> QED
  BY <1>1, <1>2, <1>3, <1>4, <1>5, <1>6, <1>7, <1>8, <1>9, <1>10, <1>11,
     <1>12, <1>13, <1>14 DEF Next

\* Every step keeps the two directions of the store in agreement.
LEMMA LeadsBackStep ==
    ASSUME TypeOK, Users, OneWriter, Transactions, AddressLeadsBack, [Next]_vars
    PROVE  AddressLeadsBack'
<1>1. ASSUME NEW p \in Pools, NEW h \in Hosts, Lookup(p, h) PROVE AddressLeadsBack'
  BY <1>1, NoneAssumption DEF Lookup, LookingUp, Goto, TypeOK, Users,
     OneWriter, Transactions, AddressLeadsBack, At, poolVars, storeVars
<1>2. ASSUME NEW p \in Pools, Advance(p) PROVE AddressLeadsBack'
  BY <1>2, NoneAssumption DEF Advance, Goto, Given, TypeOK, Users,
     OneWriter, Transactions, AddressLeadsBack, At, storeVars
<1>3. ASSUME NEW p \in Pools, DelByIP(p) PROVE AddressLeadsBack'
  BY <1>3, NoneAssumption DEF DelByIP, Goto, TypeOK, Users, OneWriter,
     Transactions, AddressLeadsBack, At, poolVars, history
<1>4. ASSUME NEW p \in Pools, PutByIP(p) PROVE AddressLeadsBack'
  BY <1>4, NoneAssumption DEF PutByIP, Goto, Given, TypeOK, Users,
     OneWriter, Transactions, AddressLeadsBack, At, poolVars
<1>5. ASSUME NEW p \in Pools, PutByHost(p) PROVE AddressLeadsBack'
  BY <1>5, NoneAssumption DEF PutByHost, Goto, TypeOK, Users, OneWriter,
     Transactions, AddressLeadsBack, At, poolVars, history
<1>6. ASSUME NEW p \in Pools, FlushStore(p) PROVE AddressLeadsBack'
  BY <1>6, NoneAssumption DEF FlushStore, EmptyStore, LookingUp, TypeOK,
     Users, OneWriter, Transactions, AddressLeadsBack, At, NoHosts,
     NoAddresses, poolVars
<1>7. ASSUME NEW p \in Pools, FlushOffset(p) PROVE AddressLeadsBack'
  BY <1>7, NoneAssumption DEF FlushOffset, TypeOK, Users, OneWriter,
     Transactions, AddressLeadsBack, At, NoHosts, storeVars
<1>8. ASSUME NEW p \in Pools, StoreOffset(p) PROVE AddressLeadsBack'
  BY <1>8, NoneAssumption DEF StoreOffset, TypeOK, Users, OneWriter,
     Transactions, AddressLeadsBack, At, poolVars
<1>9. ASSUME NEW p \in Pools, StoreCycle(p) PROVE AddressLeadsBack'
  BY <1>9, NoneAssumption DEF StoreCycle, TypeOK, Users, OneWriter,
     Transactions, AddressLeadsBack, At, poolVars
<1>10. ASSUME NEW p \in Pools, NEW n \in Nets, New(p, n) PROVE AddressLeadsBack'
  BY <1>10, NoneAssumption DEF New, MustFlush, EmptyStore, LookingUp,
     TypeOK, Users, OneWriter, Transactions, AddressLeadsBack, At, NoHosts,
     NoAddresses, storeVars
<1>11. ASSUME NEW p \in Pools, Swap(p) PROVE AddressLeadsBack'
  BY <1>11, NoneAssumption DEF Swap, TypeOK, Users, OneWriter,
     Transactions, AddressLeadsBack, At, storeVars, history
<1>12. ASSUME NEW p \in Pools, Drop(p) PROVE AddressLeadsBack'
  BY <1>12, NoneAssumption DEF Drop, TypeOK, Users, OneWriter,
     Transactions, AddressLeadsBack, At, storeVars
<1>13. CASE Die
  BY <1>13, NoneAssumption DEF Die, TypeOK, Users, OneWriter,
     Transactions, AddressLeadsBack, At, storeVars
<1>14. CASE UNCHANGED vars
  BY <1>14 DEF vars, TypeOK, Users, OneWriter, Transactions,
     AddressLeadsBack, At, poolVars, storeVars, history
<1> QED
  BY <1>1, <1>2, <1>3, <1>4, <1>5, <1>6, <1>7, <1>8, <1>9, <1>10, <1>11,
     <1>12, <1>13, <1>14 DEF Next

\* A stored state bounds what the store holds.
LEMMA StoredStateStep ==
    ASSUME TypeOK, Users, NoEarlyReuse, InRange, StoredState, [Next]_vars
    PROVE  StoredState'
<1>1. ASSUME NEW p \in Pools, NEW h \in Hosts, Lookup(p, h) PROVE StoredState'
  BY <1>1, NoneAssumption DEF Lookup, LookingUp, Goto, TypeOK, Users,
     StoredState, poolVars, storeVars
<1>2. ASSUME NEW p \in Pools, Advance(p) PROVE StoredState'
  BY <1>2, NoneAssumption DEF Advance, Goto, Given, TypeOK, Users,
     StoredState, storeVars
<1>3. ASSUME NEW p \in Pools, DelByIP(p) PROVE StoredState'
  BY <1>3, NoneAssumption DEF DelByIP, Goto, TypeOK, Users, StoredState,
     At, poolVars, history
<1>4. ASSUME NEW p \in Pools, PutByIP(p) PROVE StoredState'
  BY <1>4, NoneAssumption DEF PutByIP, Goto, Given, TypeOK, Users,
     StoredState, At, poolVars
<1>5. ASSUME NEW p \in Pools, PutByHost(p) PROVE StoredState'
  BY <1>5, NoneAssumption DEF PutByHost, Goto, TypeOK, Users, StoredState,
     At, poolVars, history
<1>6. ASSUME NEW p \in Pools, FlushStore(p) PROVE StoredState'
  BY <1>6, NoneAssumption DEF FlushStore, EmptyStore, LookingUp, TypeOK,
     Users, StoredState, NoHosts, poolVars
<1>7. ASSUME NEW p \in Pools, FlushOffset(p) PROVE StoredState'
  BY <1>7, NoneAssumption DEF FlushOffset, TypeOK, Users, StoredState,
     NoHosts, storeVars
<1>8. ASSUME NEW p \in Pools, StoreOffset(p) PROVE StoredState'
  BY <1>8, NoneAssumption DEF StoreOffset, TypeOK, Users, StoredState, At,
     poolVars
<1>9. ASSUME NEW p \in Pools, StoreCycle(p) PROVE StoredState'
  BY <1>9, NoneAssumption DEF StoreCycle, TypeOK, Users, StoredState, At,
     poolVars, NoEarlyReuse, InRange, Addresses, Offsets
<1>10. ASSUME NEW p \in Pools, NEW n \in Nets, New(p, n) PROVE StoredState'
  BY <1>10, NoneAssumption DEF New, MustFlush, EmptyStore, LookingUp,
     TypeOK, Users, StoredState, NoHosts, storeVars
<1>11. ASSUME NEW p \in Pools, Swap(p) PROVE StoredState'
  BY <1>11, NoneAssumption DEF Swap, TypeOK, Users, StoredState,
     storeVars, history
<1>12. ASSUME NEW p \in Pools, Drop(p) PROVE StoredState'
  BY <1>12, NoneAssumption DEF Drop, TypeOK, Users, StoredState, storeVars
<1>13. CASE Die
  BY <1>13, NoneAssumption DEF Die, TypeOK, Users, StoredState, storeVars
<1>14. CASE UNCHANGED vars
  BY <1>14 DEF vars, TypeOK, Users, StoredState, poolVars, storeVars,
     history
<1> QED
  BY <1>1, <1>2, <1>3, <1>4, <1>5, <1>6, <1>7, <1>8, <1>9, <1>10, <1>11,
     <1>12, <1>13, <1>14 DEF Next

\* A pool that knows what was given gives nothing twice before its range ends.
LEMMA NoEarlyReuseStep ==
    ASSUME TypeOK, Users, StoredState, NoEarlyReuse, [Next]_vars
    PROVE  NoEarlyReuse'
<1>1. ASSUME NEW p \in Pools, NEW h \in Hosts, Lookup(p, h) PROVE NoEarlyReuse'
  BY <1>1, RangeAssumption, NoneAssumption DEF Lookup, LookingUp, Goto,
     TypeOK, Users, StoredState, NoEarlyReuse, Addresses, Offsets, poolVars,
     storeVars
<1>2. ASSUME NEW p \in Pools, Advance(p) PROVE NoEarlyReuse'
  BY <1>2, RangeAssumption, NoneAssumption DEF Advance, Goto, Given,
     TypeOK, Users, StoredState, NoEarlyReuse, Addresses, Offsets, storeVars
<1>3. ASSUME NEW p \in Pools, DelByIP(p) PROVE NoEarlyReuse'
  BY <1>3, RangeAssumption, NoneAssumption DEF DelByIP, Goto, TypeOK,
     Users, StoredState, NoEarlyReuse, At, Addresses, Offsets, poolVars,
     history
<1>4. ASSUME NEW p \in Pools, PutByIP(p) PROVE NoEarlyReuse'
  BY <1>4, RangeAssumption, NoneAssumption DEF PutByIP, Goto, Given,
     TypeOK, Users, StoredState, NoEarlyReuse, At, Addresses, Offsets,
     poolVars
<1>5. ASSUME NEW p \in Pools, PutByHost(p) PROVE NoEarlyReuse'
  BY <1>5, RangeAssumption, NoneAssumption DEF PutByHost, Goto, TypeOK,
     Users, StoredState, NoEarlyReuse, At, Addresses, Offsets, poolVars,
     history
<1>6. ASSUME NEW p \in Pools, FlushStore(p) PROVE NoEarlyReuse'
  BY <1>6, RangeAssumption, NoneAssumption DEF FlushStore, EmptyStore,
     LookingUp, TypeOK, Users, StoredState, NoEarlyReuse, NoHosts, Addresses,
     Offsets, poolVars
<1>7. ASSUME NEW p \in Pools, FlushOffset(p) PROVE NoEarlyReuse'
  BY <1>7, RangeAssumption, NoneAssumption DEF FlushOffset, TypeOK, Users,
     StoredState, NoEarlyReuse, NoHosts, Addresses, Offsets, storeVars
<1>8. ASSUME NEW p \in Pools, StoreOffset(p) PROVE NoEarlyReuse'
  BY <1>8, RangeAssumption, NoneAssumption DEF StoreOffset, TypeOK, Users,
     StoredState, NoEarlyReuse, At, Addresses, Offsets, poolVars
<1>9. ASSUME NEW p \in Pools, StoreCycle(p) PROVE NoEarlyReuse'
  BY <1>9, RangeAssumption, NoneAssumption DEF StoreCycle, TypeOK, Users,
     StoredState, NoEarlyReuse, At, Addresses, Offsets, poolVars
<1>10. ASSUME NEW p \in Pools, NEW n \in Nets, New(p, n) PROVE NoEarlyReuse'
  BY <1>10, RangeAssumption, NoneAssumption DEF New, MustFlush,
     EmptyStore, LookingUp, TypeOK, Users, StoredState, NoEarlyReuse,
     NoHosts, Addresses, Offsets, storeVars
<1>11. ASSUME NEW p \in Pools, Swap(p) PROVE NoEarlyReuse'
  BY <1>11, RangeAssumption, NoneAssumption DEF Swap, TypeOK, Users,
     StoredState, NoEarlyReuse, Addresses, Offsets, storeVars, history
<1>12. ASSUME NEW p \in Pools, Drop(p) PROVE NoEarlyReuse'
  BY <1>12, RangeAssumption, NoneAssumption DEF Drop, TypeOK, Users,
     StoredState, NoEarlyReuse, Addresses, Offsets, storeVars
<1>13. CASE Die
  BY <1>13, RangeAssumption, NoneAssumption DEF Die, TypeOK, Users,
     StoredState, NoEarlyReuse, Addresses, Offsets, storeVars
<1>14. CASE UNCHANGED vars
  BY <1>14 DEF vars, TypeOK, Users, StoredState, NoEarlyReuse, Addresses,
     Offsets, poolVars, storeVars, history
<1> QED
  BY <1>1, <1>2, <1>3, <1>4, <1>5, <1>6, <1>7, <1>8, <1>9, <1>10, <1>11,
     <1>12, <1>13, <1>14 DEF Next

\* Such a pool finds no address of another range.
LEMMA InRangeStep ==
    ASSUME TypeOK, Users, StoredState, InRange, [Next]_vars
    PROVE  InRange'
<1>1. ASSUME NEW p \in Pools, NEW h \in Hosts, Lookup(p, h) PROVE InRange'
  BY <1>1, NoneAssumption DEF Lookup, LookingUp, Goto, TypeOK, Users,
     StoredState, InRange, Addresses, Offsets, poolVars, storeVars
<1>2. ASSUME NEW p \in Pools, Advance(p) PROVE InRange'
  BY <1>2, NoneAssumption DEF Advance, Goto, Given, TypeOK, Users,
     StoredState, InRange, Addresses, Offsets, storeVars
<1>3. ASSUME NEW p \in Pools, DelByIP(p) PROVE InRange'
  BY <1>3, NoneAssumption DEF DelByIP, Goto, TypeOK, Users, StoredState,
     InRange, At, Addresses, Offsets, poolVars, history
<1>4. ASSUME NEW p \in Pools, PutByIP(p) PROVE InRange'
  BY <1>4, NoneAssumption DEF PutByIP, Goto, Given, TypeOK, Users,
     StoredState, InRange, At, Addresses, Offsets, poolVars
<1>5. ASSUME NEW p \in Pools, PutByHost(p) PROVE InRange'
  BY <1>5, NoneAssumption DEF PutByHost, Goto, TypeOK, Users, StoredState,
     InRange, At, Addresses, Offsets, poolVars, history
<1>6. ASSUME NEW p \in Pools, FlushStore(p) PROVE InRange'
  BY <1>6, NoneAssumption DEF FlushStore, EmptyStore, LookingUp, TypeOK,
     Users, StoredState, InRange, NoHosts, Addresses, Offsets, poolVars
<1>7. ASSUME NEW p \in Pools, FlushOffset(p) PROVE InRange'
  BY <1>7, NoneAssumption DEF FlushOffset, TypeOK, Users, StoredState,
     InRange, NoHosts, Addresses, Offsets, storeVars
<1>8. ASSUME NEW p \in Pools, StoreOffset(p) PROVE InRange'
  BY <1>8, NoneAssumption DEF StoreOffset, TypeOK, Users, StoredState,
     InRange, At, Addresses, Offsets, poolVars
<1>9. ASSUME NEW p \in Pools, StoreCycle(p) PROVE InRange'
  BY <1>9, NoneAssumption DEF StoreCycle, TypeOK, Users, StoredState,
     InRange, At, Addresses, Offsets, poolVars
<1>10. ASSUME NEW p \in Pools, NEW n \in Nets, New(p, n) PROVE InRange'
  BY <1>10, NoneAssumption DEF New, MustFlush, EmptyStore, LookingUp,
     TypeOK, Users, StoredState, InRange, NoHosts, Addresses, Offsets,
     storeVars
<1>11. ASSUME NEW p \in Pools, Swap(p) PROVE InRange'
  BY <1>11, NoneAssumption DEF Swap, TypeOK, Users, StoredState, InRange,
     Addresses, Offsets, storeVars, history
<1>12. ASSUME NEW p \in Pools, Drop(p) PROVE InRange'
  BY <1>12, NoneAssumption DEF Drop, TypeOK, Users, StoredState, InRange,
     Addresses, Offsets, storeVars
<1>13. CASE Die
  BY <1>13, NoneAssumption DEF Die, TypeOK, Users, StoredState, InRange,
     Addresses, Offsets, storeVars
<1>14. CASE UNCHANGED vars
  BY <1>14 DEF vars, TypeOK, Users, StoredState, InRange, Addresses,
     Offsets, poolVars, storeVars, history
<1> QED
  BY <1>1, <1>2, <1>3, <1>4, <1>5, <1>6, <1>7, <1>8, <1>9, <1>10, <1>11,
     <1>12, <1>13, <1>14 DEF Next

-----------------------------------------------------------------------------
LEMMA InitIInv == Init => IInv
<1> SUFFICES ASSUME Init PROVE IInv
  OBVIOUS
<1>1. TypeOK
  <2>1. First - 1 \in Offsets
    BY RangeAssumption DEF Offsets
  <2>2. offset \in [Pools -> Offsets]
    BY <2>1 DEF Init
  <2> QED
    BY <2>2 DEF Init, TypeOK, NoHosts, NoAddresses
<1>2. Users /\ OneWriter /\ Transactions /\ AddressLeadsBack /\ StoredState
  BY DEF Init, Users, OneWriter, Transactions, AddressLeadsBack, StoredState,
         NoHosts, NoAddresses
<1>3. NoEarlyReuse /\ InRange
  BY DEF Init, NoEarlyReuse, InRange
<1> QED
  BY <1>1, <1>2, <1>3 DEF IInv

LEMMA StepIInv == IInv /\ [Next]_vars => IInv'
<1> SUFFICES ASSUME IInv, [Next]_vars PROVE IInv'
  OBVIOUS
<1> USE DEF IInv
<1> QED
  BY TypeStep, UsersStep, OneWriterStep, TransactionsStep, LeadsBackStep,
     StoredStateStep, NoEarlyReuseStep, InRangeStep

\* The invariant the others follow from.
THEOREM Inductive == Spec => []IInv
BY InitIInv, StepIInv, PTL DEF Spec

\* Every offset stays in the range, and the store holds addresses of ranges
\* only.
THEOREM TypeCorrect == Spec => []TypeOK
<1>1. IInv => TypeOK
  BY DEF IInv
<1> QED
  BY Inductive, <1>1, PTL

\* The two directions of the store agree in the middle of every lookup and
\* after a death at any point, if no two writers met.
THEOREM LeadsBack == Spec => []AddressLeadsBack
<1>1. IInv => AddressLeadsBack
  BY DEF IInv
<1> QED
  BY Inductive, <1>1, PTL

\* A pool made from a stored state or an empty store takes no host's address
\* before its range is used up.
THEOREM NoneReused == Spec => []NoEarlyReuse
<1>1. IInv => NoEarlyReuse
  BY DEF IInv
<1> QED
  BY Inductive, <1>1, PTL

\* Such a pool finds no address of another range in the store.
THEOREM NoForeignAddress == Spec => []InRange
<1>1. IInv => InRange
  BY DEF IInv
<1> QED
  BY Inductive, <1>1, PTL
=============================================================================
