------------------------------ MODULE RuleOrder ------------------------------
(***************************************************************************)
(* The rules added to a profile: the list ProfileAddedRules shows          *)
(* (lib/providers/database.dart), the rows and links the database keeps    *)
(* (lib/database/rules.dart) and the watched query between them.           *)
(*                                                                         *)
(* Every operation changes the shown list first and then sends a write to  *)
(* the database, which runs in an isolate of its own; the write makes the  *)
(* query run again, and its answer replaces the shown list.  A rule keeps  *)
(* in the list the key it had when the list was read, so a second          *)
(* operation may work with keys that a write under way is changing.        *)
(*                                                                         *)
(* The rules' texts are left out.  Identifiers grow (a snowflake), so a    *)
(* new rule's is above every older one's.                                  *)
(***************************************************************************)
EXTENDS Indexing, FiniteSets, SequencesExt

CONSTANTS MaxRules,   \* bound: identifiers that are given
          StartKeys,  \* the keys that rules may have when the page opens
          MaxCalls,   \* bound: operations of the user
          NoAnswer    \* not a list

ASSUME RuleOrderAssumption ==
  /\ MaxRules \in Nat /\ MaxCalls \in Nat
  /\ \A key \in StartKeys : IsKey(key) /\ Valid(key)

VARIABLES
  link,     \* the database: the profile's rules and the key in each one's link
  shown,    \* the provider's list, of [id, key]
  writes,   \* the calls the database has not executed, oldest first
  due,      \* TRUE when a write was executed after the query last ran
  answer,   \* what the query read and the provider has not received, or NoAnswer
  newest,   \* the largest identifier given to a rule
  refused,  \* TRUE when a drop was refused after the list last arrived
  calls     \* operations so far

vars == <<link, shown, writes, due, answer, newest, refused, calls>>

RuleIds == 1 .. MaxRules

\* ORDER BY order DESC, id DESC; nulls come last.
Before(r, s) == \/ Less(s.key, r.key)
                \/ r.key = s.key /\ r.id > s.id

\* The members of a set in a row, each ahead of those that follow.
Arranged(S, Ahead(_, _)) ==
  CHOOSE list \in [1 .. Cardinality(S) -> S] :
    \A i, j \in DOMAIN list : i < j => Ahead(list[i], list[j])

Rows(db) == {[id |-> r, key |-> db[r]] : r \in DOMAIN db}
Sorted(db) == Arranged(Rows(db), Before)

Ids(list) == [i \in DOMAIN list |-> list[i].id]
ShownIds == Range(Ids(shown))

Init ==
  /\ newest \in 0 .. MaxRules
  /\ \E ids \in SUBSET (1 .. newest) :
       /\ link \in [ids -> StartKeys \union {NoKey}]
       /\ \A r, s \in ids : r # s /\ link[r] = link[s] => link[r] = NoKey
  /\ shown = Sorted(link)
  /\ writes = <<>> /\ due = FALSE /\ answer = NoAnswer
  /\ refused = FALSE /\ calls = 0

\* What a write does to the database: _put resets the link's order even of
\* a rule it replaces, _order finds no row to update when the rule is gone.
Applied(db, write) ==
  CASE write.op = "put" -> [r \in DOMAIN db \union {write.id} |->
                              IF r = write.id THEN NoKey ELSE db[r]]
    [] write.op = "del" -> [r \in DOMAIN db \ write.ids |-> db[r]]
    [] write.op = "order" -> [r \in DOMAIN db |->
                                IF r = write.id THEN write.key ELSE db[r]]

Calls ==
  /\ calls < MaxCalls
  /\ calls' = calls + 1
  /\ UNCHANGED <<link, due, answer>>

Send(write) == writes' = Append(writes, write)

\* put with a new rule, which is shown first.
PutNew ==
  /\ Calls
  /\ newest < MaxRules
  /\ newest' = newest + 1
  /\ shown' = <<[id |-> newest + 1, key |-> NoKey]>> \o shown
  /\ Send([op |-> "put", id |-> newest + 1])
  /\ UNCHANGED refused

\* put with a rule whose text was edited: it keeps its place and its key in
\* the list.
PutEdited(id) ==
  /\ Calls
  /\ id \in ShownIds
  /\ Send([op |-> "put", id |-> id])
  /\ UNCHANGED <<shown, newest, refused>>

DelAll(ids) ==
  /\ Calls
  /\ ids \subseteq ShownIds
  /\ LET kept == Arranged({i \in DOMAIN shown : shown[i].id \notin ids}, <)
     IN shown' = [n \in DOMAIN kept |-> shown[kept[n]]]
  /\ Send([op |-> "del", ids |-> ids])
  /\ UNCHANGED <<newest, refused>>

Moved(from, to) == InsertAt(RemoveAt(shown, from), to, shown[from])
KeyAt(list, i) == IF i \in DOMAIN list THEN list[i].key ELSE NoKey

Dropped(from, to) ==
  /\ Calls
  /\ from \in DOMAIN shown /\ to \in DOMAIN shown /\ from # to
  /\ shown' = Moved(from, to)
  /\ UNCHANGED newest

\* Variant: the neighbours' keys are read from the list before the move.
OrderAmongOld(from, to) ==
  LET preOrder == KeyAt(shown, to - 1)
      nextOrder == KeyAt(shown, to + 1)
      newOrder == KeyBetween(nextOrder, preOrder)
  IN /\ Dropped(from, to)
     /\ ~Rejects(nextOrder, preOrder)
     /\ newOrder # NoKey
     /\ Send([op |-> "order", id |-> shown[from].id, key |-> newOrder])
     /\ UNCHANGED refused

\* order(oldIndex, newIndex).  Lists are shown from the largest key down,
\* so the lower bound is the key of the rule that follows.
Order(from, to) ==
  LET preOrder == KeyAt(Moved(from, to), to - 1)
      nextOrder == KeyAt(Moved(from, to), to + 1)
      newOrder == KeyBetween(nextOrder, preOrder)
  IN /\ Dropped(from, to)
     /\ ~Rejects(nextOrder, preOrder)
     /\ newOrder # NoKey
     /\ Send([op |-> "order", id |-> shown[from].id, key |-> newOrder])
     /\ UNCHANGED refused

\* generateKeyBetween throws after the list was changed: nothing is sent.
OrderThrows(from, to) ==
  LET preOrder == KeyAt(Moved(from, to), to - 1)
      nextOrder == KeyAt(Moved(from, to), to + 1)
  IN /\ Dropped(from, to)
     /\ \/ Rejects(nextOrder, preOrder)
        \/ KeyBetween(nextOrder, preOrder) = NoKey
     /\ refused' = TRUE
     /\ UNCHANGED writes

Drop(from, to) == Order(from, to) \/ OrderThrows(from, to)

\* The page is left and opened again: the provider is built anew, with an
\* empty list until its query answers.
Build ==
  /\ calls < MaxCalls
  /\ calls' = calls + 1
  /\ shown' = <<>> /\ due' = TRUE /\ answer' = NoAnswer /\ refused' = FALSE
  /\ UNCHANGED <<link, writes, newest>>

\* Variant: the query watches the table of the rules only, and not the links'.
ExecuteRulesOnly ==
  /\ writes # <<>>
  /\ link' = Applied(link, Head(writes))
  /\ writes' = Tail(writes)
  /\ due' = (due \/ Head(writes).op # "order")
  /\ UNCHANGED <<shown, answer, newest, refused, calls>>

Execute ==
  /\ writes # <<>>
  /\ link' = Applied(link, Head(writes))
  /\ writes' = Tail(writes)
  /\ due' = TRUE
  /\ UNCHANGED <<shown, answer, newest, refused, calls>>

Fetch ==
  /\ due
  /\ answer = NoAnswer
  /\ answer' = Sorted(link)
  /\ due' = FALSE
  /\ UNCHANGED <<link, shown, writes, newest, refused, calls>>

Emit ==
  /\ answer # NoAnswer
  /\ shown' = answer
  /\ answer' = NoAnswer
  /\ refused' = FALSE
  /\ UNCHANGED <<link, writes, due, newest, calls>>

User ==
  \/ PutNew
  \/ \E id \in RuleIds : PutEdited(id)
  \/ \E ids \in SUBSET RuleIds : ids # {} /\ DelAll(ids)
  \/ \E from, to \in RuleIds : Drop(from, to)
  \/ Build

Next == User \/ Execute \/ Fetch \/ Emit

Spec == Init /\ [][Next]_vars

\* The database isolate executes what it is sent and a watched query runs
\* and delivers; the user owes nothing.
FairSpec == Spec /\ WF_vars(Execute) /\ WF_vars(Fetch) /\ WF_vars(Emit)

-----------------------------------------------------------------------------

\* Every key in the database, or on its way there, is one that
\* _validateOrderKey accepts: a key that ended with a zero, or whose
\* integer part had the wrong length, would make every later drop beside
\* its rule throw.
KeysValid ==
  LET keys == {link[r] : r \in DOMAIN link} \union
              {w.key : w \in {v \in Range(writes) : v.op = "order"}}
  IN \A key \in keys : key = NoKey \/ Valid(key)

Settled == writes = <<>> /\ ~due /\ answer = NoAnswer /\ shown = Sorted(link)

DistinctKeys ==
  \A r, s \in DOMAIN link : r # s /\ link[r] = link[s] => link[r] = NoKey

\* A drop sticks: on a list that is what the database holds, whose rules
\* have distinct keys where they have one, a rule dropped at the top or
\* below a rule that has a key is accepted, and the key it is sent with
\* makes the query give the list as the user arranged it.
OrderSticks ==
  [][\A from, to \in RuleIds :
       /\ Drop(from, to)
       /\ Settled /\ DistinctKeys
       /\ to = 1 \/ KeyAt(Moved(from, to), to - 1) # NoKey
       => /\ writes' # <<>>
          /\ Ids(Sorted(Applied(link, Head(writes')))) = Ids(shown')]_vars

\* When the user has done, the list ends up as the database has it, unless
\* the last drop was refused: nothing is written then, no answer comes,
\* and the list goes on showing the order the user tried to give it.
ShownSettles == <>[](refused \/ shown = Sorted(link))

\* indexing.dart:185: "Second order key must be greater than the first".
\* On a list that is what the database holds, the keys of the rules that
\* come to lie around a dropped one ascend, so the key between exists.
NeighboursAscend ==
  [][\A from, to \in RuleIds :
       Settled /\ Drop(from, to)
       => ~Unordered(KeyAt(Moved(from, to), to + 1),
                     KeyAt(Moved(from, to), to - 1))]_vars
===============================================================================
