---------------------------- MODULE FirstAnswer ----------------------------
(***************************************************************************)
(* What a race of several sources promises: the first good answer, and     *)
(* nothing only when every source failed or the time is up.                *)
(***************************************************************************)

CONSTANTS
    Askers,
    Sources,
    Answers,
    Nothing     \* the outcome when there was no answer in time

VARIABLES
    waitingFor,  \* the sources each asker has not heard of
    outcome      \* {} while open, else the set of the one outcome

vars == <<waitingFor, outcome>>

Init ==
    /\ waitingFor = [a \in Askers |-> {}]
    /\ outcome = [a \in Askers |-> {Nothing}]

Ask(a) ==
    /\ outcome[a] # {}
    /\ waitingFor' = [waitingFor EXCEPT ![a] = Sources]
    /\ outcome' = [outcome EXCEPT ![a] = {}]

Good(a, s, answer) ==
    /\ s \in waitingFor[a]
    /\ waitingFor' = [waitingFor EXCEPT ![a] = @ \ {s}]
    /\ outcome' = [outcome EXCEPT ![a] = IF @ = {} THEN {answer} ELSE @]

Bad(a, s) ==
    /\ s \in waitingFor[a]
    /\ waitingFor' = [waitingFor EXCEPT ![a] = @ \ {s}]
    /\ outcome' = [outcome EXCEPT ![a] =
                       IF @ = {} /\ waitingFor[a] = {s} THEN {Nothing} ELSE @]

TimeUp(a) ==
    /\ outcome[a] = {}
    /\ outcome' = [outcome EXCEPT ![a] = {Nothing}]
    /\ UNCHANGED waitingFor

Next ==
    \E a \in Askers :
        \/ Ask(a) \/ TimeUp(a)
        \/ \E s \in Sources : Bad(a, s) \/ \E answer \in Answers : Good(a, s, answer)

Spec == Init /\ [][Next]_vars
=============================================================================
