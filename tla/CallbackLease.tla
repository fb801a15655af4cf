--------------------------- MODULE CallbackLease ---------------------------
(***************************************************************************)
(* What the TUN handler promises about the objects the Android VPN service *)
(* lends to the Go core: a JNI global reference is created when a tunnel   *)
(* is started, called only while it exists, and deleted once, when nobody  *)
(* is inside a call through it.  Calling a deleted reference, or deleting  *)
(* one twice, aborts the process.                                          *)
(***************************************************************************)

CONSTANTS
    Leases,     \* the references
    Users       \* who may call through one

VARIABLES
    live,       \* the references that exist
    inside      \* for each reference, who is inside a call through it

vars == <<live, inside>>

Init ==
    /\ live = {}
    /\ inside = [l \in Leases |-> {}]

\* new_global
Grant(l) ==
    /\ l \notin live
    /\ live' = live \cup {l}
    /\ UNCHANGED inside

Enter(l, u) ==
    /\ l \in live
    /\ u \notin inside[l]
    /\ inside' = [inside EXCEPT ![l] = @ \cup {u}]
    /\ UNCHANGED live

Leave(l, u) ==
    /\ u \in inside[l]
    /\ inside' = [inside EXCEPT ![l] = @ \ {u}]
    /\ UNCHANGED live

\* release_object
Revoke(l) ==
    /\ l \in live
    /\ inside[l] = {}
    /\ live' = live \ {l}
    /\ UNCHANGED inside

Next ==
    \E l \in Leases :
        \/ Grant(l)
        \/ Revoke(l)
        \/ \E u \in Users : Enter(l, u) \/ Leave(l, u)

Spec == Init /\ [][Next]_vars
=============================================================================
