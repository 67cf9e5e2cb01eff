--------------------------- MODULE AbstractMutex ---------------------------
(***************************************************************************)
(* What a mutex shared by processes that may die promises: one owner, who  *)
(* gives the mutex back himself or, once dead, loses it to the recovery;   *)
(* and a process that is started again does not find itself the owner.     *)
(***************************************************************************)
CONSTANTS Procs, Free

VARIABLES
    owner,   \* Free or the process that holds the mutex
    dead     \* the processes that died and were not started again

vars == <<owner, dead>>

Init == owner = Free /\ dead = {}

Acquire(p) == p \notin dead /\ owner = Free /\ owner' = p /\ UNCHANGED dead

Release(p) == p \notin dead /\ owner = p /\ owner' = Free /\ UNCHANGED dead

Die(p) == p \notin dead /\ dead' = dead \cup {p} /\ UNCHANGED owner

Recover(p) == p \in dead /\ owner = p /\ owner' = Free /\ UNCHANGED dead

Restart(p) == p \in dead /\ owner # p /\ dead' = dead \ {p} /\ UNCHANGED owner

Next ==
    \E p \in Procs : Acquire(p) \/ Release(p) \/ Die(p) \/ Recover(p) \/ Restart(p)

Spec == Init /\ [][Next]_vars

=============================================================================
