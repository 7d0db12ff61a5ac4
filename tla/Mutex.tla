-------------------------------- MODULE Mutex --------------------------------
(***************************************************************************)
(* What a distributed lock promises its callers: one of them at a time is  *)
(* inside.  src/locks.py is to implement this; DatabaseLockProofs shows    *)
(* under which conditions it does.                                         *)
(***************************************************************************)
CONSTANT Callers
VARIABLE inside      \* the callers inside the lock

Init == inside = {}

Enter(c) == inside = {} /\ inside' = {c}
Leave(c) == inside = {c} /\ inside' = {}

Next == \E c \in Callers : Enter(c) \/ Leave(c)

Spec == Init /\ [][Next]_inside
=============================================================================
