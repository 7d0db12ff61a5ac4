----------------------------- MODULE Assignments -----------------------------
(***************************************************************************)
(* What cluster control promises whoever gives a command: it is carried    *)
(* out at most once, by the replica it was given to, which carries out one *)
(* at a time.  One that was taken is never given out again, whatever       *)
(* became of whoever took it.  Cluster implements this.                    *)
(***************************************************************************)
CONSTANTS Workers, Commands, Nobody, Nothing

VARIABLES
  addressee, \* to whom each command was given
  spent,     \* what nobody may take any more: it was taken, or given up
  work       \* what each worker is carrying out

Init ==
  /\ addressee = [c \in Commands |-> Nobody]
  /\ spent = {}
  /\ work = [w \in Workers |-> Nothing]

Given == {c \in Commands : addressee[c] # Nobody}

Give(c, w) ==
  /\ addressee[c] = Nobody
  /\ addressee' = [addressee EXCEPT ![c] = w]
  /\ UNCHANGED <<spent, work>>

Take(w, c) ==
  /\ addressee[c] = w /\ c \notin spent /\ work[w] = Nothing
  /\ spent' = spent \cup {c}
  /\ work' = [work EXCEPT ![w] = c]
  /\ UNCHANGED addressee

GiveUp(some) ==
  /\ spent' = spent \cup some
  /\ UNCHANGED <<addressee, work>>

\* Carried out, or left as it is.
LeaveOff(w) ==
  /\ work' = [work EXCEPT ![w] = Nothing]
  /\ UNCHANGED <<addressee, spent>>

Next ==
  \/ \E c \in Commands, w \in Workers : Give(c, w) \/ Take(w, c)
  \/ \E some \in SUBSET (Given \ spent) : GiveUp(some)
  \/ \E w \in Workers : LeaveOff(w)

Spec == Init /\ [][Next]_<<addressee, spent, work>>
=============================================================================
