--------------------------- MODULE NotificationBus ---------------------------
(***************************************************************************)
(* What the replicas tell one another: notification_bus.py over the        *)
(* LISTEN/NOTIFY connection of keepup_postgres/transport.py.               *)
(*                                                                         *)
(* An envelope names what happened and who says so, nothing more, so two   *)
(* of the same sender and kind are one.  It reaches the replicas that are  *)
(* listening when it is published; nothing is replayed, and each received  *)
(* envelope becomes a task of its own, so their order is lost.             *)
(***************************************************************************)
EXTENDS Integers, FiniteSets

CONSTANTS Replicas, MaxBreaks  \* bound: connections that break

ASSUME BreaksAssumption == MaxBreaks \in Nat

VARIABLES
  listening,  \* PostgresTransport.is_running
  inbox,      \* the envelopes on their way to a replica's subscribers
  breaks

busVars == <<listening, inbox, breaks>>

Envelope(r, kind) == [origin |-> r, kind |-> kind]

BusInit ==
  /\ listening = [r \in Replicas |-> FALSE]
  /\ inbox = [r \in Replicas |-> {}]
  /\ breaks = 0

\* _receive: a replica skips what it published itself.
Hears(q, r) == listening[q] /\ q # r

\* publish: NOTIFY goes to every connection that listens.
Publish(r, kind) ==
  inbox' = [q \in Replicas |->
    IF Hears(q, r) THEN inbox[q] \cup {Envelope(r, kind)} ELSE inbox[q]]

\* dispatch: one envelope of the inbox is handed to the subscribers.
Taken(r, e) ==
  /\ e \in inbox[r]
  /\ inbox' = [inbox EXCEPT ![r] = @ \ {e}]

\* _listen_forever opens the connection and adds the listener.
Listen(r) ==
  /\ ~listening[r]
  /\ listening' = [listening EXCEPT ![r] = TRUE]
  /\ UNCHANGED <<inbox, breaks>>

\* The connection is lost, and what was on its way with it.
BreakOff(r) ==
  /\ listening[r] /\ breaks < MaxBreaks
  /\ listening' = [listening EXCEPT ![r] = FALSE]
  /\ inbox' = [inbox EXCEPT ![r] = {}]
  /\ breaks' = breaks + 1

\* stop(): the application ends.
Silence(r) ==
  /\ listening' = [listening EXCEPT ![r] = FALSE]
  /\ inbox' = [inbox EXCEPT ![r] = {}]
  /\ UNCHANGED breaks

=============================================================================
