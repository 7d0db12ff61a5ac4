---------------------------- MODULE ReplicaCache ----------------------------
(***************************************************************************)
(* The caches each replica keeps of what every page asks the database for  *)
(* (cache.py), dropped over the notification bus.  What a key stands for,  *)
(* and who changes it, is said by the modules that extend this one.        *)
(*                                                                         *)
(* An entry carries, for the properties alone, whether something this      *)
(* mechanism does not repair kept its replica from hearing of a change.    *)
(***************************************************************************)
EXTENDS NotificationBus

CONSTANTS
  Keys,
  TTL,      \* DEFAULT_TTL_SECONDS
  Latency,  \* how long a load may take
  MaxTime,  \* bound: the clock
  MaxFails, \* bound: statements, messages and connections that fail
  MaxLoads  \* bound: loads of a key under way in a replica

ASSUME CacheAssumption ==
  /\ {TTL, Latency} \subseteq Nat \ {0}
  /\ {MaxTime, MaxLoads, MaxFails} \subseteq Nat

VARIABLES
  now,
  entry,    \* ReplicaCache._entries
  loads,    \* the calls of load() that read the database and have not stored
  outbox,   \* the tasks of _publish
  owing,    \* keys whose change is committed and not yet dropped by its replica
  changed,  \* when a key changed last
  failed    \* how many of these failed

cacheVars == <<now, entry, loads, outbox, owing, changed, failed>>

NoEntry == [value |-> {}, until |-> 0, deaf |-> FALSE]

\* The replicas are up, and hear one another.
CacheInit ==
  /\ listening = [r \in Replicas |-> TRUE]
  /\ inbox = [r \in Replicas |-> {}]
  /\ breaks = 0
  /\ now = 0
  /\ entry = [r \in Replicas |-> [k \in Keys |-> NoEntry]]
  /\ loads = [r \in Replicas |-> [k \in Keys |-> {}]]
  /\ outbox = [r \in Replicas |-> {}]
  /\ owing = [r \in Replicas |-> {}]
  /\ changed = [k \in Keys |-> 0]
  /\ failed = 0

Fails == failed < MaxFails /\ failed' = failed + 1

\* get: an entry answers until its time.
Usable(r, k) == entry[r][k].until > now

-----------------------------------------------------------------------------
(* A load: the SELECT, and later the entry, whatever was dropped meanwhile *)

Load(r, k, value) ==
  /\ ~Usable(r, k)
  /\ Cardinality(loads[r][k]) < MaxLoads
  /\ loads' = [loads EXCEPT ![r][k] = @ \cup {[value |-> value, since |-> now, late |-> FALSE]}]
  /\ UNCHANGED <<now, entry, outbox, owing, changed, failed, busVars>>

\* Mutant: a load stores for a lifetime and the time it took.
Store_FromItsEnd(r, k) ==
  \E l \in loads[r][k] :
    /\ entry' = [entry EXCEPT ![r][k] =
         [value |-> l.value, until |-> now + TTL + (now - l.since) + 1, deaf |-> l.late]]
    /\ loads' = [loads EXCEPT ![r][k] = @ \ {l}]
    /\ UNCHANGED <<now, outbox, owing, changed, failed, busVars>>

Store(r, k) ==
  \E l \in loads[r][k] :
    /\ entry' = [entry EXCEPT ![r][k] = [value |-> l.value, until |-> now + TTL, deaf |-> l.late]]
    /\ loads' = [loads EXCEPT ![r][k] = @ \ {l}]
    /\ UNCHANGED <<now, outbox, owing, changed, failed, busVars>>

\* A failing load is not kept.
LoadFails(r, k) ==
  \E l \in loads[r][k] :
    /\ loads' = [loads EXCEPT ![r][k] = @ \ {l}]
    /\ UNCHANGED <<now, entry, outbox, owing, changed, failed, busVars>>

-----------------------------------------------------------------------------
(* A change                                                                *)

\* The replica's call committed a statement that changes the keys.
Changes(r, ks) ==
  /\ owing' = [owing EXCEPT ![r] = @ \cup ks]
  /\ changed' = [k \in Keys |-> IF k \in ks THEN now ELSE changed[k]]
  /\ loads' = [q \in Replicas |-> [k \in Keys |->
       IF k \in ks THEN {[l EXCEPT !.late = TRUE] : l \in loads[q][k]} ELSE loads[q][k]]]

\* The replicas will not be told of the keys.
Deaf(qs, ks) ==
  entry' = [q \in Replicas |-> [k \in Keys |->
    IF q \in qs /\ k \in ks /\ Usable(q, k) THEN [entry[q][k] EXCEPT !.deaf = TRUE] ELSE entry[q][k]]]

\* Mutant: the replica that changes something leaves its own entry.
InvalidateEverywhere_Others(r, ks) ==
  /\ outbox' = [outbox EXCEPT ![r] = @ \cup ks]
  /\ owing' = [owing EXCEPT ![r] = @ \ ks]
  /\ UNCHANGED entry

\* invalidate_everywhere: dropped here, the message is a task of the loop.
InvalidateEverywhere(r, ks) ==
  /\ entry' = [entry EXCEPT ![r] = [k \in Keys |-> IF k \in ks THEN NoEntry ELSE @[k]]]
  /\ outbox' = [outbox EXCEPT ![r] = @ \cup ks]
  /\ owing' = [owing EXCEPT ![r] = @ \ ks]

\* The call raised before it dropped anything.
Abandon(r) ==
  /\ Deaf(Replicas, owing[r])
  /\ owing' = [owing EXCEPT ![r] = {}]

\* _publish: told to those who listen.
Send(r, k) ==
  /\ k \in outbox[r]
  /\ outbox' = [outbox EXCEPT ![r] = @ \ {k}]
  /\ Publish(r, k)
  /\ Deaf({q \in Replicas \ {r} : ~Hears(q, r)}, {k})
  /\ UNCHANGED <<now, loads, owing, changed, failed, listening, breaks>>

\* No connection to send with: logged, and nobody is told.
SendFails(r, k) ==
  /\ k \in outbox[r] /\ Fails
  /\ outbox' = [outbox EXCEPT ![r] = @ \ {k}]
  /\ Deaf(Replicas \ {r}, {k})
  /\ UNCHANGED <<now, loads, owing, changed, busVars>>

\* on_envelope
Drop(r) ==
  \E e \in inbox[r] :
    /\ Taken(r, e)
    /\ entry' = [entry EXCEPT ![r][e.kind] = NoEntry]
    /\ UNCHANGED <<now, loads, outbox, owing, changed, failed, listening, breaks>>

Connect(r) == Listen(r) /\ UNCHANGED cacheVars

Disconnect(r) ==
  /\ BreakOff(r) /\ Fails
  /\ Deaf({r}, {e.kind : e \in inbox[r]})
  /\ UNCHANGED <<now, loads, outbox, owing, changed>>

\* The process ends, and what it had still to say with it.
Forget(r) ==
  /\ Silence(r)
  /\ LET unsaid == owing[r] \cup outbox[r] IN
     entry' = [q \in Replicas |-> [k \in Keys |->
       IF q = r THEN NoEntry
       ELSE IF k \in unsaid /\ Usable(q, k) THEN [entry[q][k] EXCEPT !.deaf = TRUE] ELSE entry[q][k]]]
  /\ loads' = [loads EXCEPT ![r] = [k \in Keys |-> {}]]
  /\ outbox' = [outbox EXCEPT ![r] = {}]
  /\ owing' = [owing EXCEPT ![r] = {}]
  /\ UNCHANGED <<now, changed, failed>>

\* A second passes, unless a load has taken its time.  An entry that no longer
\* answers is as good as none.
Tick ==
  /\ now < MaxTime
  /\ \A r \in Replicas, k \in Keys : \A l \in loads[r][k] : now < l.since + Latency
  /\ now' = now + 1
  /\ entry' = [r \in Replicas |-> [k \in Keys |->
                IF entry[r][k].until > now + 1 THEN entry[r][k] ELSE NoEntry]]
  /\ UNCHANGED <<loads, outbox, owing, changed, failed, busVars>>

CacheNext ==
  \/ \E r \in Replicas :
       \/ \E k \in Keys : Store(r, k) \/ LoadFails(r, k) \/ Send(r, k) \/ SendFails(r, k)
       \/ Drop(r) \/ Connect(r) \/ Disconnect(r)
  \/ Tick

=============================================================================
