--------------------------- MODULE GatewayRegistry ---------------------------
(***************************************************************************)
(* The gateway's service registry and the services that announce           *)
(* themselves to it: keepup_gateway/registry.py, announcer.py and the      *)
(* registration route of plugin.py.                                        *)
(*                                                                         *)
(* An announcement is handled by one of the gateway's replicas, statement  *)
(* by statement, each committed by itself; others are handled meanwhile,   *)
(* those of the same service too, since the handler goes on when the       *)
(* announcer no longer waits for it.                                       *)
(*                                                                         *)
(* A row's life is expires_at less the time: positive while it is live.    *)
(***************************************************************************)
EXTENDS Integers, FiniteSets

CONSTANTS
  Apps,         \* announcing applications, one per address
  Prefixes,
  Calls,        \* bound: announcements under way at a time
  NameOf,       \* the service of an application
  PlansOf,      \* the sets of prefixes its config may name
  Reserved,     \* what the config or the application itself answers
  TTL,          \* ttl
  Interval,     \* between two announcements
  MaxHandling,  \* bound: how long the gateway is at one
  MaxBoots,     \* bound: starts of applications
  MaxErrors     \* bound: announcements that fail

ASSUME PlansAssumption == PlansOf \in [Apps -> SUBSET ((SUBSET Prefixes) \ {{}})]
ASSUME TimesAssumption ==
  /\ TTL \in Nat \ {0} /\ Interval \in Nat \ {0} /\ MaxHandling \in Nat
  /\ MaxBoots \in Nat /\ MaxErrors \in Nat

VARIABLES
  app,     \* the announcer: "off", "due", "waiting" for an answer or "asleep"
  plan,    \* the prefixes its process announces
  timer,   \* how long it has slept
  call,    \* the announcements under way
  life,    \* the rows of gateway_service
  boots, errors

vars == <<app, plan, timer, call, life, boots, errors>>

\* The rows of other services for a prefix.
Rivals(a, p) == {k \in DOMAIN life : k[2] = p /\ NameOf[k[1]] # NameOf[a]}

Without(f, S) == [x \in DOMAIN f \ S |-> f[x]]

Init ==
  /\ app = [a \in Apps |-> "off"]
  /\ plan = [a \in Apps |-> {}]
  /\ timer = [a \in Apps |-> 0]
  /\ call = [c \in {} |-> {}]
  /\ life = [k \in {} |-> 0]
  /\ boots = 0 /\ errors = 0

-----------------------------------------------------------------------------
(* The announcer                                                           *)

\* A process starts, with the config it finds.
Boot(a) ==
  /\ app[a] = "off" /\ boots < MaxBoots
  /\ \E P \in PlansOf[a] : plan' = [plan EXCEPT ![a] = P]
  /\ app' = [app EXCEPT ![a] = "due"]
  /\ boots' = boots + 1
  /\ UNCHANGED <<timer, call, life, errors>>

\* A request reaches a replica of the gateway.
Arrives(a, c, kind, awaited) ==
  /\ c \in Calls \ DOMAIN call
  /\ call' = [d \in DOMAIN call \cup {c} |->
       IF d = c THEN [pc |-> kind, app |-> a, plan |-> plan[a], left |-> plan[a],
                      age |-> 0, awaited |-> awaited, news |-> {}]
                ELSE call[d]]

\* send(ACTION_REGISTER): the moment, `now`, is the beginning of the call.
Send(a, c) ==
  /\ app[a] = "due"
  /\ app' = [app EXCEPT ![a] = "waiting"]
  /\ Arrives(a, c, "check", TRUE)
  /\ UNCHANGED <<plan, timer, life, boots, errors>>

\* The gateway is not reached: the announcer sleeps and tries again.
Unreached(a) ==
  /\ app[a] = "due" /\ errors < MaxErrors
  /\ errors' = errors + 1
  /\ app' = [app EXCEPT ![a] = "asleep"]
  /\ timer' = [timer EXCEPT ![a] = 0]
  /\ UNCHANGED <<plan, call, life, boots>>

Wake(a) ==
  /\ app[a] = "asleep" /\ timer[a] = Interval
  /\ app' = [app EXCEPT ![a] = "due"]
  /\ timer' = [timer EXCEPT ![a] = 0]
  /\ UNCHANGED <<plan, call, life, boots, errors>>

\* Nobody waits for the calls of a any more; the gateway does not notice.
Unawaited(a) ==
  [c \in DOMAIN call |-> IF call[c].app = a THEN [call[c] EXCEPT !.awaited = FALSE]
                                            ELSE call[c]]

\* The client's timeout.
GiveUp(a) ==
  /\ app[a] = "waiting"
  /\ \E c \in DOMAIN call : call[c].app = a /\ call[c].awaited /\ call[c].age > 0
  /\ call' = Unawaited(a)
  /\ app' = [app EXCEPT ![a] = "asleep"]
  /\ UNCHANGED <<plan, timer, life, boots, errors>>

\* stop(): the loop is cancelled, at its request as well, and the address is
\* taken back.
Stop(a, c) ==
  /\ app[a] # "off"
  /\ app' = [app EXCEPT ![a] = "off"]
  /\ timer' = [timer EXCEPT ![a] = 0]
  /\ c \in Calls \ DOMAIN call
  /\ call' = [d \in DOMAIN call \cup {c} |->
       IF d = c THEN [pc |-> "withdraw", app |-> a, plan |-> plan[a], left |-> {},
                      age |-> 0, awaited |-> FALSE, news |-> {}]
                ELSE Unawaited(a)[d]]
  /\ UNCHANGED <<plan, life, boots, errors>>

\* The process dies; its rows run out by themselves.
Crash(a) ==
  /\ app[a] # "off"
  /\ app' = [app EXCEPT ![a] = "off"]
  /\ timer' = [timer EXCEPT ![a] = 0]
  /\ call' = Unawaited(a)
  /\ UNCHANGED <<plan, life, boots, errors>>

-----------------------------------------------------------------------------
(* The gateway: Registry.register() and deregister()                       *)

\* The answer, whatever it is, sends an announcer that waits for it to sleep.
Answer(c) ==
  /\ app' = IF call[c].awaited THEN [app EXCEPT ![call[c].app] = "asleep"] ELSE app
  /\ call' = Without(call, {c})

Goes(c, pc, left) == call' = [call EXCEPT ![c].pc = pc, ![c].left = left]

\* reserved(), or a row of another service that was live when the call began.
Taken(c, p) ==
  p \in Reserved \/ \E k \in Rivals(call[c].app, p) : life[k] + call[c].age > 0

\* Mutant: the first prefix that is free lets the rest in.
Check_FirstOnly(c, p) ==
  /\ call[c].pc = "check" /\ p \in call[c].left
  /\ IF Taken(c, p) THEN Answer(c) ELSE Goes(c, "list", {}) /\ UNCHANGED app
  /\ UNCHANGED <<plan, timer, life, boots, errors>>

\* One SELECT per prefix; a prefix that is taken refuses the whole call.
Check(c, p) ==
  /\ call[c].pc = "check" /\ p \in call[c].left
  /\ IF Taken(c, p)
       THEN Answer(c)
       ELSE /\ Goes(c, IF call[c].left = {p} THEN "list" ELSE "check", call[c].left \ {p})
            /\ UNCHANGED app
  /\ UNCHANGED <<plan, timer, life, boots, errors>>

\* The prefixes of the address that the call does not name.
Dropped(c) == {p \in Prefixes \ call[c].plan : <<call[c].app, p>> \in DOMAIN life}

List(c) ==
  /\ call[c].pc = "list"
  /\ IF Dropped(c) = {} THEN Goes(c, "put", call[c].plan)
                        ELSE Goes(c, "delete", Dropped(c))
  /\ UNCHANGED <<app, plan, timer, life, boots, errors>>

Delete(c, p) ==
  /\ call[c].pc = "delete" /\ p \in call[c].left
  /\ life' = Without(life, {<<call[c].app, p>>})
  /\ IF call[c].left = {p} THEN Goes(c, "put", call[c].plan)
                           ELSE Goes(c, "delete", call[c].left \ {p})
  /\ UNCHANGED <<app, plan, timer, boots, errors>>

\* INSERT ... ON CONFLICT DO UPDATE.
Written(c, p) ==
  [k \in DOMAIN life \cup {<<call[c].app, p>>} |->
     IF k = <<call[c].app, p>> THEN TTL - call[c].age ELSE life[k]]

\* History: the calls under way have seen this row written.
Noticed(k) == [d \in DOMAIN call |-> [call[d] EXCEPT !.news = @ \cup {k}]]

Put(c, p) ==
  /\ call[c].pc = "put" /\ p \in call[c].left
  /\ life' = Written(c, p)
  /\ LET told == Noticed(<<call[c].app, p>>) IN
     IF call[c].left = {p}
       THEN /\ app' = IF call[c].awaited THEN [app EXCEPT ![call[c].app] = "asleep"]
                                         ELSE app
            /\ call' = Without(told, {c})
       ELSE /\ call' = [told EXCEPT ![c].left = @ \ {p}]
            /\ UNCHANGED app
  /\ UNCHANGED <<plan, timer, boots, errors>>

\* deregister(): one statement.
Withdraw(c) ==
  /\ call[c].pc = "withdraw"
  /\ life' = Without(life, {k \in DOMAIN life : k[1] = call[c].app})
  /\ Answer(c)
  /\ UNCHANGED <<plan, timer, boots, errors>>

\* Mutant: an error ends the announcer's loop.
Fails_ForGood(c) ==
  /\ errors < MaxErrors /\ errors' = errors + 1
  /\ app' = IF call[c].awaited THEN [app EXCEPT ![call[c].app] = "waiting"] ELSE app
  /\ call' = Without(call, {c})
  /\ UNCHANGED <<plan, timer, life, boots>>

\* A statement raises, or the replica is gone: what was committed stays.
Fails(c) ==
  /\ errors < MaxErrors /\ errors' = errors + 1
  /\ Answer(c)
  /\ UNCHANGED <<plan, timer, life, boots>>

-----------------------------------------------------------------------------

\* Time passes, but not while an announcement is due, nor beyond what the
\* gateway takes for one.
Tick ==
  /\ \A a \in Apps : app[a] # "due" /\ (app[a] = "asleep" => timer[a] < Interval)
  /\ \A c \in DOMAIN call : call[c].age < MaxHandling
  /\ timer' = [a \in Apps |-> IF app[a] = "asleep" THEN timer[a] + 1 ELSE timer[a]]
  /\ call' = [c \in DOMAIN call |-> [call[c] EXCEPT !.age = @ + 1]]
  /\ life' = [k \in DOMAIN life |->
                IF life[k] > -MaxHandling THEN life[k] - 1 ELSE life[k]]
  /\ UNCHANGED <<app, plan, boots, errors>>

Serve(c) ==
  \/ \E p \in Prefixes : Check(c, p) \/ Delete(c, p) \/ Put(c, p)
  \/ List(c) \/ Withdraw(c)

Next ==
  \/ \E a \in Apps :
       \/ Boot(a) \/ Unreached(a) \/ Wake(a) \/ GiveUp(a) \/ Crash(a)
       \/ \E c \in Calls : Send(a, c) \/ Stop(a, c)
  \/ \E c \in DOMAIN call : Serve(c) \/ Fails(c)
  \/ Tick

Spec == Init /\ [][Next]_vars

\* The announcer's loop goes on, and statements return.
Fairness ==
  /\ WF_vars(Tick)
  /\ \A a \in Apps : WF_vars(Wake(a)) /\ WF_vars(\E c \in Calls : Send(a, c))
  /\ \A c \in Calls : WF_vars(c \in DOMAIN call /\ Serve(c))

FairSpec == Spec /\ Fairness

-----------------------------------------------------------------------------
(* Properties                                                              *)

Rows == Apps \X Prefixes

CallRecord ==
  [pc : {"check", "list", "delete", "put", "withdraw"}, app : Apps, plan : SUBSET Prefixes,
   left : SUBSET Prefixes, age : 0..MaxHandling, awaited : BOOLEAN, news : SUBSET Rows]

\* Every variable in its range; a row lives for TTL at most, and a call is only
\* ever about to write a prefix that it names.
TypeOK ==
  /\ app \in [Apps -> {"off", "due", "waiting", "asleep"}]
  /\ plan \in [Apps -> SUBSET Prefixes]
  /\ \A a \in Apps : plan[a] = {} =>
       app[a] = "off" /\ \A c \in DOMAIN call : call[c].app # a
  /\ timer \in [Apps -> 0..Interval]
  /\ DOMAIN call \subseteq Calls
  /\ \A c \in DOMAIN call :
       /\ call[c] \in CallRecord
       /\ call[c].pc # "withdraw" => call[c].plan # {}
       /\ call[c].pc \in {"check", "put"} =>
            call[c].left # {} /\ call[c].left \subseteq call[c].plan
  /\ DOMAIN life \subseteq Rows
  /\ \A k \in DOMAIN life : life[k] \in -MaxHandling..TTL
  /\ boots \in Nat /\ errors \in Nat

\* A prefix is not taken from a service that holds it: when a call is about to
\* write a prefix, whoever else has a live row for it wrote that row while the
\* call was under way, not before.
NobodyIsRobbed ==
  \A c \in DOMAIN call : call[c].pc = "put" =>
    \A p \in call[c].left : \A k \in Rivals(call[c].app, p) :
      life[k] > 0 => k \in call[c].news

\* Two services that got one prefix by registering at once do not keep it: each
\* is refused for the other's sake until one of their rows runs out.
Contested(p) ==
  \E k, l \in DOMAIN life :
    k[2] = p /\ l[2] = p /\ NameOf[k[1]] # NameOf[l[1]] /\ life[k] > 0 /\ life[l] > 0
\* A service that stays up, and whose prefixes no other service claims, ends up
\* in the table for good: past conflicts, failures, late withdrawals and late
\* announcements of an earlier process have no lasting effect.
Uncontested(a) ==
  /\ app[a] # "off" /\ plan[a] \cap Reserved = {}
  /\ \A b \in Apps : NameOf[b] # NameOf[a] /\ app[b] # "off" => plan[a] \cap plan[b] = {}
Listed(a) == \A p \in plan[a] : <<a, p>> \in DOMAIN life /\ life[<<a, p>>] > 0
UncontestedIsListed == \A a \in Apps : <>[]Uncontested(a) => <>[]Listed(a)

\* "A registration is refused with 409 when its prefix is held by ... another
\* live service": no prefix belongs to two services.
OneServicePerPrefix == \A p \in Prefixes : ~Contested(p)

-----------------------------------------------------------------------------
(* The inductive invariant behind NobodyIsRobbed                           *)

\* What a call has found free: all it checked, and with the last check its plan.
Cleared(c) ==
  IF call[c].pc = "check" THEN call[c].plan \ call[c].left
  ELSE IF call[c].pc = "withdraw" THEN {} ELSE call[c].plan

\* Of a prefix found free, a rival's row that was live when the call began has
\* been written since.
FreeSinceTheCheck ==
  \A c \in DOMAIN call : \A p \in Cleared(c) : \A k \in Rivals(call[c].app, p) :
    life[k] + call[c].age > 0 => k \in call[c].news

IInv == TypeOK /\ FreeSinceTheCheck
=============================================================================
