------------------------- MODULE GatewayForwarding -------------------------
(***************************************************************************)
(* The gateway of one replica passing requests and sockets to the services *)
(* behind it: the table of all sources, the registered one a copy that is  *)
(* read again when it is old (GatewayService, Registry.routes), the turn   *)
(* and the cooldowns of the addresses (balancer.py), and the attempts a    *)
(* request may take (proxy.py, sockets.py).                                *)
(***************************************************************************)
EXTENDS GatewayTable

CONSTANTS
  Requests,   \* requests and sockets under way at once
  Asks,       \* what a client may ask
  Callers,    \* whom the kernel may recognise
  Config,     \* the config: its routes, and what it switches on
  Local,      \* the routes plugins of the runtime registered
  Application,\* the prefixes the application answers itself
  Registered, \* the route of the service in the registry, without its addresses
  Addresses,  \* the addresses it may be registered at
  Refresh,    \* REFRESH_SECONDS
  Latency,    \* how long reading the registry may take
  MaxTime,    \* bound: the clock
  MaxChanges  \* bound: registrations and withdrawals

\* The table's own routes, in its order.
Fixed == Config.routes \o Local

RouteIds == {Fixed[i].id : i \in DOMAIN Fixed} \cup {Registered.id}
Upstreams == (UNION {ToSet(Fixed[i].upstreams) : i \in DOMAIN Fixed}) \cup Addresses

ForwardingAssumption ==
  /\ {Refresh, Latency, MaxTime, MaxChanges, MaxAge} \subseteq Nat /\ Addresses \subseteq Nat
  /\ Config.routes \in Seq(GatewayRoutes) /\ Local \in Seq(GatewayRoutes)
  /\ Registered \in GatewayRoutes
  /\ Buildable(Config) /\ Config.registry
  /\ \A i \in DOMAIN Local : Addable(Config.routes \o SubSeq(Local, 1, i - 1), Local[i])
  /\ \A a \in Addresses : Registrable(Fixed, Application, [Registered EXCEPT !.upstreams = <<a>>])

VARIABLES
  now,
  rows,    \* the addresses the registry lists
  copy,    \* Registry._copy, as the addresses it was made of
  readAt,  \* Registry._read_at
  turn,    \* Balancer._turn
  cooling, \* Balancer._cooling
  req,     \* the requests
  since,   \* when each address was registered or taken back last
  changes

vars == <<now, rows, copy, readAt, turn, cooling, req, since, changes>>

Never == 0 - MaxTime - Refresh - 1

\* A request as it arrives. taken and overlooked are for the properties: whether some
\* address may have carried it out, and what had long changed in the registry when
\* the request was matched, unless the registry could not be read.
Blank(ask) ==
  [pc |-> "reading", ask |-> ask, began |-> now, saw |-> {}, routes |-> {}, identity |-> {},
   left |-> <<>>, to |-> 0, sent |-> {}, taken |-> FALSE, overlooked |-> {}]

Idle == [pc |-> "idle"]

Init ==
  /\ now = 0
  /\ rows \in SUBSET Addresses /\ copy = {} /\ readAt = Never
  /\ turn = [i \in RouteIds |-> 0]
  /\ cooling = [i \in RouteIds |-> [a \in Upstreams |-> 0]]
  /\ req = [q \in Requests |-> Idle]
  /\ since = [a \in Addresses |-> Never] /\ changes = 0

-----------------------------------------------------------------------------
(* The registry                                                            *)

\* A service is registered or taken back, here or at another replica.
Change ==
  /\ changes < MaxChanges /\ changes' = changes + 1
  /\ \E a \in Addresses, here \in BOOLEAN :
       /\ rows' = IF a \in rows THEN rows \ {a} ELSE rows \cup {a}
       /\ readAt' = IF here THEN Never ELSE readAt
       /\ since' = [since EXCEPT ![a] = now]
  /\ UNCHANGED <<now, copy, turn, cooling, req>>

\* routes(): one route, with all its addresses, in the order of the SELECT.
RegisteredRoutes(addresses) ==
  IF addresses = {} THEN <<>>
  ELSE <<[Registered EXCEPT !.upstreams = SetToSortSeq(addresses, <)]>>

\* GatewayService.table
Table(addresses) == Fixed \o RegisteredRoutes(addresses)

Fresh == now - readAt < Refresh

-----------------------------------------------------------------------------
(* A request                                                               *)

\* Answered, by the gateway or a service; nothing is kept of it.
Done == Idle

\* What no route of the gateway covers is another route's of the application, or 404.
Elsewhere == Done

\* A socket is matched against the routes that carry sockets.
Open(r, routes) == {i \in DOMAIN routes : r.ask.socket => routes[i].socket}

\* _handle and SocketProxy.handle, from the table to the first question put to
\* somebody else.
Matched(r, addresses, readable) ==
  LET found == Match(Table(addresses), Open(r, Table(addresses)), r.ask.path)
      known == [r EXCEPT !.routes = found, !.saw = {}, !.began = 0, !.overlooked =
        {a \in Addresses : /\ readable /\ (a \in addresses <=> a \notin rows)
                           /\ since[a] < r.began /\ since[a] <= now - Refresh}]
  IN IF found = {} THEN Elsewhere
     ELSE LET route == CHOOSE x \in found : TRUE IN
          IF ~r.ask.socket /\ r.ask.method \notin route.methods THEN Done
          ELSE [known EXCEPT !.pc = IF SignedIn(route) THEN "asking" ELSE "body"]

\* A path that climbs is refused before a route is chosen. A fresh copy is answered
\* at once; otherwise the registry is read.
Arrive(q) ==
  /\ req[q] = Idle
  /\ \E ask \in {a \in Asks : Mounted(Config, Local, a.path)} : req' = [req EXCEPT ![q] =
       IF Traverses(ask.path) THEN Done
       ELSE IF Fresh THEN Matched(Blank(ask), copy, TRUE) ELSE Blank(ask)]
  /\ UNCHANGED <<now, rows, copy, readAt, turn, cooling, since, changes>>

\* The SELECT.
ReadRows(q) ==
  /\ req[q].pc = "reading"
  /\ req' = [req EXCEPT ![q].pc = "read", ![q].saw = rows]
  /\ UNCHANGED <<now, rows, copy, readAt, turn, cooling, since, changes>>

\* The copy is replaced, under the time the reading began at.
Stamp_WhenRead(q) == now
Stamp(q) == req[q].began

ReadDone(q) ==
  /\ req[q].pc = "read"
  /\ copy' = req[q].saw /\ readAt' = Stamp(q)
  /\ req' = [req EXCEPT ![q] = Matched(req[q], req[q].saw, TRUE)]
  /\ UNCHANGED <<now, rows, turn, cooling, since, changes>>

\* Not read: the copy answers, however old it is.
ReadFails(q) ==
  /\ req[q].pc = "reading"
  /\ req' = [req EXCEPT ![q] = Matched(req[q], copy, FALSE)]
  /\ UNCHANGED <<now, rows, copy, readAt, turn, cooling, since, changes>>

RouteOf(q) == CHOOSE route \in req[q].routes : TRUE

\* _signed_in: whom the kernel recognises, and whether the checker gives the right
\* the route asks for.
Recognise(q) ==
  /\ req[q].pc = "asking"
  /\ \E who \in {Nobody} \cup Callers, allowed \in BOOLEAN : req' = [req EXCEPT ![q] =
       IF who = Nobody \/ (RouteOf(q).permission /\ ~allowed) THEN Done
       ELSE [req[q] EXCEPT !.pc = "body", !.identity = Signed(who, now)]]
  /\ UNCHANGED <<now, rows, copy, readAt, turn, cooling, since, changes>>

\* Balancer.order: from the turn on, those that are not cooling first.
Order(route) ==
  LET n == Len(route.upstreams)
      turned == [k \in 1 .. n |-> route.upstreams[((turn[route.id] + k - 1) % n) + 1]]
      live(a) == cooling[route.id][a] <= now
  IN SelectSeq(turned, live) \o SelectSeq(turned, LAMBDA a : ~live(a))

\* _body; and the path a service is sent may not climb either.
Refused(r, route) ==
  /\ ~r.ask.socket
  /\ r.ask.size > route.limit \/ Traverses(UpstreamPath(route, r.ask.path))

\* A local service is called, and whatever it answers or raises is the answer.
CallLocal(q) ==
  /\ req[q].pc = "body" /\ RouteOf(q).source = "local"
  /\ req' = [req EXCEPT ![q] = Done]
  /\ UNCHANGED <<now, rows, copy, readAt, turn, cooling, since, changes>>

\* The addresses are put in order, and the request is sent to the first.
Send(q) ==
  /\ req[q].pc = "body" /\ RouteOf(q).source # "local"
  /\ LET asked == req[q]  route == RouteOf(q)  order == Order(route) IN
       IF Refused(asked, route) THEN req' = [req EXCEPT ![q] = Done] /\ UNCHANGED turn
       ELSE /\ req' = [req EXCEPT ![q] =
                 [asked EXCEPT !.pc = "sending", !.left = Tail(order), !.to = Head(order),
                           !.sent = ToUpstream(asked.ask.headers, route, asked.identity)]]
            /\ turn' = [turn EXCEPT ![route.id] = (@ + 1) % Len(route.upstreams)]
  /\ UNCHANGED <<now, rows, copy, readAt, cooling, since, changes>>

\* The next address, or the answer of the last one.
Another(r) ==
  IF r.left = <<>> THEN Done ELSE [r EXCEPT !.to = Head(r.left), !.left = Tail(r.left)]

\* Only what may be done twice is asked of another address once it was sent.
Again_Always(r) == Another(r)
Again(r) == IF r.ask.method \in Idempotent THEN Another(r) ELSE Done

Failed(route, a) == cooling' = [cooling EXCEPT ![route.id][a] = now + route.cooldown]

\* No connection: nothing was sent.
Refuses(q) ==
  /\ req[q].pc = "sending"
  /\ req' = [req EXCEPT ![q] = Another(req[q])]
  /\ Failed(RouteOf(q), req[q].to)
  /\ UNCHANGED <<now, rows, copy, readAt, turn, since, changes>>

\* Sent, and no answer in time (504), a broken connection (502), or the answer of
\* an address that is not up to it (502, 503, 504), which is passed on.
Disappoints(q) ==
  /\ req[q].pc = "sending" /\ ~req[q].ask.socket
  /\ req' = [req EXCEPT ![q] = Again([req[q] EXCEPT !.taken = TRUE])]
  /\ Failed(RouteOf(q), req[q].to)
  /\ UNCHANGED <<now, rows, copy, readAt, turn, since, changes>>

\* A socket that an address takes is carried; a request is answered.
Taken(r) == IF r.ask.socket THEN [r EXCEPT !.pc = "carrying"] ELSE Done

Answers(q) ==
  /\ req[q].pc = "sending"
  /\ req' = [req EXCEPT ![q] = Taken(@)]
  /\ cooling' = [cooling EXCEPT ![RouteOf(q).id][req[q].to] = 0]
  /\ UNCHANGED <<now, rows, copy, readAt, turn, since, changes>>

\* _carry: whichever side closes, the other is closed with it.
Closes(q) ==
  /\ req[q].pc = "carrying"
  /\ req' = [req EXCEPT ![q] = Done]
  /\ UNCHANGED <<now, rows, copy, readAt, turn, cooling, since, changes>>

Reading(q) == req[q].pc \in {"reading", "read"}

\* A cooldown that is over is as good as none.
Tick ==
  /\ now < MaxTime /\ now' = now + 1
  /\ cooling' = [i \in RouteIds |-> [a \in Upstreams |-> IF cooling[i][a] > now' THEN cooling[i][a] ELSE 0]]
  /\ \A q \in Requests : Reading(q) => now - req[q].began < Latency
  /\ UNCHANGED <<rows, copy, readAt, turn, req, since, changes>>

Step(q) ==
  \/ ReadRows(q) \/ ReadDone(q) \/ ReadFails(q) \/ Recognise(q)
  \/ CallLocal(q) \/ Send(q) \/ Refuses(q) \/ Disappoints(q) \/ Answers(q) \/ Closes(q)

Next == Change \/ Tick \/ \E q \in Requests : Arrive(q) \/ Step(q)

Spec == Init /\ [][Next]_vars

-----------------------------------------------------------------------------
(* Properties                                                              *)

UnderWay(q) == req[q] # Idle

\* What cannot safely be done twice is not sent to a second address once a first may
\* have carried it out, however the addresses fail ("Methods a second address may be
\* asked again after the first one answered", table.py).
UnsafeIsSentOnce ==
  \A q \in Requests : UnderWay(q) /\ ~req[q].ask.socket /\ req[q].ask.method \notin Idempotent =>
    ~req[q].taken

\* A service registered or taken back REFRESH_SECONDS before is routed to, or not, by
\* every request that begins then, unless the registry could not be read: however
\* slow readings of the registry overtake one another (Registry.routes).
NothingOldIsOverlooked ==
  \A q \in Requests : UnderWay(q) => req[q].overlooked = {}

\* A service reads an identity exactly where the route asks for sign-in; it is the
\* gateway's, never the client's, and while it is recent it is believed to be of
\* the caller the gateway recognised (to_upstream, sign_identity, verify_identity).
ServiceKnowsTheCaller ==
  \A q \in Requests : UnderWay(q) /\ req[q].pc = "sending" =>
    LET asked == req[q] IN
      /\ Claimed(asked.sent) = IF SignedIn(RouteOf(q)) THEN {"gateway"} ELSE {}
      /\ \A s \in asked.identity : now - s.at <= MaxAge => Verified(asked.sent, asked.identity, now) = {s.who}

=============================================================================
