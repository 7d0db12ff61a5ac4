----------------------------- MODULE MCGateway -----------------------------
(* The gateway: who is listed in its registry (GatewayRegistry), and how it   *)
(* passes requests on to what is listed (GatewayForwarding).  The two share   *)
(* no variable; a behaviour is one of one of them, `which' says whose, and    *)
(* leaves the other's alone.                                                  *)
(* Two services announce themselves, one of which may claim the other's       *)
(* prefix, or one that the gateway's config has.  Two requests are passed     *)
(* on: by a config route with two addresses, a local one, and a service in   *)
(* the registry under the config route's prefix, which asks for sign-in.      *)
EXTENDS GatewayRegistry, Sequences, TLC

CONSTANTS app1, app2, shop, orders, taken, call1, call2
MCNameOf == app1 :> "shop" @@ app2 :> "orders"
MCPlansOf == app1 :> {{shop}, {shop, orders}} @@ app2 :> {{orders}, {orders, taken}}

VARIABLES which, now, rows, copy, readAt, turn, cooling, req, since, changes
forwardingVars == <<now, rows, copy, readAt, turn, cooling, req, since, changes>>

CONSTANTS
  Climbs, OwnPrefixes, MaxAge, Requests, Asks, Callers, Config, Local, Application, Registered,
  Addresses, Refresh, Latency, MaxTime, MaxChanges
Forwarding == INSTANCE GatewayForwarding

ASSUME ForwardingIsWellFormed == Forwarding!ForwardingAssumption

GatewayInit ==
  \/ /\ which = "registry" /\ Init
     /\ now = 0 /\ rows = 0 /\ copy = 0 /\ readAt = 0 /\ turn = 0
     /\ cooling = 0 /\ req = 0 /\ since = 0 /\ changes = 0
  \/ which = "forwarding" /\ Init /\ Forwarding!Init

GatewayNext ==
  \/ which = "registry" /\ Next /\ UNCHANGED <<which, forwardingVars>>
  \/ which = "forwarding" /\ Forwarding!Next /\ UNCHANGED <<which, vars>>

\* The fairness of GatewayRegistry!Fairness
GatewayFairness ==
  /\ WF_vars(which = "registry" /\ Tick)
  /\ \A x \in Apps :
       /\ WF_vars(which = "registry" /\ Wake(x))
       /\ WF_vars(which = "registry" /\ \E c \in Calls : Send(x, c))
  /\ \A c \in Calls : WF_vars(which = "registry" /\ c \in DOMAIN call /\ Serve(c))

GatewaySpec == GatewayInit /\ [][GatewayNext]_<<which, vars, forwardingVars>> /\ GatewayFairness

NothingOldIsOverlooked == which = "forwarding" => Forwarding!NothingOldIsOverlooked
UnsafeIsSentOnce == which = "forwarding" => Forwarding!UnsafeIsSentOnce
ServiceKnowsTheCaller == which = "forwarding" => Forwarding!ServiceKnowsTheCaller

-----------------------------------------------------------------------------
(* What is asked, and of which routes                                        *)

Route(id, prefix, upstreams, source) ==
  [id |-> id, prefix |-> prefix, upstreams |-> upstreams, source |-> source,
   methods |-> {"GET", "HEAD", "OPTIONS", "PUT", "DELETE", "POST"}, session |-> FALSE, permission |-> FALSE, strip |-> FALSE,
   socket |-> FALSE, application |-> FALSE, limit |-> 1, cooldown |-> 1, adds |-> {"plain"}]

MCConfig ==
  [routes |-> <<Route("shop", <<"api", "shop">>, <<1, 2>>, "config")>>,
   registry |-> TRUE, announces |-> FALSE, secret |-> TRUE, datasource |-> TRUE]
MCLocal == <<Route("local:notes", <<"notes">>, <<>>, "local")>>
MCFixed == MCConfig.routes \o MCLocal
MCRegistered == [Route("service:pay", <<"api", "shop", "pay">>, <<>>, "registered") EXCEPT !.permission = TRUE, !.socket = TRUE]
MCOwn == {<<"api", "admin", "gateway">>, <<"api", "gateway">>, <<"keepup-gateway">>}

Ask(method, path) ==
  [method |-> method, path |-> path, size |-> 1,
   socket |-> FALSE, headers |-> {"plain", "hop", "identity", "forwarded"}]

Shop == <<"api", "shop">>
Pay == <<"api", "shop", "pay">>
MCAsks == {
  Ask("POST", Shop), Ask("GET", Shop),
  [Ask("GET", Pay) EXCEPT !.socket = TRUE],
  Ask("GET", <<"notes", "x">>), Ask("GET", <<"notes", "..", "api">>)}

\* What parse_table refuses: the gateway's own, a prefix twice, an identity header.
ASSUME ~Forwarding!Servable([MCFixed[1] EXCEPT !.prefix = <<"api">>])
ASSUME ~Forwarding!Servable([MCFixed[1] EXCEPT !.prefix = <<"api", "gateway", "x">>])
ASSUME ~Forwarding!Servable([MCFixed[1] EXCEPT !.adds = {"identity"}])
ASSUME ~Forwarding!Parsed(<<MCFixed[1], [MCFixed[1] EXCEPT !.id = "other"]>>)
ASSUME ~Forwarding!Buildable([MCConfig EXCEPT !.secret = FALSE]) /\ ~Forwarding!Buildable([MCConfig EXCEPT !.datasource = FALSE])
ASSUME ~Forwarding!Addable(MCFixed, MCLocal[1])
ASSUME ~Forwarding!Mounted([MCConfig EXCEPT !.registry = FALSE], <<>>, <<"notes">>)
\* A body past the route's limit is not sent.
ASSUME \E ask \in {[Ask("POST", Shop) EXCEPT !.size = 2]} : Forwarding!Refused([ask |-> ask], MCFixed[1])
\* A path is matched on a segment's boundary, and by the longest prefix.
Matches(routes, path) == Forwarding!Match(routes, DOMAIN routes, path)
ASSUME Matches(MCFixed, <<"api", "shop2">>) = {}
ASSUME Matches(MCFixed \o <<MCRegistered>>, <<"api", "shop", "pay", "x">>) = {MCRegistered}
ASSUME Forwarding!UpstreamPath([MCFixed[1] EXCEPT !.strip = TRUE], Pay) = <<"pay">>
=============================================================================
