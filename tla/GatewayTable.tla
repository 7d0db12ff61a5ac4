---------------------------- MODULE GatewayTable ----------------------------
(***************************************************************************)
(* What the gateway decides about one request without asking anybody: which*)
(* route a path belongs to, the path and the headers a service is sent, and*)
(* whether a service believes the identity it reads there (table.py,       *)
(* headers.py, identity.py).                                               *)
(*                                                                         *)
(* A path is the sequence of its segments; a header is its kind and who    *)
(* wrote it.                                                               *)
(***************************************************************************)
EXTENDS Integers, FiniteSets, SequencesExt

CONSTANTS
  Climbs,      \* segments that decode to "." or "..", once or twice, or hold a backslash
  OwnPrefixes, \* OWN_PREFIXES: what the gateway answers itself
  MaxAge       \* DEFAULT_MAX_AGE_SECONDS

\* IDEMPOTENT_METHODS, and ALL_METHODS
Idempotent == {"GET", "HEAD", "OPTIONS", "PUT", "DELETE"}
AllMethods == Idempotent \cup {"POST", "PATCH"}

Nobody == "nobody"

-----------------------------------------------------------------------------
(* The table                                                               *)

\* GatewayRoute
GatewayRoutes ==
  [id : STRING, prefix : Seq(STRING), upstreams : Seq(Nat), methods : SUBSET AllMethods,
   source : {"config", "registered", "local"}, strip : BOOLEAN, session : BOOLEAN,
   permission : BOOLEAN, application : BOOLEAN, socket : BOOLEAN, limit : Nat, cooldown : Nat,
   adds : SUBSET STRING]

Covers(route, path) == IsPrefix(route.prefix, path)

SignedIn(route) == route.session \/ route.permission

UpstreamPath(route, path) ==
  IF route.strip THEN SubSeq(path, Len(route.prefix) + 1, Len(path)) ELSE path

Traverses(path) == ToSet(path) \cap Climbs # {}

\* match, of the routes at some places of the table: the longest prefix that covers the path,
\* of equal ones the first.
Match(routes, places, path) ==
  LET covering == {i \in places : Covers(routes[i], path)}
      precedes(i, j) == \/ Len(routes[i].prefix) > Len(routes[j].prefix)
                        \/ Len(routes[i].prefix) = Len(routes[j].prefix) /\ i <= j
  IN {routes[i] : i \in {k \in covering : \A j \in covering : precedes(k, j)}}

\* _route, _upstream, _flag, _positive: an entry that can be served.
Servable(entry) ==
  /\ entry.prefix # <<>> /\ ".." \notin ToSet(entry.prefix)
  /\ \A own \in OwnPrefixes : ~IsPrefix(own, entry.prefix) /\ ~IsStrictPrefix(entry.prefix, own)
  /\ entry.upstreams # <<>> /\ entry.methods \subseteq AllMethods
  /\ "identity" \notin entry.adds
  /\ entry.cooldown > 0 /\ entry.limit > 0

\* parse_table: every entry, and no id and no prefix twice.
Parsed(entries) ==
  /\ \A i \in DOMAIN entries : Servable(entries[i])
  /\ \A i, j \in DOMAIN entries : i # j =>
       entries[i].prefix # entries[j].prefix /\ entries[i].id # entries[j].id

\* GatewayService.reserved: a prefix the config or a plugin of this runtime holds.
PrefixHeld(routes, prefix) == \E i \in DOMAIN routes : routes[i].prefix = prefix

\* register_local: the routes a plugin's handler can be added to.
Addable(routes, route) ==
  Servable([route EXCEPT !.upstreams = <<"http://in-process">>]) /\ ~PrefixHeld(routes, route.prefix)

\* _build and initialize: a gateway that starts. What rests on the identity needs the
\* secret, and the registry needs the database.
Buildable(config) ==
  /\ Parsed(config.routes)
  /\ (\/ \E i \in DOMAIN config.routes : SignedIn(config.routes[i]) \/ config.routes[i].application
      \/ config.registry \/ config.announces) => config.secret
  /\ config.registry => config.datasource

\* get_api_routes: the config's routes are mounted, and the fallback for the others.
Mounted(config, local, path) ==
  \/ \E i \in DOMAIN config.routes : Covers(config.routes[i], path)
  \/ config.registry \/ local # <<>>

\* registration: what a service may register is a route of the table under a prefix
\* that neither the gateway nor the application (_answered_here) answers.
Registrable(routes, application, route) ==
  /\ Servable(route) /\ ~PrefixHeld(routes, route.prefix)
  /\ route.prefix \notin application

-----------------------------------------------------------------------------
(* Headers and identity                                                    *)

\* to_upstream: the connection's own, the framing's and the gateway's are not passed on.
Kept_Identity(given) == given \ {"hop", "named", "framing", "forwarded", "request-id"}
Kept(given) == given \ {"hop", "named", "framing", "identity", "forwarded", "request-id"}

ToUpstream(given, route, identity) ==
  {[kind |-> k, by |-> "client"] : k \in Kept(given)}
    \cup {[kind |-> k, by |-> "gateway"] : k \in {"forwarded", "request-id"}}
    \cup {[kind |-> k, by |-> "route"] : k \in route.adds}
    \cup (IF identity = {} THEN {} ELSE {[kind |-> "identity", by |-> "gateway"]})

\* sign_identity
Signed(who, at) == {[who |-> who, at |-> at]}

\* verify_identity: whom a service takes the caller for, and whom nobody signed for.
Verified(headers, identity, at) ==
  IF /\ [kind |-> "identity", by |-> "gateway"] \in headers
     /\ \A s \in identity : at - s.at <= MaxAge /\ s.at - at <= MaxAge
  THEN {s.who : s \in identity} ELSE {}

\* Whose the identity in the headers is.
Claimed(headers) == {h.by : h \in {g \in headers : g.kind = "identity"}}

=============================================================================
