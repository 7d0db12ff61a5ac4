----------------------------- MODULE RouteCalls -----------------------------
(***************************************************************************)
(* A declared route, from the declaration to its handler: what the kernel   *)
(* collects (contributions.py), how it becomes an endpoint                  *)
(* (keepup_http/routes.py), what its mask admits (plugins/route_mask.py)    *)
(* and what a call of it does (kernel/call.py).                             *)
(*                                                                         *)
(* A plugin is run by the kernel, which collects its declarations, or by    *)
(* the application's manager, which binds them first, or by both. A value   *)
(* in a request is a small number, or one of those that are no number.      *)
(***************************************************************************)
EXTENDS Integers, Sequences, FiniteSets

CONSTANTS
  Declarations,  \* what plugins may declare
  Addresses,     \* what may be asked for: addresses with the declared paths they match
  Queries,       \* what may stand after the address: functions from names to values
  HasChecker     \* whether the deployment can decide a right

NaN == -1     \* "nan" or "inf", to float()
Word == -2    \* text that is no number
Actor == -3   \* who is signed in
Body == -4    \* the body of a write
Empty == -5   \* what is handed over where there is none to be read
Supplied == {"current_user", "request"}

\* add_api_route: the verbs in capitals
Upper(verbs) == {(CASE v = "get" -> "GET" [] v = "post" -> "POST" [] OTHER -> v) : v \in verbs}

\* The bounds of a number are numbers, and so is everything that is asked.  A declaration may
\* write its verbs as it likes, and its mask may name what the framework supplies.
RouteCallsAssumption ==
  /\ \A d \in Declarations :
       \A n \in DOMAIN d.mask : d.mask[n].min \in Nat /\ d.mask[n].max \in Nat
  /\ \A a \in Addresses : \A path \in a.matches :
       \A n \in DOMAIN a.values[path] : a.values[path][n] \in Int
  /\ \A query \in Queries : \A n \in DOMAIN query : query[n] \in Int

VARIABLES
  manager,  \* what the manager still has to bind
  kernel,   \* what the kernel collected and still has to mount
  declared, \* everything declared
  table,    \* the endpoints, in the order they were mounted
  phase,    \* "bind", "mount", "serve", or "stopped"
  answer    \* the last answer

vars == <<manager, kernel, declared, table, phase, answer>>

Unasked == [status |-> 0]

Lists == {<<>>} \cup {<<d>> : d \in Declarations} \cup {p \in Declarations \X Declarations : p[1] # p[2]}

\* The kernel's list begins with what the manager has too, or is another.
Init ==
  /\ manager \in Lists /\ kernel \in Lists
  /\ Len(manager) = 2 => kernel = manager
  /\ declared = {manager[i] : i \in DOMAIN manager} \cup {kernel[i] : i \in DOMAIN kernel}
  /\ table = <<>> /\ phase = "bind" /\ answer = Unasked

-----------------------------------------------------------------------------
(* The mask                                                                *)

\* Every comparison with NaN is false.
Below(a, b) == a # NaN /\ b # NaN /\ a < b

\* Whether the value is one of the type; a flag is not a number, and NaN is none.
Converts(type, v) == type = "str" \/ v >= 0

\* Parameter.admit; min and max apply to numbers alone.
Admits(p, v) ==
  /\ Converts(p.type, v)
  /\ p.choices = {} \/ v \in p.choices
  /\ p.type \in {"int", "float"} => ~Below(v, p.min) /\ ~Below(p.max, v)

\* Where a parameter arrives from decides whether it may be absent.
Required(p) == p.source = "path" \/ p.required

\* What Mask.admit complains of: names the route does not take, values missing or not allowed.
Complaints(mask, params) ==
  (DOMAIN params \ (DOMAIN mask \cup Supplied))
    \cup {n \in DOMAIN mask : n \notin DOMAIN params /\ Required(mask[n])}
    \cup {n \in DOMAIN mask \cap DOMAIN params : ~Admits(mask[n], params[n])}

\* Parameter: a constraint that does not fit the type, or a source the path contradicts, is
\* a mistake of the declaration.
ParameterIsRight(d, n) ==
  LET p == d.mask[n] IN
  /\ n \in d.names => p.source = "path"
  /\ p.type \in {"int", "float"} => p.min <= p.max
  /\ \A v \in p.choices : Converts(p.type, v)

\* parse, check_signature: so is a mask that leaves out what stands in the path, or names
\* what the handler does not take.
MaskIsRight(d) ==
  d.mask # <<>> =>
    /\ d.names \subseteq DOMAIN d.mask
    /\ \A n \in DOMAIN d.mask : ParameterIsRight(d, n)
    /\ d.any \/ DOMAIN d.mask \subseteq d.takes

-----------------------------------------------------------------------------
(* Mounting                                                                *)

WriteMethods == {"POST", "PUT", "PATCH"}

\* What a route is, by its verbs; none of the known ones is answered with 501.
RouteKind(d) ==
  LET verbs == Upper(d.verbs) IN
  CASE "GET" \in verbs -> "read"
    [] "GET" \notin verbs /\ verbs \cap WriteMethods # {} -> "write"
    [] verbs = {"DELETE"} -> "delete"
    [] OTHER -> "none"

\* Mutant: the check of a raw route is forgotten.
Refused_NotRaw(d) ==
  \/ d.text /\ d.raw
  \/ d.right /\ d.auth = "no"
  \/ ~MaskIsRight(d)
  \/ d.raw /\ d.auth = "yes"

\* A declaration the runtime refuses: a media type nobody would use, a right nobody would
\* check, a mask, a sign-in nobody would make.
Refused(d) ==
  \/ d.text /\ d.raw
  \/ d.right /\ (d.raw \/ d.auth = "no")
  \/ ~MaskIsRight(d)
  \/ d.raw /\ d.auth = "yes"

Endpoint(d) ==
  [path |-> d.path, verbs |-> Upper(d.verbs), by |-> d,
   signed |-> ~d.raw /\ d.auth # "no" /\ RouteKind(d) # "none"]

Stop == phase' = "stopped" /\ UNCHANGED <<manager, kernel, declared, table, answer>>

\* register_plugin_routes
Bind ==
  /\ phase = "bind" /\ manager # <<>>
  /\ IF Refused(Head(manager)) THEN Stop
     ELSE /\ manager' = Tail(manager) /\ table' = Append(table, Endpoint(Head(manager)))
          /\ UNCHANGED <<kernel, declared, phase, answer>>

\* collect: a wrong mask stops the start before anything of the kernel's is mounted.
Collect ==
  /\ phase = "bind" /\ manager = <<>>
  /\ IF \A i \in DOMAIN kernel : MaskIsRight(kernel[i])
     THEN phase' = "mount" /\ UNCHANGED <<manager, kernel, declared, table, answer>>
     ELSE Stop

\* Whether the application answers this address, and these verbs as they are declared.
AlreadyMounted(d) == \E i \in DOMAIN table : table[i].path = d.path /\ table[i].verbs = d.verbs

\* register_declared_routes
Mount ==
  /\ phase = "mount" /\ kernel # <<>>
  /\ IF ~AlreadyMounted(Head(kernel)) /\ Refused(Head(kernel)) THEN Stop
     ELSE /\ kernel' = Tail(kernel)
          /\ table' = IF AlreadyMounted(Head(kernel)) THEN table ELSE Append(table, Endpoint(Head(kernel)))
          /\ UNCHANGED <<manager, declared, phase, answer>>

Serve == phase = "mount" /\ kernel = <<>> /\ phase' = "serve" /\ UNCHANGED <<manager, kernel, declared, table, answer>>

-----------------------------------------------------------------------------
(* A call                                                                  *)

\* The first endpoint whose path matches and that has the verb
Chosen(a, verb) ==
  LET able == {i \in DOMAIN table : table[i].path \in a.matches /\ verb \in table[i].verbs} IN
  {i \in able : \A j \in able : i <= j}

\* The query first and the address over it.
Params(fromPath, query) ==
  [n \in DOMAIN fromPath \cup DOMAIN query |-> IF n \in DOMAIN fromPath THEN fromPath[n] ELSE query[n]]

\* A handler without a mask is given what it takes, one of **kwargs everything.
Taken(d, params) == d.any \/ DOMAIN params \subseteq d.takes \cup {"current_user"}

Without(f, names) == [n \in DOMAIN f \ names |-> f[n]]

\* The values that reach the handler: admit, of the mask or of the signature
Values(d, params) ==
  IF d.mask # <<>> THEN [n \in DOMAIN d.mask \cap DOMAIN params |-> params[n]]
  ELSE IF d.any THEN params ELSE Without(params, {"current_user"})

\* json_body: what a write brings, which is nothing where the type is not JSON or the body
\* cannot be read. An upload is handed the request itself.
Bodies(d) == IF RouteKind(d) # "write" THEN {0} ELSE IF d.upload THEN {Body} ELSE {Body, Empty}

\* With the caller and, for a write, the body.
Arguments(d, params, actor, body) ==
  LET written == RouteKind(d) = "write"  signed == actor # 0 IN
  [n \in DOMAIN Values(d, params) \cup {m \in {"request"} : written} \cup {m \in {"current_user"} : signed} |->
     CASE n = "request" /\ written     -> body
       [] n = "current_user" /\ signed -> actor
       [] OTHER                        -> Values(d, params)[n]]

Says(status) == [status |-> status]

\* What a call may be answered with; the handler runs where it is given something.
Outcomes(e, fromPath, query, actor) ==
  LET d == e.by  params == Params(fromPath, query) IN
  CASE RouteKind(d) = "none" /\ ~d.raw -> {Says(501)}
    [] d.raw -> {[status |-> 200, by |-> d, given |-> <<>>, path |-> fromPath, actor |-> 0, checked |-> FALSE]}
    [] e.signed /\ actor = 0 /\ ~d.raw /\ RouteKind(d) # "none" -> {Says(401)}
    [] OTHER ->
         LET who == IF e.signed THEN actor ELSE 0
             right == IF d.mask = <<>> THEN Taken(d, params) ELSE Complaints(d.mask, params) = {}
             runs == {[status |-> 200, by |-> d, given |-> Arguments(d, params, who, body), path |-> fromPath,
                       actor |-> who, checked |-> d.right] : body \in Bodies(d)}
             \* a client that left while its body was read is answered by nobody
             left == IF RouteKind(d) = "write" /\ ~d.upload THEN {Says(499)} ELSE {}
         IN  left \cup
               IF ~right THEN {Says(400)}
               ELSE IF ~d.right THEN runs
               ELSE IF HasChecker THEN runs \cup {Says(403), Says(503)} ELSE {Says(500)}

Ask ==
  /\ phase = "serve"
  /\ \E a \in Addresses, verb \in {"GET", "POST", "PUT"}, query \in Queries, actor \in {0, Actor} :
       LET chosen == Chosen(a, verb) IN
       answer' \in
         IF chosen = {} THEN {Says(IF \E i \in DOMAIN table : table[i].path \in a.matches THEN 405 ELSE 404)}
         ELSE UNION {Outcomes(table[i], a.values[table[i].path], query, actor) : i \in chosen}
  /\ UNCHANGED <<manager, kernel, declared, table, phase>>

Next == Bind \/ Collect \/ Mount \/ Serve \/ Ask

Spec == Init /\ [][Next]_vars

-----------------------------------------------------------------------------

Ran == answer.status = 200

\* What a masked handler's argument may be. Where the framework has a caller, or a body, no
\* request puts another in its place; where it has none and the mask names one (FRAMEWORK_SUPPLIED
\* keeps no declaration from that), it is a parameter like the others.
AsMasked(n, v) ==
  CASE n = "current_user" /\ answer.actor # 0 -> v = answer.actor
    [] n = "request" /\ RouteKind(answer.by) = "write" -> v \in {Body, Empty}
    [] OTHER ->
         LET p == answer.by.mask[n] IN
         /\ n \in DOMAIN answer.by.mask
         /\ p.type \in {"int", "float"} => p.min <= v /\ v <= p.max
         /\ n \in DOMAIN answer.path => v = answer.path[n]

\* A handler runs as its plugin declared it.  Where the route wants a right, it runs for
\* nobody who is not signed in, and for nobody the deployment was not asked about, whatever
\* else was declared beside it (_mount_route, create_wrapper, invoke).  Where the route has
\* a mask, what it is given lies within the mask, is the address's own value where the
\* address has one, and names the caller and the body as the framework knows them, if it does.
HandlerRunsAsDeclared ==
  Ran =>
    /\ answer.by.right => answer.actor = Actor /\ answer.checked
    /\ answer.by.mask # <<>> => \A n \in DOMAIN answer.given : AsMasked(n, answer.given[n])

\* Once the application serves, every declaration is answered, at its path and by every one
\* of its verbs, and none of them is two endpoints, whoever collected it, unless it writes a
\* verb in lower case: what is mounted is then compared with what it is not (_already_mounted).
DeclarationsAnswerOnce ==
  phase = "serve" =>
    \A d \in declared :
      /\ \E i \in DOMAIN table : table[i].path = d.path /\ table[i].verbs = Upper(d.verbs)
      /\ Upper(d.verbs) = d.verbs => Cardinality({i \in DOMAIN table : table[i].by = d}) <= 1

\* What was declared is what answers, once, and nothing else runs.
ServesAsDeclared == HandlerRunsAsDeclared /\ DeclarationsAnswerOnce

=============================================================================
