---------------------------- MODULE MCApplication ----------------------------
(* One process: its plugins are started and stopped (PluginRuntime), what     *)
(* they declare is bound and called (RouteCalls), and the body of a request   *)
(* is read up to a limit (BodyLimit).  The three share no variable.  A        *)
(* behaviour is one of one of them, the others at rest: `which' says whose.   *)
EXTENDS PluginRuntime, TLC

VARIABLES
  which,
  manager, kernel, declared, table, phase, answer,
  route, length, says, sent, gone, received, over, app, started, ran

CONSTANTS Declarations, Addresses, Queries, HasChecker
Routes == INSTANCE RouteCalls

CONSTANTS Lengths, Pieces, Limits, Default
Body == INSTANCE BodyLimit

ASSUME BodyLimits == Body!BodyLimitAssumption
ASSUME WellDeclared == Routes!RouteCallsAssumption

routesVars == <<manager, kernel, declared, table, phase, answer>>
bodyVars == <<route, length, says, sent, gone, received, over, app, started, ran>>

RoutesRest ==
  /\ manager = <<>> /\ kernel = <<>> /\ declared = {} /\ table = <<>>
  /\ phase = "bind" /\ answer = Routes!Unasked
BodyRest ==
  /\ route = [limit |-> Body!Undeclared, reads |-> FALSE] /\ length = 0 /\ says = 0
  /\ sent = 0 /\ gone = FALSE /\ received = [counted |-> 0, given |-> 0] /\ over = FALSE
  /\ app = "reads" /\ started = "nobody" /\ ran = FALSE
RuntimeRest == Init /\ world = CHOOSE w \in Worlds : TRUE

ApplicationInit ==
  \/ which = "runtime" /\ Init /\ RoutesRest /\ BodyRest
  \/ which = "routes" /\ RuntimeRest /\ Routes!Init /\ BodyRest
  \/ which = "body" /\ RuntimeRest /\ RoutesRest /\ Body!Init

ApplicationNext ==
  \/ which = "runtime" /\ Next /\ UNCHANGED <<which, routesVars, bodyVars>>
  \/ which = "routes" /\ Routes!Next /\ UNCHANGED <<which, vars, bodyVars>>
  \/ which = "body" /\ Body!Next /\ UNCHANGED <<which, vars, routesVars>>

\* The fairness of PluginRuntime!FairSpec; no other part has any.
ApplicationSpec ==
  /\ ApplicationInit /\ [][ApplicationNext]_<<which, vars, routesVars, bodyVars>>
  /\ WF_vars(which = "runtime" /\ (Turn \/ Step))

-----------------------------------------------------------------------------
(* The deployments                                                          *)

CONSTANTS db, driver, store, audit, http, source_, link, trail

MCKind == [p \in Plugins |-> CASE p \in {db, driver} -> "required"
                               [] p = http           -> "transport"
                               [] OTHER              -> "optional"]

\* The built-in catalogue lists the data source before its driver.
Place == <<db, driver, http, store, audit>>
MCIndex == [p \in Plugins |-> CHOOSE i \in 1..Len(Place) : Place[i] = p]
MCPriority == [p \in Plugins |-> CASE p = http   -> 1
                                   [] p = db     -> 4
                                   [] p = driver -> 5
                                   [] p = audit  -> 6
                                   [] p = store  -> 6]

Only(s, n) == [t \in Services |-> IF t = s THEN n ELSE 0]
NoService == [t \in Services |-> 0]

MCProvides == [p \in Plugins |-> CASE p = driver -> Only(link, 1)
                                   [] p = db     -> Only(source_, 1)
                                   [] p = store  -> Only(source_, 2)
                                   [] p = audit  -> Only(trail, 1)
                                   [] OTHER      -> NoService]
MCRequires == [p \in Plugins |-> CASE p = db    -> Only(link, 1)
                                   [] p = audit -> Only(source_, 1)
                                   [] p = http  -> Only(trail, 1)
                                   [] OTHER     -> NoService]
MCLazy == {store}

Said(o, f, e, d, r) ==
  [origin |-> o, flag |-> f, env |-> e, dialect |-> d, override |-> r]
NothingSaid == Said("entry-point", "absent", "none", "none", "none")

\* The driver may be missing, a file, another dialect's or switched off; the
\* second store is decided by each of those who may decide; the capability
\* may be a file, missing, or switched off in the panel.
DriverSaid ==
  {Said(o, "off", "none", "chosen", "none") :
     o \in {"none", "entry-point", "directory"}}
    \cup {Said("entry-point", "off", "none", "other", "none"),
          Said("entry-point", "absent", "disable", "none", "none"),
          Said("none", "on", "none", "none", "none"),
          Said("none", "absent", "enable", "none", "none"),
          NothingSaid}
StoreSaid ==
  {Said("entry-point", w[1], w[2], "none", w[3]) :
     w \in {<<"absent", "none", "none">>, <<"absent", "none", "on">>,
            <<"on", "none", "none">>, <<"on", "none", "off">>,
            <<"absent", "enable", "off">>, <<"on", "both", "on">>}}
AuditSaid ==
  {Said(o, "on", "none", "none", "none") :
     o \in {"none", "entry-point", "directory"}}
    \cup {Said("entry-point", "on", "none", "none", "off")}
DbSaid == {NothingSaid, Said("none", "absent", "none", "none", "none")}

MCWorlds ==
  {[p \in Plugins |-> CASE p = driver -> w[1] [] p = store -> w[2]
                        [] p = audit  -> w[3] [] p = db    -> w[4]
                        [] OTHER      -> NothingSaid] :
     w \in DriverSaid \X StoreSaid \X AuditSaid \X DbSaid}
  \cup {[[p \in Plugins |-> NothingSaid] EXCEPT
           ![http] = Said("entry-point", "absent", "disable", "none", "none")]}

-----------------------------------------------------------------------------
(* The declarations and the calls                                           *)

NotANumber == -1
AWord == -2
Endless == -1
ASSUME NotANumber = Routes!NaN /\ AWord = Routes!Word /\ Endless = Body!Unlimited
SomeLimits == {1, 2, Endless}

Plain == [path |-> "/things", names |-> {}, verbs |-> {"GET"}, takes |-> {"limit", "current_user", "request"}, any |-> FALSE,
          mask |-> <<>>, right |-> FALSE, raw |-> FALSE, auth |-> "unsaid", text |-> FALSE, upload |-> FALSE]

Limit == [type |-> "float", source |-> "any", required |-> FALSE, choices |-> {}, min |-> 1, max |-> 2]
Id == [type |-> "int", source |-> "path", required |-> FALSE, choices |-> {0, 1}, min |-> 0, max |-> 3]
Text == [type |-> "str", source |-> "any", required |-> TRUE, choices |-> {}, min |-> 0, max |-> 0]

Written == [Plain EXCEPT !.verbs = {"POST", "PUT"}]
Masked == [Plain EXCEPT !.mask = "limit" :> Limit, !.right = TRUE]
OneThing == [Plain EXCEPT !.path = "/things/{id}", !.names = {"id"}, !.takes = {"id", "current_user"}, !.mask = "id" :> Id]
Named == [OneThing EXCEPT !.verbs = {"post"}, !.any = TRUE, !.mask = "id" :> Id @@ "limit" :> Text]
Mine == [Plain EXCEPT !.path = "/things/mine", !.auth = "no", !.any = TRUE]
Upload == [Plain EXCEPT !.verbs = {"PUT"}, !.upload = TRUE]
Raw == [Plain EXCEPT !.path = "/things/mine", !.raw = TRUE, !.auth = "unsaid"]
Removed == [OneThing EXCEPT !.verbs = {"HEAD"}]
Callers == [Mine EXCEPT !.mask = "current_user" :> Limit @@ "request" :> Limit]

\* Declarations the runtime refuses
RawRight == [Raw EXCEPT !.right = TRUE]
RawSigned == [Raw EXCEPT !.auth = "yes"]
OpenRight == [Mine EXCEPT !.right = TRUE]
RawText == [Raw EXCEPT !.text = TRUE]
Misnamed == [Plain EXCEPT !.mask = "limits" :> Limit]
Undeclared == [OneThing EXCEPT !.mask = "limit" :> Limit]

Some == {Plain, Written, Masked, OneThing, Named, Mine, Upload, Raw, Removed, Callers,
         RawRight, RawSigned, OpenRight, RawText, Misnamed, Undeclared}

Things == [matches |-> {"/things"}, values |-> "/things" :> <<>>]
Thing(v) == [matches |-> {"/things/{id}"}, values |-> "/things/{id}" :> ("id" :> v)]
ThingMine == [matches |-> {"/things/{id}", "/things/mine"},
              values |-> "/things/{id}" :> ("id" :> AWord) @@ "/things/mine" :> <<>>]
Everywhere == {Things, Thing(1), Thing(2), ThingMine}

Values_ == {0, 2, 3, NotANumber, AWord}
Asked == {<<>>} \cup {"limit" :> v : v \in Values_} \cup {"id" :> 0, "id" :> 1, "current_user" :> 1, "request" :> 1, "more" :> 1}

-----------------------------------------------------------------------------
(* The properties of RouteCalls and BodyLimit, said of this process         *)

\* A start comes up or gives up, no combination of failures leaves it waiting; and a stop
\* reaches every plugin that is running.
StartsAndStops ==
  /\ (which = "runtime" /\ stage = "new") ~> (stage \in {"running", "failed"})
  /\ StopReachesEveryPlugin

ServesAsDeclared == Routes!ServesAsDeclared
LimitIsKept == Body!LimitIsKept
=============================================================================
