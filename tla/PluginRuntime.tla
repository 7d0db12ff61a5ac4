---------------------------- MODULE PluginRuntime ----------------------------
(***************************************************************************)
(* The start and the stop of one plugin runtime: src/kernel/lifecycle.py   *)
(* with the service registry of src/kernel/services.py, as the lifespan of *)
(* src/packages/keepup-http/keepup_http/factory.py drives them.            *)
(*                                                                         *)
(* A world is one deployment: what is installed, what the catalogue, the   *)
(* environment and the administrator say of each plugin.  The plugins      *)
(* themselves -- whether they construct, register, initialise, check --    *)
(* are the environment of this module and may fail at every call.          *)
(***************************************************************************)
EXTENDS Integers, FiniteSets, Sequences

CONSTANTS
  Plugins,    \* the plugins the catalogue declares
  None,       \* no plugin
  Services,   \* the service names
  Worlds,     \* the deployments a behaviour may start in
  Kind,       \* Kind[p] \in {"required", "optional", "transport"}
  Index,      \* Index[p]: place in the catalogue
  Priority,   \* Priority[p]: smaller initialises first
  Provides,   \* Provides[p]: [Services -> version], 0 when not provided
  Requires,   \* Requires[p]: [Services -> minimum version], 0 when not required
  Lazy,       \* the plugins that publish a factory instead of an object
  Faults      \* which of the environment's failures may happen

FaultKinds == {"construct", "register", "initialize", "check", "tables",
               "decisions", "mount"}

ASSUME PluginsAssumption ==
  /\ IsFiniteSet(Plugins)
  /\ None \notin Plugins
  /\ Kind \in [Plugins -> {"required", "optional", "transport"}]
  /\ Index \in [Plugins -> Nat]
  /\ Priority \in [Plugins -> Nat]
  /\ \A p, q \in Plugins : Index[p] = Index[q] => p = q
ASSUME ServicesAssumption ==
  /\ Provides \in [Plugins -> [Services -> Nat]]
  /\ Requires \in [Plugins -> [Services -> Nat]]
  /\ Lazy \subseteq Plugins
  /\ Faults \subseteq FaultKinds

\* What a deployment says of one plugin.  "both" names it in PLUGINS_ENABLE and
\* in PLUGINS_DISABLE; a dialect is compared with the configured database.
Saying == [origin   : {"none", "entry-point", "directory"},
           flag     : {"absent", "on", "off"},
           env      : {"none", "enable", "disable", "both"},
           dialect  : {"none", "chosen", "other"},
           override : {"none", "on", "off"}]
ASSUME WorldsAssumption == Worlds \subseteq [Plugins -> Saying]

VARIABLES
  world,        \* the deployment this runtime runs in
  stage,        \* how far the start or the stop has come
  todo,         \* plugins the loop of this stage has still to visit
  phased,       \* the states list of the phase being started
  enabled,      \* PluginState.enabled
  source,       \* PluginState.source
  loaded,       \* PluginState.loaded
  initialized,  \* PluginState.initialized
  outcome,      \* PluginState.outcome
  published,    \* ServiceRegistry._providers: the names each plugin published
  required,     \* ServiceRegistry._required
  built,        \* ServiceRegistry._built: who built the cached object of a name
  frozen,       \* ServiceRegistry._frozen
  handed,       \* handed[p][s]: whose object p was given for s
  initOrder,    \* Runtime._init_order
  cleaned       \* the plugins cleaned up, in order

decisionVars == <<enabled, source>>
serviceVars  == <<published, required, built, frozen>>
vars == <<world, stage, todo, phased, enabled, source, loaded, initialized,
          outcome, published, required, built, frozen, handed, initOrder,
          cleaned>>

Stages == {"new", "register1", "init1", "check1", "tables1",
           "decide2", "register2", "init2", "tables2", "freeze", "mount",
           "running", "stopping", "failed", "ended"}

Init ==
  /\ world \in Worlds
  /\ stage = "new" /\ todo = {} /\ phased = {}
  /\ enabled = [p \in Plugins |-> FALSE]
  /\ source = [p \in Plugins |-> "undecided"]
  /\ loaded = [p \in Plugins |-> FALSE]
  /\ initialized = [p \in Plugins |-> FALSE]
  /\ outcome = [p \in Plugins |-> "disabled"]
  /\ published = [p \in Plugins |-> {}] /\ required = {} /\ frozen = FALSE
  /\ built = [s \in Services |-> None]
  /\ handed = [p \in Plugins |-> [s \in Services |-> None]]
  /\ initOrder = <<>> /\ cleaned = <<>>

-----------------------------------------------------------------------------
(* The decision about one plugin: Runtime._enabled and enablement.resolve  *)

Installed(p)  == world[p].origin # "none"
EnvEnables(p) == world[p].env \in {"enable", "both"}
EnvDisables(p) == world[p].env \in {"disable", "both"}

Decided(on, who) == [on |-> on, source |-> who]

\* A required or transport plugin is enabled by being installed.
Library(p) ==
  CASE world[p].dialect # "none" -> Decided(world[p].dialect = "chosen", "config")
    [] EnvDisables(p)            -> Decided(FALSE, "not-installed")
    [] world[p].flag = "off"     -> Decided(FALSE, "config")
    [] EnvEnables(p)             -> Decided(TRUE, "env")
    [] Installed(p)              -> Decided(TRUE, "installed")
    [] world[p].flag = "on"      -> Decided(TRUE, "config")
    [] OTHER                     -> Decided(FALSE, "not-installed")

\* An optional one: the environment, the administrator, the file -- in this
\* order; the administrator is not heard when the overrides are unreadable.
Capability(p, readable) ==
  CASE world[p].dialect # "none" -> Decided(world[p].dialect = "chosen", "config")
    [] EnvDisables(p)            -> Decided(FALSE, "env")
    [] EnvEnables(p)             -> Decided(TRUE, "env")
    [] readable /\ world[p].override # "none"
                                 -> Decided(world[p].override = "on", "panel")
    [] world[p].flag # "absent"  -> Decided(world[p].flag = "on", "config")
    [] OTHER                     -> Decided(FALSE, "default")

Decision(p, readable) ==
  IF Kind[p] = "optional" THEN Capability(p, readable) ELSE Library(p)

\* PLUGINS_DISABLE names an installed plugin that may not be switched off.
Refused(p) ==
  /\ Kind[p] # "optional" /\ world[p].dialect = "none"
  /\ EnvDisables(p) /\ Installed(p)

\* _decide for the plugins of one phase: an enabled plugin that is not
\* installed is recorded and left out of the phase.
Decide(ps, readable) ==
  LET on(p) == Decision(p, readable).on
      missing(p) == on(p) /\ ~Installed(p) IN
  /\ enabled' = [p \in Plugins |-> IF p \in ps THEN on(p) ELSE enabled[p]]
  /\ source' = [p \in Plugins |-> IF p \in ps THEN Decision(p, readable).source
                                              ELSE source[p]]
  /\ outcome' = [p \in Plugins |-> IF p \in ps /\ missing(p) THEN "not_found"
                                                             ELSE outcome[p]]
  /\ phased' = {p \in ps : ~missing(p)}

-----------------------------------------------------------------------------
(* The service registry                                                    *)

Names(wants) == {s \in Services : wants[s] > 0}

ProvidersOf(s) == {p \in Plugins : s \in published[p]}

\* _providers[s] is in the order the plugins registered in.
RegistersBefore(p, q) ==
  \/ Kind[p] = "required" /\ Kind[q] # "required"
  \/ (Kind[p] = "required" <=> Kind[q] = "required") /\ Index[p] <= Index[q]

\* _best: the newest provider at or above the minimum, the first of equals.
Fit(s, minimum) == {p \in ProvidersOf(s) : Provides[p][s] >= minimum}
Best(s, minimum) ==
  CHOOSE p \in Fit(s, minimum) : \A q \in Fit(s, minimum) :
    \/ Provides[p][s] > Provides[q][s]
    \/ Provides[p][s] = Provides[q][s] /\ RegistersBefore(p, q)

\* has() of every requirement; what a plugin requires is marked required.
Satisfied(p) == \A s \in Names(Requires[p]) : Fit(s, Requires[p][s]) # {}

\* require(): a ready object, or the one object that was built for the name.
Handed(p, s) ==
  LET by == Best(s, Requires[p][s])
  IN  IF by \in Lazy /\ built[s] # None THEN built[s] ELSE by

\* check_duplicates: two providers of a service some plugin requires.
Clash == \E s \in required : Cardinality(ProvidersOf(s)) > 1

-----------------------------------------------------------------------------
(* The start                                                               *)

\* The loops over a phase: in catalogue order, or by priority with ties in
\* catalogue order.
FirstListed(p) == p \in todo /\ \A q \in todo : Index[p] <= Index[q]
FirstByPriority(p) ==
  /\ p \in todo
  /\ \A q \in todo : \/ Priority[p] < Priority[q]
                     \/ Priority[p] = Priority[q] /\ Index[p] <= Index[q]

\* A KernelError, or whatever start() lets through: the lifespan logs it and
\* boots the application without the kernel.
Fail == stage' = "failed" /\ todo' = {}

OfKinds(kinds) == {p \in Plugins : Kind[p] \in kinds}

\* start() up to the required phase's registration, with no await between.
DecideRequired ==
  /\ stage = "new"
  /\ LET ps == OfKinds({"required"})
         unmet(p) == /\ Decision(p, TRUE).on /\ ~Installed(p)
                     /\ world[p].flag = "on" IN
     IF \E p \in ps : Refused(p) \/ unmet(p)
       THEN Fail /\ UNCHANGED <<decisionVars, outcome, phased>>
       ELSE /\ Decide(ps, TRUE)
            /\ stage' = "register1" /\ todo' = phased'
  /\ UNCHANGED <<world, loaded, initialized, serviceVars, handed, initOrder,
                 cleaned>>

\* One turn of _register: construct the plugin and let it publish.  A register()
\* that raises half way leaves what it has published in the registry.
Register(p) ==
  /\ stage \in {"register1", "register2"} /\ FirstListed(p)
  /\ \/ /\ ~(enabled[p] /\ Installed(p))
        /\ todo' = todo \ {p}
        /\ UNCHANGED <<stage, loaded, outcome, published, required>>
     \/ /\ enabled[p] /\ Installed(p)
        /\ published' = [published EXCEPT ![p] = Names(Provides[p])]
        /\ required' = required \cup Names(Requires[p])
        /\ loaded' = [loaded EXCEPT ![p] = TRUE]
        /\ todo' = todo \ {p}
        /\ UNCHANGED <<stage, outcome>>
     \/ /\ enabled[p] /\ Installed(p)
        /\ \/ "construct" \in Faults /\ UNCHANGED published
           \/ /\ "register" \in Faults
              /\ \E half \in SUBSET Names(Provides[p]) :
                   published' = [published EXCEPT ![p] = half]
        /\ outcome' = [outcome EXCEPT ![p] = "failed"]
        /\ IF Kind[p] = "required"
             THEN Fail
             ELSE todo' = todo \ {p} /\ UNCHANGED stage
        /\ UNCHANGED <<loaded, required>>
  /\ UNCHANGED <<world, phased, decisionVars, initialized, built, frozen, handed,
                 initOrder, cleaned>>

\* check_duplicates and _refuse_substitutes, after the required phase.
Substitute(p) ==
  /\ p \in phased /\ loaded[p] /\ world[p].origin = "directory"
  /\ Names(Provides[p]) \cap required # {}

RegisteredRequired ==
  /\ stage = "register1" /\ todo = {}
  /\ IF Clash \/ \E p \in Plugins : Substitute(p)
       THEN Fail
       ELSE stage' = "init1" /\ todo' = {p \in phased : loaded[p]}
  /\ UNCHANGED <<world, phased, decisionVars, loaded, initialized, outcome,
                 serviceVars, handed, initOrder, cleaned>>

RegisteredOptional ==
  /\ stage = "register2" /\ todo = {}
  /\ stage' = "init2" /\ todo' = {p \in phased : loaded[p]}
  /\ UNCHANGED <<world, phased, decisionVars, loaded, initialized, outcome,
                 serviceVars, handed, initOrder, cleaned>>

\* One turn of _initialize.  The plugin is handed its services while it comes
\* up; that it says no, or raises, is an outcome and not an error.
Initialize(p) ==
  /\ stage \in {"init1", "init2"} /\ FirstByPriority(p)
  /\ todo' = todo \ {p}
  /\ \/ /\ ~Satisfied(p)
        /\ outcome' = [outcome EXCEPT ![p] = "unsatisfied"]
        /\ UNCHANGED <<initialized, handed, built, initOrder>>
     \/ /\ Satisfied(p)
        /\ handed' = [handed EXCEPT ![p] =
             [s \in Services |-> IF Requires[p][s] > 0 THEN Handed(p, s) ELSE None]]
        /\ built' = [s \in Services |->
             IF Requires[p][s] > 0 /\ Handed(p, s) \in Lazy THEN Handed(p, s)
                                                            ELSE built[s]]
        /\ \/ /\ initialized' = [initialized EXCEPT ![p] = TRUE]
              /\ outcome' = [outcome EXCEPT ![p] = "initialized"]
              /\ initOrder' = Append(initOrder, p)
           \/ /\ "initialize" \in Faults
              /\ outcome' = [outcome EXCEPT ![p] = "failed"]
              /\ UNCHANGED <<initialized, initOrder>>
  /\ UNCHANGED <<world, stage, phased, decisionVars, loaded, published, required,
                 frozen, cleaned>>

InitializedPhase ==
  /\ stage \in {"init1", "init2"} /\ todo = {}
  /\ IF stage = "init1"
       THEN stage' = "check1" /\ todo' = {p \in phased : initialized[p]}
       ELSE stage' = "tables2" /\ UNCHANGED todo
  /\ UNCHANGED <<world, phased, decisionVars, loaded, initialized, outcome,
                 serviceVars, handed, initOrder, cleaned>>

\* Mutant: a refused check() is recorded and does not count.
Check_OnlyRecords(p) ==
  /\ stage = "check1" /\ FirstByPriority(p)
  /\ todo' = todo \ {p}
  /\ \/ UNCHANGED <<outcome, initOrder>>
     \/ /\ "check" \in Faults
        /\ outcome' = [outcome EXCEPT ![p] = "failed"]
        /\ initOrder' = SelectSeq(initOrder, LAMBDA q : q # p)
  /\ UNCHANGED <<world, stage, phased, decisionVars, loaded, initialized,
                 serviceVars, handed, cleaned>>

\* One turn of _check_the_required; _stopped takes the plugin out of the order.
Check(p) ==
  /\ stage = "check1" /\ FirstByPriority(p)
  /\ todo' = todo \ {p}
  /\ \/ UNCHANGED <<initialized, outcome, initOrder>>
     \/ /\ "check" \in Faults
        /\ initialized' = [initialized EXCEPT ![p] = FALSE]
        /\ outcome' = [outcome EXCEPT ![p] = "failed"]
        /\ initOrder' = SelectSeq(initOrder, LAMBDA q : q # p)
  /\ UNCHANGED <<world, stage, phased, decisionVars, loaded, serviceVars, handed,
                 cleaned>>

\* _require_the_required.
RequireTheRequired ==
  /\ stage = "check1" /\ todo = {}
  /\ IF \E p \in phased : enabled[p] /\ ~initialized[p]
       THEN Fail
       ELSE stage' = "tables1" /\ UNCHANGED todo
  /\ UNCHANGED <<world, phased, decisionVars, loaded, initialized, outcome,
                 serviceVars, handed, initOrder, cleaned>>

\* _create_tables: the data source may refuse, and start() lets it through.
CreateTables ==
  /\ stage \in {"tables1", "tables2"}
  /\ \/ /\ stage' = IF stage = "tables1" THEN "decide2" ELSE "freeze"
        /\ UNCHANGED todo
     \/ "tables" \in Faults /\ Fail
  /\ UNCHANGED <<world, phased, decisionVars, loaded, initialized, outcome,
                 serviceVars, handed, initOrder, cleaned>>

\* _mark_required_services over the enabled plugins.
NeededBy(on) ==
  UNION {Names(Requires[p]) : p \in {q \in Plugins : on[q] /\ Installed(q)}}

\* The optional phase is decided with the administrator's overrides; every
\* service an enabled plugin requires is marked, and a provider of one that
\* only the panel switched on stops the start.
DecideOptional ==
  /\ stage = "decide2"
  /\ \E readable \in BOOLEAN :
       LET ps == OfKinds({"optional", "transport"})
           chosenByPanel(p) == /\ p \in phased' /\ source'[p] = "panel"
                               /\ enabled'[p]
                               /\ Names(Provides[p]) \cap required' # {} IN
       /\ readable \/ "decisions" \in Faults
       /\ IF \E p \in ps : Refused(p)
            THEN Fail /\ UNCHANGED <<decisionVars, outcome, phased, required>>
            ELSE /\ Decide(ps, readable)
                 /\ required' = required \cup NeededBy(enabled')
                 /\ IF \E p \in ps : chosenByPanel(p)
                      THEN Fail
                      ELSE stage' = "register2" /\ todo' = phased'
  /\ UNCHANGED <<world, loaded, initialized, published, built, frozen, handed,
                 initOrder, cleaned>>

\* freeze(), with the duplicates looked for once more.
Freeze ==
  /\ stage = "freeze"
  /\ IF Clash
       THEN Fail /\ UNCHANGED frozen
       ELSE stage' = "mount" /\ frozen' = TRUE /\ UNCHANGED todo
  /\ UNCHANGED <<world, phased, decisionVars, loaded, initialized, outcome,
                 published, required, built, handed, initOrder, cleaned>>

\* Contributions are collected and mounted: a declaration that is wrong, or a
\* mounter that raises, stops the start.
Mount ==
  /\ stage = "mount"
  /\ \/ stage' = "running" /\ UNCHANGED todo
     \/ "mount" \in Faults /\ Fail
  /\ UNCHANGED <<world, phased, decisionVars, loaded, initialized, outcome,
                 serviceVars, handed, initOrder, cleaned>>

-----------------------------------------------------------------------------
(* The stop                                                                *)

\* The lifespan ends: a kernel that started is stopped, one that did not is
\* not there to be stopped.
Shutdown ==
  /\ stage \in {"running", "failed"}
  /\ stage' = IF stage = "running" THEN "stopping" ELSE "ended"
  /\ UNCHANGED <<world, todo, phased, decisionVars, loaded, initialized, outcome,
                 serviceVars, handed, initOrder, cleaned>>

\* cleanup() of the last plugin that started, whether it raises or not.
CleanUp ==
  /\ stage = "stopping" /\ Len(cleaned) < Len(initOrder)
  /\ cleaned' = Append(cleaned, initOrder[Len(initOrder) - Len(cleaned)])
  /\ UNCHANGED <<world, stage, todo, phased, decisionVars, loaded, initialized,
                 outcome, serviceVars, handed, initOrder>>

\* Mutant: a cleanup that raises ends the stop.
Close_Early ==
  /\ stage = "stopping"
  /\ stage' = "ended"
  /\ initOrder' = <<>> /\ built' = [s \in Services |-> None]
  /\ UNCHANGED <<world, todo, phased, decisionVars, loaded, initialized, outcome,
                 published, required, frozen, handed, cleaned>>

\* aclose(): what was built is forgotten, and the order is cleared.
Close ==
  /\ stage = "stopping" /\ Len(cleaned) = Len(initOrder)
  /\ stage' = "ended"
  /\ initOrder' = <<>> /\ built' = [s \in Services |-> None]
  /\ UNCHANGED <<world, todo, phased, decisionVars, loaded, initialized, outcome,
                 published, required, frozen, handed, cleaned>>

Turn == \E p \in Plugins : Register(p) \/ Initialize(p) \/ Check(p)

Step ==
  \/ DecideRequired \/ RegisteredRequired \/ RegisteredOptional
  \/ InitializedPhase \/ RequireTheRequired \/ CreateTables \/ DecideOptional
  \/ Freeze \/ Mount \/ CleanUp \/ Close

Next == Turn \/ Step \/ Shutdown

Spec == Init /\ [][Next]_vars

\* Every hook of a plugin returns, and the loop goes on; nobody has to stop a
\* running application.
FairSpec == Spec /\ WF_vars(Turn \/ Step)

-----------------------------------------------------------------------------
(* Properties                                                              *)

TypeOK ==
  /\ world \in Worlds
  /\ stage \in Stages
  /\ phased \subseteq Plugins /\ todo \subseteq phased
  /\ enabled \in [Plugins -> BOOLEAN]
  /\ source \in [Plugins -> {"undecided", "config", "env", "panel", "installed",
                             "not-installed", "default"}]
  /\ loaded \in [Plugins -> BOOLEAN]
  /\ initialized \in [Plugins -> BOOLEAN]
  /\ outcome \in [Plugins -> {"disabled", "not_found", "failed", "unsatisfied",
                              "initialized"}]
  /\ published \in [Plugins -> SUBSET Services]
  /\ required \subseteq Services
  /\ built \in [Services -> Plugins \cup {None}]
  /\ frozen \in BOOLEAN
  /\ handed \in [Plugins -> [Services -> Plugins \cup {None}]]
  /\ initOrder \in Seq(Plugins) /\ cleaned \in Seq(Plugins)

Up == {"running", "stopping"}

\* "a deployment that cannot work is worse than one that does not start": a
\* runtime is up only with every required plugin that was switched on and is
\* installed, initialised, past its check() and in the order stop() will walk.
RequiredPluginsRun ==
  stage \in Up =>
    \A p \in Plugins :
      Kind[p] = "required" /\ enabled[p] /\ Installed(p) =>
        initialized[p] /\ \E i \in DOMAIN initOrder : initOrder[i] = p

\* However the two phases, the panel and failing register() calls mix: in a
\* runtime that is up, everyone who requires a service was handed the same
\* object, new enough for each of them, by the one plugin that publishes it.
OneObjectPerRequiredService ==
  stage \in Up =>
    \A p \in Plugins : initialized[p] =>
      \A s \in Names(Requires[p]) :
        /\ ProvidersOf(s) = {handed[p][s]}
        /\ Provides[handed[p][s]][s] >= Requires[p][s]

\* Who provides what some running plugin requires is decided in code: never by
\* an administrator's override, whichever phase the consumer is of.
PanelChoosesNoProvider ==
  stage \in Up =>
    \A p, q \in Plugins :
      initialized[p] /\ initialized[q] /\ source[p] = "panel"
        => Names(Provides[p]) \cap Names(Requires[q]) = {}

\* A stop reaches every plugin that is running, failing cleanups or not.
StopReachesEveryPlugin ==
  (stage = "stopping")
    ~> /\ stage = "ended"
       /\ {cleaned[i] : i \in DOMAIN cleaned} = {p \in Plugins : initialized[p]}

\* A runtime that is up is what its plugins declared, whoever decided what is on.
RunsAsDeclared ==
  RequiredPluginsRun /\ OneObjectPerRequiredService /\ PanelChoosesNoProvider

=============================================================================
