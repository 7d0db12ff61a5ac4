--------------------------- MODULE ServingProofs ---------------------------
(***************************************************************************)
(* What a replica serves. Of MCApplication, for every deployment, all      *)
(* failures, bodies, limits and requests: that the limit of a route is     *)
(* kept (BodyLimit), that a runtime which is up is what its plugins        *)
(* declared (PluginRuntime), and that what it mounts answers as declared   *)
(* (RouteCalls). Of PanelData, for any replicas, times, themes and         *)
(* sections: what the caches may answer, and what administrators' calls    *)
(* and starts leave of a role and of the active theme.                     *)
(***************************************************************************)
EXTENDS MCApplication, PanelData, FiniteSetTheorems, SequenceTheorems, WellFoundedInduction, TLAPS

-----------------------------------------------------------------------------
(* The limit of a body: what the middleware and the application know        *)

\* Types of the variables.
BodyTyped ==
  /\ route \in Body!Routes
  /\ received \in [counted : Nat, given : Nat]
  /\ over \in BOOLEAN /\ ran \in BOOLEAN
  /\ app \in {"reads", "handles", "returned", "failed", "done"}
  /\ started \in {"nobody", "route", "limit", "server"}

\* Nothing is handed over that was not counted, and what was fits the limit.
GivenFits == received.given <= received.counted /\ ~Body!Beyond(received.given)

\* A route whose body the framework reads is over before its handler, not after;
\* and what the handler did is past.
WorkComesLast ==
  ~route.reads =>
    /\ over => app \in {"failed", "done"} /\ ~ran
    /\ ran => app \in {"returned", "done"} /\ started # "limit"

\* Only the middleware ends a request, and where a limit was passed it says so.
AnswerIsSaid ==
  /\ Body!Beyond(says) => app = "done" /\ started = "limit"
  /\ started \in {"limit", "server"} => app = "done"
  /\ started = "server" => ~over
  /\ app = "done" => started # "nobody"

BodyIInv == BodyTyped /\ GivenFits /\ WorkComesLast /\ AnswerIsSaid

\* A limit is none, or a positive number of bytes.
LEMMA LimitIsPositive ==
  ASSUME Body!BodyLimitAssumption, BodyTyped
  PROVE  Body!Limit = Body!Unlimited \/ Body!Limit \in Nat \ {0}
BY DEF Body!BodyLimitAssumption, BodyTyped, Body!Routes, Body!Limit, Body!LimitFor, Body!Unlimited, Body!Undeclared

LEMMA BodyInit == Body!BodyLimitAssumption /\ Body!Init => BodyIInv
<1> SUFFICES ASSUME Body!BodyLimitAssumption, Body!Init PROVE BodyIInv
  OBVIOUS
<1>1. BodyTyped
  BY DEF Body!Init, BodyTyped
<1>2. ~Body!Beyond(0)
  BY <1>1, LimitIsPositive DEF Body!Beyond, Body!Unlimited
<1>3. GivenFits
  BY <1>2 DEF Body!Init, GivenFits
<1>4. WorkComesLast /\ AnswerIsSaid
  BY DEF Body!Init, WorkComesLast, AnswerIsSaid
<1> QED
  BY <1>1, <1>3, <1>4 DEF BodyIInv

\* What a piece leaves counted and handed over.
LEMMA PieceFits ==
  ASSUME Body!BodyLimitAssumption, BodyTyped, GivenFits, NEW n \in Pieces, Body!ReceivePiece(n)
  PROVE  GivenFits' /\ received' \in [counted : Nat, given : Nat]
<1>1. /\ n \in Nat /\ received.counted \in Nat /\ received.given \in Nat
      /\ received.given <= received.counted
  BY DEF Body!BodyLimitAssumption, BodyTyped, GivenFits
<1>2. received' = [counted |-> received.counted + n, given |-> Body!Given(n)]
  BY DEF Body!ReceivePiece
<1>3. Body!Limit' = Body!Limit /\ (Body!Limit = Body!Unlimited \/ Body!Limit \in Nat)
  BY LimitIsPositive DEF Body!ReceivePiece, Body!Limit, Body!LimitFor
<1>4. CASE Body!Beyond(received.counted + n)
  BY <1>1, <1>2, <1>3, <1>4 DEF Body!Given, GivenFits, Body!Beyond
<1>5. CASE ~Body!Beyond(received.counted + n)
<2>1. Body!Given(n) = received.given + n
  BY <1>5 DEF Body!Given
<2> QED
  BY <1>1, <1>2, <1>3, <1>5, <2>1 DEF GivenFits, Body!Beyond, Body!Unlimited
<1> QED
  BY <1>4, <1>5

LEMMA BodyStep == Body!BodyLimitAssumption /\ BodyIInv /\ [Body!Next]_bodyVars => BodyIInv'
<1> SUFFICES ASSUME Body!BodyLimitAssumption, BodyIInv, [Body!Next]_bodyVars PROVE BodyIInv'
  OBVIOUS
<1> DEFINE Kept == UNCHANGED <<route, received, says>>
<1>1. Kept => GivenFits' /\ (Body!Beyond(says)' <=> Body!Beyond(says))
  BY DEF BodyIInv, GivenFits, Body!Beyond, Body!Limit, Body!LimitFor
<1> HIDE DEF Kept
<1>2. CASE Body!Leave
<2>1. Kept
  BY <1>2 DEF Body!Leave, Kept
<2> QED
  BY <1>1, <1>2, <2>1 DEF Body!Leave, BodyIInv, BodyTyped, WorkComesLast, AnswerIsSaid
<1>3. CASE Body!Disconnected
<2>1. Kept
  BY <1>3 DEF Body!Disconnected, Kept
<2>2. app = "reads" /\ app' \in {"reads", "failed", "handles"} /\ (~route.reads => app' = "failed")
  BY <1>3 DEF Body!Disconnected, Body!AfterDisconnect
<2> QED
  BY <1>1, <1>3, <2>1, <2>2 DEF Body!Disconnected, BodyIInv, BodyTyped, WorkComesLast, AnswerIsSaid
<1>4. ASSUME NEW n \in Pieces, Body!ReceivePiece(n) PROVE BodyIInv'
<2>1. GivenFits' /\ received' \in [counted : Nat, given : Nat]
  BY <1>4, PieceFits DEF BodyIInv
<2>2. Body!Beyond(says)' <=> Body!Beyond(says)
  BY <1>4 DEF Body!ReceivePiece, Body!Beyond, Body!Limit, Body!LimitFor
<2>3. /\ app = "reads" /\ app' \in {"reads", "handles", "failed"}
      /\ over' \in BOOLEAN /\ (over' /\ ~route.reads => app' = "failed")
  BY <1>4 DEF Body!ReceivePiece, Body!AfterDisconnect, Body!Beyond
<2>4. UNCHANGED <<route, started, ran>>
  BY <1>4 DEF Body!ReceivePiece
<2> QED
  BY <2>1, <2>2, <2>3, <2>4 DEF BodyIInv, BodyTyped, WorkComesLast, AnswerIsSaid
<1>5. CASE Body!NoMoreBody
<2>1. Kept
  BY <1>5 DEF Body!NoMoreBody, Kept
<2> QED
  BY <1>1, <1>5, <2>1 DEF Body!NoMoreBody, BodyIInv, BodyTyped, WorkComesLast, AnswerIsSaid
<1>6. CASE Body!Handle
<2>1. Kept
  BY <1>6 DEF Body!Handle, Kept
<2> QED
  BY <1>1, <1>6, <2>1 DEF Body!Handle, BodyIInv, BodyTyped, WorkComesLast, AnswerIsSaid
<1>7. CASE Body!Refuse
<2>1. Kept
  BY <1>7 DEF Body!Refuse, Kept
<2> QED
  BY <1>1, <1>7, <2>1 DEF Body!Refuse, BodyIInv, BodyTyped, WorkComesLast, AnswerIsSaid
<1>8. CASE Body!Finish
<2>1. Kept
  BY <1>8 DEF Body!Finish, Kept
<2> QED
  BY <1>1, <1>8, <2>1 DEF Body!Finish, Body!Over_, BodyIInv, BodyTyped, WorkComesLast, AnswerIsSaid
<1>9. CASE UNCHANGED bodyVars
<2>1. Kept
  BY <1>9 DEF bodyVars, Kept
<2> QED
  BY <1>1, <1>9, <2>1 DEF bodyVars, BodyIInv, BodyTyped, WorkComesLast, AnswerIsSaid
<1> QED
  BY <1>2, <1>3, <1>4, <1>5, <1>6, <1>7, <1>8, <1>9 DEF Body!Next

\* No route is given more of a body than it accepts; a client that was told its body is
\* too large had nothing done for it, and one that was told nothing before is told so:
\* whatever the limits, for every body, however it arrives and whenever its client leaves
\* (counted_receive, guarded_send, _answer_too_large, keepup-61).
THEOREM LimitKept == ApplicationSpec => []LimitIsKept
<1> USE BodyLimits
<1>1. ApplicationInit => BodyIInv
  <2>1. BodyRest => BodyIInv
    <3> SUFFICES ASSUME BodyRest PROVE BodyIInv
      OBVIOUS
    <3>1. BodyTyped
      BY DEF BodyRest, BodyTyped, Body!Routes
    <3>2. ~Body!Beyond(0)
      BY <3>1, LimitIsPositive DEF Body!Beyond, Body!Unlimited
    <3> QED
      BY <3>1, <3>2 DEF BodyRest, BodyIInv, GivenFits, WorkComesLast, AnswerIsSaid
  <2> QED
    BY <2>1, BodyInit DEF ApplicationInit
<1>2. BodyIInv /\ [ApplicationNext]_<<which, vars, routesVars, bodyVars>> => BodyIInv'
  BY BodyStep DEF ApplicationNext
<1>3. BodyIInv => LimitIsKept
  BY DEF BodyIInv, BodyTyped, GivenFits, WorkComesLast, AnswerIsSaid, LimitIsKept, Body!LimitIsKept,
     Body!NothingIsDoneUnderARefusal, Body!LimitHolds
<1> QED
  BY <1>1, <1>2, <1>3, PTL DEF ApplicationSpec

-----------------------------------------------------------------------------
(* The runtime: what its start has come to know                             *)

Going == stage \notin {"failed", "ended"}
First == {"new", "register1", "init1", "check1", "tables1", "decide2"}
Second == {"register2", "init2", "tables2", "freeze", "mount", "running", "stopping"}

RuntimeTyped ==
  /\ stage \in Stages
  /\ phased \subseteq Plugins /\ todo \subseteq phased
  /\ enabled \in [Plugins -> BOOLEAN] /\ DOMAIN source = Plugins
  /\ loaded \in [Plugins -> BOOLEAN] /\ initialized \in [Plugins -> BOOLEAN]
  /\ published \in [Plugins -> SUBSET Services] /\ required \subseteq Services
  /\ built \in [Services -> Plugins \cup {None}]
  /\ handed \in [Plugins -> [Services -> Plugins \cup {None}]]

\* Which plugins the stage is about, and how far each of them is.
PhasesAreApart ==
  /\ stage = "new" => \A p \in Plugins : ~loaded[p] /\ published[p] = {}
  /\ stage \in First => \A p \in Plugins : Kind[p] # "required" => ~loaded[p] /\ published[p] = {}
  /\ stage \in First \ {"new"} =>
       phased = {p \in Plugins : Kind[p] = "required" /\ (enabled[p] => Installed(p))}
  /\ stage \in Second => \A p \in phased : Kind[p] # "required"
  /\ stage \in {"register1", "register2"} => \A p \in todo : published[p] = {}
  /\ stage \in {"init1", "init2"} => \A p \in todo : loaded[p]
  /\ stage = "check1" => \A p \in todo : initialized[p]

\* What runs was loaded, what is loaded was switched on, and what it requires is marked.
LoadedInOrder ==
  \A p \in Plugins :
    /\ initialized[p] => loaded[p]
    /\ loaded[p] => enabled[p] /\ Installed(p) /\ Names(Requires[p]) \subseteq required

\* What runs is in the order the stop will walk, unless the start is about to give up.
InTheOrder ==
  \/ /\ initOrder \in Seq(Plugins)
     /\ \A p \in Plugins : initialized[p] => \E i \in DOMAIN initOrder : initOrder[i] = p
  \/ stage = "check1" /\ \E p \in phased : enabled[p] /\ ~initialized[p]

RequiredRun ==
  stage \in {"tables1", "decide2"} \cup Second =>
    \A p \in Plugins : Kind[p] = "required" /\ enabled[p] /\ Installed(p) => initialized[p]

\* What the administrator switched on provides nothing that was marked, and everything that
\* may still be loaded has been marked with it.
PanelIsHeard ==
  /\ \A p \in Plugins : Kind[p] = "required" => source[p] # "panel"
  /\ stage \in Second =>
       /\ NeededBy(enabled) \subseteq required
       /\ \A p \in Plugins : source[p] = "panel" /\ enabled[p] /\ Installed(p) =>
            Names(Provides[p]) \cap required = {}

\* What was built or handed over is its provider's, one that is new enough is among the
\* providers, and in the end there is only one.
HandedByProviders ==
  /\ \A s \in Services : built[s] # None => built[s] \in ProvidersOf(s)
  /\ \A p \in Plugins : initialized[p] => \A s \in Names(Requires[p]) :
       /\ handed[p][s] \in ProvidersOf(s)
       /\ \E b \in ProvidersOf(s) : Provides[b][s] >= Requires[p][s]
  /\ stage \in {"mount", "running", "stopping"} => ~Clash

Started ==
  /\ RuntimeTyped
  /\ Going => /\ PhasesAreApart /\ LoadedInOrder /\ InTheOrder /\ RequiredRun
              /\ PanelIsHeard /\ HandedByProviders

\* The decision about a required plugin is never the administrator's.
LEMMA LibraryDecides ==
  ASSUME NEW p \in Plugins
  PROVE  Library(p).on \in BOOLEAN /\ Library(p).source # "panel"
<1> DEFINE ways == {Decided(world[p].dialect = "chosen", "config"), Decided(FALSE, "not-installed"),
                    Decided(FALSE, "config"), Decided(TRUE, "env"), Decided(TRUE, "installed"),
                    Decided(TRUE, "config")}
<1>1. Library(p) \in ways
  BY DEF Library
<1>2. \A on \in BOOLEAN, who \in {"config", "env", "installed", "not-installed"} :
        Decided(on, who).on \in BOOLEAN /\ Decided(on, who).source # "panel"
  BY DEF Decided
<1>3. PICK on \in BOOLEAN : on = (world[p].dialect = "chosen")
  OBVIOUS
<1>4. \A way \in ways : \E yes \in BOOLEAN, who \in {"config", "env", "installed", "not-installed"} :
        way = Decided(yes, who)
  BY <1>3
<1> QED
  BY <1>1, <1>2, <1>4

LEMMA StartedAtFirst == Init => Started
<1> SUFFICES ASSUME Init PROVE Started
  OBVIOUS
<1>1. RuntimeTyped
  BY DEF Init, RuntimeTyped, Stages
<1>2. PhasesAreApart /\ LoadedInOrder /\ RequiredRun /\ PanelIsHeard
  BY DEF Init, PhasesAreApart, LoadedInOrder, RequiredRun, PanelIsHeard, First, Second
<1>3. InTheOrder
  BY DEF Init, InTheOrder
<1>4. HandedByProviders
  BY DEF Init, HandedByProviders
<1> QED
  BY <1>1, <1>2, <1>3, <1>4 DEF Started

\* A start that gives up promises nothing more.
LEMMA GivingUp ==
  ASSUME RuntimeTyped', stage' = "failed" \/ stage' = "ended"
  PROVE  Started'
  BY DEF Started, Going

\* The required phase is decided: nothing is loaded yet.
LEMMA RequiredDecided ==
  ASSUME Started, DecideRequired
  PROVE  Started'
<1> DEFINE ps == OfKinds({"required"})
<1>1. /\ stage = "new" /\ RuntimeTyped /\ PhasesAreApart /\ LoadedInOrder /\ PanelIsHeard
      /\ InTheOrder /\ HandedByProviders
      /\ UNCHANGED <<loaded, initialized, published, required, built, handed, initOrder>>
  BY DEF DecideRequired, Started, Going, serviceVars
<1>2. CASE Fail /\ UNCHANGED <<decisionVars, outcome, phased>>
  <2>1. RuntimeTyped'
    BY <1>1, <1>2 DEF RuntimeTyped, Fail, decisionVars, Stages
  <2> QED
    BY <1>2, <2>1, GivingUp DEF Fail
<1>3. CASE Decide(ps, TRUE) /\ stage' = "register1" /\ todo' = phased'
  <2>1. /\ enabled' = [p \in Plugins |-> IF p \in ps THEN Decision(p, TRUE).on ELSE enabled[p]]
        /\ source' = [p \in Plugins |-> IF p \in ps THEN Decision(p, TRUE).source ELSE source[p]]
        /\ phased' = {p \in ps : ~(Decision(p, TRUE).on /\ ~Installed(p))}
    BY <1>3 DEF Decide
  <2>2. \A p \in ps : Decision(p, TRUE).on \in BOOLEAN /\ Decision(p, TRUE).source # "panel"
    <3> SUFFICES ASSUME NEW p \in ps
                 PROVE  Decision(p, TRUE).on \in BOOLEAN /\ Decision(p, TRUE).source # "panel"
      OBVIOUS
    <3>1. Decision(p, TRUE) = Library(p)
      BY DEF Decision, OfKinds
    <3> QED
      BY <3>1, LibraryDecides DEF OfKinds
  <2>3. ps = {p \in Plugins : Kind[p] = "required"} /\ \A p \in Plugins : Installed(p)' = Installed(p)
    BY DEF OfKinds, DecideRequired, Installed
  <2> HIDE DEF ps
  <2>4. RuntimeTyped'
    BY <1>1, <1>3, <2>1, <2>2, <2>3 DEF RuntimeTyped, Stages
  <2>5. PhasesAreApart'
    BY <1>1, <1>3, <2>1, <2>3 DEF PhasesAreApart, First, Second
  <2>6. LoadedInOrder' /\ InTheOrder' /\ RequiredRun'
    BY <1>1, <1>3 DEF PhasesAreApart, LoadedInOrder, InTheOrder, RequiredRun, Second
  <2>7. PanelIsHeard'
    BY <1>1, <1>3, <2>1, <2>2, <2>3 DEF PanelIsHeard, Second
  <2>8. HandedByProviders'
    BY <1>1, <1>3 DEF HandedByProviders, ProvidersOf
  <2> QED
    BY <2>4, <2>5, <2>6, <2>7, <2>8 DEF Started
<1> QED
  BY <1>1, <1>2, <1>3 DEF DecideRequired

\* A plugin is visited by the loop of a phase's registration.
LEMMA RegisterStarted ==
  ASSUME Started, NEW p \in Plugins, Register(p)
  PROVE  Started'
<1>1. /\ stage \in {"register1", "register2"} /\ p \in todo
      /\ UNCHANGED <<world, phased, enabled, source, initialized, built, handed, initOrder>>
      /\ RuntimeTyped /\ PhasesAreApart /\ LoadedInOrder /\ InTheOrder /\ RequiredRun
      /\ PanelIsHeard /\ HandedByProviders
  BY DEF Register, FirstListed, Started, Going, decisionVars
<1>2. \A q \in Plugins : Installed(q)' = Installed(q)
  BY <1>1 DEF Installed
<1>3. /\ published[p] = {}
      /\ stage = "register1" => Kind[p] = "required"
      /\ stage = "register2" => Kind[p] # "required"
  BY <1>1 DEF PhasesAreApart, RuntimeTyped, First, Second
\* Whatever the plugin got to publish, and whether it loaded.
<1>4. ASSUME NEW names \in SUBSET Services, published' = [published EXCEPT ![p] = names],
             \/ loaded' = loaded /\ required' = required
             \/ /\ loaded' = [loaded EXCEPT ![p] = TRUE]
                /\ enabled[p] /\ Installed(p) /\ required' = required \cup Names(Requires[p]),
             todo' = todo \ {p}, stage' = stage
      PROVE  Started'
  <2>1. RuntimeTyped'
    <3>1. Names(Requires[p]) \subseteq Services
      BY DEF Names
    <3> QED
      BY <1>1, <1>4, <3>1 DEF RuntimeTyped
  <2>2. PhasesAreApart'
    BY <1>1, <1>2, <1>3, <1>4 DEF PhasesAreApart, RuntimeTyped, First, Second
  <2>3. LoadedInOrder'
    BY <1>1, <1>2, <1>4 DEF LoadedInOrder, RuntimeTyped
  <2>4. InTheOrder' /\ RequiredRun'
    BY <1>1, <1>2, <1>4 DEF InTheOrder, RequiredRun
  <2>5. PanelIsHeard'
    <3>1. NeededBy(enabled)' = NeededBy(enabled)
      BY <1>1, <1>2 DEF NeededBy
    <3>2. enabled[p] /\ Installed(p) => Names(Requires[p]) \subseteq NeededBy(enabled)
      BY DEF NeededBy
    <3>3. stage \in Second => required' = required
      BY <1>1, <1>4, <3>2 DEF PanelIsHeard
    <3> QED
      BY <1>1, <1>2, <1>4, <3>1, <3>3 DEF PanelIsHeard
  <2>6. HandedByProviders'
    <3>1. \A s \in Services : ProvidersOf(s) \subseteq ProvidersOf(s)'
      BY <1>1, <1>3, <1>4 DEF ProvidersOf, RuntimeTyped
    <3>2. \A q \in Plugins : Names(Requires[q]) \subseteq Services
      BY DEF Names
    <3>3. UNCHANGED <<built, handed, initialized>> /\ stage' \notin {"mount", "running", "stopping"}
      BY <1>1, <1>4
    <3> HIDE DEF ProvidersOf
    <3>4. \A s \in Services : built'[s] # None => built'[s] \in ProvidersOf(s)'
      BY <1>1, <3>1, <3>3 DEF HandedByProviders
    <3>5. \A q \in Plugins : initialized'[q] => \A s \in Names(Requires[q]) :
            /\ handed'[q][s] \in ProvidersOf(s)'
            /\ \E b \in ProvidersOf(s)' : Provides[b][s] >= Requires[q][s]
      BY <1>1, <3>1, <3>2, <3>3 DEF HandedByProviders
    <3> QED
      BY <3>3, <3>4, <3>5 DEF HandedByProviders
  <2> QED
    BY <2>1, <2>2, <2>3, <2>4, <2>5, <2>6 DEF Started
<1>5. CASE /\ ~(enabled[p] /\ Installed(p)) /\ todo' = todo \ {p}
           /\ UNCHANGED <<stage, loaded, outcome, published, required>>
  <2>1. published' = [published EXCEPT ![p] = {}]
    BY <1>1, <1>3, <1>5 DEF RuntimeTyped
  <2> QED
    BY <1>4, <1>5, <2>1
<1>6. CASE /\ enabled[p] /\ Installed(p)
           /\ published' = [published EXCEPT ![p] = Names(Provides[p])]
           /\ required' = required \cup Names(Requires[p])
           /\ loaded' = [loaded EXCEPT ![p] = TRUE]
           /\ todo' = todo \ {p} /\ UNCHANGED <<stage, outcome>>
  <2>1. Names(Provides[p]) \in SUBSET Services
    BY DEF Names
  <2> QED
    BY <1>4, <1>6, <2>1
<1>7. CASE /\ enabled[p] /\ Installed(p)
           /\ \/ "construct" \in Faults /\ UNCHANGED published
              \/ /\ "register" \in Faults
                 /\ \E half \in SUBSET Names(Provides[p]) :
                      published' = [published EXCEPT ![p] = half]
           /\ IF Kind[p] = "required" THEN Fail ELSE todo' = todo \ {p} /\ UNCHANGED stage
           /\ UNCHANGED <<loaded, required>>
  <2>1. PICK names \in SUBSET Services : published' = [published EXCEPT ![p] = names]
    <3>1. CASE UNCHANGED published
      <4>1. published' = [published EXCEPT ![p] = {}]
        BY <1>1, <1>3, <3>1 DEF RuntimeTyped
      <4> QED
        BY <4>1
    <3>2. CASE \E half \in SUBSET Names(Provides[p]) : published' = [published EXCEPT ![p] = half]
      BY <3>2 DEF Names
    <3> QED
      BY <1>7, <3>1, <3>2
  <2>2. CASE Fail
    <3>1. RuntimeTyped'
      BY <1>1, <1>7, <2>1, <2>2 DEF RuntimeTyped, Fail, Stages
    <3> QED
      BY <2>2, <3>1, GivingUp DEF Fail
  <2>3. CASE todo' = todo \ {p} /\ UNCHANGED stage
    BY <1>4, <1>7, <2>1, <2>3
  <2> QED
    BY <1>7, <2>2, <2>3
<1> QED
  BY <1>5, <1>6, <1>7 DEF Register

\* A phase's registration is over.
LEMMA RegisteredStarted ==
  ASSUME Started, RegisteredRequired \/ RegisteredOptional
  PROVE  Started'
<1>1. /\ stage \in {"register1", "register2"}
      /\ UNCHANGED <<world, phased, enabled, source, loaded, initialized, published, required, built,
                     handed, initOrder>>
      /\ RuntimeTyped /\ PhasesAreApart /\ LoadedInOrder /\ InTheOrder /\ RequiredRun
      /\ PanelIsHeard /\ HandedByProviders
  BY DEF RegisteredRequired, RegisteredOptional, Started, Going, decisionVars, serviceVars
<1>2. \/ Fail
      \/ /\ stage = "register1" /\ stage' = "init1" /\ todo' = {p \in phased : loaded[p]}
      \/ /\ stage = "register2" /\ stage' = "init2" /\ todo' = {p \in phased : loaded[p]}
  BY DEF RegisteredRequired, RegisteredOptional
<1>3. RuntimeTyped'
  BY <1>1, <1>2 DEF RuntimeTyped, Fail, Stages
<1>4. CASE Fail
  BY <1>3, <1>4, GivingUp DEF Fail
<1>5. CASE /\ \/ stage = "register1" /\ stage' = "init1"
              \/ stage = "register2" /\ stage' = "init2"
           /\ todo' = {p \in phased : loaded[p]}
  <2>1. PhasesAreApart'
    BY <1>1, <1>5 DEF PhasesAreApart, RuntimeTyped, First, Second, Installed
  <2>2. LoadedInOrder' /\ InTheOrder' /\ RequiredRun' /\ PanelIsHeard'
    BY <1>1, <1>5 DEF LoadedInOrder, InTheOrder, RequiredRun, PanelIsHeard, Second, Installed, NeededBy
  <2>3. HandedByProviders'
    BY <1>1, <1>5 DEF HandedByProviders, ProvidersOf
  <2> QED
    BY <1>3, <2>1, <2>2, <2>3 DEF Started
<1> QED
  BY <1>2, <1>4, <1>5

\* _best finds a best one wherever there is one that is new enough.
LEMMA BestIsFit ==
  ASSUME NEW s \in Services, NEW minimum, Fit(s, minimum) # {}
  PROVE  Best(s, minimum) \in Fit(s, minimum)
<1> DEFINE fit == Fit(s, minimum)
           better(q, r) == \/ Provides[q][s] > Provides[r][s]
                           \/ Provides[q][s] = Provides[r][s] /\ RegistersBefore(q, r)
           above(q) == {r \in fit : better(r, q)}
           Above == {above(q) : q \in fit}
<1>1. fit \subseteq Plugins
  BY DEF Fit, ProvidersOf
<1>2. \A q \in Plugins : Provides[q][s] \in Nat /\ Index[q] \in Nat
  BY PluginsAssumption, ServicesAssumption
<1>3. /\ \A q \in fit : better(q, q)
      /\ \A q, r \in fit : better(q, r) \/ better(r, q)
      /\ \A q, r, t \in fit : better(q, r) /\ better(r, t) => better(q, t)
  <2> HIDE DEF fit
  <2> QED
    BY <1>1, <1>2 DEF RegistersBefore
<1>4. Above \subseteq FiniteSubsetsOf(Plugins) /\ Above # {}
  <2>1. \A q \in fit : above(q) \subseteq Plugins
    BY <1>1
  <2>2. \A t \in SUBSET Plugins : IsFiniteSet(t)
    BY PluginsAssumption, FS_Subset
  <2> HIDE DEF above, fit
  <2> QED
    BY <2>1, <2>2 DEF FiniteSubsetsOf, fit
<1>5. PICK best \in Above : \A t \in Above : <<t, best>> \notin StrictSubsetOrdering(Plugins)
  <2> HIDE DEF Above
  <2> QED
    BY <1>4, FS_StrictSubsetOrderingWellFounded, WFMin
<1>6. PICK q \in fit : best = above(q)
  BY <1>5
<1>7. ASSUME NEW r \in fit PROVE better(q, r)
  <2>1. CASE better(r, q)
    <3>1. above(r) \subseteq above(q)
      BY <1>3, <2>1
    <3>2. above(r) \in SUBSET Plugins /\ above(q) \in SUBSET Plugins /\ above(r) \in Above
      BY <1>1
    <3>3. above(r) = above(q)
      <4> HIDE DEF above, Above
      <4> QED
        BY <1>5, <1>6, <3>1, <3>2 DEF StrictSubsetOrdering
    <3>4. q \in above(r)
      BY <1>3, <3>3
    <3> QED
      BY <3>4
  <2> QED
    BY <1>3, <2>1
<1>8. \E p \in fit : \A r \in fit : better(p, r)
  BY <1>6, <1>7
<1> QED
  BY <1>8 DEF Best

\* What a plugin is handed is one of the providers', and one of those is new enough.
LEMMA HandedFits ==
  ASSUME HandedByProviders, NEW p \in Plugins, Satisfied(p), NEW s \in Names(Requires[p])
  PROVE  /\ Handed(p, s) \in ProvidersOf(s)
         /\ \E b \in ProvidersOf(s) : Provides[b][s] >= Requires[p][s]
<1>1. s \in Services
  BY DEF Names
<1>2. Best(s, Requires[p][s]) \in Fit(s, Requires[p][s])
  BY <1>1, BestIsFit DEF Satisfied
<1> QED
  BY <1>1, <1>2 DEF Handed, Fit, HandedByProviders

\* A plugin comes up, or says no.
LEMMA InitializeStarted ==
  ASSUME Started, NEW p \in Plugins, Initialize(p)
  PROVE  Started'
<1>1. /\ stage \in {"init1", "init2"} /\ p \in todo /\ todo' = todo \ {p}
      /\ UNCHANGED <<world, stage, phased, enabled, source, loaded, published, required>>
      /\ RuntimeTyped /\ PhasesAreApart /\ LoadedInOrder /\ InTheOrder /\ RequiredRun
      /\ PanelIsHeard /\ HandedByProviders
  BY DEF Initialize, FirstByPriority, Started, Going, decisionVars
<1>2. \/ UNCHANGED <<initialized, handed, built, initOrder>>
      \/ /\ Satisfied(p)
         /\ handed' = [handed EXCEPT ![p] =
              [s \in Services |-> IF Requires[p][s] > 0 THEN Handed(p, s) ELSE None]]
         /\ built' = [s \in Services |->
              IF Requires[p][s] > 0 /\ Handed(p, s) \in Lazy THEN Handed(p, s) ELSE built[s]]
         /\ \/ initialized' = [initialized EXCEPT ![p] = TRUE] /\ initOrder' = Append(initOrder, p)
            \/ UNCHANGED <<initialized, initOrder>>
  BY DEF Initialize
<1>3. /\ loaded[p] /\ (\A q \in Plugins : Installed(q)' = Installed(q))
      /\ (\A s \in Services : ProvidersOf(s)' = ProvidersOf(s) /\ ProvidersOf(s) \subseteq Plugins)
  BY <1>1 DEF PhasesAreApart, Installed, ProvidersOf
<1>4. /\ initialized' \in [Plugins -> BOOLEAN] /\ (\A q \in Plugins : initialized[q] => initialized'[q])
      /\ \A q \in Plugins \ {p} : initialized'[q] = initialized[q]
  BY <1>1, <1>2 DEF RuntimeTyped
<1>5. PhasesAreApart'
  BY <1>1, <1>3 DEF PhasesAreApart, First, Second
<1>6. LoadedInOrder'
  BY <1>1, <1>3, <1>4 DEF LoadedInOrder
<1>7. InTheOrder'
  <2>1. initOrder \in Seq(Plugins) /\ \A q \in Plugins : initialized[q] => \E i \in DOMAIN initOrder : initOrder[i] = q
    BY <1>1 DEF InTheOrder
  <2>2. CASE UNCHANGED <<initialized, initOrder>>
    BY <2>1, <2>2 DEF InTheOrder
  <2>3. CASE initialized' = [initialized EXCEPT ![p] = TRUE] /\ initOrder' = Append(initOrder, p)
    <3>1. /\ initOrder' \in Seq(Plugins) /\ Len(initOrder') = Len(initOrder) + 1
          /\ initOrder'[Len(initOrder) + 1] = p
          /\ \A i \in DOMAIN initOrder : i \in DOMAIN initOrder' /\ initOrder'[i] = initOrder[i]
      BY <2>1, <2>3
    <3>2. Len(initOrder) + 1 \in DOMAIN initOrder'
      BY <2>1, <3>1
    <3> QED
      BY <1>4, <2>1, <3>1, <3>2 DEF InTheOrder
  <2> QED
    BY <1>2, <2>2, <2>3
<1>8. RequiredRun' /\ PanelIsHeard'
  BY <1>1, <1>3, <1>4 DEF RequiredRun, PanelIsHeard, NeededBy
<1>9. /\ handed' \in [Plugins -> [Services -> Plugins \cup {None}]]
      /\ built' \in [Services -> Plugins \cup {None}]
      /\ HandedByProviders'
  <2>1. CASE UNCHANGED <<initialized, handed, built, initOrder>>
    <3> HIDE DEF ProvidersOf
    <3>1. \A q \in Plugins : Names(Requires[q]) \subseteq Services
      BY DEF Names
    <3> QED
      BY <1>1, <1>3, <2>1, <3>1 DEF HandedByProviders, RuntimeTyped
  <2>2. ASSUME Satisfied(p),
               handed' = [handed EXCEPT ![p] =
                 [s \in Services |-> IF Requires[p][s] > 0 THEN Handed(p, s) ELSE None]],
               built' = [s \in Services |->
                 IF Requires[p][s] > 0 /\ Handed(p, s) \in Lazy THEN Handed(p, s) ELSE built[s]]
        PROVE  /\ handed' \in [Plugins -> [Services -> Plugins \cup {None}]]
               /\ built' \in [Services -> Plugins \cup {None}]
               /\ HandedByProviders'
    <3>1. \A q \in Plugins : Names(Requires[q]) \subseteq Services
                             /\ \A s \in Services : s \in Names(Requires[q]) <=> Requires[q][s] > 0
      BY DEF Names
    <3>2. \A s \in Names(Requires[p]) :
            /\ Handed(p, s) \in ProvidersOf(s)
            /\ \E b \in ProvidersOf(s) : Provides[b][s] >= Requires[p][s]
      BY <1>1, <2>2, HandedFits
    <3> HIDE DEF ProvidersOf, Handed, Names
    <3>3. \A s \in Services : Requires[p][s] > 0 => Handed(p, s) \in ProvidersOf(s) /\ Handed(p, s) \in Plugins
      BY <1>3, <3>1, <3>2
    <3>4. /\ handed' \in [Plugins -> [Services -> Plugins \cup {None}]]
          /\ built' \in [Services -> Plugins \cup {None}]
      BY <1>1, <2>2, <3>3 DEF RuntimeTyped
    <3>5. \A s \in Services : built'[s] # None => built'[s] \in ProvidersOf(s)'
      BY <1>1, <1>3, <2>2, <3>3 DEF HandedByProviders
    <3>6. ASSUME NEW q \in Plugins, initialized'[q], NEW s \in Names(Requires[q])
          PROVE  /\ handed'[q][s] \in ProvidersOf(s)'
                 /\ \E b \in ProvidersOf(s)' : Provides[b][s] >= Requires[q][s]
      <4>1. s \in Services
        BY <3>1
      <4>2. CASE q = p
        <5>1. handed'[p][s] = Handed(p, s)
          BY <1>1, <2>2, <3>1, <4>1, <4>2 DEF RuntimeTyped
        <5> QED
          BY <1>3, <3>2, <4>1, <4>2, <5>1
      <4>3. CASE q # p
        <5>1. initialized[q] /\ handed'[q] = handed[q]
          BY <1>1, <1>4, <2>2, <3>6, <4>3 DEF RuntimeTyped
        <5> QED
          BY <1>1, <1>3, <4>1, <5>1 DEF HandedByProviders
      <4> QED
        BY <4>2, <4>3
    <3> QED
      BY <1>1, <3>4, <3>5, <3>6 DEF HandedByProviders
  <2> QED
    BY <1>2, <2>1, <2>2
<1>10. RuntimeTyped'
  BY <1>1, <1>4, <1>9 DEF RuntimeTyped
<1> QED
  BY <1>5, <1>6, <1>7, <1>8, <1>9, <1>10 DEF Started

\* A required plugin is asked whether it works; one that does not is missing from then on.
LEMMA CheckStarted ==
  ASSUME Started, NEW p \in Plugins, Check(p)
  PROVE  Started'
<1>1. /\ stage = "check1" /\ p \in todo /\ todo' = todo \ {p}
      /\ UNCHANGED <<world, stage, phased, enabled, source, loaded, published, required, built, handed>>
      /\ RuntimeTyped /\ PhasesAreApart /\ LoadedInOrder /\ InTheOrder /\ RequiredRun
      /\ PanelIsHeard /\ HandedByProviders
  BY DEF Check, FirstByPriority, Started, Going, decisionVars, serviceVars
<1>2. \/ UNCHANGED <<initialized, initOrder>>
      \/ initialized' = [initialized EXCEPT ![p] = FALSE]
  BY DEF Check
<1>3. /\ initialized[p] /\ enabled[p] /\ p \in phased
      /\ \A q \in Plugins : Installed(q)' = Installed(q)
  BY <1>1 DEF PhasesAreApart, LoadedInOrder, RuntimeTyped, Installed
<1>4. /\ initialized' \in [Plugins -> BOOLEAN] /\ (\A q \in Plugins : initialized'[q] => initialized[q])
      /\ \A q \in Plugins \ {p} : initialized'[q] = initialized[q]
  BY <1>1, <1>2 DEF RuntimeTyped
<1>5. RuntimeTyped' /\ LoadedInOrder' /\ RequiredRun' /\ PanelIsHeard'
  BY <1>1, <1>3, <1>4 DEF RuntimeTyped, LoadedInOrder, RequiredRun, PanelIsHeard, NeededBy, Second
<1>6. PhasesAreApart'
  BY <1>1, <1>3, <1>4 DEF PhasesAreApart, First, Second, RuntimeTyped
<1>7. InTheOrder'
  <2>1. CASE UNCHANGED <<initialized, initOrder>>
    BY <1>1, <2>1 DEF InTheOrder
  <2>2. CASE initialized' = [initialized EXCEPT ![p] = FALSE]
    BY <1>1, <1>3, <2>2 DEF InTheOrder, RuntimeTyped
  <2> QED
    BY <1>2, <2>1, <2>2
<1>8. HandedByProviders'
  BY <1>1, <1>4 DEF HandedByProviders, ProvidersOf
<1> QED
  BY <1>5, <1>6, <1>7, <1>8 DEF Started

\* What leaves the plugins, their services and the order alone.
Kept == UNCHANGED <<world, phased, enabled, source, loaded, initialized, published, required, built,
                    handed, initOrder>>

\* The stages between the loops.
LEMMA StageStarted ==
  ASSUME Started,
         \/ InitializedPhase \/ RequireTheRequired \/ CreateTables \/ Freeze \/ Mount \/ CleanUp
         \/ Shutdown
  PROVE  Started'
<1>1. Kept /\ RuntimeTyped
  BY DEF InitializedPhase, RequireTheRequired, CreateTables, Freeze, Mount, CleanUp, Shutdown, Started,
     decisionVars, serviceVars, Kept
<1>2. /\ stage' \in Stages /\ todo' \subseteq phased
      /\ stage' \notin {"failed", "ended"} => stage \notin {"failed", "ended"}
  BY <1>1 DEF InitializedPhase, RequireTheRequired, CreateTables, Freeze, Mount, CleanUp, Shutdown,
     RuntimeTyped, Stages, Fail
<1>3. RuntimeTyped'
  BY <1>1, <1>2 DEF Kept, RuntimeTyped
<1>4. CASE stage' \in {"failed", "ended"}
  BY <1>3, <1>4, GivingUp
<1>5. CASE stage' \notin {"failed", "ended"}
  <2>1. /\ PhasesAreApart /\ LoadedInOrder /\ InTheOrder /\ RequiredRun
        /\ PanelIsHeard /\ HandedByProviders
    BY <1>2, <1>5 DEF Started, Going
  <2>2. \/ /\ stage = "init1" /\ stage' = "check1" /\ todo' = {p \in phased : initialized[p]}
        \/ /\ stage = "check1" /\ stage' = "tables1"
           /\ \A p \in phased : enabled[p] => initialized[p]
        \/ /\ stage = "tables1" /\ stage' = "decide2"
        \/ <<stage, stage'>> \in {<<"init2", "tables2">>, <<"tables2", "freeze">>, <<"mount", "running">>,
                                  <<"running", "stopping">>, <<"stopping", "stopping">>}
        \/ stage = "freeze" /\ stage' = "mount" /\ ~Clash
    BY <1>5 DEF InitializedPhase, RequireTheRequired, CreateTables, Freeze, Mount, CleanUp, Shutdown, Fail
  <2>3. /\ \A p \in Plugins : Installed(p)' = Installed(p)
        /\ NeededBy(enabled)' = NeededBy(enabled)
        /\ \A s \in Services : ProvidersOf(s)' = ProvidersOf(s)
        /\ Clash' = Clash
    BY <1>1 DEF Kept, Installed, NeededBy, ProvidersOf, Clash
  <2>4. PhasesAreApart'
    BY <1>1, <2>1, <2>2, <2>3 DEF Kept, PhasesAreApart, First, Second
  <2>5. LoadedInOrder'
    BY <1>1, <2>1, <2>3 DEF Kept, LoadedInOrder
  <2>6. InTheOrder'
    <3>1. \/ /\ initOrder \in Seq(Plugins)
             /\ \A p \in Plugins : initialized[p] => \E i \in DOMAIN initOrder : initOrder[i] = p
          \/ stage = "check1" /\ \E p \in phased : enabled[p] /\ ~initialized[p]
      BY <2>1 DEF InTheOrder
    <3>2. ~(stage = "check1" /\ \E p \in phased : enabled[p] /\ ~initialized[p])
      BY <2>2
    <3> QED
      BY <1>1, <3>1, <3>2 DEF Kept, InTheOrder
  <2>7. RequiredRun'
    BY <1>1, <2>1, <2>2, <2>3 DEF Kept, RequiredRun, PhasesAreApart, First, Second
  <2>8. PanelIsHeard'
    BY <1>1, <2>1, <2>2, <2>3 DEF Kept, PanelIsHeard, Second
  <2>9. HandedByProviders'
    <3>1. \A p \in Plugins : Names(Requires[p]) \subseteq Services
      BY DEF Names
    <3>2. stage' \in {"mount", "running", "stopping"} => ~Clash
      BY <2>1, <2>2 DEF HandedByProviders
    <3> HIDE DEF ProvidersOf, Clash, Names
    <3> QED
      BY <1>1, <2>1, <2>3, <3>1, <3>2 DEF Kept, HandedByProviders
  <2> QED
    BY <1>3, <2>4, <2>5, <2>6, <2>7, <2>8, <2>9 DEF Started
<1> QED
  BY <1>4, <1>5

\* The end of a stop.
LEMMA CloseStarted ==
  ASSUME Started, Close
  PROVE  Started'
<1>1. RuntimeTyped'
  BY DEF Started, RuntimeTyped, Close, Stages, decisionVars
<1> QED
  BY <1>1, GivingUp DEF Close

\* The optional phase is decided, with the administrator's overrides or without.
LEMMA CapabilityDecides ==
  ASSUME NEW p \in Plugins, NEW readable \in BOOLEAN
  PROVE  Capability(p, readable).on \in BOOLEAN
<1> DEFINE ways == {Decided(world[p].dialect = "chosen", "config"), Decided(FALSE, "env"),
                    Decided(TRUE, "env"), Decided(world[p].override = "on", "panel"),
                    Decided(world[p].flag = "on", "config"), Decided(FALSE, "default")}
<1>1. Capability(p, readable) \in ways
  BY DEF Capability
<1>2. \A who : \A on \in BOOLEAN : Decided(on, who).on \in BOOLEAN
  BY DEF Decided
<1>3. PICK chosen, ordered, flagged \in BOOLEAN :
        /\ chosen = (world[p].dialect = "chosen") /\ ordered = (world[p].override = "on")
        /\ flagged = (world[p].flag = "on")
  OBVIOUS
<1>4. \A way \in ways : \E yes \in BOOLEAN, who \in {"config", "env", "panel", "default"} :
        way = Decided(yes, who)
  BY <1>3
<1> QED
  BY <1>1, <1>2, <1>4

LEMMA OptionalDecided ==
  ASSUME Started, DecideOptional
  PROVE  Started'
<1> DEFINE ps == OfKinds({"optional", "transport"})
<1>1. /\ stage = "decide2"
      /\ UNCHANGED <<world, loaded, initialized, published, built, handed, initOrder>>
      /\ RuntimeTyped /\ PhasesAreApart /\ LoadedInOrder /\ InTheOrder /\ RequiredRun
      /\ PanelIsHeard /\ HandedByProviders
  BY DEF DecideOptional, Started, Going
<1>2. PICK readable \in BOOLEAN :
        \/ Fail /\ UNCHANGED <<decisionVars, outcome, phased, required>>
        \/ /\ Decide(ps, readable) /\ required' = required \cup NeededBy(enabled')
           /\ \/ Fail
              \/ /\ stage' = "register2" /\ todo' = phased'
                 /\ \A p \in ps : ~(/\ p \in phased' /\ source'[p] = "panel" /\ enabled'[p]
                                    /\ Names(Provides[p]) \cap required' # {})
  BY DEF DecideOptional
<1>3. CASE Fail /\ UNCHANGED <<decisionVars, outcome, phased, required>>
  <2>1. RuntimeTyped'
    BY <1>1, <1>3 DEF RuntimeTyped, Fail, decisionVars, Stages
  <2> QED
    BY <1>3, <2>1, GivingUp DEF Fail
<1>4. CASE Decide(ps, readable) /\ required' = required \cup NeededBy(enabled')
  <2>1. /\ enabled' = [p \in Plugins |-> IF p \in ps THEN Decision(p, readable).on ELSE enabled[p]]
        /\ source' = [p \in Plugins |-> IF p \in ps THEN Decision(p, readable).source ELSE source[p]]
        /\ phased' = {p \in ps : ~(Decision(p, readable).on /\ ~Installed(p))}
    BY <1>4 DEF Decide
  <2>2. ps = {p \in Plugins : Kind[p] # "required"}
    BY PluginsAssumption DEF OfKinds
  <2>3. \A p \in ps : Decision(p, readable).on \in BOOLEAN
    BY <2>2, LibraryDecides, CapabilityDecides DEF Decision
  <2>4. /\ \A p \in Plugins : Installed(p)' = Installed(p)
        /\ \A s \in Services : ProvidersOf(s)' = ProvidersOf(s)
    BY <1>1 DEF Installed, ProvidersOf
  <2>5. NeededBy(enabled') \subseteq Services /\ NeededBy(enabled)' = NeededBy(enabled')
    BY <1>1 DEF NeededBy, Names, Installed
  <2>6. enabled' \in [Plugins -> BOOLEAN] /\ DOMAIN source' = Plugins /\ phased' \subseteq ps /\ ps \subseteq Plugins
    BY <1>1, <2>1, <2>2, <2>3 DEF RuntimeTyped
  <2> HIDE DEF ps
  <2>7. CASE Fail
    <3>1. RuntimeTyped'
      BY <1>1, <1>4, <2>5, <2>6, <2>7 DEF RuntimeTyped, Fail, Stages
    <3> QED
      BY <2>7, <3>1, GivingUp DEF Fail
  <2>8. CASE /\ stage' = "register2" /\ todo' = phased'
             /\ \A p \in ps : ~(/\ p \in phased' /\ source'[p] = "panel" /\ enabled'[p]
                                /\ Names(Provides[p]) \cap required' # {})
    <3>1. RuntimeTyped'
      BY <1>1, <1>4, <2>5, <2>6, <2>8 DEF RuntimeTyped, Stages
    <3>2. \A p \in Plugins \ ps : enabled'[p] = enabled[p] /\ source'[p] = source[p]
      BY <2>1
    <3>3. \A p \in Plugins : loaded[p] => p \notin ps
      BY <1>1, <2>2 DEF PhasesAreApart, First
    <3>4. PhasesAreApart'
      BY <1>1, <2>2, <2>6, <2>8 DEF PhasesAreApart, First, Second
    <3>5. LoadedInOrder'
      BY <1>1, <1>4, <2>4, <3>2, <3>3 DEF LoadedInOrder
    <3>6. InTheOrder'
      BY <1>1, <2>8 DEF InTheOrder
    <3>7. RequiredRun'
      BY <1>1, <2>2, <2>4, <3>2 DEF RequiredRun
    <3>8. PanelIsHeard'
      <4>1. \A p \in Plugins : source'[p] = "panel" /\ enabled'[p] /\ Installed(p) =>
              Names(Provides[p]) \cap required' = {}
        <5> SUFFICES ASSUME NEW p \in Plugins, source'[p] = "panel", enabled'[p], Installed(p)
                     PROVE  Names(Provides[p]) \cap required' = {}
          OBVIOUS
        <5>1. p \in ps
          BY <1>1, <2>2, <3>2 DEF PanelIsHeard
        <5>2. p \in phased'
          BY <2>1, <5>1
        <5> QED
          BY <2>8, <5>1, <5>2
      <4>2. \A p \in Plugins : Kind[p] = "required" => source'[p] # "panel"
        BY <1>1, <2>2, <3>2 DEF PanelIsHeard
      <4> QED
        BY <1>4, <2>4, <2>5, <4>1, <4>2 DEF PanelIsHeard
    <3>9. HandedByProviders'
      <4>1. \A p \in Plugins : Names(Requires[p]) \subseteq Services
        BY DEF Names
      <4> HIDE DEF ProvidersOf, Names
      <4> QED
        BY <1>1, <2>4, <2>8, <4>1 DEF HandedByProviders
    <3> QED
      BY <3>1, <3>4, <3>5, <3>6, <3>7, <3>8, <3>9 DEF Started
  <2> QED
    BY <1>2, <1>4, <2>7, <2>8 DEF Fail
<1> QED
  BY <1>2, <1>3, <1>4

LEMMA StartedIsKept == Started /\ [Next]_vars => Started'
<1> SUFFICES ASSUME Started, [Next]_vars PROVE Started'
  OBVIOUS
<1>1. CASE UNCHANGED vars
  <2>1. Kept /\ UNCHANGED <<stage, todo>>
    BY <1>1 DEF vars, Kept
  <2>2. RuntimeTyped' /\ (Going' => Going)
    BY <2>1 DEF Started, RuntimeTyped, Kept, Going
  <2>3. Going => PhasesAreApart' /\ LoadedInOrder' /\ InTheOrder' /\ RequiredRun' /\ PanelIsHeard'
    BY <2>1 DEF Started, Kept, PhasesAreApart, LoadedInOrder, InTheOrder, RequiredRun, PanelIsHeard,
       NeededBy, Installed
  <2>4. Going => HandedByProviders'
    BY <2>1 DEF Started, Kept, HandedByProviders, ProvidersOf, Clash
  <2> QED
    BY <2>2, <2>3, <2>4 DEF Started
<1>2. CASE Next
  BY <1>2, RegisterStarted, InitializeStarted, CheckStarted, RequiredDecided, RegisteredStarted,
     StageStarted, OptionalDecided, CloseStarted
  DEF Next, Turn, Step
<1> QED
  BY <1>1, <1>2

\* Two of a kind are more than one.
LEMMA OnlyProvider ==
  ASSUME NEW s \in required, ~Clash, NEW p \in ProvidersOf(s)
  PROVE  ProvidersOf(s) = {p}
<1>1. IsFiniteSet(ProvidersOf(s))
  BY PluginsAssumption, FS_Subset DEF ProvidersOf
<1>2. ~(Cardinality(ProvidersOf(s)) > 1) /\ Cardinality(ProvidersOf(s)) \in Nat
  BY <1>1, FS_CardinalityType DEF Clash
<1>3. Cardinality(ProvidersOf(s)) # 0
  BY <1>1, FS_EmptySet
<1>4. PICK q : ProvidersOf(s) = {q}
  BY <1>1, <1>2, <1>3, FS_Singleton
<1> QED
  BY <1>4

\* A runtime that is up, in whatever deployment and after whatever failures its start has
\* survived, is what its plugins declared: every required plugin that is on works, everyone
\* who requires a service has the one object of the one plugin that provides it, and none of
\* that was the administrator's choice (Runtime.start, ServiceRegistry, check_duplicates,
\* _require_the_required, _mark_required_services).
THEOREM RuntimeIsAsDeclared == ApplicationSpec => []RunsAsDeclared
<1>1. ApplicationInit => Started
  BY StartedAtFirst DEF ApplicationInit, RuntimeRest
<1>2. Started /\ [ApplicationNext]_<<which, vars, routesVars, bodyVars>> => Started'
  BY StartedIsKept DEF ApplicationNext
<1>3. Started => RunsAsDeclared
  <2> SUFFICES ASSUME Started, stage \in Up PROVE RunsAsDeclared
    BY DEF RunsAsDeclared, RequiredPluginsRun, OneObjectPerRequiredService, PanelChoosesNoProvider
  <2>1. /\ PhasesAreApart /\ LoadedInOrder /\ InTheOrder /\ RequiredRun /\ PanelIsHeard
        /\ HandedByProviders /\ RuntimeTyped /\ stage \in {"running", "stopping"}
    BY DEF Started, Going, Up
  <2>2. RequiredPluginsRun
    BY <2>1 DEF RequiredPluginsRun, RequiredRun, InTheOrder, Second
  <2>3. OneObjectPerRequiredService
    <3> SUFFICES ASSUME NEW p \in Plugins, initialized[p], NEW s \in Names(Requires[p])
                 PROVE  /\ ProvidersOf(s) = {handed[p][s]}
                        /\ Provides[handed[p][s]][s] >= Requires[p][s]
      BY DEF OneObjectPerRequiredService
    <3>1. s \in required /\ ~Clash
      BY <2>1 DEF LoadedInOrder, HandedByProviders
    <3>2. handed[p][s] \in ProvidersOf(s) /\ \E b \in ProvidersOf(s) : Provides[b][s] >= Requires[p][s]
      BY <2>1 DEF HandedByProviders
    <3>3. ProvidersOf(s) = {handed[p][s]}
      BY <3>1, <3>2, OnlyProvider
    <3> QED
      BY <3>2, <3>3
  <2>4. PanelChoosesNoProvider
    <3> SUFFICES ASSUME NEW p \in Plugins, NEW q \in Plugins, initialized[p], initialized[q],
                        source[p] = "panel"
                 PROVE  Names(Provides[p]) \cap Names(Requires[q]) = {}
      BY DEF PanelChoosesNoProvider
    <3>1. enabled[p] /\ Installed(p) /\ Names(Requires[q]) \subseteq required
      BY <2>1 DEF LoadedInOrder
    <3>2. Names(Provides[p]) \cap required = {}
      BY <2>1, <3>1 DEF PanelIsHeard, Second
    <3> QED
      BY <3>1, <3>2
  <2> QED
    BY <2>2, <2>3, <2>4 DEF RunsAsDeclared
<1> QED
  BY <1>1, <1>2, <1>3, PTL DEF ApplicationSpec

-----------------------------------------------------------------------------
(* The routes: what is bound and mounted, and what a handler was given      *)

\* What a declaration that is not refused becomes.
Endpoints == {Routes!Endpoint(d) : d \in {e \in Declarations : ~Routes!Refused(e)}}

RoutesTyped ==
  /\ manager \in Seq(Declarations) /\ kernel \in Seq(Declarations) /\ table \in Seq(Endpoints)
  /\ phase \in {"mount", "serve"} => manager = <<>>
  /\ phase = "serve" => kernel = <<>>

Answers(d) == \E i \in DOMAIN table : table[i].path = d.path /\ table[i].verbs = Routes!Upper(d.verbs)

\* Nothing that was declared is forgotten on its way into the table.
NoneForgotten ==
  \A d \in declared :
    \/ \E i \in DOMAIN manager : manager[i] = d
    \/ \E i \in DOMAIN kernel : kernel[i] = d
    \/ Answers(d)

InCapitals(d) == Routes!Upper(d.verbs) = d.verbs

\* What the manager still has is not in the table, and what is there is there once, if its
\* verbs are in capitals.
OnceEach ==
  /\ \A i, j \in DOMAIN table : table[i].by = table[j].by /\ InCapitals(table[i].by) => i = j
  /\ \A i \in DOMAIN manager, j \in DOMAIN table : manager[i] # table[j].by
  /\ \A i, j \in DOMAIN manager : manager[i] = manager[j] => i = j

Served == RoutesTyped /\ NoneForgotten /\ OnceEach /\ Routes!HandlerRunsAsDeclared

\* What a handler may be given: the reading of HandlerRunsAsDeclared for one answer.
Fits(o) ==
  /\ o.by.right => o.actor = Routes!Actor /\ o.checked
  /\ o.by.mask # <<>> => \A n \in DOMAIN o.given :
       CASE n = "current_user" /\ o.actor # 0 -> o.given[n] = o.actor
         [] n = "request" /\ Routes!RouteKind(o.by) = "write" -> o.given[n] \in {Routes!Body, Routes!Empty}
         [] OTHER ->
              /\ n \in DOMAIN o.by.mask
              /\ o.by.mask[n].type \in {"int", "float"} =>
                   o.by.mask[n].min <= o.given[n] /\ o.given[n] <= o.by.mask[n].max
              /\ n \in DOMAIN o.path => o.given[n] = o.path[n]

Numbers(f) == \A n \in DOMAIN f : f[n] \in Int

\* The argument of one name: the caller, the body, or a value the mask lets through.
Argued(d, fromPath, actor, n, v) ==
  LET called == n = "current_user" /\ actor # 0
      written == n = "request" /\ Routes!RouteKind(d) = "write"
  IN
  /\ called => v = actor
  /\ written => v \in {Routes!Body, Routes!Empty}
  /\ ~called /\ ~written =>
       /\ n \in DOMAIN d.mask
       /\ d.mask[n].type \in {"int", "float"} => d.mask[n].min <= v /\ v <= d.mask[n].max
       /\ n \in DOMAIN fromPath => v = fromPath[n]

\* A mask admits what lies within it, and what it admits reaches the handler with the caller
\* and the body beside it.
LEMMA MaskedFits ==
  ASSUME NEW d \in Declarations, d.mask # <<>>,
         NEW fromPath, Numbers(fromPath), NEW query, Numbers(query),
         Routes!Complaints(d.mask, Routes!Params(fromPath, query)) = {},
         NEW actor \in {0, Routes!Actor}, NEW body \in Routes!Bodies(d),
         NEW n \in DOMAIN Routes!Arguments(d, Routes!Params(fromPath, query), actor, body)
  PROVE  Argued(d, fromPath, actor, n, Routes!Arguments(d, Routes!Params(fromPath, query), actor, body)[n])
<1> DEFINE params == Routes!Params(fromPath, query)
           values == Routes!Values(d, params)
           given == Routes!Arguments(d, params, actor, body)
           written == Routes!RouteKind(d) = "write"
<1>1. /\ DOMAIN params = DOMAIN fromPath \cup DOMAIN query
      /\ \A m \in DOMAIN params : params[m] = IF m \in DOMAIN fromPath THEN fromPath[m] ELSE query[m]
  BY DEF Routes!Params
<1> HIDE DEF params
<1>2. /\ DOMAIN values = DOMAIN d.mask \cap DOMAIN params
      /\ \A m \in DOMAIN values : values[m] = params[m]
  BY DEF Routes!Values
<1> HIDE DEF values
<1>4. /\ DOMAIN given = DOMAIN values \cup {m \in {"request"} : written} \cup {m \in {"current_user"} : actor # 0}
      /\ \A m \in DOMAIN given : given[m] =
           CASE m = "request" /\ written -> body
             [] m = "current_user" /\ actor # 0 -> actor
             [] OTHER -> values[m]
  BY DEF Routes!Arguments, values
<1>5. n \in DOMAIN given
  BY DEF params
<1> HIDE DEF given
<1>6. CASE n = "current_user" /\ actor # 0
  <2>1. given[n] = actor
    BY <1>4, <1>5, <1>6
  <2> QED
    BY <1>6, <2>1 DEF given, params, Argued
<1>7. CASE n = "request" /\ written
  <2>1. given[n] = body
    BY <1>4, <1>5, <1>7
  <2>2. body \in {Routes!Body, Routes!Empty}
    BY <1>7 DEF Routes!Bodies
  <2> QED
    BY <1>7, <2>1, <2>2 DEF given, params, Argued
<1>8. CASE ~(n = "current_user" /\ actor # 0) /\ ~(n = "request" /\ written)
  <2>1. n \in DOMAIN d.mask /\ n \in DOMAIN params /\ given[n] = params[n]
    BY <1>2, <1>4, <1>5, <1>8
  <2>2. Routes!Admits(d.mask[n], params[n])
    BY <2>1 DEF Routes!Complaints, params
  <2>3. params[n] \in Int /\ d.mask[n].min \in Nat /\ d.mask[n].max \in Nat
    BY <1>1, <2>1, WellDeclared DEF Routes!RouteCallsAssumption, Numbers
  <2>4. d.mask[n].type \in {"int", "float"} => d.mask[n].min <= params[n] /\ params[n] <= d.mask[n].max
    BY <2>2, <2>3 DEF Routes!Admits, Routes!Converts, Routes!Below, Routes!NaN
  <2>5. n \in DOMAIN fromPath => given[n] = fromPath[n]
    BY <1>1, <2>1
  <2> QED
    BY <1>8, <2>1, <2>4, <2>5 DEF given, params, Argued
<1> QED
  BY <1>6, <1>7, <1>8

\* A call of an endpoint that was not refused.
LEMMA OutcomeFits ==
  ASSUME NEW d \in Declarations, ~Routes!Refused(d),
         NEW fromPath, Numbers(fromPath), NEW query, Numbers(query),
         NEW actor \in {0, Routes!Actor},
         NEW o \in Routes!Outcomes(Routes!Endpoint(d), fromPath, query, actor), o.status = 200
  PROVE  Fits(o)
<1> DEFINE e == Routes!Endpoint(d)
           params == Routes!Params(fromPath, query)
           who == IF e.signed THEN actor ELSE 0
           run(body) == [status |-> 200, by |-> d, given |-> Routes!Arguments(d, params, who, body),
                         path |-> fromPath, actor |-> who, checked |-> d.right]
<1>1. /\ e.by = d /\ (e.signed <=> ~d.raw /\ d.auth # "no" /\ Routes!RouteKind(d) # "none")
  BY DEF Routes!Endpoint
<1>2. d.right => ~d.raw /\ d.auth # "no"
  BY DEF Routes!Refused
<1> HIDE DEF e
<1>3. \A status : status # 200 => o # Routes!Says(status)
  BY DEF Routes!Says
<1>4. CASE d.raw
  <2>1. o \in {[status |-> 200, by |-> d, given |-> <<>>, path |-> fromPath, actor |-> 0, checked |-> FALSE]}
    BY <1>1, <1>4 DEF Routes!Outcomes, e
  <2>2. o.by = d /\ DOMAIN o.given = {}
    BY <2>1
  <2> QED
    BY <1>2, <1>4, <2>2 DEF Fits
<1>5. CASE ~d.raw
  <2>1. /\ Routes!RouteKind(d) # "none" /\ (e.signed => actor # 0)
        /\ d.mask = <<>> \/ Routes!Complaints(d.mask, params) = {}
        /\ \E body \in Routes!Bodies(d) : o = run(body)
    BY <1>1, <1>3, <1>5 DEF Routes!Outcomes, e
  <2>2. PICK body \in Routes!Bodies(d) : o = run(body)
    BY <2>1
  <2>3. /\ o.by = d /\ o.actor = who /\ o.checked = d.right /\ o.path = fromPath
        /\ o.given = Routes!Arguments(d, params, who, body)
    BY <2>2
  <2>4. who \in {0, Routes!Actor} /\ (d.right => who = Routes!Actor)
    BY <1>1, <1>2, <2>1
  <2> HIDE DEF who
  <2>5. ASSUME d.mask # <<>>, NEW n \in DOMAIN o.given
        PROVE  CASE n = "current_user" /\ o.actor # 0 -> o.given[n] = o.actor
                 [] n = "request" /\ Routes!RouteKind(d) = "write" -> o.given[n] \in {Routes!Body, Routes!Empty}
                 [] OTHER ->
                      /\ n \in DOMAIN d.mask
                      /\ d.mask[n].type \in {"int", "float"} =>
                           d.mask[n].min <= o.given[n] /\ o.given[n] <= d.mask[n].max
                      /\ n \in DOMAIN o.path => o.given[n] = o.path[n]
    <3>1. PICK v : v = o.given[n]
      OBVIOUS
    <3>2. /\ n \in DOMAIN Routes!Arguments(d, Routes!Params(fromPath, query), who, body)
          /\ v = Routes!Arguments(d, Routes!Params(fromPath, query), who, body)[n]
      BY <2>3, <2>5, <3>1
    <3>3. Routes!Complaints(d.mask, Routes!Params(fromPath, query)) = {}
      BY <2>1, <2>5
    <3>4. Argued(d, fromPath, who, n, v)
      BY <2>4, <2>5, <3>2, <3>3, MaskedFits
    <3> QED
      BY <2>3, <3>1, <3>4 DEF Argued
  <2> QED
    BY <2>3, <2>4, <2>5 DEF Fits
<1> QED
  BY <1>4, <1>5

\* The lists a behaviour starts with name a declaration once.
LEMMA ListsAreLists ==
  ASSUME NEW l \in Routes!Lists
  PROVE  /\ l \in Seq(Declarations)
         /\ \A i, j \in DOMAIN l : l[i] = l[j] => i = j
<1>1. CASE l = <<>>
  BY <1>1
<1>2. ASSUME NEW d \in Declarations, l = <<d>>
      PROVE  l \in Seq(Declarations) /\ \A i, j \in DOMAIN l : l[i] = l[j] => i = j
  BY <1>2
<1>3. ASSUME NEW d \in Declarations, NEW e \in Declarations, l = <<d, e>>, d # e
      PROVE  l \in Seq(Declarations) /\ \A i, j \in DOMAIN l : l[i] = l[j] => i = j
  BY <1>3
<1>4. CASE l \in {p \in Declarations \X Declarations : p[1] # p[2]}
  <2>1. PICK d \in Declarations, e \in Declarations : l = <<d, e>> /\ l[1] # l[2]
    BY <1>4
  <2> QED
    BY <1>3, <2>1
<1> QED
  BY <1>1, <1>2, <1>4 DEF Routes!Lists

\* Of an empty table and no answer, all is said by the lists.
LEMMA ServedAtFirst ==
  ASSUME manager \in Seq(Declarations), kernel \in Seq(Declarations), table = <<>>, phase = "bind",
         answer = Routes!Unasked,
         \A i, j \in DOMAIN manager : manager[i] = manager[j] => i = j,
         \A d \in declared : (\E i \in DOMAIN manager : manager[i] = d) \/ (\E i \in DOMAIN kernel : kernel[i] = d)
  PROVE  Served
<1>1. RoutesTyped
  BY DEF RoutesTyped
<1>2. NoneForgotten /\ OnceEach
  BY DEF NoneForgotten, OnceEach
<1>3. Routes!HandlerRunsAsDeclared
  BY DEF Routes!HandlerRunsAsDeclared, Routes!Ran, Routes!Unasked
<1> QED
  BY <1>1, <1>2, <1>3 DEF Served

\* The first of a list, and the rest.
LEMMA HeadAndTail ==
  ASSUME NEW S, NEW l \in Seq(S), l # <<>>
  PROVE  /\ Head(l) \in S /\ Tail(l) \in Seq(S) /\ 1 \in DOMAIN l /\ l[1] = Head(l)
         /\ \A i \in DOMAIN Tail(l) : i + 1 \in DOMAIN l /\ i + 1 # 1 /\ Tail(l)[i] = l[i + 1]
         /\ \A i \in DOMAIN l : i = 1 \/ (i - 1 \in DOMAIN Tail(l) /\ Tail(l)[i - 1] = l[i])
  OBVIOUS

\* An endpoint behind the others.
LEMMA OneMoreEndpoint ==
  ASSUME NEW t \in Seq(Endpoints), NEW e \in Endpoints
  PROVE  /\ Append(t, e) \in Seq(Endpoints)
         /\ DOMAIN Append(t, e) = DOMAIN t \cup {Len(t) + 1} /\ Len(t) + 1 \notin DOMAIN t
         /\ Append(t, e)[Len(t) + 1] = e
         /\ \A i \in DOMAIN t : Append(t, e)[i] = t[i]
  OBVIOUS

\* The manager binds its first declaration.
LEMMA BindServes ==
  ASSUME Served, Routes!Bind, phase' # "stopped"
  PROVE  Served'
<1> DEFINE d == Head(manager)  e == Routes!Endpoint(d)
<1>1. /\ RoutesTyped /\ NoneForgotten /\ OnceEach /\ phase = "bind" /\ manager # <<>>
      /\ ~Routes!Refused(d)
      /\ manager' = Tail(manager) /\ table' = Append(table, e)
      /\ UNCHANGED <<kernel, declared, phase, answer>>
  BY DEF Served, Routes!Bind, Routes!Stop
<1>2. /\ d \in Declarations /\ Tail(manager) \in Seq(Declarations) /\ 1 \in DOMAIN manager /\ manager[1] = d
      /\ \A i \in DOMAIN Tail(manager) : i + 1 \in DOMAIN manager /\ i + 1 # 1 /\ Tail(manager)[i] = manager[i + 1]
      /\ \A i \in DOMAIN manager : i = 1 \/ (i - 1 \in DOMAIN Tail(manager) /\ Tail(manager)[i - 1] = manager[i])
  BY <1>1, HeadAndTail DEF RoutesTyped
<1>3. e \in Endpoints /\ e.by = d /\ e.path = d.path /\ e.verbs = Routes!Upper(d.verbs)
  BY <1>1, <1>2 DEF Endpoints, Routes!Endpoint
<1> HIDE DEF d, e
<1>4. /\ table' \in Seq(Endpoints)
      /\ DOMAIN table' = DOMAIN table \cup {Len(table) + 1} /\ Len(table) + 1 \notin DOMAIN table
      /\ table'[Len(table) + 1] = e
      /\ \A i \in DOMAIN table : table'[i] = table[i]
  BY <1>1, <1>3, OneMoreEndpoint DEF RoutesTyped
<1>5. RoutesTyped'
  BY <1>1, <1>2, <1>4 DEF RoutesTyped
<1>6. NoneForgotten'
  <2> SUFFICES ASSUME NEW x \in declared
               PROVE  \/ \E i \in DOMAIN manager' : manager'[i] = x
                      \/ \E i \in DOMAIN kernel : kernel[i] = x
                      \/ \E i \in DOMAIN table' : table'[i].path = x.path /\ table'[i].verbs = Routes!Upper(x.verbs)
    BY <1>1 DEF NoneForgotten, Answers
  <2>1. CASE \E i \in DOMAIN manager : manager[i] = x
    <3>1. CASE x = d
      BY <1>3, <1>4, <3>1
    <3>2. CASE x # d
      <4>1. PICK i \in DOMAIN manager : manager[i] = x
        BY <2>1
      <4>2. i - 1 \in DOMAIN Tail(manager) /\ Tail(manager)[i - 1] = x
        BY <1>2, <3>2, <4>1
      <4> QED
        BY <1>1, <4>2
    <3> QED
      BY <3>1, <3>2
  <2>2. CASE \E i \in DOMAIN kernel : kernel[i] = x
    BY <2>2
  <2>3. CASE Answers(x)
    BY <1>4, <2>3 DEF Answers
  <2> QED
    BY <1>1, <2>1, <2>2, <2>3 DEF NoneForgotten
<1>7. OnceEach'
  <2>1. \A i \in DOMAIN table : table[i].by # d
    BY <1>1, <1>2 DEF OnceEach
  <2>2. \A i, j \in DOMAIN table' : table'[i].by = table'[j].by /\ InCapitals(table'[i].by) => i = j
    BY <1>1, <1>3, <1>4, <2>1 DEF OnceEach
  <2>3. \A i \in DOMAIN manager' : manager'[i] # d /\ \A j \in DOMAIN table : manager'[i] # table[j].by
    BY <1>1, <1>2 DEF OnceEach
  <2>4. \A i, j \in DOMAIN manager' : manager'[i] = manager'[j] => i = j
    <3> SUFFICES ASSUME NEW i \in DOMAIN manager', NEW j \in DOMAIN manager', manager'[i] = manager'[j]
                 PROVE  i = j
      OBVIOUS
    <3>1. i \in Nat /\ j \in Nat /\ i + 1 = j + 1
      BY <1>1, <1>2 DEF OnceEach
    <3> QED
      BY <3>1
  <2> QED
    BY <1>3, <1>4, <2>2, <2>3, <2>4 DEF OnceEach
<1>8. Routes!HandlerRunsAsDeclared'
  BY <1>1 DEF Served, Routes!HandlerRunsAsDeclared, Routes!Ran, Routes!AsMasked
<1> QED
  BY <1>5, <1>6, <1>7, <1>8 DEF Served

\* The kernel mounts its first declaration, or finds it answered already.
LEMMA MountServes ==
  ASSUME Served, Routes!Mount, phase' # "stopped"
  PROVE  Served'
<1> DEFINE d == Head(kernel)  e == Routes!Endpoint(d)
<1>1. /\ RoutesTyped /\ NoneForgotten /\ OnceEach /\ phase = "mount" /\ kernel # <<>> /\ manager = <<>>
      /\ Routes!AlreadyMounted(d) \/ ~Routes!Refused(d)
      /\ kernel' = Tail(kernel)
      /\ table' = IF Routes!AlreadyMounted(d) THEN table ELSE Append(table, e)
      /\ UNCHANGED <<manager, declared, phase, answer>>
  BY DEF Served, Routes!Mount, Routes!Stop, RoutesTyped
<1>2. /\ d \in Declarations /\ Tail(kernel) \in Seq(Declarations)
      /\ \A i \in DOMAIN kernel : kernel[i] = d \/ (i - 1 \in DOMAIN Tail(kernel) /\ Tail(kernel)[i - 1] = kernel[i])
  BY <1>1, HeadAndTail DEF RoutesTyped
<1>3. \A f \in Endpoints : Routes!Upper(f.verbs) = f.verbs
  BY DEF Endpoints, Routes!Endpoint, Routes!Upper
<1>4. /\ Routes!AlreadyMounted(d) => Answers(d)
      /\ InCapitals(d) /\ Answers(d) => Routes!AlreadyMounted(d)
  BY <1>1, <1>3 DEF Routes!AlreadyMounted, Answers, InCapitals, RoutesTyped
<1>5. /\ e.by = d /\ e.path = d.path /\ e.verbs = Routes!Upper(d.verbs)
      /\ ~Routes!AlreadyMounted(d) => e \in Endpoints
  BY <1>1, <1>2 DEF Endpoints, Routes!Endpoint
<1>6. \A f \in Endpoints : f.path = f.by.path /\ f.verbs = Routes!Upper(f.by.verbs)
  BY DEF Endpoints, Routes!Endpoint
<1> HIDE DEF d, e
<1>7. /\ table' \in Seq(Endpoints)
      /\ \A i \in DOMAIN table : i \in DOMAIN table' /\ table'[i] = table[i]
      /\ \/ /\ DOMAIN table' = DOMAIN table \cup {Len(table) + 1}
            /\ table'[Len(table) + 1] = e
            /\ InCapitals(d) => ~Answers(d)
         \/ Answers(d) /\ table' = table
  BY <1>1, <1>4, <1>5, OneMoreEndpoint DEF RoutesTyped
<1>8. RoutesTyped'
  BY <1>1, <1>2, <1>7 DEF RoutesTyped
<1>9. NoneForgotten'
  <2> SUFFICES ASSUME NEW x \in declared
               PROVE  \/ \E i \in DOMAIN kernel' : kernel'[i] = x
                      \/ \E i \in DOMAIN table' : table'[i].path = x.path /\ table'[i].verbs = Routes!Upper(x.verbs)
    BY <1>1 DEF NoneForgotten, Answers
  <2>1. CASE \E i \in DOMAIN kernel : kernel[i] = x
    <3>1. CASE x = d
      BY <1>5, <1>7, <3>1 DEF Answers
    <3>2. CASE x # d
      BY <1>1, <1>2, <2>1, <3>2
    <3> QED
      BY <3>1, <3>2
  <2>2. CASE Answers(x)
    BY <1>7, <2>2 DEF Answers
  <2> QED
    BY <1>1, <2>1, <2>2 DEF NoneForgotten
<1>10. OnceEach'
  <2>1. ~Answers(d) => \A i \in DOMAIN table : table[i].by # d
    BY <1>1, <1>6 DEF Answers, RoutesTyped
  <2>2. \A i, j \in DOMAIN table' : table'[i].by = table'[j].by /\ InCapitals(table'[i].by) => i = j
    BY <1>1, <1>5, <1>7, <2>1 DEF OnceEach
  <2> QED
    BY <1>1, <2>2 DEF OnceEach
<1>11. Routes!HandlerRunsAsDeclared'
  BY <1>1 DEF Served, Routes!HandlerRunsAsDeclared, Routes!Ran, Routes!AsMasked
<1> QED
  BY <1>8, <1>9, <1>10, <1>11 DEF Served

\* A call is answered.
LEMMA AskServes ==
  ASSUME Served, Routes!Ask
  PROVE  Served'
<1>1. RoutesTyped /\ UNCHANGED <<manager, kernel, declared, table, phase>>
  BY DEF Served, Routes!Ask
<1>2. RoutesTyped' /\ NoneForgotten' /\ OnceEach'
  BY <1>1 DEF Served, RoutesTyped, NoneForgotten, OnceEach, Answers
<1>3. ASSUME answer'.status = 200 PROVE Fits(answer')
  <2>1. PICK a \in Addresses, verb \in {"GET", "POST", "PUT"}, query \in Queries, actor \in {0, Routes!Actor} :
          answer' \in
            IF Routes!Chosen(a, verb) = {}
            THEN {Routes!Says(IF \E i \in DOMAIN table : table[i].path \in a.matches THEN 405 ELSE 404)}
            ELSE UNION {Routes!Outcomes(table[i], a.values[table[i].path], query, actor) : i \in Routes!Chosen(a, verb)}
    BY DEF Routes!Ask
  <2>2. Routes!Chosen(a, verb) # {}
    BY <1>3, <2>1 DEF Routes!Says
  <2>3. PICK i \in Routes!Chosen(a, verb) :
          answer' \in Routes!Outcomes(table[i], a.values[table[i].path], query, actor)
    BY <2>1, <2>2
  <2>4. i \in DOMAIN table /\ table[i].path \in a.matches
    BY <2>3 DEF Routes!Chosen
  <2>5. PICK d \in Declarations : table[i] = Routes!Endpoint(d) /\ ~Routes!Refused(d)
    BY <1>1, <2>4 DEF RoutesTyped, Endpoints
  <2>6. PICK fromPath : fromPath = a.values[table[i].path]
    OBVIOUS
  <2>7. Numbers(fromPath) /\ Numbers(query)
    BY <2>4, <2>6, WellDeclared DEF Routes!RouteCallsAssumption, Numbers
  <2>8. PICK o : o = answer'
    OBVIOUS
  <2>9. o \in Routes!Outcomes(Routes!Endpoint(d), fromPath, query, actor) /\ o.status = 200
    BY <1>3, <2>3, <2>5, <2>6, <2>8
  <2>10. Fits(o)
    BY <2>5, <2>7, <2>9, OutcomeFits
  <2> QED
    BY <2>8, <2>10
<1>4. Routes!HandlerRunsAsDeclared'
  BY <1>3 DEF Fits, Routes!HandlerRunsAsDeclared, Routes!Ran, Routes!AsMasked
<1> QED
  BY <1>2, <1>4 DEF Served

\* What leaves the lists, the table and the answer alone.
LEMMA PhaseServes ==
  ASSUME Served, UNCHANGED <<manager, kernel, declared, table, answer>>,
         phase' \in {"mount", "serve"} => manager = <<>>, phase' = "serve" => kernel = <<>>
  PROVE  Served'
<1>1. RoutesTyped' /\ NoneForgotten' /\ OnceEach'
  BY DEF Served, RoutesTyped, NoneForgotten, OnceEach, Answers
<1>2. Routes!HandlerRunsAsDeclared'
  BY DEF Served, Routes!HandlerRunsAsDeclared, Routes!Ran, Routes!AsMasked
<1> QED
  BY <1>1, <1>2 DEF Served

LEMMA ServedIsKept == Served /\ [Routes!Next]_routesVars => Served'
<1> SUFFICES ASSUME Served, [Routes!Next]_routesVars PROVE Served'
  OBVIOUS
<1>1. RoutesTyped
  BY DEF Served
<1>2. CASE UNCHANGED routesVars
  BY <1>1, <1>2, PhaseServes DEF routesVars, RoutesTyped
<1>3. CASE Routes!Stop
  BY <1>3, PhaseServes DEF Routes!Stop
<1>4. CASE Routes!Collect /\ ~Routes!Stop
  BY <1>4, PhaseServes DEF Routes!Collect
<1>5. CASE Routes!Serve
  BY <1>1, <1>5, PhaseServes DEF Routes!Serve, RoutesTyped
<1>6. CASE Routes!Bind /\ ~Routes!Stop
  <2>1. phase' # "stopped"
    BY <1>6 DEF Routes!Bind
  <2> QED
    BY <1>6, <2>1, BindServes
<1>7. CASE Routes!Mount /\ ~Routes!Stop
  <2>1. phase' # "stopped"
    BY <1>7 DEF Routes!Mount
  <2> QED
    BY <1>7, <2>1, MountServes
<1> QED
  BY <1>2, <1>3, <1>4, <1>5, <1>6, <1>7, AskServes DEF Routes!Next

\* What answers is what was declared: every declaration, at its path and by its verbs, and
\* once if they are in capitals, whoever of the manager and the kernel collected it; and a
\* handler whose route wants a right or has a mask never runs without the one or outside the
\* other, whatever is asked, the mask of a parameter the framework supplies as of any other
\* where it has nothing to supply (_mount_route, register_declared_routes, Mask.admit, invoke).
THEOREM RoutesServeAsDeclared == ApplicationSpec => []ServesAsDeclared
<1>1. ApplicationInit => Served
  <2> SUFFICES ASSUME RoutesRest \/ Routes!Init PROVE Served
    BY DEF ApplicationInit
  <2>1. CASE RoutesRest
    <3>1. manager \in Seq(Declarations) /\ kernel \in Seq(Declarations)
      BY <2>1 DEF RoutesRest
    <3> QED
      BY <2>1, <3>1, ServedAtFirst DEF RoutesRest
  <2>2. CASE Routes!Init
    <3>1. /\ manager \in Seq(Declarations) /\ kernel \in Seq(Declarations)
          /\ \A i, j \in DOMAIN manager : manager[i] = manager[j] => i = j
      BY <2>2, ListsAreLists DEF Routes!Init
    <3> QED
      BY <2>2, <3>1, ServedAtFirst DEF Routes!Init
  <2> QED
    BY <2>1, <2>2
<1>2. Served /\ [ApplicationNext]_<<which, vars, routesVars, bodyVars>> => Served'
  BY ServedIsKept DEF ApplicationNext
<1>3. Served => ServesAsDeclared
  <2> SUFFICES ASSUME Served, phase = "serve", NEW d \in declared
               PROVE  /\ \E i \in DOMAIN table : table[i].path = d.path /\ table[i].verbs = Routes!Upper(d.verbs)
                      /\ Routes!Upper(d.verbs) = d.verbs =>
                           Routes!Cardinality({i \in DOMAIN table : table[i].by = d}) <= 1
    BY DEF Served, ServesAsDeclared, Routes!ServesAsDeclared, Routes!DeclarationsAnswerOnce
  <2>1. Answers(d) /\ OnceEach
    BY DEF Served, RoutesTyped, NoneForgotten
  <2> DEFINE its == {i \in DOMAIN table : table[i].by = d}
  <2>2. InCapitals(d) => its = {} \/ \E i : its = {i}
    BY <2>1 DEF OnceEach
  <2>3. ASSUME InCapitals(d)
        PROVE  Cardinality(its) <= 1
    <3> HIDE DEF its
    <3>1. CASE its = {}
      <4>1. Cardinality(its) = 0
        BY <3>1, FS_EmptySet
      <4> QED
        BY <4>1
    <3>2. CASE \E i : its = {i}
      <4>1. Cardinality(its) = 1
        BY <3>2, FS_Singleton
      <4> QED
        BY <4>1
    <3> QED
      BY <2>2, <2>3, <3>1, <3>2
  <2>4. Routes!Cardinality(its) = Cardinality(its)
    BY DEF Routes!Cardinality, Cardinality
  <2> QED
    BY <2>1, <2>3, <2>4 DEF Answers, InCapitals
<1> QED
  BY <1>1, <1>2, <1>3, PTL DEF ApplicationSpec

-----------------------------------------------------------------------------
(* PanelData: what is read through the caches                              *)

\* What a page may be answered with: a theme or none, or sections with their releases.
Shown == {<<s, row[s].js>> : s \in {u \in Granted : row[u].state = "on"}}
ReadAs(k) == IF k = "theme" THEN ActiveReads ELSE {Shown}

Releases == {Earlier, Release}
Readable == (SUBSET ThemeIds) \cup (SUBSET (SectionIds \X Releases))
CacheEntry == [value : Readable, until : Nat, deaf : BOOLEAN]
Loading == [value : Readable, since : Nat, late : BOOLEAN]
Notice == [origin : Replicas, kind : Keys]

CacheTyped ==
  /\ now \in Nat
  /\ entry \in [Replicas -> [Keys -> CacheEntry]]
  /\ loads \in [Replicas -> [Keys -> SUBSET Loading]]
  /\ outbox \in [Replicas -> SUBSET Keys]
  /\ owing \in [Replicas -> SUBSET Keys]
  /\ inbox \in [Replicas -> SUBSET Notice]
  /\ changed \in [Keys -> Nat]

\* That a replica has still to hear of a change.
Told(r, k) ==
  \/ \E q \in Replicas : k \in owing[q]
  \/ \E q \in Replicas \ {r} : k \in outbox[q]
  \/ \E e \in inbox[r] : e.kind = k

\* A load that read what is no longer so began before the change and knows it.
LoadFits(k, l) ==
  /\ l.since <= now /\ now <= l.since + Latency
  /\ l.value \notin ReadAs(k) => l.since <= changed[k] /\ l.late

\* An entry that is no longer so was made within a load's time of the change, and will be
\* dropped, unless it cannot hear of it.
EntryFits(r, k) ==
  /\ entry[r][k].until <= now + TTL
  /\ Usable(r, k) /\ entry[r][k].value \notin ReadAs(k) =>
       /\ entry[r][k].until <= changed[k] + TTL + Latency
       /\ entry[r][k].deaf \/ Told(r, k)

CacheInv ==
  /\ CacheTyped
  /\ \A k \in Keys : changed[k] <= now
  /\ \A r \in Replicas, k \in Keys : EntryFits(r, k) /\ \A l \in loads[r][k] : LoadFits(k, l)

LEMMA CacheBounds ==
  /\ TTL \in Nat \ {0} /\ Latency \in Nat \ {0} /\ Keys = {"theme", "sections"}
BY CacheAssumption, PanelAssumption DEF CacheAssumption, PanelAssumption

LEMMA NoEntryIsAnEntry ==
  NoEntry \in CacheEntry /\ NoEntry.until = 0 /\ NoEntry.value = {} /\ NoEntry.deaf = FALSE
BY DEF NoEntry, CacheEntry, Readable

\* What is usable is there.
LEMMA EntryTypes ==
  ASSUME CacheTyped, NEW r \in Replicas, NEW k \in Keys
  PROVE  /\ entry[r][k] \in CacheEntry /\ entry[r][k].until \in Nat
         /\ now \in Nat /\ changed[k] \in Nat
         /\ Usable(r, k) = (entry[r][k].until > now)
         /\ \A l \in loads[r][k] : l \in Loading /\ l.since \in Nat
BY DEF CacheTyped, CacheEntry, Usable, Loading

\* The replicas that will not be told.
LEMMA DeafTypes ==
  ASSUME CacheTyped, NEW S, NEW T, Deaf(S, T)
  PROVE  /\ entry' \in [Replicas -> [Keys -> CacheEntry]]
         /\ \A r \in Replicas, k \in Keys :
              /\ entry'[r][k].until = entry[r][k].until /\ entry'[r][k].value = entry[r][k].value
              /\ r \in S /\ k \in T /\ Usable(r, k) => entry'[r][k].deaf
              /\ ~(r \in S /\ k \in T /\ Usable(r, k)) => entry'[r][k] = entry[r][k]
              /\ entry[r][k].deaf => entry'[r][k].deaf
<1>1. ASSUME NEW r \in Replicas, NEW k \in Keys
      PROVE  /\ entry'[r][k] = IF r \in S /\ k \in T /\ Usable(r, k)
                               THEN [entry[r][k] EXCEPT !.deaf = TRUE] ELSE entry[r][k]
             /\ entry'[r][k] \in CacheEntry
             /\ entry'[r][k].until = entry[r][k].until /\ entry'[r][k].value = entry[r][k].value
             /\ r \in S /\ k \in T /\ Usable(r, k) => entry'[r][k].deaf
             /\ entry[r][k].deaf => entry'[r][k].deaf
  <2>1. entry'[r][k] = IF r \in S /\ k \in T /\ Usable(r, k)
                       THEN [entry[r][k] EXCEPT !.deaf = TRUE] ELSE entry[r][k]
    BY DEF Deaf
  <2>2. entry[r][k] \in CacheEntry
    BY EntryTypes
  <2>3. /\ [entry[r][k] EXCEPT !.deaf = TRUE] \in CacheEntry
        /\ [entry[r][k] EXCEPT !.deaf = TRUE].deaf
        /\ [entry[r][k] EXCEPT !.deaf = TRUE].until = entry[r][k].until
        /\ [entry[r][k] EXCEPT !.deaf = TRUE].value = entry[r][k].value
    BY <2>2 DEF CacheEntry
  <2>4. QED
    BY <2>1, <2>2, <2>3
<1>2. entry' = [r \in Replicas |-> [k \in Keys |-> entry'[r][k]]]
  BY DEF Deaf
<1>3. entry' \in [Replicas -> [Keys -> CacheEntry]]
  BY <1>1, <1>2
<1> QED
  BY <1>1, <1>3

\* An entry that is as it was, or gone, or deaf where there is no more to be told, fits still.
LEMMA EntryStays ==
  ASSUME CacheInv, CacheTyped', NEW r \in Replicas, NEW k \in Keys,
         now' = now, changed'[k] = changed[k], ReadAs(k)' = ReadAs(k),
         \/ entry'[r][k].until = 0
         \/ /\ entry'[r][k].until = entry[r][k].until /\ entry'[r][k].value = entry[r][k].value
            /\ entry[r][k].deaf => entry'[r][k].deaf
            /\ Usable(r, k) /\ Told(r, k) => entry'[r][k].deaf \/ Told(r, k)'
  PROVE  EntryFits(r, k)'
<1>1. /\ EntryFits(r, k) /\ now \in Nat /\ entry[r][k].until \in Nat
      /\ Usable(r, k) = (entry[r][k].until > now) /\ Usable(r, k)' = (entry'[r][k].until > now')
      /\ TTL \in Nat
  BY EntryTypes, CacheBounds DEF CacheInv, Usable
<1>2. CASE entry'[r][k].until = 0
  <2>1. now' = now /\ 0 <= now' + TTL /\ ~(0 > now')
    BY <1>1
  <2>2. ~Usable(r, k)' /\ entry'[r][k].until <= now' + TTL
    BY <1>1, <1>2, <2>1
  <2>3. QED
    BY <2>2 DEF EntryFits
<1>3. CASE entry'[r][k].until # 0
  BY <1>1, <1>3 DEF EntryFits
<1> QED
  BY <1>2, <1>3

LEMMA LoadStays ==
  ASSUME NEW k \in Keys, NEW l, LoadFits(k, l),
         now' = now, changed'[k] = changed[k], ReadAs(k)' = ReadAs(k)
  PROVE  LoadFits(k, l)'
BY DEF LoadFits

\* The statements and answers that leave the caches alone.
LEMMA CacheRests ==
  ASSUME CacheInv, UNCHANGED <<now, entry, loads, outbox, owing, inbox, changed>>,
         \A k \in Keys : ReadAs(k)' = ReadAs(k)
  PROVE  CacheInv'
<1>1. CacheTyped'
  BY DEF CacheInv, CacheTyped
<1>2. \A r \in Replicas, k \in Keys : Told(r, k)' = Told(r, k)
  BY DEF Told
<1>3. \A r \in Replicas, k \in Keys : EntryFits(r, k)'
  BY <1>1, <1>2, EntryStays
<1>4. \A r \in Replicas, k \in Keys : \A l \in loads'[r][k] : LoadFits(k, l)'
  BY LoadStays DEF CacheInv
<1> QED
  BY <1>1, <1>3, <1>4 DEF CacheInv

-----------------------------------------------------------------------------
(* PanelData: a load, and what it leaves                                   *)

LEMMA LoadKeeps ==
  ASSUME CacheInv, NEW r \in Replicas, NEW k \in Keys, NEW value \in ReadAs(k) \cap Readable,
         Load(r, k, value), \A j \in Keys : ReadAs(j)' = ReadAs(j)
  PROVE  CacheInv'
<1> DEFINE l == [value |-> value, since |-> now, late |-> FALSE]
<1>1. /\ loads' = [loads EXCEPT ![r][k] = @ \cup {l}]
      /\ UNCHANGED <<now, entry, outbox, owing, inbox, changed>>
  BY DEF Load, busVars
<1>2. l \in Loading /\ l.since = now /\ l.value \in ReadAs(k) /\ now \in Nat
  BY DEF Loading, CacheInv, CacheTyped
<1> HIDE DEF l
<1>3. /\ loads' \in [Replicas -> [Keys -> SUBSET Loading]]
      /\ \A q \in Replicas, j \in Keys : \A x \in loads'[q][j] : x \in loads[q][j] \/ (j = k /\ x = l)
  BY <1>1, <1>2 DEF CacheInv, CacheTyped
<1>4. CacheTyped'
  BY <1>1, <1>3 DEF CacheInv, CacheTyped
<1>5. \A q \in Replicas, j \in Keys : Told(q, j)' = Told(q, j)
  BY <1>1 DEF Told
<1>6. \A q \in Replicas, j \in Keys : EntryFits(q, j)'
  BY <1>1, <1>4, <1>5, EntryStays
<1>7. ASSUME NEW q \in Replicas, NEW j \in Keys, NEW x \in loads'[q][j]
      PROVE  LoadFits(j, x)'
  <2>1. CASE x \in loads[q][j]
    BY <1>1, <2>1, LoadStays DEF CacheInv
  <2>2. CASE j = k /\ x = l
    BY <1>1, <1>2, <2>2, CacheBounds DEF LoadFits
  <2>3. QED
    BY <1>3, <2>1, <2>2
<1> QED
  BY <1>1, <1>4, <1>6, <1>7 DEF CacheInv

LEMMA StoreKeeps ==
  ASSUME CacheInv, NEW r \in Replicas, NEW k \in Keys, Store(r, k), \A j \in Keys : ReadAs(j)' = ReadAs(j)
  PROVE  CacheInv'
<1>1. PICK l \in loads[r][k] :
        /\ entry' = [entry EXCEPT ![r][k] = [value |-> l.value, until |-> now + TTL, deaf |-> l.late]]
        /\ loads' = [loads EXCEPT ![r][k] = @ \ {l}]
        /\ UNCHANGED <<now, outbox, owing, changed, inbox>>
  BY DEF Store, busVars
<1> DEFINE e == [value |-> l.value, until |-> now + TTL, deaf |-> l.late]
<1>2. /\ l \in Loading /\ LoadFits(k, l) /\ now \in Nat /\ changed[k] \in Nat /\ l.since \in Nat
      /\ TTL \in Nat /\ Latency \in Nat
  BY CacheBounds, EntryTypes DEF CacheInv
<1>3. e \in CacheEntry /\ e.until = now + TTL /\ e.value = l.value /\ e.deaf = l.late
  BY <1>2 DEF CacheEntry, Loading
<1>4. entry' = [entry EXCEPT ![r][k] = e]
  BY <1>1
<1> HIDE DEF e
<1>5. /\ entry' \in [Replicas -> [Keys -> CacheEntry]] /\ entry'[r][k] = e
      /\ \A q \in Replicas, j \in Keys : <<q, j>> # <<r, k>> => entry'[q][j] = entry[q][j]
  BY <1>3, <1>4 DEF CacheInv, CacheTyped
<1>6. /\ loads' \in [Replicas -> [Keys -> SUBSET Loading]]
      /\ \A q \in Replicas, j \in Keys : loads'[q][j] \subseteq loads[q][j]
  BY <1>1 DEF CacheInv, CacheTyped
<1>7. CacheTyped'
  BY <1>1, <1>5, <1>6 DEF CacheInv, CacheTyped
<1>8. \A q \in Replicas, j \in Keys : Told(q, j)' = Told(q, j)
  BY <1>1 DEF Told
<1>9. ASSUME NEW q \in Replicas, NEW j \in Keys
      PROVE  EntryFits(q, j)'
  <2>1. CASE <<q, j>> = <<r, k>>
    <3>1. ReadAs(k)' = ReadAs(k) /\ changed' = changed /\ now' = now /\ q = r /\ j = k
      BY <1>1, <2>1
    <3>2. QED
      BY <1>2, <1>3, <1>5, <3>1 DEF EntryFits, LoadFits
  <2>2. CASE <<q, j>> # <<r, k>>
    BY <1>1, <1>5, <1>7, <1>8, <2>2, EntryStays
  <2>3. QED
    BY <2>1, <2>2
<1>10. \A q \in Replicas, j \in Keys : \A x \in loads'[q][j] : LoadFits(j, x)'
  BY <1>1, <1>6, LoadStays DEF CacheInv
<1> QED
  BY <1>1, <1>7, <1>9, <1>10 DEF CacheInv

LEMMA LoadFailsKeeps ==
  ASSUME CacheInv, NEW r \in Replicas, NEW k \in Keys, LoadFails(r, k), \A j \in Keys : ReadAs(j)' = ReadAs(j)
  PROVE  CacheInv'
<1>1. PICK l \in loads[r][k] :
        /\ loads' = [loads EXCEPT ![r][k] = @ \ {l}]
        /\ UNCHANGED <<now, entry, outbox, owing, changed, inbox>>
  BY DEF LoadFails, busVars
<1>2. /\ loads' \in [Replicas -> [Keys -> SUBSET Loading]]
      /\ \A q \in Replicas, j \in Keys : loads'[q][j] \subseteq loads[q][j]
  BY <1>1 DEF CacheInv, CacheTyped
<1>3. CacheTyped'
  BY <1>1, <1>2 DEF CacheInv, CacheTyped
<1>4. \A q \in Replicas, j \in Keys : Told(q, j)' = Told(q, j)
  BY <1>1 DEF Told
<1>5. \A q \in Replicas, j \in Keys : EntryFits(q, j)'
  BY <1>1, <1>3, <1>4, EntryStays
<1>6. \A q \in Replicas, j \in Keys : \A x \in loads'[q][j] : LoadFits(j, x)'
  BY <1>1, <1>2, LoadStays DEF CacheInv
<1> QED
  BY <1>1, <1>3, <1>5, <1>6 DEF CacheInv

\* A second: an entry whose time is over is none, and a load under way has time left.
LEMMA TickKeepsCaches ==
  ASSUME CacheInv, Tick, \A j \in Keys : ReadAs(j)' = ReadAs(j)
  PROVE  CacheInv'
<1>1. /\ now' = now + 1 /\ now \in Nat
      /\ entry' = [r \in Replicas |-> [k \in Keys |->
                    IF entry[r][k].until > now + 1 THEN entry[r][k] ELSE NoEntry]]
      /\ UNCHANGED <<loads, outbox, owing, changed, inbox>>
      /\ \A r \in Replicas, k \in Keys : \A l \in loads[r][k] : now < l.since + Latency
  BY DEF Tick, busVars, CacheInv, CacheTyped
<1>2. \A r \in Replicas, k \in Keys : entry[r][k] \in CacheEntry /\ entry[r][k].until \in Nat
  BY EntryTypes DEF CacheInv
<1>3. entry' \in [Replicas -> [Keys -> CacheEntry]]
  BY <1>1, <1>2, NoEntryIsAnEntry
<1>4. CacheTyped' /\ \A k \in Keys : changed'[k] <= now' /\ changed[k] \in Nat
  BY <1>1, <1>3 DEF CacheInv, CacheTyped
<1>5. ASSUME NEW r \in Replicas, NEW k \in Keys
      PROVE  EntryFits(r, k)'
  <2>1. EntryFits(r, k) /\ ReadAs(k)' = ReadAs(k) /\ Told(r, k)' = Told(r, k)
    BY <1>1 DEF CacheInv, Told
  <2>2. CASE entry[r][k].until > now + 1
    BY <1>1, <1>2, <2>1, <2>2, CacheBounds DEF EntryFits, Usable
  <2>3. CASE ~(entry[r][k].until > now + 1)
    <3>1. entry'[r][k] = NoEntry
      BY <1>1, <2>3
    <3>2. QED
      BY <1>1, <3>1, NoEntryIsAnEntry, CacheBounds DEF EntryFits, Usable
  <2>4. QED
    BY <2>2, <2>3
<1>6. ASSUME NEW r \in Replicas, NEW k \in Keys, NEW l \in loads'[r][k]
      PROVE  LoadFits(k, l)'
  <2>1. LoadFits(k, l) /\ l.since \in Nat /\ now < l.since + Latency
    BY <1>1, EntryTypes DEF CacheInv
  <2>2. ReadAs(k)' = ReadAs(k)
    OBVIOUS
  <2>3. QED
    BY <1>1, <2>1, <2>2, CacheBounds DEF LoadFits
<1> QED
  BY <1>4, <1>5, <1>6 DEF CacheInv

-----------------------------------------------------------------------------
(* PanelData: a change, and how the replicas hear of it                    *)

LEMMA ChangesKeep ==
  ASSUME CacheInv, NEW r \in Replicas, NEW k \in Keys, Changes(r, {k}),
         UNCHANGED <<now, entry, outbox, inbox>>,
         \A j \in Keys \ {k} : ReadAs(j)' = ReadAs(j)
  PROVE  CacheInv'
<1>1. /\ owing' = [owing EXCEPT ![r] = @ \cup {k}]
      /\ changed' = [j \in Keys |-> IF j \in {k} THEN now ELSE changed[j]]
      /\ loads' = [q \in Replicas |-> [j \in Keys |->
           IF j \in {k} THEN {[l EXCEPT !.late = TRUE] : l \in loads[q][j]} ELSE loads[q][j]]]
  BY DEF Changes
<1>2. /\ CacheTyped /\ now \in Nat /\ TTL \in Nat /\ Latency \in Nat
  BY CacheBounds DEF CacheInv, CacheTyped
<1>3. ASSUME NEW q \in Replicas, NEW l \in loads'[q][k]
      PROVE  l \in Loading /\ LoadFits(k, l)'
  <2>1. PICK x \in loads[q][k] : l = [x EXCEPT !.late = TRUE]
    BY <1>1, <1>3
  <2>2. x \in Loading /\ x.since \in Nat /\ LoadFits(k, x)
    BY <1>2, EntryTypes DEF CacheInv
  <2>3. l \in Loading /\ l.late /\ l.since = x.since
    BY <2>1, <2>2 DEF Loading
  <2>4. changed'[k] = now /\ now' = now
    BY <1>1
  <2>5. QED
    BY <1>2, <2>2, <2>3, <2>4 DEF LoadFits
<1>4. \A q \in Replicas, j \in Keys \ {k} : loads'[q][j] = loads[q][j] /\ changed'[j] = changed[j]
  BY <1>1
<1>5. loads' \in [Replicas -> [Keys -> SUBSET Loading]]
  <2>1. \A q \in Replicas, j \in Keys : loads'[q][j] \in SUBSET Loading
    BY <1>2, <1>3, <1>4 DEF CacheTyped
  <2>2. loads' = [q \in Replicas |-> [j \in Keys |-> loads'[q][j]]]
    BY <1>1
  <2>3. QED
    BY <2>1, <2>2
<1>6. CacheTyped' /\ \A j \in Keys : changed'[j] <= now'
  BY <1>1, <1>2, <1>5 DEF CacheTyped, CacheInv
<1>7. k \in owing'[r] /\ \A q \in Replicas : owing[q] \subseteq owing'[q]
  BY <1>1, <1>2 DEF CacheTyped
<1>8. ASSUME NEW q \in Replicas, NEW j \in Keys
      PROVE  EntryFits(q, j)'
  <2>1. CASE j = k
    <3>1. EntryFits(q, k) /\ entry[q][k].until \in Nat /\ changed'[k] = now /\ Told(q, k)'
      BY <1>1, <1>2, <1>7, EntryTypes DEF CacheInv, Told
    <3>2. entry' = entry /\ now' = now
      OBVIOUS
    <3>3. QED
      BY <1>2, <2>1, <3>1, <3>2 DEF EntryFits
  <2>2. CASE j # k
    <3>1. Told(q, j) => Told(q, j)'
      BY <1>7 DEF Told
    <3>2. ReadAs(j)' = ReadAs(j) /\ changed'[j] = changed[j]
      BY <1>4, <2>2
    <3>3. QED
      BY <1>6, <3>1, <3>2, EntryStays
  <2>3. QED
    BY <2>1, <2>2
<1>9. ASSUME NEW q \in Replicas, NEW j \in Keys, NEW l \in loads'[q][j]
      PROVE  LoadFits(j, l)'
  <2>1. CASE j = k
    BY <1>3, <2>1
  <2>2. CASE j # k
    <3>1. l \in loads[q][j] /\ ReadAs(j)' = ReadAs(j) /\ changed'[j] = changed[j]
      BY <1>4, <2>2
    <3>2. QED
      BY <3>1, LoadStays DEF CacheInv
  <2>3. QED
    BY <2>1, <2>2
<1> QED
  BY <1>6, <1>8, <1>9 DEF CacheInv

\* What the ways of hearing have in common: each entry is as it was, gone, or deaf where
\* there is no more to hear.
LEMMA HearingKeeps ==
  ASSUME CacheInv, UNCHANGED <<now, changed>>, \A j \in Keys : ReadAs(j)' = ReadAs(j),
         CacheTyped',
         \A q \in Replicas, j \in Keys : loads'[q][j] \subseteq loads[q][j],
         \A q \in Replicas, j \in Keys :
           \/ entry'[q][j].until = 0
           \/ /\ entry'[q][j].until = entry[q][j].until /\ entry'[q][j].value = entry[q][j].value
              /\ entry[q][j].deaf => entry'[q][j].deaf
              /\ Usable(q, j) /\ Told(q, j) => entry'[q][j].deaf \/ Told(q, j)'
  PROVE  CacheInv'
<1>1. \A q \in Replicas, j \in Keys : EntryFits(q, j)'
  BY EntryStays
<1>2. \A q \in Replicas, j \in Keys : \A x \in loads'[q][j] : LoadFits(j, x)'
  BY LoadStays DEF CacheInv
<1> QED
  BY <1>1, <1>2 DEF CacheInv

LEMMA InvalidateKeeps ==
  ASSUME CacheInv, NEW r \in Replicas, NEW k \in Keys, InvalidateEverywhere(r, {k}),
         UNCHANGED <<now, loads, changed, inbox>>, \A j \in Keys : ReadAs(j)' = ReadAs(j)
  PROVE  CacheInv'
<1>1. /\ entry' = [entry EXCEPT ![r] = [j \in Keys |-> IF j \in {k} THEN NoEntry ELSE @[j]]]
      /\ outbox' = [outbox EXCEPT ![r] = @ \cup {k}]
      /\ owing' = [owing EXCEPT ![r] = @ \ {k}]
  BY DEF InvalidateEverywhere
<1>2. CacheTyped
  BY DEF CacheInv
<1>3. /\ entry'[r] = [j \in Keys |-> IF j \in {k} THEN NoEntry ELSE entry[r][j]]
      /\ \A q \in Replicas \ {r} : entry'[q] = entry[q]
      /\ k \in outbox'[r] /\ \A q \in Replicas : outbox[q] \subseteq outbox'[q]
      /\ \A q \in Replicas : owing[q] \subseteq owing'[q] \cup {k}
      /\ outbox' \in [Replicas -> SUBSET Keys] /\ owing' \in [Replicas -> SUBSET Keys]
  BY <1>1, <1>2 DEF CacheTyped
<1>4. \A q \in Replicas, j \in Keys :
        entry'[q][j] = (IF q = r /\ j = k THEN NoEntry ELSE entry[q][j]) /\ entry'[q][j] \in CacheEntry
  BY <1>2, <1>3, NoEntryIsAnEntry, EntryTypes
<1>5. entry' \in [Replicas -> [Keys -> CacheEntry]]
  <2>1. \A q \in Replicas : entry'[q] \in [Keys -> CacheEntry]
    BY <1>2, <1>3, <1>4 DEF CacheTyped
  <2>2. DOMAIN entry' = Replicas /\ entry' = [q \in Replicas |-> entry'[q]]
    BY <1>1, <1>2 DEF CacheTyped
  <2>3. QED
    BY <2>1, <2>2
<1>6. CacheTyped'
  BY <1>2, <1>3, <1>5 DEF CacheTyped
<1>7. ASSUME NEW q \in Replicas, NEW j \in Keys, ~(q = r /\ j = k), Told(q, j)
      PROVE  Told(q, j)'
  <2>1. CASE \E p \in Replicas : j \in owing[p]
    BY <1>3, <1>7, <2>1 DEF Told
  <2>2. CASE \E p \in Replicas \ {q} : j \in outbox[p]
    BY <1>3, <2>2 DEF Told
  <2>3. CASE \E e \in inbox[q] : e.kind = j
    BY <2>3 DEF Told
  <2>4. QED
    BY <1>7, <2>1, <2>2, <2>3 DEF Told
<1> QED
  BY <1>4, <1>6, <1>7, NoEntryIsAnEntry, HearingKeeps

LEMMA AbandonKeeps ==
  ASSUME CacheInv, NEW r \in Replicas, Abandon(r),
         UNCHANGED <<now, loads, changed, inbox, outbox>>, \A j \in Keys : ReadAs(j)' = ReadAs(j)
  PROVE  CacheInv'
<1>1. Deaf(Replicas, owing[r]) /\ owing' = [owing EXCEPT ![r] = {}] /\ CacheTyped
  BY DEF Abandon, CacheInv
<1>2. CacheTyped'
  BY <1>1, DeafTypes DEF CacheTyped
<1>3. \A q \in Replicas \ {r} : owing'[q] = owing[q]
  BY <1>1 DEF CacheTyped
<1>4. ASSUME NEW q \in Replicas, NEW j \in Keys, j \notin owing[r], Told(q, j)
      PROVE  Told(q, j)'
  BY <1>3, <1>4 DEF Told
<1> QED
  BY <1>1, <1>2, <1>4, DeafTypes, HearingKeeps

LEMMA SendKeeps ==
  ASSUME CacheInv, NEW r \in Replicas, NEW k \in Keys, Send(r, k), \A j \in Keys : ReadAs(j)' = ReadAs(j)
  PROVE  CacheInv'
<1> DEFINE unheard == {q \in Replicas \ {r} : ~Hears(q, r)}
<1>1. /\ outbox' = [outbox EXCEPT ![r] = @ \ {k}]
      /\ inbox' = [q \in Replicas |-> IF Hears(q, r) THEN inbox[q] \cup {Envelope(r, k)} ELSE inbox[q]]
      /\ Deaf(unheard, {k}) /\ UNCHANGED <<now, loads, owing, changed>> /\ CacheTyped
  BY DEF Send, Publish, CacheInv
<1>2. Envelope(r, k) \in Notice /\ Envelope(r, k).kind = k
  BY DEF Envelope, Notice
<1>3. /\ outbox' \in [Replicas -> SUBSET Keys] /\ \A q \in Replicas \ {r} : outbox'[q] = outbox[q]
      /\ \A j \in Keys : j \in outbox[r] => j \in outbox'[r] \/ j = k
  BY <1>1 DEF CacheTyped
<1>4. /\ inbox' \in [Replicas -> SUBSET Notice]
      /\ \A q \in Replicas : inbox[q] \subseteq inbox'[q]
      /\ \A q \in Replicas : Hears(q, r) => Envelope(r, k) \in inbox'[q]
  BY <1>1, <1>2 DEF CacheTyped
<1>5. CacheTyped'
  BY <1>1, <1>3, <1>4, DeafTypes DEF CacheTyped
<1>6. ASSUME NEW q \in Replicas, NEW j \in Keys, Told(q, j), ~(q \in unheard /\ j = k)
      PROVE  Told(q, j)'
  <2>1. CASE \E p \in Replicas : j \in owing[p]
    BY <1>1, <2>1 DEF Told
  <2>2. CASE \E e \in inbox[q] : e.kind = j
    BY <1>4, <2>2 DEF Told
  <2>3. CASE \E p \in Replicas \ {q} : j \in outbox[p]
    <3>1. PICK p \in Replicas \ {q} : j \in outbox[p]
      BY <2>3
    <3>2. CASE p = r /\ j = k
      <4>1. Hears(q, r)
        BY <1>6, <3>1, <3>2
      <4>2. QED
        BY <1>2, <1>4, <3>2, <4>1 DEF Told
    <3>3. CASE ~(p = r /\ j = k)
      BY <1>3, <3>1, <3>3 DEF Told
    <3>4. QED
      BY <3>2, <3>3
  <2>4. QED
    BY <1>6, <2>1, <2>2, <2>3 DEF Told
<1> HIDE DEF unheard
<1> QED
  BY <1>1, <1>5, <1>6, DeafTypes, HearingKeeps

LEMMA SendFailsKeeps ==
  ASSUME CacheInv, NEW r \in Replicas, NEW k \in Keys, SendFails(r, k), \A j \in Keys : ReadAs(j)' = ReadAs(j)
  PROVE  CacheInv'
<1>1. /\ outbox' = [outbox EXCEPT ![r] = @ \ {k}]
      /\ Deaf(Replicas \ {r}, {k}) /\ UNCHANGED <<now, loads, owing, changed, inbox>> /\ CacheTyped
  BY DEF SendFails, CacheInv, busVars
<1>2. /\ outbox' \in [Replicas -> SUBSET Keys] /\ \A q \in Replicas \ {r} : outbox'[q] = outbox[q]
      /\ \A j \in Keys : j \in outbox[r] => j \in outbox'[r] \/ j = k
  BY <1>1 DEF CacheTyped
<1>3. CacheTyped'
  BY <1>1, <1>2, DeafTypes DEF CacheTyped
<1>4. ASSUME NEW q \in Replicas, NEW j \in Keys, Told(q, j), ~(q \in Replicas \ {r} /\ j = k)
      PROVE  Told(q, j)'
  BY <1>1, <1>2, <1>4 DEF Told
<1> QED
  BY <1>1, <1>3, <1>4, DeafTypes, HearingKeeps

LEMMA DropKeepsCaches ==
  ASSUME CacheInv, NEW r \in Replicas, Drop(r), \A j \in Keys : ReadAs(j)' = ReadAs(j)
  PROVE  CacheInv'
<1>1. PICK e \in inbox[r] :
        /\ inbox' = [inbox EXCEPT ![r] = @ \ {e}]
        /\ entry' = [entry EXCEPT ![r][e.kind] = NoEntry]
        /\ UNCHANGED <<now, loads, outbox, owing, changed>>
  BY DEF Drop, Taken
<1>2. CacheTyped /\ e.kind \in Keys
  BY DEF CacheInv, CacheTyped, Notice
<1>3. /\ entry' \in [Replicas -> [Keys -> CacheEntry]] /\ entry'[r][e.kind] = NoEntry
      /\ \A q \in Replicas, j \in Keys : ~(q = r /\ j = e.kind) => entry'[q][j] = entry[q][j]
  BY <1>1, <1>2, NoEntryIsAnEntry DEF CacheTyped
<1>4. /\ inbox' \in [Replicas -> SUBSET Notice] /\ \A q \in Replicas \ {r} : inbox'[q] = inbox[q]
      /\ \A x \in inbox[r] : x \in inbox'[r] \/ x = e
  BY <1>1, <1>2 DEF CacheTyped
<1>5. CacheTyped'
  BY <1>1, <1>2, <1>3, <1>4 DEF CacheTyped
<1>6. ASSUME NEW q \in Replicas, NEW j \in Keys, Told(q, j), ~(q = r /\ j = e.kind)
      PROVE  Told(q, j)'
  BY <1>1, <1>4, <1>6 DEF Told
<1> QED
  BY <1>1, <1>3, <1>5, <1>6, NoEntryIsAnEntry, HearingKeeps

LEMMA DisconnectKeeps ==
  ASSUME CacheInv, NEW r \in Replicas, Disconnect(r), \A j \in Keys : ReadAs(j)' = ReadAs(j)
  PROVE  CacheInv'
<1> DEFINE lost == {e.kind : e \in inbox[r]}
<1>1. /\ inbox' = [inbox EXCEPT ![r] = {}] /\ Deaf({r}, lost)
      /\ UNCHANGED <<now, loads, outbox, owing, changed>> /\ CacheTyped
  BY DEF Disconnect, BreakOff, CacheInv
<1>2. inbox' \in [Replicas -> SUBSET Notice] /\ \A q \in Replicas \ {r} : inbox'[q] = inbox[q]
  BY <1>1 DEF CacheTyped
<1>3. CacheTyped'
  BY <1>1, <1>2, DeafTypes DEF CacheTyped
<1>4. ASSUME NEW q \in Replicas, NEW j \in Keys, Told(q, j), ~(q \in {r} /\ j \in lost)
      PROVE  Told(q, j)'
  BY <1>1, <1>2, <1>4 DEF Told
<1> HIDE DEF lost
<1> QED
  BY <1>1, <1>3, <1>4, DeafTypes, HearingKeeps

\* A process that ends forgets its entries; what it had still to say is not said.
LEMMA ForgetKeeps ==
  ASSUME CacheInv, NEW r \in Replicas, Forget(r), \A j \in Keys : ReadAs(j)' = ReadAs(j)
  PROVE  CacheInv'
<1> DEFINE unsaid == owing[r] \cup outbox[r]
<1>1. /\ inbox' = [inbox EXCEPT ![r] = {}] /\ loads' = [loads EXCEPT ![r] = [k \in Keys |-> {}]]
      /\ outbox' = [outbox EXCEPT ![r] = {}] /\ owing' = [owing EXCEPT ![r] = {}]
      /\ entry' = [q \in Replicas |-> [k \in Keys |->
           IF q = r THEN NoEntry
           ELSE IF k \in unsaid /\ Usable(q, k) THEN [entry[q][k] EXCEPT !.deaf = TRUE] ELSE entry[q][k]]]
      /\ UNCHANGED <<now, changed>> /\ CacheTyped
  BY DEF Forget, Silence, CacheInv
<1> HIDE DEF unsaid
<1>2. ASSUME NEW q \in Replicas, NEW k \in Keys
      PROVE  /\ entry'[q][k] \in CacheEntry
             /\ q = r => entry'[q][k].until = 0
             /\ q # r => /\ entry'[q][k].until = entry[q][k].until
                         /\ entry'[q][k].value = entry[q][k].value
                         /\ entry[q][k].deaf => entry'[q][k].deaf
                         /\ k \in unsaid /\ Usable(q, k) => entry'[q][k].deaf
  <2>1. entry[q][k] \in CacheEntry
    BY <1>1, EntryTypes
  <2>2. /\ [entry[q][k] EXCEPT !.deaf = TRUE] \in CacheEntry
        /\ [entry[q][k] EXCEPT !.deaf = TRUE].deaf
        /\ [entry[q][k] EXCEPT !.deaf = TRUE].until = entry[q][k].until
        /\ [entry[q][k] EXCEPT !.deaf = TRUE].value = entry[q][k].value
    BY <2>1 DEF CacheEntry
  <2>3. QED
    BY <1>1, <2>1, <2>2, NoEntryIsAnEntry
<1>3. entry' \in [Replicas -> [Keys -> CacheEntry]]
  <2>1. entry' = [q \in Replicas |-> [k \in Keys |-> entry'[q][k]]]
    BY <1>1
  <2>2. QED
    BY <1>2, <2>1
<1>4. /\ inbox' \in [Replicas -> SUBSET Notice] /\ loads' \in [Replicas -> [Keys -> SUBSET Loading]]
      /\ outbox' \in [Replicas -> SUBSET Keys] /\ owing' \in [Replicas -> SUBSET Keys]
      /\ \A q \in Replicas, k \in Keys : loads'[q][k] \subseteq loads[q][k]
      /\ \A q \in Replicas \ {r} :
           inbox'[q] = inbox[q] /\ outbox'[q] = outbox[q] /\ owing'[q] = owing[q]
  BY <1>1 DEF CacheTyped
<1>5. CacheTyped'
  BY <1>1, <1>3, <1>4 DEF CacheTyped
<1>6. ASSUME NEW q \in Replicas \ {r}, NEW k \in Keys, Told(q, k), k \notin unsaid
      PROVE  Told(q, k)'
  BY <1>4, <1>6 DEF Told, unsaid
<1> QED
  BY <1>1, <1>2, <1>4, <1>5, <1>6, HearingKeeps
-----------------------------------------------------------------------------
(* The panel's calls: where each stands, and what it has done              *)

Importing == [at : {"import"}, todo : SUBSET SectionIds]
Synchronising == [at : {"sync", "grants"}, todo : SUBSET SectionIds, of : {"file", "plugins"},
                  ran : SUBSET Declarers, new : SUBSET (Declarers \cup {"file"})]
Syncing == {c \in Synchronising : c.at = "sync" /\ c.of = "plugins" =>
              c.new \subseteq c.ran /\ \A s \in c.todo : DeclaredBy[s] \in c.ran}
Updating == [at : {"update"}, id : SectionIds, js : Releases]
Granting == [at : {"grant"}, list : SUBSET SectionIds, todo : SUBSET SectionIds,
             had : SUBSET SectionIds, alone : BOOLEAN]
Dropping == [at : {"drop"}, then : {Idle} \cup Importing \cup Syncing]
CallStates == {Idle} \cup Importing \cup Syncing \cup Updating \cup Granting \cup Dropping

SectionRow == [state : {"none", "on", "off"}, js : Releases]

SectionsTyped ==
  /\ row \in [SectionIds -> SectionRow]
  /\ grant \in [SectionIds -> {"none", "on", "off"}]
  /\ declaring \in [Replicas -> SUBSET Declarers]
  /\ running \in [Replicas -> SUBSET Declarers]
  /\ call \in [Replicas -> CallStates]

Starting(c) ==
  \/ c.at \in {"sync", "grants"}
  \/ c.at = "drop" /\ c.then.at \in {"sync", "grants"}

\* A process that has not yet imported its sections has none that declare.
DeclarersRun ==
  \A r \in Replicas :
    declaring[r] \subseteq running[r] /\ (Starting(call[r]) => declaring[r] = {})

\* What a call that sets a role's sections has done so far.
GrantFits(r) ==
  call[r].at = "grant" =>
    /\ call[r].todo \subseteq call[r].list
    /\ \A s \in call[r].had : grant[s] # "none"
    /\ call[r].alone =>
         /\ \A q \in Replicas \ {r} : ~SettingARole(q)
         /\ call[r].list \ call[r].todo \subseteq Granted
         /\ (Granted \ call[r].list) \cap call[r].had = {}

SectionsInv == SectionsTyped /\ DeclarersRun /\ \A r \in Replicas : GrantFits(r)

\* A call is what its place says.
LEMMA CallIs ==
  ASSUME SectionsTyped, NEW r \in Replicas
  PROVE  /\ call[r].at \in {"idle", "import", "sync", "grants", "update", "grant", "drop"}
         /\ call[r].at = "idle" => call[r] = Idle
         /\ call[r].at = "import" => call[r] \in Importing
         /\ call[r].at \in {"sync", "grants"} => call[r] \in Syncing
         /\ call[r].at = "update" => call[r] \in Updating
         /\ call[r].at = "grant" => call[r] \in Granting
         /\ call[r].at = "drop" => call[r] \in Dropping
<1>1. call[r] \in CallStates
  BY DEF SectionsTyped
<1> QED
  BY <1>1 DEF CallStates, Idle, Importing, Syncing, Synchronising, Updating, Granting, Dropping

LEMMA IdleIsNoStart == Idle.at = "idle" /\ ~Starting(Idle) /\ Idle \in CallStates
BY DEF Idle, Starting, CallStates

\* Some number of a set is the least: its initial segment is smallest.
LEMMA LeastOfNumbers ==
  ASSUME NEW N \in SUBSET Nat, N # {}
  PROVE  \E n \in N : \A m \in N : n <= m
<1> DEFINE Segments == {0 .. n : n \in N}
<1>1. ASSUME NEW n \in N PROVE 0 .. n \in FiniteSubsetsOf(Nat)
  BY <1>1, FS_Interval DEF FiniteSubsetsOf
<1>2. Segments \subseteq FiniteSubsetsOf(Nat) /\ Segments # {}
  BY <1>1
<1>3. PICK s \in Segments : \A u \in Segments : <<u, s>> \notin StrictSubsetOrdering(Nat)
  <2> HIDE DEF Segments
  <2> QED
    BY <1>2, FS_StrictSubsetOrderingWellFounded, WFMin
<1>4. PICK n \in N : s = 0 .. n
  BY <1>3
<1>5. ASSUME NEW m \in N, m < n PROVE FALSE
  <2>1. 0 .. m \in Segments /\ 0 .. m \subseteq 0 .. n /\ n \in 0 .. n /\ n \notin 0 .. m
    BY <1>5
  <2>2. 0 .. m \in SUBSET Nat /\ 0 .. n \in SUBSET Nat
    OBVIOUS
  <2> QED
    BY <1>3, <1>4, <2>1, <2>2 DEF StrictSubsetOrdering
<1> QED
  BY <1>4, <1>5

LEMMA MinIsOne ==
  ASSUME NEW S \in SUBSET SectionIds, S # {}
  PROVE  MinOf(S) \in S
<1>1. S \in SUBSET Nat
  BY SectionsAssumption DEF SectionsAssumption
<1>2. \E s \in S : \A t \in S : s <= t
  BY <1>1, LeastOfNumbers
<1> QED
  BY <1>2 DEF MinOf

\* A call goes on, and none of those that set a role is touched.
LEMMA QuietCall ==
  ASSUME SectionsInv, NEW r \in Replicas, NEW to \in CallStates, Calls(r, to),
         to.at # "grant", Starting(to) => Starting(call[r]),
         row' \in [SectionIds -> SectionRow], UNCHANGED <<grant, declaring, running>>
  PROVE  SectionsInv'
<1>1. /\ call' \in [Replicas -> CallStates] /\ call'[r] = to
      /\ \A q \in Replicas \ {r} : call'[q] = call[q]
  BY DEF Calls, SectionsInv, SectionsTyped
<1>2. SectionsTyped'
  BY <1>1 DEF SectionsInv, SectionsTyped
<1>3. DeclarersRun'
  <2>1. \A q \in Replicas : Starting(call'[q]) => Starting(call[q])
    BY <1>1
  <2>2. QED
    BY <2>1 DEF SectionsInv, DeclarersRun
<1>4. ASSUME NEW q \in Replicas
      PROVE  GrantFits(q)'
  <2>1. Granted' = Granted
    BY DEF Granted
  <2>2. CASE q = r
    BY <1>1, <2>2 DEF GrantFits
  <2>3. CASE q # r
    BY <1>1, <2>1, <2>3 DEF GrantFits, SectionsInv, SettingARole
  <2>4. QED
    BY <2>2, <2>3
<1> QED
  BY <1>2, <1>3, <1>4 DEF SectionsInv

\* Everything is taken away; the calls that were setting the role are no longer alone.
LEMMA TakeAwayKeeps ==
  ASSUME SectionsInv, NEW r \in Replicas, NEW list \in SUBSET SectionIds, TakeAway(r, list),
         UNCHANGED <<row, declaring, running>>
  PROVE  SectionsInv'
<1> DEFINE c == [at |-> "grant", list |-> list, todo |-> list,
                 had |-> {s \in SectionIds : grant[s] # "none"},
                 alone |-> \A p \in Replicas \ {r} : ~SettingARole(p)]
<1>1. /\ grant' = [s \in SectionIds |-> IF grant[s] = "on" THEN "off" ELSE grant[s]]
      /\ call' = [q \in Replicas |->
           IF q = r THEN c ELSE IF SettingARole(q) THEN [call[q] EXCEPT !.alone = FALSE] ELSE call[q]]
  BY DEF TakeAway
<1>2. /\ c \in Granting /\ c.at = "grant" /\ c.list = list /\ c.todo = list
      /\ \A s \in c.had : s \in SectionIds /\ grant[s] # "none"
      /\ c.alone => \A p \in Replicas \ {r} : ~SettingARole(p)
  <2>1. c.alone \in BOOLEAN /\ (c.alone <=> \A p \in Replicas \ {r} : ~SettingARole(p))
    OBVIOUS
  <2>2. QED
    BY <2>1 DEF Granting
<1> HIDE DEF c
<1>3. SectionsTyped
  BY DEF SectionsInv
<1>4. ASSUME NEW q \in Replicas \ {r}
      PROVE  /\ call'[q] \in CallStates /\ call'[q].at = call[q].at
             /\ SettingARole(q) => /\ call'[q].list = call[q].list /\ call'[q].todo = call[q].todo
                                   /\ call'[q].had = call[q].had /\ ~call'[q].alone
             /\ ~SettingARole(q) => call'[q] = call[q]
  <2>1. CASE SettingARole(q)
    <3>1. call[q] \in Granting /\ call'[q] = [call[q] EXCEPT !.alone = FALSE]
      BY <1>1, <1>3, <2>1, CallIs DEF SettingARole
    <3>2. QED
      BY <2>1, <3>1 DEF Granting, CallStates
  <2>2. CASE ~SettingARole(q)
    BY <1>1, <1>3, <2>2 DEF SectionsTyped
  <2>3. QED
    BY <2>1, <2>2
<1>5. call'[r] = c /\ c \in CallStates
  BY <1>1, <1>2 DEF CallStates
<1>6. call' \in [Replicas -> CallStates]
  <2>1. \A q \in Replicas : call'[q] \in CallStates
    BY <1>4, <1>5
  <2>2. QED
    BY <1>1, <2>1
<1>7. /\ grant' \in [SectionIds -> {"none", "on", "off"}] /\ Granted' = {}
      /\ \A s \in SectionIds : grant[s] # "none" => grant'[s] # "none"
  BY <1>1, <1>3 DEF SectionsTyped, Granted
<1>8. SectionsTyped'
  BY <1>3, <1>6, <1>7 DEF SectionsTyped
<1>9. DeclarersRun'
  <2>1. \A q \in Replicas : Starting(call'[q]) => Starting(call[q])
    BY <1>2, <1>4, <1>5 DEF Starting, SettingARole
  <2>2. QED
    BY <2>1 DEF SectionsInv, DeclarersRun
<1>10. ASSUME NEW q \in Replicas, call'[q].at = "grant"
       PROVE  GrantFits(q)'
  <2>1. CASE q = r
    <3>1. \A p \in Replicas \ {r} : SettingARole(p)' = SettingARole(p)
      BY <1>4 DEF SettingARole
    <3>2. QED
      BY <1>2, <1>5, <1>7, <2>1, <3>1 DEF GrantFits
  <2>2. CASE q # r
    <3>1. SettingARole(q) /\ GrantFits(q) /\ call[q] \in Granting
      BY <1>3, <1>4, <1>10, <2>2, CallIs DEF SettingARole, SectionsInv
    <3>2. \A s \in call[q].had : s \in SectionIds
      BY <3>1 DEF Granting
    <3>3. QED
      BY <1>4, <1>7, <2>2, <3>1, <3>2 DEF GrantFits, SettingARole
  <2>3. QED
    BY <2>1, <2>2
<1> QED
  BY <1>8, <1>9, <1>10 DEF SectionsInv, GrantFits

\* A grant that is given by the call that sets the role, or by the start of another.
LEMMA GrantNextKeeps ==
  ASSUME SectionsInv, NEW r \in Replicas, GrantNext(r)
  PROVE  SectionsInv'
<1> DEFINE s == MinOf(call[r].todo)
           c == [call[r] EXCEPT !.todo = @ \ {s}]
<1>1. SectionsTyped /\ call[r].at = "grant" /\ call[r] \in Granting /\ call[r].todo # {} /\ GrantFits(r)
  BY CallIs DEF GrantNext, SectionsInv
<1>2. s \in call[r].todo /\ s \in SectionIds /\ s \in call[r].list
  <2>1. call[r].todo \in SUBSET SectionIds /\ call[r].todo \subseteq call[r].list
    BY <1>1 DEF Granting, GrantFits
  <2>2. QED
    BY <1>1, <2>1, MinIsOne
<1>3. /\ c \in Granting /\ c.at = "grant" /\ c.list = call[r].list /\ c.had = call[r].had
      /\ c.alone = call[r].alone /\ c.todo = call[r].todo \ {s}
  BY <1>1 DEF Granting
<1>4. grant' = [grant EXCEPT ![s] = "on"] /\ Calls(r, c) /\ UNCHANGED <<row, declaring, running>>
  BY DEF GrantNext
<1> HIDE DEF s, c
<1>5. /\ call' \in [Replicas -> CallStates] /\ call'[r] = c
      /\ \A q \in Replicas \ {r} : call'[q] = call[q]
  BY <1>1, <1>3, <1>4 DEF Calls, SectionsTyped, CallStates
<1>6. /\ grant' \in [SectionIds -> {"none", "on", "off"}] /\ Granted' = Granted \cup {s}
      /\ \A t \in SectionIds : grant[t] # "none" => grant'[t] # "none"
  BY <1>1, <1>2, <1>4 DEF SectionsTyped, Granted
<1>7. SectionsTyped'
  BY <1>1, <1>4, <1>5, <1>6 DEF SectionsTyped
<1>8. DeclarersRun'
  <2>1. \A q \in Replicas : Starting(call'[q]) => Starting(call[q])
    BY <1>3, <1>5 DEF Starting
  <2>2. QED
    BY <1>4, <2>1 DEF SectionsInv, DeclarersRun
<1>9. ASSUME NEW q \in Replicas, call'[q].at = "grant"
      PROVE  GrantFits(q)'
  <2>1. /\ call[q].at = "grant" /\ GrantFits(q) /\ call[q] \in Granting
        /\ call'[q].list = call[q].list /\ call'[q].had = call[q].had
        /\ call'[q].alone = call[q].alone
    BY <1>1, <1>3, <1>5, <1>9, CallIs DEF SectionsInv
  <2>2. \A t \in call[q].had : t \in SectionIds
    BY <2>1 DEF Granting
  <2>3. \A p \in Replicas : SettingARole(p)' = SettingARole(p)
    BY <1>1, <1>3, <1>5 DEF SettingARole
  <2>4. CASE q = r
    BY <1>2, <1>3, <1>5, <1>6, <2>1, <2>2, <2>3, <2>4 DEF GrantFits
  <2>5. CASE q # r
    <3>1. ~call[q].alone
      BY <1>1, <2>1, <2>5 DEF GrantFits, SettingARole
    <3>2. QED
      BY <1>5, <1>6, <2>1, <2>2, <2>5, <3>1 DEF GrantFits
  <2>6. QED
    BY <2>4, <2>5
<1> QED
  BY <1>7, <1>8, <1>9 DEF SectionsInv, GrantFits

\* The start of a replica gives what nobody had been asked about.
LEMMA SyncGrantKeeps ==
  ASSUME SectionsInv, NEW r \in Replicas, SyncGrant(r)
  PROVE  SectionsInv'
<1> DEFINE s == MinOf(call[r].todo)
<1>1. SectionsTyped /\ call[r].at = "grants" /\ call[r] \in Syncing /\ call[r].todo # {}
  BY CallIs DEF SyncGrant, SectionsInv
<1>2. s \in SectionIds
  <2>1. call[r].todo \in SUBSET SectionIds
    BY <1>1 DEF Syncing, Synchronising
  <2>2. QED
    BY <1>1, <2>1, MinIsOne
<1> DEFINE c == [call[r] EXCEPT !.todo = @ \ {s}, !.new = @ \cup {"file"}]
           d == [call[r] EXCEPT !.todo = @ \ {s}]
<1>3. c \in Syncing /\ c.at = "grants" /\ d \in Syncing /\ d.at = "grants"
  BY <1>1 DEF Syncing, Synchronising
<1>4. /\ UNCHANGED <<row, declaring, running>>
      /\ \/ grant[s] = "none" /\ grant' = [grant EXCEPT ![s] = "on"] /\ Calls(r, c)
         \/ grant' = grant /\ Calls(r, d)
  BY DEF SyncGrant
<1> HIDE DEF s, c, d
<1>5. c \in CallStates /\ d \in CallStates /\ Starting(call[r])
  BY <1>1, <1>3 DEF CallStates, Starting
<1>6. CASE grant' = grant /\ Calls(r, d)
  BY <1>1, <1>3, <1>4, <1>5, <1>6, QuietCall DEF SectionsTyped
<1>7. CASE grant[s] = "none" /\ grant' = [grant EXCEPT ![s] = "on"] /\ Calls(r, c)
  <2>1. /\ call' \in [Replicas -> CallStates] /\ call'[r] = c
        /\ \A q \in Replicas \ {r} : call'[q] = call[q]
    BY <1>1, <1>5, <1>7 DEF Calls, SectionsTyped
  <2>2. /\ grant' \in [SectionIds -> {"none", "on", "off"}] /\ Granted' = Granted \cup {s}
        /\ \A t \in SectionIds : grant[t] # "none" => grant'[t] # "none"
    BY <1>1, <1>2, <1>7 DEF SectionsTyped, Granted
  <2>3. SectionsTyped'
    BY <1>1, <1>4, <2>1, <2>2 DEF SectionsTyped
  <2>4. DeclarersRun'
    <3>1. \A q \in Replicas : Starting(call'[q]) => Starting(call[q])
      BY <1>5, <2>1
    <3>2. QED
      BY <1>4, <3>1 DEF SectionsInv, DeclarersRun
  <2>5. ASSUME NEW q \in Replicas, call'[q].at = "grant"
        PROVE  GrantFits(q)'
    <3>1. q # r /\ call'[q] = call[q] /\ GrantFits(q) /\ call[q] \in Granting
      BY <1>1, <1>3, <2>1, <2>5, CallIs DEF SectionsInv
    <3>2. \A t \in call[q].had : t \in SectionIds /\ t # s
      BY <1>7, <2>5, <3>1 DEF Granting, GrantFits
    <3>3. \A p \in Replicas : SettingARole(p)' = SettingARole(p)
      BY <1>1, <1>3, <2>1 DEF SettingARole
    <3>4. QED
      BY <2>2, <3>1, <3>2, <3>3 DEF GrantFits
  <2>6. QED
    BY <2>3, <2>4, <2>5 DEF SectionsInv, GrantFits
<1> QED
  BY <1>4, <1>6, <1>7

-----------------------------------------------------------------------------
(* The panel's calls and the caches: a step of a call                      *)

\* No section is hidden: what a replica reads is what any replica reads.
LEMMA ReadsAreCurrent ==
  ASSUME SectionsInv, NEW r \in Replicas, NEW k \in Keys
  PROVE  Current(r, k) = ReadAs(k) /\ ReadAs(k) \subseteq Readable
<1>1. Hidden(r) = {}
  BY DEF SectionsInv, DeclarersRun, Hidden
<1>2. SectionsRead(r) = Shown
  BY <1>1 DEF SectionsRead, Shown
<1>3. Shown \in SUBSET (SectionIds \X Releases)
  <2>1. \A s \in SectionIds : row[s] \in SectionRow
    BY DEF SectionsInv, SectionsTyped
  <2>2. \A s \in SectionIds : row[s].js \in Releases
    BY <2>1 DEF SectionRow
  <2>3. Granted \subseteq SectionIds
    BY DEF Granted
  <2>4. QED
    BY <2>2, <2>3 DEF Shown
<1>4. ActiveReads \subseteq SUBSET ThemeIds
  BY DEF ActiveReads, ActiveThemes
<1>5. {Shown} \subseteq Readable /\ ActiveReads \subseteq Readable
  <2>1. SUBSET ThemeIds \subseteq Readable /\ SUBSET (SectionIds \X Releases) \subseteq Readable
    BY Zenon DEF Readable
  <2>2. QED
    BY <1>3, <1>4, <2>1, Zenon
<1>6. CASE k = "theme"
  BY <1>5, <1>6 DEF Current, ReadAs
<1>7. CASE k # "theme"
  BY <1>2, <1>5, <1>7 DEF Current, ReadAs
<1> QED
  BY <1>6, <1>7

LEMMA ThemeReadsStay ==
  ASSUME ActiveThemes' = ActiveThemes
  PROVE  \A j \in Keys \ {"sections"} : ReadAs(j)' = ReadAs(j)
<1>1. ActiveReads' = ActiveReads
  BY DEF ActiveReads
<1> QED
  BY <1>1, CacheBounds DEF ReadAs

LEMMA SectionReadsStay ==
  ASSUME UNCHANGED <<row, grant>>
  PROVE  \A j \in Keys \ {"theme"} : ReadAs(j)' = ReadAs(j)
<1>1. Shown' = Shown
  BY DEF Shown, Granted
<1> QED
  BY <1>1, CacheBounds DEF ReadAs

LEMMA ReadsStay ==
  ASSUME UNCHANGED <<row, grant>>, ActiveThemes' = ActiveThemes
  PROVE  \A j \in Keys : ReadAs(j)' = ReadAs(j)
BY ThemeReadsStay, SectionReadsStay, CacheBounds

LEMMA WritesKeep ==
  ASSUME CacheInv, NEW r \in Replicas, Writes(r), ActiveThemes' = ActiveThemes
  PROVE  CacheInv'
<1>1. Changes(r, {"sections"}) /\ UNCHANGED <<now, entry, outbox, inbox>> /\ "sections" \in Keys
  BY CacheBounds DEF Writes, busVars
<1> QED
  BY <1>1, ThemeReadsStay, ChangesKeep

LEMMA RestKeeps ==
  ASSUME CacheInv, UNCHANGED <<cacheVars, busVars>>, UNCHANGED <<row, grant>>,
         ActiveThemes' = ActiveThemes
  PROVE  CacheInv'
<1>1. UNCHANGED <<now, entry, loads, outbox, owing, inbox, changed>>
  BY DEF cacheVars, busVars
<1> QED
  BY <1>1, ReadsStay, CacheRests

\* Where a call may go.
LEMMA Destinations ==
  /\ ThenDrop(Idle) \in CallStates /\ ThenDrop(Idle).at = "drop" /\ ~Starting(ThenDrop(Idle))
  /\ \A c \in Importing : /\ c \in CallStates /\ c.at = "import" /\ ~Starting(c)
                          /\ ThenDrop(c) \in CallStates /\ ThenDrop(c).at = "drop"
                          /\ ~Starting(ThenDrop(c))
  /\ \A c \in Syncing : /\ c \in CallStates /\ c.at \in {"sync", "grants"} /\ Starting(c)
                        /\ ThenDrop(c) \in CallStates /\ ThenDrop(c).at = "drop"
                        /\ Starting(ThenDrop(c))
  /\ \A c \in Updating : c \in CallStates /\ c.at = "update" /\ ~Starting(c)
  /\ \A c \in Dropping : c.then \in {Idle} \cup Importing \cup Syncing
<1>1. \A c \in {Idle} \cup Importing \cup Syncing :
        /\ ThenDrop(c) \in Dropping /\ ThenDrop(c).at = "drop" /\ ThenDrop(c).then = c
        /\ c.at = "idle" <=> c = Idle
        /\ c.at \in {"idle", "import", "sync", "grants"}
  BY DEF ThenDrop, Dropping, Idle, Importing, Syncing, Synchronising
<1>2. \A c \in Importing : c.at = "import"
  BY DEF Importing
<1>3. \A c \in Syncing : c.at \in {"sync", "grants"}
  BY DEF Syncing, Synchronising
<1>4. \A c \in Updating : c.at = "update"
  BY DEF Updating
<1>5. \A c \in Dropping : c.then \in {Idle} \cup Importing \cup Syncing
  BY DEF Dropping
<1> QED
  BY <1>1, <1>2, <1>3, <1>4, <1>5, IdleIsNoStart DEF CallStates, Starting, Idle

LEMMA EmptyRowIsOne ==
  /\ [state |-> "on", js |-> Earlier] \in SectionRow /\ [state |-> "on", js |-> Release] \in SectionRow
  /\ \A w \in SectionRow, j \in Releases :
       [w EXCEPT !.js = j] \in SectionRow /\ [w EXCEPT !.state = "off"] \in SectionRow
  /\ Earlier \in Releases /\ Release \in Releases
BY DEF SectionRow, Releases

\* The statements of the administrators' calls that write one section.
LEMMA SectionWritten ==
  ASSUME SectionsInv, NEW r \in Replicas, NEW s \in SectionIds, UNCHANGED themeVars,
         CreateSection(r, s) \/ DeleteSection(r, s) \/ ReadSection(r, s)
  PROVE  SectionsInv' /\ (CacheInv => CacheInv')
<1>1. SectionsTyped /\ row[s] \in SectionRow /\ ActiveThemes' = ActiveThemes
  BY DEF SectionsInv, SectionsTyped, themeVars, ActiveThemes
<1>2. CASE CreateSection(r, s)
  <2>1. /\ row' = [row EXCEPT ![s] = [state |-> "on", js |-> Earlier]] /\ Writes(r)
        /\ Calls(r, ThenDrop(Idle)) /\ UNCHANGED <<grant, declaring, running>>
    BY <1>2 DEF CreateSection
  <2>2. row' \in [SectionIds -> SectionRow]
    BY <1>1, <2>1, EmptyRowIsOne DEF SectionsTyped
  <2>3. QED
    BY <1>1, <2>1, <2>2, Destinations, QuietCall, WritesKeep
<1>3. CASE DeleteSection(r, s)
  <2>1. /\ row' = [row EXCEPT ![s] = [row[s] EXCEPT !.state = "off"]] /\ Writes(r)
        /\ Calls(r, ThenDrop(Idle)) /\ UNCHANGED <<grant, declaring, running>>
    BY <1>3 DEF DeleteSection
  <2>2. row' \in [SectionIds -> SectionRow]
    BY <1>1, <2>1, EmptyRowIsOne DEF SectionsTyped
  <2>3. QED
    BY <1>1, <2>1, <2>2, Destinations, QuietCall, WritesKeep
<1>4. CASE ReadSection(r, s)
  <2> DEFINE c == [at |-> "update", id |-> s, js |-> row[s].js]
  <2>1. Calls(r, c) /\ UNCHANGED <<cacheVars, busVars, row, grant, declaring, running>>
    BY <1>4 DEF ReadSection
  <2>2. c \in Updating
    BY <1>1 DEF Updating, SectionRow
  <2> HIDE DEF c
  <2>3. c \in CallStates /\ c.at # "grant" /\ ~Starting(c) /\ row' \in [SectionIds -> SectionRow]
    BY <1>1, <2>1, <2>2, Destinations DEF SectionsTyped
  <2>4. QED
    BY <1>1, <2>1, <2>3, QuietCall, RestKeeps
<1> QED
  BY <1>2, <1>3, <1>4

LEMMA RoleSet ==
  ASSUME SectionsInv, NEW r \in Replicas, NEW list \in SUBSET SectionIds, UNCHANGED themeVars,
         TakeAway(r, list), UNCHANGED <<row, declaring, running>>
  PROVE  SectionsInv' /\ (CacheInv => CacheInv')
<1>1. ActiveThemes' = ActiveThemes /\ Writes(r)
  BY DEF themeVars, ActiveThemes, TakeAway
<1> QED
  BY <1>1, TakeAwayKeeps, WritesKeep

LEMMA Imported ==
  ASSUME SectionsInv, NEW r \in Replicas, UNCHANGED themeVars, Import(r) \/ ImportNext(r)
  PROVE  SectionsInv' /\ (CacheInv => CacheInv')
<1>1. SectionsTyped /\ ActiveThemes' = ActiveThemes
  BY DEF SectionsInv, themeVars, ActiveThemes
<1>2. CASE Import(r)
  <2> DEFINE c == [at |-> "import", todo |-> DeclaredIn({"file"})]
  <2>1. Calls(r, c) /\ UNCHANGED <<cacheVars, busVars, row, grant, declaring, running>>
    BY <1>2 DEF Import
  <2>2. c \in Importing
    BY DEF Importing, DeclaredIn
  <2> HIDE DEF c
  <2>3. c \in CallStates /\ c.at # "grant" /\ ~Starting(c) /\ row' \in [SectionIds -> SectionRow]
    BY <1>1, <2>1, <2>2, Destinations DEF SectionsTyped
  <2>4. QED
    BY <1>1, <2>1, <2>3, QuietCall, RestKeeps
<1>3. CASE ImportNext(r)
  <2>1. call[r].at = "import" /\ call[r] \in Importing /\ UNCHANGED <<declaring, running>>
    BY <1>1, <1>3, CallIs DEF ImportNext
  <2>2. CASE call[r].todo = {}
    <3>1. TakeAway(r, FileGrants) /\ UNCHANGED row /\ FileGrants \in SUBSET SectionIds
      BY <1>3, <2>2, SectionsAssumption DEF ImportNext, SectionsAssumption
    <3>2. QED
      BY <2>1, <3>1, RoleSet
  <2>3. CASE call[r].todo # {}
    <3> DEFINE s == MinOf(call[r].todo)
               c == [call[r] EXCEPT !.todo = @ \ {s}]
    <3>1. \/ Calls(r, Idle) /\ UNCHANGED <<row, grant, cacheVars, busVars>>
          \/ /\ row' = [row EXCEPT ![s] = [state |-> "on", js |-> Release]] /\ Writes(r)
             /\ Calls(r, ThenDrop(c)) /\ UNCHANGED grant
      BY <1>3, <2>3 DEF ImportNext
    <3>2. c \in Importing
      BY <2>1 DEF Importing
    <3> HIDE DEF s, c
    <3>3. CASE Calls(r, Idle) /\ UNCHANGED <<row, grant, cacheVars, busVars>>
      BY <1>1, <2>1, <3>3, IdleIsNoStart, QuietCall, RestKeeps DEF SectionsTyped
    <3>4. CASE /\ row' = [row EXCEPT ![s] = [state |-> "on", js |-> Release]] /\ Writes(r)
               /\ Calls(r, ThenDrop(c)) /\ UNCHANGED grant
      <4>1. row' \in [SectionIds -> SectionRow]
        BY <1>1, <3>4, EmptyRowIsOne DEF SectionsTyped
      <4>2. ThenDrop(c) \in CallStates /\ ThenDrop(c).at # "grant" /\ ~Starting(ThenDrop(c))
        BY <3>2, Destinations
      <4>3. QED
        BY <1>1, <2>1, <3>4, <4>1, <4>2, QuietCall, WritesKeep
    <3>5. QED
      BY <3>1, <3>3, <3>4
  <2>4. QED
    BY <2>2, <2>3
<1> QED
  BY <1>2, <1>3

LEMMA Invalidated ==
  ASSUME CacheInv, NEW r \in Replicas, NEW k \in Keys, InvalidateEverywhere(r, {k}),
         UNCHANGED <<now, loads, changed, failed, busVars>>, UNCHANGED <<row, grant>>,
         ActiveThemes' = ActiveThemes
  PROVE  CacheInv'
<1>1. inbox' = inbox
  BY DEF busVars
<1> QED
  BY <1>1, ReadsStay, InvalidateKeeps

LEMMA Dropped ==
  ASSUME SectionsInv, NEW r \in Replicas, UNCHANGED themeVars,
         DropSections(r) \/ GrantsDone(r) \/ CallFails(r) \/ UpdateSection(r)
  PROVE  SectionsInv' /\ (CacheInv => CacheInv')
<1>1. SectionsTyped /\ ActiveThemes' = ActiveThemes /\ "sections" \in Keys
  BY CacheBounds DEF SectionsInv, themeVars, ActiveThemes
<1>2. CASE DropSections(r)
  <2>1. /\ call[r] \in Dropping /\ Calls(r, call[r].then) /\ InvalidateEverywhere(r, {"sections"})
        /\ UNCHANGED <<now, loads, changed, failed, busVars, row, grant, declaring, running>>
    BY <1>1, <1>2, CallIs DEF DropSections
  <2>2. call[r].at = "drop" /\ call[r].then \in {Idle} \cup Importing \cup Syncing
    BY <1>2, <2>1, Destinations DEF DropSections
  <2>3. /\ call[r].then \in CallStates /\ call[r].then.at # "grant"
        /\ Starting(call[r].then) => Starting(call[r])
    BY <2>2, Destinations, IdleIsNoStart DEF Starting
  <2>4. row' \in [SectionIds -> SectionRow]
    BY <1>1, <2>1 DEF SectionsTyped
  <2>5. QED
    BY <1>1, <2>1, <2>3, <2>4, QuietCall, Invalidated
<1>3. CASE GrantsDone(r)
  <2>1. /\ Calls(r, Idle) /\ InvalidateEverywhere(r, {"sections"})
        /\ UNCHANGED <<now, loads, changed, failed, busVars, row, grant, declaring, running>>
    BY <1>3 DEF GrantsDone
  <2>2. row' \in [SectionIds -> SectionRow]
    BY <1>1, <2>1 DEF SectionsTyped
  <2>3. QED
    BY <1>1, <2>1, <2>2, IdleIsNoStart, QuietCall, Invalidated
<1>4. CASE CallFails(r)
  <2>1. /\ Calls(r, Idle) /\ Abandon(r)
        /\ UNCHANGED <<now, loads, outbox, changed, busVars, row, grant, declaring, running>>
    BY <1>4 DEF CallFails
  <2>2. row' \in [SectionIds -> SectionRow] /\ inbox' = inbox
    BY <1>1, <2>1 DEF SectionsTyped, busVars
  <2>3. CacheInv => CacheInv'
    BY <1>1, <2>1, <2>2, ReadsStay, AbandonKeeps
  <2>4. QED
    BY <2>1, <2>2, <2>3, IdleIsNoStart, QuietCall
<1>5. CASE UpdateSection(r)
  <2>1. call[r].at = "update" /\ call[r] \in Updating /\ UNCHANGED <<grant, declaring, running>>
    BY <1>1, <1>5, CallIs DEF UpdateSection
  <2>2. \/ /\ row' = [row EXCEPT ![call[r].id] = [row[call[r].id] EXCEPT !.js = call[r].js]]
           /\ Writes(r) /\ Calls(r, ThenDrop(Idle))
        \/ UNCHANGED <<row, cacheVars, busVars>> /\ Calls(r, Idle)
    BY <1>5 DEF UpdateSection
  <2>3. CASE /\ row' = [row EXCEPT ![call[r].id] = [row[call[r].id] EXCEPT !.js = call[r].js]]
             /\ Writes(r) /\ Calls(r, ThenDrop(Idle))
    <3>1. call[r].id \in SectionIds /\ call[r].js \in Releases
      BY <2>1 DEF Updating
    <3>2. row' \in [SectionIds -> SectionRow]
      BY <1>1, <2>3, <3>1, EmptyRowIsOne DEF SectionsTyped
    <3>3. QED
      BY <1>1, <2>1, <2>3, <3>2, Destinations, QuietCall, WritesKeep
  <2>4. CASE UNCHANGED <<row, cacheVars, busVars>> /\ Calls(r, Idle)
    <3>1. row' \in [SectionIds -> SectionRow]
      BY <1>1, <2>4 DEF SectionsTyped
    <3>2. QED
      BY <1>1, <2>1, <2>4, <3>1, IdleIsNoStart, QuietCall, RestKeeps
  <2>5. QED
    BY <2>2, <2>3, <2>4
<1> QED
  BY <1>2, <1>3, <1>4, <1>5

LEMMA Synchronised ==
  ASSUME SectionsInv, NEW r \in Replicas, UNCHANGED themeVars,
         SyncSection(r) \/ SyncGrantsDone(r) \/ SyncGrant(r) \/ GrantNext(r)
  PROVE  SectionsInv' /\ (CacheInv => CacheInv')
<1>1. SectionsTyped /\ ActiveThemes' = ActiveThemes
  BY DEF SectionsInv, themeVars, ActiveThemes
<1>2. CASE SyncSection(r)
  <2> DEFINE s == MinOf(call[r].todo)
             on == [call[r] EXCEPT !.todo = @ \ {s}, !.new = @ \cup (IF Synced(s) = row[s] THEN {} ELSE {DeclaredBy[s]})]
             next == IF on.todo = {} /\ call[r].of = "file"
                     THEN [on EXCEPT !.at = "grants", !.todo = FileGrants] ELSE on
  <2>1. /\ call[r].at = "sync" /\ call[r] \in Syncing /\ call[r].todo # {}
        /\ UNCHANGED <<grant, declaring, running>> /\ Calls(r, next)
        /\ \/ UNCHANGED <<row, cacheVars, busVars>>
           \/ row' = [row EXCEPT ![s] = Synced(s)] /\ Writes(r)
    BY <1>1, <1>2, CallIs DEF SyncSection
  <2>2. s \in SectionIds /\ s \in call[r].todo
    <3>1. call[r].todo \in SUBSET SectionIds
      BY <2>1 DEF Syncing, Synchronising
    <3>2. QED
      BY <2>1, <3>1, MinIsOne
  <2>3. Synced(s) \in SectionRow
    BY <1>1, <2>2, EmptyRowIsOne DEF Synced, SectionsTyped
  <2>4. next \in Syncing
    <3>1. FileGrants \in SUBSET SectionIds
      BY SectionsAssumption DEF SectionsAssumption
    <3>2. on \in Syncing
      <4> DEFINE written == IF Synced(s) = row[s] THEN {} ELSE {DeclaredBy[s]}
      <4>1. written \subseteq {DeclaredBy[s]} /\ DeclaredBy[s] \in Declarers \cup {"file"}
        BY <2>2, SectionsAssumption DEF SectionsAssumption
      <4>2. on = [call[r] EXCEPT !.todo = @ \ {s}, !.new = @ \cup written]
        OBVIOUS
      <4> HIDE DEF written, s, on
      <4>3. on \in Synchronising
        BY <2>1, <4>1, <4>2 DEF Syncing, Synchronising
      <4>4. /\ on.at = "sync" /\ on.of = call[r].of /\ on.ran = call[r].ran
            /\ on.new = call[r].new \cup written /\ on.todo = call[r].todo \ {s}
        BY <2>1, <4>2 DEF Syncing, Synchronising
      <4>5. call[r].of = "plugins" =>
              call[r].new \subseteq call[r].ran /\ \A t \in call[r].todo : DeclaredBy[t] \in call[r].ran
        BY <2>1 DEF Syncing
      <4>6. QED
        BY <2>2, <4>1, <4>3, <4>4, <4>5 DEF Syncing
    <3> HIDE DEF on
    <3>3. [on EXCEPT !.at = "grants", !.todo = FileGrants] \in Syncing
      BY <3>1, <3>2 DEF Syncing, Synchronising
    <3>4. QED
      BY <3>2, <3>3
  <2> HIDE DEF next, s
  <2>5. next \in CallStates /\ next.at # "grant" /\ Starting(call[r])
    BY <2>1, <2>4, Destinations DEF Starting
  <2>6. CASE UNCHANGED <<row, cacheVars, busVars>>
    <3>1. row' \in [SectionIds -> SectionRow]
      BY <1>1, <2>6 DEF SectionsTyped
    <3>2. QED
      BY <1>1, <2>1, <2>5, <2>6, <3>1, QuietCall, RestKeeps
  <2>7. CASE row' = [row EXCEPT ![s] = Synced(s)] /\ Writes(r)
    <3>1. row' \in [SectionIds -> SectionRow]
      BY <1>1, <2>3, <2>7 DEF SectionsTyped
    <3>2. QED
      BY <1>1, <2>1, <2>5, <2>7, <3>1, QuietCall, WritesKeep
  <2>8. QED
    BY <2>1, <2>6, <2>7
<1>3. CASE SyncGrantsDone(r)
  <2> DEFINE next == [call[r] EXCEPT !.at = "sync", !.of = "plugins", !.new = {},
                                     !.todo = DeclaredIn(call[r].ran)]
  <2>1. /\ call[r].at = "grants" /\ call[r] \in Syncing
        /\ Calls(r, IF call[r].new # {} THEN ThenDrop(next) ELSE next)
        /\ UNCHANGED <<cacheVars, busVars, row, grant, declaring, running>>
    BY <1>1, <1>3, CallIs DEF SyncGrantsDone
  <2>2. next \in Syncing
    BY <2>1 DEF Syncing, Synchronising, DeclaredIn
  <2> HIDE DEF next
  <2>3. /\ next \in CallStates /\ next.at # "grant" /\ Starting(call[r])
        /\ ThenDrop(next) \in CallStates /\ ThenDrop(next).at # "grant"
    BY <2>1, <2>2, Destinations DEF Starting
  <2>4. row' \in [SectionIds -> SectionRow]
    BY <1>1, <2>1 DEF SectionsTyped
  <2>5. CacheInv => CacheInv'
    BY <1>1, <2>1, RestKeeps
  <2>6. SectionsInv'
    BY <2>1, <2>3, <2>4, QuietCall
  <2>7. QED
    BY <2>5, <2>6
<1>4. CASE SyncGrant(r)
  <2>1. Writes(r) \/ UNCHANGED <<row, grant, cacheVars, busVars>>
    BY <1>4 DEF SyncGrant
  <2>2. QED
    BY <1>1, <1>4, <2>1, SyncGrantKeeps, WritesKeep, RestKeeps
<1>5. CASE GrantNext(r)
  BY <1>1, <1>5, GrantNextKeeps, WritesKeep DEF GrantNext
<1> QED
  BY <1>2, <1>3, <1>4, <1>5

\* The start is through: those that declare are among those that run.
LEMMA SyncPluginsDoneKeeps ==
  ASSUME SectionsInv, NEW r \in Replicas, UNCHANGED themeVars, SyncPluginsDone(r)
  PROVE  SectionsInv' /\ (CacheInv => CacheInv')
<1>1. SectionsTyped /\ ActiveThemes' = ActiveThemes /\ "sections" \in Keys
  BY CacheBounds DEF SectionsInv, themeVars, ActiveThemes
<1>2. /\ call[r].at = "sync" /\ call[r].of = "plugins" /\ call[r] \in Syncing
      /\ declaring' = [declaring EXCEPT ![r] = @ \cup call[r].new]
      /\ running' = [running EXCEPT ![r] = call[r].ran]
      /\ InvalidateEverywhere(r, {"sections"}) /\ Calls(r, Idle)
      /\ UNCHANGED <<now, loads, changed, failed, busVars, row, grant>>
  BY <1>1, CallIs DEF SyncPluginsDone
<1>3. /\ call' \in [Replicas -> CallStates] /\ call'[r] = Idle
      /\ \A q \in Replicas \ {r} : call'[q] = call[q]
  BY <1>1, <1>2, IdleIsNoStart DEF Calls, SectionsTyped
<1>4. call[r].ran \in SUBSET Declarers /\ call[r].new \subseteq call[r].ran /\ declaring[r] = {}
  BY <1>2 DEF Syncing, Synchronising, SectionsInv, DeclarersRun, Starting
<1>5. /\ declaring' \in [Replicas -> SUBSET Declarers] /\ running' \in [Replicas -> SUBSET Declarers]
      /\ declaring'[r] \subseteq running'[r]
      /\ \A q \in Replicas \ {r} : declaring'[q] = declaring[q] /\ running'[q] = running[q]
  BY <1>1, <1>2, <1>4 DEF SectionsTyped
<1>6. SectionsTyped'
  BY <1>1, <1>2, <1>3, <1>5 DEF SectionsTyped
<1>7. DeclarersRun'
  BY <1>3, <1>5, IdleIsNoStart DEF SectionsInv, DeclarersRun
<1>8. ASSUME NEW q \in Replicas
      PROVE  GrantFits(q)'
  <2>1. Granted' = Granted
    BY <1>2 DEF Granted
  <2>2. CASE q = r
    BY <1>3, <2>2, IdleIsNoStart DEF GrantFits
  <2>3. CASE q # r
    BY <1>2, <1>3, <2>1, <2>3, IdleIsNoStart DEF GrantFits, SectionsInv, SettingARole
  <2>4. QED
    BY <2>2, <2>3
<1>9. CacheInv => CacheInv'
  BY <1>1, <1>2, Invalidated
<1> QED
  BY <1>6, <1>7, <1>8, <1>9 DEF SectionsInv

\* Every step of the calls about sections.
LEMMA SectionsStep ==
  ASSUME SectionsInv, UNCHANGED themeVars, SectionsNext
  PROVE  SectionsInv' /\ (CacheInv => CacheInv')
<1>1. PICK r \in Replicas :
        \/ DropSections(r) \/ UpdateSection(r) \/ GrantNext(r) \/ GrantsDone(r)
        \/ ImportNext(r) \/ CallFails(r)
        \/ SyncSection(r) \/ SyncGrant(r) \/ SyncGrantsDone(r) \/ SyncPluginsDone(r)
  BY DEF SectionsNext
<1> QED
  BY <1>1, Dropped, Imported, Synchronised, SyncPluginsDoneKeeps
-----------------------------------------------------------------------------
(* The themes: where each call stands, and what it has left active         *)

After == {Ready, Last, Ship(TRUE), Ship(FALSE)}
Activations == [at : {"activate"}, id : ThemeIds, own : BOOLEAN, to : After]
Statements == [at : {"update"}, id : ThemeIds, own : BOOLEAN, to : After,
               sees : SUBSET ThemeIds, met : BOOLEAN]
SetupStates ==
  [at : {"ready", "boot"}] \cup [at : {"look"}, first : ThemeIds]
    \cup [at : {"delete"}, id : ThemeIds] \cup [at : {"ship"}, fresh : BOOLEAN]
    \cup Activations \cup Statements \cup [at : {"drop"}, to : After \cup Activations]

ThemesTyped ==
  /\ theme \in [ThemeIds -> {"absent", "idle", "active"}]
  /\ setup \in [Replicas -> SetupStates]
  /\ cut \in Nat

\* The active themes no call is about to make the only one.
Alone == ActiveThemes \ UNION {Promised(setup[r]) : r \in Replicas}

\* A statement sees what is active, unless a theme became so since it began.
SeesActive(r) == setup[r].at = "update" /\ ~setup[r].met => ActiveThemes \subseteq setup[r].sees

ThemesInv ==
  /\ ThemesTyped
  /\ \A r \in Replicas : SeesActive(r)
  /\ IsFiniteSet(Alone) /\ Cardinality(Alone) <= 1 + cut

LEMMA SetupIs ==
  ASSUME ThemesTyped, NEW r \in Replicas
  PROVE  /\ setup[r].at = "delete" => setup[r].id \in ThemeIds
         /\ setup[r].at = "look" => setup[r].first \in ThemeIds
         /\ setup[r].at = "ship" => setup[r] \in After
         /\ setup[r].at = "activate" => setup[r] \in Activations
         /\ setup[r].at = "update" => setup[r] \in Statements
         /\ setup[r].at = "drop" => setup[r].to \in After \cup Activations
<1>1. setup[r] \in SetupStates
  BY DEF ThemesTyped
<1>2. setup[r].at = "ship" => setup[r] \in [at : {"ship"}, fresh : BOOLEAN]
  BY <1>1 DEF SetupStates, Activations, Statements
<1>3. setup[r].at = "ship" => setup[r] \in {Ship(TRUE), Ship(FALSE)}
  BY <1>2 DEF Ship
<1> QED
  BY <1>1, <1>3 DEF SetupStates, Activations, Statements, After

LEMMA SetupPlaces ==
  /\ Ready \in SetupStates /\ [at |-> "boot"] \in SetupStates
  /\ \A t \in ThemeIds : /\ [at |-> "look", first |-> t] \in SetupStates
                         /\ [at |-> "delete", id |-> t] \in SetupStates
  /\ \A to \in After \cup Activations : to \in SetupStates /\ to.at # "update" /\ DropBefore(to) \in SetupStates
  /\ \A t \in ThemeIds, own \in BOOLEAN, to \in After : Activation(t, own, to) \in Activations
<1>1. \A to \in After : to \in SetupStates /\ to.at # "update"
  <2>1. Ready \in SetupStates /\ Ready.at # "update"
    BY DEF SetupStates, Ready
  <2>2. Last \in SetupStates /\ Last.at # "update"
    BY DEF SetupStates, After, Last, DropBefore
  <2>3. \A f \in BOOLEAN : Ship(f) \in SetupStates /\ Ship(f).at # "update"
    BY DEF SetupStates, Ship
  <2>4. QED
    BY <2>1, <2>2, <2>3 DEF After
<1>2. \A to \in Activations : to \in SetupStates /\ to.at # "update"
  BY DEF SetupStates, Activations
<1>3. \A to \in After \cup Activations : DropBefore(to) \in SetupStates
  BY DEF SetupStates, DropBefore
<1>4. /\ Ready \in SetupStates /\ [at |-> "boot"] \in SetupStates
      /\ \A t \in ThemeIds : /\ [at |-> "look", first |-> t] \in SetupStates
                             /\ [at |-> "delete", id |-> t] \in SetupStates
  BY DEF SetupStates, Ready
<1>5. \A t \in ThemeIds, own \in BOOLEAN, to \in After : Activation(t, own, to) \in Activations
  BY DEF Activations, Activation
<1> QED
  BY <1>1, <1>2, <1>3, <1>4, <1>5

\* What a call owes where it stands.
LEMMA PromisesAre ==
  /\ Promised(Ready) = {} /\ Promised([at |-> "boot"]) = {}
  /\ \A t : Promised([at |-> "look", first |-> t]) = {} /\ Promised([at |-> "delete", id |-> t]) = {}
  /\ \A to \in After : Promised(to) = {} /\ Promised(DropBefore(to)) = {}
  /\ \A to \in Activations : Promised(DropBefore(to)) = Promised(to)
  /\ \A t \in ThemeIds, own \in BOOLEAN, to \in After :
       Promised(Activation(t, own, to)) = IF own THEN {t} ELSE {}
BY DEF Promised, After, Activations, Ready, Last, Ship, DropBefore, Activation

LEMMA OneIsPromised ==
  ASSUME NEW place
  PROVE  \E t : Promised(place) \subseteq {t}
<1> DEFINE next == IF place.at = "drop" THEN place.to ELSE place
<1>1. Promised(place) \subseteq {next.id}
  BY DEF Promised
<1> QED
  BY <1>1

LEMMA FirstIsOne ==
  ASSUME NEW S \in SUBSET ThemeIds, S # {}
  PROVE  FirstOf(S) \in S
<1>1. S \in SUBSET Nat
  BY ThemesAssumption DEF ThemesAssumption
<1>2. \E s \in S : \A t \in S : s <= t
  BY <1>1, LeastOfNumbers
<1> QED
  BY <1>2 DEF FirstOf

\* The themes a table has active.
ActiveIn(rows) == {t \in ThemeIds : rows[t] = "active"}

LEMMA CreatedIs ==
  ASSUME ThemesTyped, NEW t \in ThemeIds, NEW active \in BOOLEAN
  PROVE  /\ Created(t, active) \in [ThemeIds -> {"absent", "idle", "active"}]
         /\ ActiveIn(Created(t, active)) \subseteq ActiveThemes \cup (IF active THEN {t} ELSE {})
BY DEF ThemesTyped, Created, ActiveThemes, ActiveIn

LEMMA OneMore ==
  ASSUME NEW S, NEW x, IsFiniteSet(S)
  PROVE  /\ IsFiniteSet(S \cup {x}) /\ Cardinality(S) \in Nat
         /\ Cardinality(S \cup {x}) <= Cardinality(S) + 1
<1>1. Cardinality(S) \in Nat
  BY FS_CardinalityType
<1>2. /\ IsFiniteSet(S \cup {x})
      /\ Cardinality(S \cup {x}) = IF x \in S THEN Cardinality(S) ELSE Cardinality(S) + 1
  BY FS_AddElement
<1> QED
  BY <1>1, <1>2

\* What the steps do to the count: none is added, one is left, or one is added and counted.
LEMMA CountKeeps ==
  ASSUME ThemesInv, ThemesTyped', \A r \in Replicas : SeesActive(r)',
         \/ Alone' \subseteq Alone /\ cut' = cut
         \/ \E t : Alone' \subseteq {t}
         \/ (\E t : Alone' \subseteq Alone \cup {t}) /\ cut' = cut + 1
  PROVE  ThemesInv'
<1>1. /\ IsFiniteSet(Alone) /\ Cardinality(Alone) <= 1 + cut /\ cut \in Nat /\ cut' \in Nat
  BY DEF ThemesInv, ThemesTyped
<1>2. Cardinality(Alone) \in Nat
  BY <1>1, FS_CardinalityType
<1>3. CASE Alone' \subseteq Alone /\ cut' = cut
  <2>1. IsFiniteSet(Alone') /\ Cardinality(Alone') <= Cardinality(Alone)
    BY <1>1, <1>3, FS_Subset
  <2>2. Cardinality(Alone') \in Nat
    BY <2>1, FS_CardinalityType
  <2>3. Cardinality(Alone') <= 1 + cut'
    BY <1>1, <1>2, <1>3, <2>1, <2>2
  <2>4. QED
    BY <2>1, <2>3 DEF ThemesInv
<1>4. CASE \E t : Alone' \subseteq {t}
  <2>1. PICK t : Alone' \subseteq {t}
    BY <1>4
  <2>2. IsFiniteSet({t}) /\ Cardinality({t}) = 1
    BY FS_Singleton
  <2>3. IsFiniteSet(Alone') /\ Cardinality(Alone') <= 1
    BY <2>1, <2>2, FS_Subset
  <2>4. Cardinality(Alone') \in Nat
    BY <2>3, FS_CardinalityType
  <2>5. Cardinality(Alone') <= 1 + cut'
    BY <1>1, <2>3, <2>4
  <2>6. QED
    BY <2>3, <2>5 DEF ThemesInv
<1>5. CASE (\E t : Alone' \subseteq Alone \cup {t}) /\ cut' = cut + 1
  <2>1. PICK t : Alone' \subseteq Alone \cup {t}
    BY <1>5
  <2>2. IsFiniteSet(Alone \cup {t}) /\ Cardinality(Alone \cup {t}) <= Cardinality(Alone) + 1
    BY <1>1, OneMore
  <2>3. IsFiniteSet(Alone') /\ Cardinality(Alone') <= Cardinality(Alone \cup {t})
    BY <2>1, <2>2, FS_Subset
  <2>4. Cardinality(Alone') \in Nat /\ Cardinality(Alone \cup {t}) \in Nat
    BY <2>2, <2>3, FS_CardinalityType
  <2>5. Cardinality(Alone') <= 1 + cut'
    BY <1>1, <1>2, <1>5, <2>2, <2>3, <2>4
  <2>6. QED
    BY <2>3, <2>5 DEF ThemesInv
<1> QED
  BY <1>3, <1>4, <1>5

\* A call that stands somewhere else.
LEMMA StandsAt ==
  ASSUME ThemesTyped, NEW r \in Replicas, NEW to \in SetupStates, Stands(r, to)
  PROVE  /\ setup' \in [Replicas -> SetupStates] /\ setup'[r] = to
         /\ \A q \in Replicas \ {r} : setup'[q] = setup[q]
BY DEF ThemesTyped, Stands

\* Nothing is committed: what the call owed it still owes, or its end is counted.
LEMMA OnwardKeeps ==
  ASSUME ThemesInv, NEW r \in Replicas, NEW to \in SetupStates, Stands(r, to), UNCHANGED theme,
         to.at = "update" /\ ~to.met => ActiveThemes \subseteq to.sees,
         \/ Promised(setup[r]) \subseteq Promised(to) /\ cut' = cut
         \/ CutOff(r)
  PROVE  ThemesInv'
<1>1. ThemesTyped /\ cut \in Nat /\ ActiveThemes' = ActiveThemes
  BY DEF ThemesInv, ThemesTyped, ActiveThemes
<1>2. /\ setup' \in [Replicas -> SetupStates] /\ setup'[r] = to
      /\ \A q \in Replicas \ {r} : setup'[q] = setup[q]
  BY <1>1, StandsAt
<1>3. ThemesTyped'
  BY <1>1, <1>2 DEF ThemesTyped, CutOff
<1>4. \A q \in Replicas : SeesActive(q)'
  BY <1>1, <1>2 DEF SeesActive, ThemesInv
<1>5. Alone' \subseteq Alone \cup (Promised(setup[r]) \cap ActiveThemes)
  BY <1>1, <1>2 DEF Alone
<1>6. Promised(setup[r]) \subseteq Promised(to) => Alone' \subseteq Alone
  BY <1>1, <1>2 DEF Alone
<1>7. PICK t : Promised(setup[r]) \subseteq {t}
  BY OneIsPromised
<1>8. CASE Promised(setup[r]) \subseteq Promised(to) /\ cut' = cut
  BY <1>3, <1>4, <1>6, <1>8, CountKeeps
<1>9. CASE CutOff(r) /\ Promised(setup[r]) \cap ActiveThemes = {}
  <2>1. Alone' \subseteq Alone /\ cut' = cut
    BY <1>5, <1>9 DEF CutOff
  <2>2. QED
    BY <1>3, <1>4, <2>1, CountKeeps
<1>10. CASE CutOff(r) /\ Promised(setup[r]) \cap ActiveThemes # {}
  <2>1. Alone' \subseteq Alone \cup {t} /\ cut' = cut + 1
    BY <1>5, <1>7, <1>10 DEF CutOff
  <2>2. QED
    BY <1>3, <1>4, <2>1, CountKeeps
<1> QED
  BY <1>8, <1>9, <1>10

\* The rows are committed: those that became active are promised, or one in all is left
\* active, or one that became so is counted.
LEMMA CommitKeeps ==
  ASSUME ThemesInv, NEW r \in Replicas, NEW to \in SetupStates, to.at # "update",
         NEW rows \in [ThemeIds -> {"absent", "idle", "active"}], Commits(r, rows, to),
         \/ /\ ActiveIn(rows) \subseteq ActiveThemes \cup Promised(to)
            /\ Promised(setup[r]) = {} /\ cut' = cut
         \/ (\E t : ActiveIn(rows) \subseteq {t}) /\ cut' = cut
         \/ /\ \E t : ActiveIn(rows) \subseteq ActiveThemes \cup {t} /\ Promised(setup[r]) \subseteq {t}
            /\ cut' = cut + 1
  PROVE  ThemesInv'
<1>1. /\ ThemesTyped /\ theme' = rows
      /\ setup' = [q \in Replicas |->
           IF q = r THEN to
           ELSE IF setup[q].at # "update" THEN setup[q]
           ELSE [setup[q] EXCEPT !.sees = {u \in @ : rows[u] # "absent"},
                   !.met = IF Became(rows) = {} THEN @ ELSE TRUE]]
  BY DEF Commits, ThemesInv
<1>2. ActiveThemes' = ActiveIn(rows)
  BY <1>1 DEF ActiveThemes, ActiveIn
<1>3. ASSUME NEW q \in Replicas, q # r, setup[q].at = "update"
      PROVE  /\ setup'[q] \in Statements /\ SeesActive(q)'
             /\ setup'[q].own = setup[q].own /\ setup'[q].id = setup[q].id
  <2>1. setup[q] \in Statements
    BY <1>1, <1>3, SetupIs
  <2>2. setup'[q] = [setup[q] EXCEPT !.sees = {u \in @ : rows[u] # "absent"}, !.met = IF Became(rows) = {} THEN @ ELSE TRUE]
    BY <1>1, <1>3
  <2>3. Became(rows) = {} => ActiveIn(rows) \subseteq ActiveThemes
    BY <1>1 DEF ActiveIn, ActiveThemes, Became
  <2>4. /\ setup'[q].at = "update" /\ setup'[q].own = setup[q].own /\ setup'[q].id = setup[q].id
        /\ setup'[q].to = setup[q].to /\ setup'[q].sees = {u \in setup[q].sees : rows[u] # "absent"}
        /\ setup'[q].met = IF Became(rows) = {} THEN setup[q].met ELSE TRUE
    BY <2>1, <2>2 DEF Statements
  <2>5. setup'[q] \in Statements
    BY <2>1, <2>2, <2>3 DEF Statements
  <2>6. SeesActive(q)'
    <3>1. SUFFICES ASSUME ~setup'[q].met, NEW u \in ActiveThemes'
                   PROVE  u \in setup'[q].sees
      BY DEF SeesActive
    <3>2. ~setup[q].met /\ Became(rows) = {}
      BY <2>4, <3>1
    <3>3. u \in ActiveThemes /\ rows[u] = "active"
      BY <1>2, <2>3, <3>1, <3>2 DEF ActiveIn
    <3>4. u \in setup[q].sees
      BY <1>3, <3>2, <3>3 DEF ThemesInv, SeesActive
    <3>5. QED
      BY <2>4, <3>3, <3>4
  <2>7. QED
    BY <2>4, <2>5, <2>6
<1>4. /\ setup' \in [Replicas -> SetupStates] /\ setup'[r] = to
      /\ \A q \in Replicas : SeesActive(q)'
  <2>1. setup'[r] = to /\ SeesActive(r)'
    BY <1>1 DEF SeesActive
  <2>2. ASSUME NEW q \in Replicas, q # r
        PROVE  setup'[q] \in SetupStates /\ SeesActive(q)'
    <3>1. CASE setup[q].at # "update"
      BY <1>1, <2>2, <3>1 DEF ThemesTyped, SeesActive
    <3>2. CASE setup[q].at = "update"
      BY <1>3, <2>2, <3>2 DEF SetupStates
    <3>3. QED
      BY <3>1, <3>2
  <2>3. \A q \in Replicas : setup'[q] \in SetupStates
    BY <2>1, <2>2
  <2>4. QED
    BY <1>1, <2>1, <2>2, <2>3
<1>5. ASSUME NEW q \in Replicas, q # r
      PROVE  Promised(setup'[q]) = Promised(setup[q])
  <2>1. CASE setup[q].at # "update"
    BY <1>1, <1>5, <2>1
  <2>2. CASE setup[q].at = "update"
    <3>1. setup'[q].at = "update"
      BY <1>3, <1>5, <2>2 DEF Statements
    <3>2. QED
      BY <1>3, <1>5, <2>2, <3>1 DEF Promised
  <2>3. QED
    BY <2>1, <2>2
<1>6. ThemesTyped'
  <2>1. cut \in Nat /\ (cut' = cut \/ cut' = cut + 1)
    BY <1>1 DEF ThemesTyped
  <2>2. theme' \in [ThemeIds -> {"absent", "idle", "active"}]
    BY <1>1
  <2>3. cut' \in Nat
    BY <2>1
  <2>4. QED
    BY <1>4, <2>2, <2>3 DEF ThemesTyped
<1>7. Alone' \subseteq ActiveIn(rows) \ Promised(to)
  BY <1>2, <1>4 DEF Alone
<1>8. \A u \in Alone' : u \in ActiveThemes /\ u \notin Promised(setup[r]) => u \in Alone
  BY <1>4, <1>5 DEF Alone
<1>9. CASE /\ ActiveIn(rows) \subseteq ActiveThemes \cup Promised(to)
           /\ Promised(setup[r]) = {} /\ cut' = cut
  <2>1. Alone' \subseteq Alone
    BY <1>7, <1>8, <1>9
  <2>2. QED
    BY <1>4, <1>6, <1>9, <2>1, CountKeeps
<1>10. CASE (\E t : ActiveIn(rows) \subseteq {t}) /\ cut' = cut
  <2>1. \E t : Alone' \subseteq {t}
    BY <1>7, <1>10
  <2>2. QED
    BY <1>4, <1>6, <2>1, CountKeeps
<1>11. CASE /\ \E t : ActiveIn(rows) \subseteq ActiveThemes \cup {t} /\ Promised(setup[r]) \subseteq {t}
            /\ cut' = cut + 1
  <2>1. PICK t : ActiveIn(rows) \subseteq ActiveThemes \cup {t} /\ Promised(setup[r]) \subseteq {t}
    BY <1>11
  <2>2. Alone' \subseteq Alone \cup {t}
    BY <1>7, <1>8, <2>1
  <2>3. QED
    BY <1>4, <1>6, <1>11, <2>2, CountKeeps
<1> QED
  BY <1>9, <1>10, <1>11

LEMMA ThemeChangesKeep ==
  ASSUME CacheInv, NEW r \in Replicas, Changes(r, {"theme"}), UNCHANGED sectionVars,
         UNCHANGED <<now, entry, outbox, busVars>>
  PROVE  CacheInv'
<1>1. "theme" \in Keys /\ inbox' = inbox /\ UNCHANGED <<row, grant>>
  BY CacheBounds DEF busVars, sectionVars
<1> QED
  BY <1>1, SectionReadsStay, ChangesKeep

\* A statement that saw all that is active leaves its own theme; one that did not, one more.
LEMMA ActivationKeeps ==
  ASSUME ThemesInv, NEW r \in Replicas, ActivateBegins(r) \/ ActivateCommits(r), UNCHANGED sectionVars
  PROVE  ThemesInv' /\ (CacheInv => CacheInv')
<1>1. ThemesTyped
  BY DEF ThemesInv
<1>2. CASE ActivateBegins(r)
  <2> DEFINE to == [at |-> "update", id |-> setup[r].id, own |-> setup[r].own, to |-> setup[r].to,
                    sees |-> ActiveThemes \cup (Rows \cap {setup[r].id}), met |-> FALSE]
  <2>1. /\ setup[r] \in Activations /\ Stands(r, to) /\ setup[r].at = "activate"
        /\ UNCHANGED <<cacheVars, busVars, theme, cut>>
    BY <1>1, <1>2, SetupIs DEF ActivateBegins
  <2>2. ActiveThemes \cup (Rows \cap {setup[r].id}) \in SUBSET ThemeIds
    BY DEF ActiveThemes, Rows
  <2>3. to \in Statements
    BY <2>1, <2>2 DEF Statements, Activations
  <2>4. Promised(to) = Promised(setup[r]) /\ ActiveThemes \subseteq to.sees
    BY <2>1 DEF Promised
  <2> HIDE DEF to
  <2>5. to \in SetupStates /\ ActiveThemes' = ActiveThemes /\ UNCHANGED <<row, grant>>
    BY <2>1, <2>3 DEF SetupStates, ActiveThemes, sectionVars
  <2>6. QED
    BY <2>1, <2>4, <2>5, OnwardKeeps, RestKeeps
<1>3. CASE ActivateCommits(r)
  <2> DEFINE rows == Activated(setup[r])  to == DropBefore(setup[r].to)
  <2>1. /\ setup[r] \in Statements /\ setup[r].at = "update" /\ Commits(r, rows, to) /\ Changes(r, {"theme"})
        /\ cut' = (IF setup[r].met THEN cut + 1 ELSE cut) /\ UNCHANGED <<now, entry, outbox, failed, busVars>>
    BY <1>1, <1>3, SetupIs DEF ActivateCommits
  <2>2. to \in SetupStates /\ to.at # "update"
    BY <2>1, SetupPlaces DEF Statements, DropBefore
  <2>3. /\ rows \in [ThemeIds -> {"absent", "idle", "active"}]
        /\ ActiveIn(rows) \subseteq (ActiveThemes \ setup[r].sees) \cup {setup[r].id}
    BY <1>1 DEF ThemesTyped, Activated, ActiveIn, ActiveThemes
  <2>4. Promised(setup[r]) \subseteq {setup[r].id}
    BY <2>1 DEF Promised
  <2> HIDE DEF rows, to
  <2>5. ThemesInv'
    <3>1. CASE setup[r].met
      BY <2>1, <2>2, <2>3, <2>4, <3>1, CommitKeeps
    <3>2. CASE ~setup[r].met
      <4>1. ActiveThemes \subseteq setup[r].sees
        BY <2>1, <3>2 DEF ThemesInv, SeesActive
      <4>2. QED
        BY <2>1, <2>2, <2>3, <3>2, <4>1, CommitKeeps
    <3>3. QED
      BY <3>1, <3>2
  <2>6. QED
    BY <2>1, <2>5, ThemeChangesKeep
<1> QED
  BY <1>2, <1>3

LEMMA CreateKeeps ==
  ASSUME ThemesInv, NEW r \in Replicas, NEW t \in ThemeIds, NEW active \in BOOLEAN,
         Create(r, t, active), UNCHANGED sectionVars
  PROVE  ThemesInv' /\ (CacheInv => CacheInv')
<1> DEFINE to == IF active THEN DropBefore(Activation(t, TRUE, Ready)) ELSE Last
<1>1. /\ ThemesTyped /\ setup[r] = Ready /\ Commits(r, Created(t, active), to)
      /\ Changes(r, {"theme"}) /\ UNCHANGED <<now, entry, outbox, failed, cut, busVars>>
  BY DEF Create, ThemesInv
<1>2. Ready \in After /\ Last \in After /\ Activation(t, TRUE, Ready) \in Activations
  BY SetupPlaces DEF After
<1>3. to \in SetupStates /\ to.at # "update" /\ (active => t \in Promised(to))
  <2>1. /\ DropBefore(Activation(t, TRUE, Ready)) \in SetupStates /\ Last \in SetupStates
        /\ DropBefore(Activation(t, TRUE, Ready)).at # "update" /\ Last.at # "update"
    BY <1>2, SetupPlaces DEF DropBefore, Last
  <2>2. t \in Promised(DropBefore(Activation(t, TRUE, Ready)))
    BY DEF Promised, DropBefore, Activation
  <2>3. QED
    BY <2>1, <2>2
<1> HIDE DEF to
<1>4. /\ Created(t, active) \in [ThemeIds -> {"absent", "idle", "active"}]
      /\ ActiveIn(Created(t, active)) \subseteq ActiveThemes \cup Promised(to)
  BY <1>1, <1>3, CreatedIs
<1>5. Promised(setup[r]) = {} /\ cut' = cut
  BY <1>1, PromisesAre
<1>6. ThemesInv'
  BY <1>1, <1>3, <1>4, <1>5, CommitKeeps
<1> QED
  BY <1>1, <1>6, ThemeChangesKeep

\* Activate and Delete only begin a call.
LEMMA AdministeredThemes ==
  ASSUME ThemesInv, NEW r \in Replicas, NEW t \in ThemeIds, UNCHANGED sectionVars,
         Activate(r, t) \/ Delete(r, t)
  PROVE  ThemesInv' /\ (CacheInv => CacheInv')
<1>1. \E to \in SetupStates : setup[r] = Ready /\ Stands(r, to) /\ to.at # "update"
  <2>1. CASE Activate(r, t)
    <3>1. Ready \in After
      BY DEF After
    <3>2. Activation(t, FALSE, Ready) \in SetupStates /\ Activation(t, FALSE, Ready).at # "update"
      BY <3>1, SetupPlaces
    <3>3. QED
      BY <2>1, <3>2 DEF Activate
  <2>2. CASE Delete(r, t)
    BY <2>2, SetupPlaces DEF Delete
  <2>3. QED
    BY <2>1, <2>2
<1>2. UNCHANGED <<cacheVars, busVars, theme, cut>>
  BY DEF Activate, Delete
<1>3. Promised(setup[r]) = {} /\ ActiveThemes' = ActiveThemes /\ UNCHANGED <<row, grant>>
  BY <1>1, <1>2, PromisesAre DEF ActiveThemes, sectionVars
<1> QED
  BY <1>1, <1>2, <1>3, OnwardKeeps, RestKeeps

LEMMA ThemeDropped ==
  ASSUME ThemesInv, NEW r \in Replicas, UNCHANGED sectionVars, DropTheme(r)
  PROVE  ThemesInv' /\ (CacheInv => CacheInv')
<1>1. /\ setup[r].at = "drop" /\ InvalidateEverywhere(r, {"theme"}) /\ Stands(r, setup[r].to)
      /\ UNCHANGED <<now, loads, changed, failed, busVars, theme, cut>> /\ ThemesTyped
  BY DEF DropTheme, ThemesInv
<1>2. setup[r].to \in SetupStates /\ setup[r].to.at # "update"
  BY <1>1, SetupIs, SetupPlaces
<1>3. Promised(setup[r]) \subseteq Promised(setup[r].to)
  BY <1>1, SetupIs DEF Promised, After, Activations, Ready, Last, Ship, DropBefore
<1>4. ActiveThemes' = ActiveThemes /\ UNCHANGED <<row, grant>> /\ "theme" \in Keys
  BY <1>1, CacheBounds DEF ActiveThemes, sectionVars
<1> QED
  BY <1>1, <1>2, <1>3, <1>4, OnwardKeeps, Invalidated

LEMMA ActivationFails ==
  ASSUME ThemesInv, NEW r \in Replicas, UNCHANGED sectionVars, ActivateFails(r)
  PROVE  ThemesInv' /\ (CacheInv => CacheInv')
<1>1. /\ setup[r].at = "update" /\ Stands(r, setup[r].to) /\ CutOff(r) /\ ThemesTyped
      /\ UNCHANGED <<now, entry, loads, outbox, owing, changed, busVars, theme>>
  BY DEF ActivateFails, ThemesInv
<1>2. setup[r].to \in SetupStates /\ setup[r].to.at # "update"
  BY <1>1, SetupIs, SetupPlaces DEF Statements
<1>3. ActiveThemes' = ActiveThemes /\ UNCHANGED <<row, grant>> /\ inbox' = inbox
  BY <1>1 DEF ActiveThemes, sectionVars, busVars
<1>4. CacheInv => CacheInv'
  BY <1>1, <1>3, ReadsStay, CacheRests
<1> QED
  BY <1>1, <1>2, <1>4, OnwardKeeps

LEMMA ThemeDeleted ==
  ASSUME ThemesInv, NEW r \in Replicas, UNCHANGED sectionVars, Deleted(r)
  PROVE  ThemesInv' /\ (CacheInv => CacheInv')
<1> DEFINE rows == [theme EXCEPT ![setup[r].id] = IF @ = "active" THEN @ ELSE "absent"]
<1>1. /\ setup[r].at = "delete" /\ Commits(r, rows, Ready) /\ ThemesTyped
      /\ UNCHANGED <<cacheVars, busVars, cut>> /\ UNCHANGED <<row, grant>>
  BY DEF Deleted, ThemesInv, sectionVars
<1>2. rows \in [ThemeIds -> {"absent", "idle", "active"}] /\ ActiveIn(rows) = ActiveThemes
  BY <1>1, SetupIs DEF ThemesTyped, ActiveThemes, ActiveIn
<1> HIDE DEF rows
<1>3. /\ ActiveThemes' = ActiveThemes /\ Ready \in SetupStates /\ Ready.at # "update"
      /\ Promised(setup[r]) = {}
  BY <1>1, <1>2, SetupPlaces DEF Commits, ActiveThemes, ActiveIn, Ready, Promised
<1> QED
  BY <1>1, <1>2, <1>3, CommitKeeps, RestKeeps

\* A start: it looks, activates the first theme where it finds none, and ships its own.
LEMMA BootLooksKeep ==
  ASSUME ThemesInv, NEW r \in Replicas, UNCHANGED sectionVars, BootReads(r) \/ BootLooks(r)
  PROVE  ThemesInv' /\ (CacheInv => CacheInv')
<1>1. /\ setup[r].at \in {"boot", "look"} /\ ThemesTyped /\ UNCHANGED <<row, grant>>
      /\ UNCHANGED <<now, entry, loads, outbox, owing, changed, busVars, theme, cut>>
  BY DEF BootReads, BootLooks, ThemesInv, sectionVars
<1>2. \A f \in BOOLEAN : Ship(f) \in After /\ Ship(f) \in SetupStates /\ Ship(f).at # "update"
  BY SetupPlaces DEF After
<1>3. \E to \in SetupStates : Stands(r, to) /\ to.at # "update"
  <2>1. CASE BootReads(r)
    <3>1. \/ Rows # {} /\ Stands(r, [at |-> "look", first |-> FirstOf(Rows)])
          \/ Stands(r, Ship(TRUE))
      BY <2>1 DEF BootReads
    <3>2. Rows # {} => FirstOf(Rows) \in ThemeIds
      BY FirstIsOne DEF Rows
    <3>3. QED
      BY <1>2, <3>1, <3>2, SetupPlaces
  <2>2. CASE BootLooks(r)
    <3>1. \/ Stands(r, Activation(setup[r].first, FALSE, Ship(FALSE)))
          \/ Stands(r, Ship(FALSE))
      BY <2>2 DEF BootLooks
    <3>2. setup[r].first \in ThemeIds
      BY <1>1, <2>2, SetupIs DEF BootLooks
    <3>3. Activation(setup[r].first, FALSE, Ship(FALSE)) \in Activations
      BY <1>2, <3>2, SetupPlaces
    <3>4. QED
      BY <1>2, <3>1, <3>3, SetupPlaces
  <2>3. QED
    BY <2>1, <2>2
<1>4. ActiveThemes' = ActiveThemes /\ inbox' = inbox /\ Promised(setup[r]) = {}
  BY <1>1 DEF ActiveThemes, busVars, Promised
<1>5. CacheInv => CacheInv'
  BY <1>1, <1>4, ReadsStay, CacheRests
<1> QED
  BY <1>1, <1>3, <1>4, <1>5, OnwardKeeps

LEMMA BootShipsKeeps ==
  ASSUME ThemesInv, NEW r \in Replicas, UNCHANGED sectionVars, BootShips(r)
  PROVE  ThemesInv' /\ (CacheInv => CacheInv')
<1>1. /\ setup[r].at = "ship" /\ ThemesTyped /\ UNCHANGED <<row, grant>> /\ setup[r] \in After
      /\ Last \in After /\ Promised(setup[r]) = {} /\ Promised(DropBefore(setup[r])) = {}
  BY SetupIs, PromisesAre DEF BootShips, ThemesInv, sectionVars, After
<1>2. CASE BuiltIn \subseteq Rows
  <2> DEFINE to == IF setup[r].fresh THEN Activation(FirstOf(Rows), FALSE, Last) ELSE Last
  <2>1. Stands(r, to) /\ UNCHANGED <<theme, owing, changed, loads, now, entry, outbox, failed, cut, busVars>>
    BY <1>2 DEF BootShips
  <2>2. FirstOf(Rows) \in ThemeIds
    <3>1. Rows # {} /\ Rows \in SUBSET ThemeIds
      BY <1>2, ThemesAssumption DEF Rows, ThemesAssumption
    <3>2. QED
      BY <3>1, FirstIsOne
  <2>3. Activation(FirstOf(Rows), FALSE, Last) \in Activations
    BY <1>1, <2>2, SetupPlaces
  <2>4. to \in SetupStates /\ to.at # "update"
    BY <1>1, <2>3, SetupPlaces
  <2> HIDE DEF to
  <2>5. ActiveThemes' = ActiveThemes /\ inbox' = inbox
    BY <2>1 DEF ActiveThemes, busVars
  <2>6. CacheInv => CacheInv'
    BY <1>1, <2>1, <2>5, ReadsStay, CacheRests
  <2>7. QED
    BY <1>1, <2>1, <2>4, <2>6, OnwardKeeps
<1>3. CASE ~(BuiltIn \subseteq Rows)
  <2> DEFINE t == FirstOf(BuiltIn \ Rows)
  <2>1. /\ Commits(r, Created(t, FALSE), DropBefore(setup[r])) /\ Changes(r, {"theme"})
        /\ UNCHANGED <<now, entry, outbox, failed, cut, busVars>>
    BY <1>3 DEF BootShips
  <2>2. t \in ThemeIds
    <3>1. BuiltIn \ Rows # {} /\ BuiltIn \ Rows \in SUBSET ThemeIds
      BY <1>3, ThemesAssumption DEF ThemesAssumption
    <3>2. QED
      BY <3>1, FirstIsOne
  <2> HIDE DEF t
  <2>3. /\ Created(t, FALSE) \in [ThemeIds -> {"absent", "idle", "active"}]
        /\ ActiveIn(Created(t, FALSE)) \subseteq ActiveThemes
    BY <1>1, <2>2, CreatedIs
  <2>4. DropBefore(setup[r]) \in SetupStates /\ DropBefore(setup[r]).at # "update"
    BY <1>1, SetupPlaces DEF DropBefore
  <2>5. ThemesInv'
    BY <1>1, <2>1, <2>3, <2>4, CommitKeeps
  <2>6. QED
    BY <2>1, <2>5, ThemeChangesKeep
<1> QED
  BY <1>2, <1>3

\* Every step of the calls about themes.
LEMMA ThemesStep ==
  ASSUME ThemesInv, UNCHANGED sectionVars, ThemesNext
  PROVE  ThemesInv' /\ (CacheInv => CacheInv')
<1>1. PICK r \in Replicas :
        \/ BootReads(r) \/ BootLooks(r) \/ BootShips(r)
        \/ ActivateBegins(r) \/ ActivateCommits(r) \/ ActivateFails(r)
        \/ DropTheme(r) \/ Deleted(r)
  BY DEF ThemesNext
<1> QED
  BY <1>1, BootLooksKeep, BootShipsKeeps, ActivationKeeps, ThemeDropped, ActivationFails, ThemeDeleted
-----------------------------------------------------------------------------
(* The panel's data: every step, and what follows                          *)

PanelInv == SectionsInv /\ ThemesInv /\ CacheInv

\* Nothing happens to the rows: only the caches, or who hears.
LEMMA CacheStep ==
  ASSUME CacheInv, CacheNext, UNCHANGED <<themeVars, sectionVars>>
  PROVE  CacheInv'
<1>1. \A j \in Keys : ReadAs(j)' = ReadAs(j)
  BY ReadsStay DEF themeVars, sectionVars, ActiveThemes
<1>2. ASSUME NEW r \in Replicas, Connect(r)
      PROVE  CacheInv'
  <2>1. UNCHANGED <<now, entry, loads, outbox, owing, inbox, changed>>
    BY <1>2 DEF Connect, Listen, cacheVars
  <2>2. QED
    BY <1>1, <2>1, CacheRests
<1>3. ASSUME NEW r \in Replicas, NEW k \in Keys,
             Store(r, k) \/ LoadFails(r, k) \/ Send(r, k) \/ SendFails(r, k)
      PROVE  CacheInv'
  BY <1>1, <1>3, StoreKeeps, LoadFailsKeeps, SendKeeps, SendFailsKeeps
<1>4. ASSUME NEW r \in Replicas, Drop(r) \/ Disconnect(r)
      PROVE  CacheInv'
  BY <1>1, <1>4, DropKeepsCaches, DisconnectKeeps
<1>5. Tick => CacheInv'
  BY <1>1, TickKeepsCaches
<1> QED
  BY <1>2, <1>3, <1>4, <1>5 DEF CacheNext

\* What a step leaves alone keeps its part of the invariant.
LEMMA OthersRest ==
  /\ SectionsInv /\ UNCHANGED sectionVars => SectionsInv'
  /\ ThemesInv /\ UNCHANGED themeVars => ThemesInv'
<1>1. SectionsInv /\ UNCHANGED sectionVars => SectionsInv'
  BY DEF SectionsInv, sectionVars, SectionsTyped, DeclarersRun, GrantFits, SettingARole, Granted
<1>2. ThemesInv /\ UNCHANGED themeVars => ThemesInv'
  BY DEF ThemesInv, themeVars, ThemesTyped, ActiveThemes, Alone, SeesActive
<1> QED
  BY <1>1, <1>2

LEMMA RestartKeeps ==
  ASSUME PanelInv, Restart
  PROVE  PanelInv'
<1>1. PICK r \in Replicas, these \in SUBSET Declarers :
        /\ Forget(r)
        /\ \/ BootThemes(r) /\ UNCHANGED call
           \/ BeginSync(r, these) /\ UNCHANGED themeVars
        /\ declaring' = [declaring EXCEPT ![r] = {}]
        /\ running' = [running EXCEPT ![r] = {}]
        /\ UNCHANGED <<row, grant>>
  BY DEF Restart
<1>2. SectionsTyped /\ ThemesTyped
  BY DEF PanelInv, SectionsInv, ThemesInv
<1>3. ActiveThemes' = ActiveThemes
  BY <1>1 DEF BootThemes, themeVars, ActiveThemes
<1>4. CacheInv'
  BY <1>1, <1>3, ReadsStay, ForgetKeeps DEF PanelInv
<1>5. /\ declaring' \in [Replicas -> SUBSET Declarers] /\ running' \in [Replicas -> SUBSET Declarers]
      /\ declaring'[r] = {}
      /\ \A q \in Replicas \ {r} : declaring'[q] = declaring[q] /\ running'[q] = running[q]
  BY <1>1, <1>2 DEF SectionsTyped
<1>6. ThemesInv'
  <2>1. CASE BootThemes(r)
    <3>1. Stands(r, [at |-> "boot"]) /\ UNCHANGED theme /\ CutOff(r)
      BY <2>1 DEF BootThemes
    <3>2. QED
      BY <3>1, SetupPlaces, OnwardKeeps DEF PanelInv
  <2>2. CASE UNCHANGED themeVars
    BY <2>2, OthersRest DEF PanelInv
  <2>3. QED
    BY <1>1, <2>1, <2>2
<1>7. ASSUME NEW to \in CallStates, to.at # "grant", call'[r] = to,
             call' \in [Replicas -> CallStates], \A q \in Replicas \ {r} : call'[q] = call[q]
      PROVE  SectionsInv'
  <2>1. SectionsTyped'
    BY <1>1, <1>2, <1>5, <1>7 DEF SectionsTyped
  <2>2. DeclarersRun'
    BY <1>5, <1>7 DEF PanelInv, SectionsInv, DeclarersRun
  <2>3. ASSUME NEW q \in Replicas
        PROVE  GrantFits(q)'
    <3>1. Granted' = Granted
      BY <1>1 DEF Granted
    <3>2. CASE q = r
      BY <1>7, <3>2 DEF GrantFits
    <3>3. CASE q # r
      BY <1>1, <1>7, <3>1, <3>3 DEF GrantFits, PanelInv, SectionsInv, SettingARole
    <3>4. QED
      BY <3>2, <3>3
  <2>4. QED
    BY <2>1, <2>2, <2>3 DEF SectionsInv
<1>8. SectionsInv'
  <2>1. CASE BeginSync(r, these)
    <3> DEFINE to == [at |-> "sync", todo |-> DeclaredIn({"file"}), of |-> "file", ran |-> these, new |-> {}]
    <3>1. to \in Syncing /\ Calls(r, to)
      BY <2>1 DEF Syncing, Synchronising, DeclaredIn, BeginSync
    <3> HIDE DEF to
    <3>2. to \in CallStates /\ to.at # "grant"
      BY <3>1, Destinations
    <3>3. QED
      BY <1>2, <1>7, <3>1, <3>2 DEF Calls, SectionsTyped
  <2>2. CASE UNCHANGED call
    <3>1. SectionsTyped'
      BY <1>1, <1>2, <1>5, <2>2 DEF SectionsTyped
    <3>2. DeclarersRun'
      BY <1>5, <2>2 DEF PanelInv, SectionsInv, DeclarersRun
    <3>3. \A q \in Replicas : GrantFits(q)'
      BY <1>1, <2>2 DEF GrantFits, PanelInv, SectionsInv, SettingARole, Granted
    <3>4. QED
      BY <3>1, <3>2, <3>3 DEF SectionsInv
  <2>3. QED
    BY <1>1, <2>1, <2>2
<1> QED
  BY <1>4, <1>6, <1>8 DEF PanelInv

LEMMA AdministerKeeps ==
  ASSUME PanelInv, Administer
  PROVE  PanelInv'
<1>1. PICK r \in Replicas :
        \/ /\ \E t \in ThemeIds : Activate(r, t) \/ Delete(r, t) \/ Create(r, t, TRUE) \/ Create(r, t, FALSE)
           /\ UNCHANGED sectionVars
        \/ /\ \/ \E s \in SectionIds : CreateSection(r, s) \/ ReadSection(r, s) \/ DeleteSection(r, s)
              \/ \E list \in Lists : SetRole(r, list)
              \/ Import(r)
           /\ UNCHANGED themeVars
  BY DEF Administer
<1>2. CASE /\ \E t \in ThemeIds : Activate(r, t) \/ Delete(r, t) \/ Create(r, t, TRUE) \/ Create(r, t, FALSE)
           /\ UNCHANGED sectionVars
  BY <1>2, OthersRest, AdministeredThemes, CreateKeeps DEF PanelInv
<1>3. CASE UNCHANGED themeVars /\ \E s \in SectionIds : CreateSection(r, s) \/ ReadSection(r, s) \/ DeleteSection(r, s)
  BY <1>3, OthersRest, SectionWritten DEF PanelInv
<1>4. CASE UNCHANGED themeVars /\ \E list \in Lists : SetRole(r, list)
  <2>1. PICK list \in Lists : SetRole(r, list)
    BY <1>4
  <2>2. list \in SUBSET SectionIds /\ TakeAway(r, list) /\ UNCHANGED <<row, declaring, running>>
    BY <2>1, PanelAssumption DEF PanelAssumption, SetRole
  <2>3. QED
    BY <1>4, <2>2, OthersRest, RoleSet DEF PanelInv
<1>5. CASE UNCHANGED themeVars /\ Import(r)
  BY <1>5, OthersRest, Imported DEF PanelInv
<1> QED
  BY <1>1, <1>2, <1>3, <1>4, <1>5

LEMMA PanelInitially == PanelInit => PanelInv
<1> SUFFICES ASSUME PanelInit PROVE PanelInv
  OBVIOUS
<1>1. PICK there \in ThemesBefore : ThemesInit(there)
  BY DEF PanelInit
<1>2. PICK known \in KnownBefore : SectionsInit(known)
  BY DEF PanelInit
<1>3. SectionsInv
  <2>1. /\ row = [s \in SectionIds |-> IF s \in known THEN [state |-> "on", js |-> Earlier] ELSE NoRow]
        /\ grant = [s \in SectionIds |-> IF s \in known \cap FileGrants THEN "on" ELSE "none"]
        /\ declaring = [r \in Replicas |-> {}] /\ running = [r \in Replicas |-> Declarers]
        /\ call = [r \in Replicas |-> Idle]
    BY <1>2 DEF SectionsInit
  <2>2. NoRow \in SectionRow
    BY DEF NoRow, SectionRow, Releases
  <2>3. SectionsTyped
    BY <2>1, <2>2, EmptyRowIsOne, IdleIsNoStart DEF SectionsTyped
  <2>4. DeclarersRun /\ \A r \in Replicas : GrantFits(r)
    BY <2>1, IdleIsNoStart DEF DeclarersRun, GrantFits
  <2>5. QED
    BY <2>3, <2>4 DEF SectionsInv
<1>4. ThemesInv
  <2>1. /\ theme = [t \in ThemeIds |-> IF t \notin there THEN "absent"
                                      ELSE IF t = FirstOf(there) THEN "active" ELSE "idle"]
        /\ setup = [r \in Replicas |-> IF there = {} THEN [at |-> "boot"] ELSE Ready] /\ cut = 0
    BY <1>1 DEF ThemesInit
  <2>2. ThemesTyped
    BY <2>1, SetupPlaces DEF ThemesTyped
  <2>3. \A r \in Replicas : SeesActive(r)
    BY <2>1 DEF SeesActive, Ready
  <2>4. Alone \in SUBSET {FirstOf(there)}
    BY <2>1 DEF Alone, ActiveThemes
  <2>5. IsFiniteSet({FirstOf(there)}) /\ Cardinality({FirstOf(there)}) = 1
    BY FS_Singleton
  <2>6. IsFiniteSet(Alone) /\ Cardinality(Alone) <= 1
    BY <2>4, <2>5, FS_Subset
  <2>7. Cardinality(Alone) \in Nat
    BY <2>6, FS_CardinalityType
  <2>8. QED
    BY <2>1, <2>2, <2>3, <2>6, <2>7 DEF ThemesInv
<1>5. CacheInv
  <2>1. /\ inbox = [r \in Replicas |-> {}] /\ now = 0
        /\ entry = [r \in Replicas |-> [k \in Keys |-> NoEntry]]
        /\ loads = [r \in Replicas |-> [k \in Keys |-> {}]]
        /\ outbox = [r \in Replicas |-> {}] /\ owing = [r \in Replicas |-> {}]
        /\ changed = [k \in Keys |-> 0]
    BY DEF PanelInit, CacheInit
  <2>2. CacheTyped
    BY <2>1, NoEntryIsAnEntry DEF CacheTyped
  <2>3. ASSUME NEW r \in Replicas, NEW k \in Keys
        PROVE  EntryFits(r, k) /\ loads[r][k] = {} /\ changed[k] <= now
    <3>1. entry[r][k].until = 0 /\ now = 0 /\ loads[r][k] = {} /\ changed[k] = 0
      BY <2>1, NoEntryIsAnEntry
    <3>2. QED
      BY <3>1, CacheBounds DEF EntryFits, Usable
  <2>4. QED
    BY <2>1, <2>2, <2>3 DEF CacheInv
<1> QED
  BY <1>3, <1>4, <1>5 DEF PanelInv

LEMMA PanelStep == PanelInv /\ [PanelNext]_panelVars => PanelInv'
<1> SUFFICES ASSUME PanelInv, [PanelNext]_panelVars PROVE PanelInv'
  OBVIOUS
<1>1. ASSUME NEW r \in Replicas, NEW k \in Keys, Ask(r, k)
      PROVE  PanelInv'
  <2>1. PICK value \in Current(r, k) : Load(r, k, value)
    BY <1>1 DEF Ask
  <2>2. UNCHANGED <<themeVars, sectionVars>>
    BY <1>1 DEF Ask
  <2>3. value \in ReadAs(k) \cap Readable
    BY <2>1, ReadsAreCurrent DEF PanelInv
  <2>4. \A j \in Keys : ReadAs(j)' = ReadAs(j)
    BY <2>2, ReadsStay DEF themeVars, sectionVars, ActiveThemes
  <2>5. CacheInv'
    BY <2>1, <2>3, <2>4, LoadKeeps DEF PanelInv
  <2>6. QED
    BY <2>2, <2>5, OthersRest DEF PanelInv
<1>2. CacheNext /\ UNCHANGED <<themeVars, sectionVars>> => PanelInv'
  BY CacheStep, OthersRest DEF PanelInv
<1>3. ThemesNext /\ UNCHANGED sectionVars => PanelInv'
  BY ThemesStep, OthersRest DEF PanelInv
<1>4. SectionsNext /\ UNCHANGED themeVars => PanelInv'
  BY SectionsStep, OthersRest DEF PanelInv
<1>5. ASSUME UNCHANGED panelVars
      PROVE  PanelInv'
  <2>1. UNCHANGED <<cacheVars, busVars, themeVars, sectionVars>>
    BY <1>5 DEF panelVars
  <2>2. CacheInv'
    BY <2>1, RestKeeps DEF PanelInv, themeVars, sectionVars, ActiveThemes
  <2>3. QED
    BY <2>1, <2>2, OthersRest DEF PanelInv
<1> QED
  BY <1>1, <1>2, <1>3, <1>4, <1>5, AdministerKeeps, RestartKeeps DEF PanelNext

\* Every variable stays in its range, a load and an entry fit what the rows said at some moment of
\* their time, and what is owed of an activation is counted: the invariant the others follow from.
THEOREM PanelKeeps == PanelSpec => []PanelInv
BY PanelInitially, PanelStep, PTL DEF PanelSpec

\* The plugins whose sections a process imported are among those that run in it, so the read of
\* a role's sections leaves none out, and the section of a plugin that is gone stays in the panel.
THEOREM NothingIsHidden == PanelSpec => [](\A r \in Replicas : Hidden(r) = {})
<1>1. ASSUME PanelInv
      PROVE  \A r \in Replicas : Hidden(r) = {}
  BY <1>1 DEF PanelInv, SectionsInv, DeclarersRun, Hidden
<1> QED
  BY <1>1, PanelKeeps, PTL

\* When an entry's life and a load's time have passed since a change, no replica answers what was
\* before it: an entry that is no longer so began to be read before the change.
THEOREM StalenessIsBounded == PanelSpec => []LifetimeBoundsStaleness
<1>1. ASSUME PanelInv
      PROVE  LifetimeBoundsStaleness
  <2> SUFFICES ASSUME NEW r \in Replicas, NEW k \in Keys, now >= changed[k] + TTL + Latency, Stale(r, k)
               PROVE  FALSE
    BY DEF LifetimeBoundsStaleness
  <2>1. Usable(r, k) /\ entry[r][k].value \notin ReadAs(k)
    BY <1>1, ReadsAreCurrent DEF Stale, PanelInv
  <2>2. entry[r][k].until <= changed[k] + TTL + Latency
    BY <1>1, <2>1 DEF PanelInv, CacheInv, EntryFits
  <2>3. /\ entry[r][k].until > now /\ entry[r][k].until \in Nat /\ now \in Nat /\ changed[k] \in Nat
        /\ TTL \in Nat /\ Latency \in Nat
    BY <1>1, <2>1, EntryTypes, CacheBounds DEF PanelInv, CacheInv
  <2>4. QED
    BY <2>2, <2>3
<1> QED
  BY <1>1, PanelKeeps, PTL

\* Sooner than that, what a replica answers wrongly is on its way to be dropped, or deaf.
THEOREM StalenessIsExplained == PanelSpec => []StaleIsExplained
<1>1. ASSUME PanelInv
      PROVE  StaleIsExplained
  <2> SUFFICES ASSUME NEW r \in Replicas, NEW k \in Keys, Stale(r, k)
               PROVE  entry[r][k].deaf \/ Told(r, k)
    BY DEF StaleIsExplained, Told
  <2>1. Usable(r, k) /\ entry[r][k].value \notin ReadAs(k)
    BY <1>1, ReadsAreCurrent DEF Stale, PanelInv
  <2>2. QED
    BY <1>1, <2>1 DEF PanelInv, CacheInv, EntryFits
<1> QED
  BY <1>1, PanelKeeps, PTL

\* A role has the sections its last call listed; and one theme is active, besides those whose
\* call is about to make them the only one, for each activation that was cut off or overtaken.
THEOREM PanelCallsEndAsMeant == PanelSpec => []CallsEndAsMeant
<1>1. ASSUME PanelInv
      PROVE  RoleEndsAsSet
  BY <1>1 DEF PanelInv, SectionsInv, GrantFits, RoleEndsAsSet
<1>2. ASSUME PanelInv
      PROVE  OneThemeIsActive
  BY <1>2 DEF PanelInv, ThemesInv, Alone, OneThemeIsActive
<1> QED
  BY <1>1, <1>2, PanelKeeps, PTL DEF CallsEndAsMeant

=============================================================================
