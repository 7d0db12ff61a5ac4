------------------------------ MODULE Sections ------------------------------
(***************************************************************************)
(* The catalogue of panel sections (keepup_modules/catalogue.py), the      *)
(* grants of one role, and their import at every start (plugin.py).        *)
(*                                                                         *)
(* A row has the release its files are of; the file and the plugins of     *)
(* this release own that, the administrator owns whether it is shown.      *)
(***************************************************************************)
EXTENDS ReplicaCache

CONSTANTS
  SectionIds,   \* numbered in the order they are declared
  DeclaredBy,   \* the plugin that declares a section, or "file"
  Declarers,
  FileGrants    \* the sections the file grants the role

ASSUME SectionsAssumption ==
  /\ SectionIds \subseteq Nat
  /\ DeclaredBy \in [SectionIds -> Declarers \cup {"file"}]
  /\ \E s \in SectionIds : DeclaredBy[s] = "file"
  /\ FileGrants \subseteq SectionIds

VARIABLES
  row,          \* frontend_modules: is_active, and the release of js_path
  grant,        \* role_modules
  declaring,    \* _declaring_plugins
  running,      \* _running_plugins
  call          \* the administrator's call or the import of each replica

sectionVars == <<row, grant, declaring, running, call>>

DeclaredIn(owners) == {s \in SectionIds : DeclaredBy[s] \in owners}
Earlier == 0
Release == 1
NoRow == [state |-> "none", js |-> Earlier]
Idle == [at |-> "idle"]

Granted == {s \in SectionIds : grant[s] = "on"}
MinOf(S) == CHOOSE s \in S : \A t \in S : s <= t

\* hidden_plugins, and the read of a role's sections.
Hidden(r) == declaring[r] \ running[r]
SectionsRead(r) ==
  {<<s, row[s].js>> : s \in {s \in Granted : row[s].state = "on" /\ DeclaredBy[s] \notin Hidden(r)}}

\* The sections that an earlier release declared are known.
SectionsInit(known) ==
  /\ row = [s \in SectionIds |-> IF s \in known THEN [state |-> "on", js |-> Earlier] ELSE NoRow]
  /\ grant = [s \in SectionIds |-> IF s \in known \cap FileGrants THEN "on" ELSE "none"]
  /\ declaring = [r \in Replicas |-> {}]
  /\ running = [r \in Replicas |-> Declarers]
  /\ call = [r \in Replicas |-> Idle]

Calls(r, to) == call' = [call EXCEPT ![r] = to]

\* A statement of the call that changes what the role reads.
Writes(r) == Changes(r, {"sections"}) /\ UNCHANGED <<now, entry, outbox, failed, busVars>>

DropSections(r) ==
  /\ call[r].at = "drop"
  /\ InvalidateEverywhere(r, {"sections"})
  /\ Calls(r, call[r].then)
  /\ UNCHANGED <<now, loads, changed, failed, busVars, row, grant, declaring, running>>

ThenDrop(to) == [at |-> "drop", then |-> to]

-----------------------------------------------------------------------------
(* The administrator                                                       *)

\* create_or_update_module finds no active row: INSERT.
CreateSection(r, s) ==
  /\ call[r] = Idle
  /\ row[s] = NoRow
  /\ row' = [row EXCEPT ![s] = [state |-> "on", js |-> Earlier]]
  /\ Writes(r)
  /\ Calls(r, ThenDrop(Idle))
  /\ UNCHANGED <<grant, declaring, running>>

\* update_module reads the row, and writes back the fields that stay.
ReadSection(r, s) ==
  /\ call[r] = Idle
  /\ row[s].state = "on"
  /\ Calls(r, [at |-> "update", id |-> s, js |-> row[s].js])
  /\ UNCHANGED <<cacheVars, busVars, row, grant, declaring, running>>

\* A row that is off meanwhile is not found, and its INSERT is refused.
UpdateSection(r) ==
  /\ call[r].at = "update"
  /\ IF row[call[r].id].state = "on"
     THEN /\ row' = [row EXCEPT ![call[r].id].js = call[r].js]
          /\ Writes(r)
          /\ Calls(r, ThenDrop(Idle))
     ELSE UNCHANGED <<row, cacheVars, busVars>> /\ Calls(r, Idle)
  /\ UNCHANGED <<grant, declaring, running>>

\* delete_module
DeleteSection(r, s) ==
  /\ call[r] = Idle
  /\ row[s].state = "on"
  /\ row' = [row EXCEPT ![s].state = "off"]
  /\ Writes(r)
  /\ Calls(r, ThenDrop(Idle))
  /\ UNCHANGED <<grant, declaring, running>>

SettingARole(q) == call[q].at = "grant"

\* update_role_modules: everything is taken away first.
TakeAway(r, list) ==
  /\ grant' = [s \in SectionIds |-> IF grant[s] = "on" THEN "off" ELSE grant[s]]
  /\ Writes(r)
  /\ call' = [q \in Replicas |->
       IF q = r
       THEN [at |-> "grant", list |-> list, todo |-> list,
             had |-> {s \in SectionIds : grant[s] # "none"},
             alone |-> \A p \in Replicas \ {r} : ~SettingARole(p)]
       ELSE IF SettingARole(q) THEN [call[q] EXCEPT !.alone = FALSE] ELSE call[q]]

SetRole(r, list) ==
  /\ call[r] = Idle
  /\ TakeAway(r, list)
  /\ UNCHANGED <<row, declaring, running>>

\* Then each is given by a statement of its own.
GrantNext(r) ==
  /\ call[r].at = "grant" /\ call[r].todo # {}
  /\ grant' = [grant EXCEPT ![MinOf(call[r].todo)] = "on"]
  /\ Writes(r)
  /\ Calls(r, [call[r] EXCEPT !.todo = @ \ {MinOf(@)}])
  /\ UNCHANGED <<row, declaring, running>>

GrantsDone(r) ==
  /\ call[r].at = "grant" /\ call[r].todo = {}
  /\ InvalidateEverywhere(r, {"sections"})
  /\ Calls(r, Idle)
  /\ UNCHANGED <<now, loads, changed, failed, busVars, row, grant, declaring, running>>

\* import_modules_from_json: the rows of the file, then its grants.
Import(r) ==
  /\ call[r] = Idle
  /\ Calls(r, [at |-> "import", todo |-> DeclaredIn({"file"})])
  /\ UNCHANGED <<cacheVars, busVars, row, grant, declaring, running>>

ImportNext(r) ==
  /\ call[r].at = "import"
  /\ IF call[r].todo = {}
     THEN TakeAway(r, FileGrants) /\ UNCHANGED row
     ELSE LET s == MinOf(call[r].todo) IN
          IF row[s].state = "off"   \* refused, and with it the rest of the import
          THEN Calls(r, Idle) /\ UNCHANGED <<row, grant, cacheVars, busVars>>
          ELSE /\ row' = [row EXCEPT ![s] = [state |-> "on", js |-> Release]]
               /\ Writes(r)
               /\ Calls(r, ThenDrop([call[r] EXCEPT !.todo = @ \ {s}]))
               /\ UNCHANGED grant
  /\ UNCHANGED <<declaring, running>>

\* A statement fails: what was written stays, and nothing is dropped.
CallFails(r) ==
  /\ call[r].at \in {"grant", "update", "import"} /\ Fails
  /\ Calls(r, Idle)
  /\ Abandon(r)
  /\ UNCHANGED <<now, loads, outbox, changed, busVars, row, grant, declaring, running>>

-----------------------------------------------------------------------------
(* post_construct: every start imports what its plugins declare            *)

BeginSync(r, ran) ==
  Calls(r, [at |-> "sync", todo |-> DeclaredIn({"file"}), of |-> "file", ran |-> ran, new |-> {}])

\* _INSERT_SECTION_IF_NEW and _repoint_statement.
Synced(s) == IF row[s] = NoRow THEN [state |-> "on", js |-> Release] ELSE [row[s] EXCEPT !.js = Release]

SyncSection(r) ==
  /\ call[r].at = "sync" /\ call[r].todo # {}
  /\ LET s == MinOf(call[r].todo)  c == call[r] IN
       /\ IF Synced(s) = row[s]
          THEN UNCHANGED <<row, cacheVars, busVars>>
          ELSE row' = [row EXCEPT ![s] = Synced(s)] /\ Writes(r)
       /\ LET on == [c EXCEPT !.todo = @ \ {s}, !.new = @ \cup (IF Synced(s) = row[s] THEN {} ELSE {DeclaredBy[s]})] IN
            Calls(r, IF on.todo = {} /\ c.of = "file"   \* the grants of the file follow
                     THEN [on EXCEPT !.at = "grants", !.todo = FileGrants] ELSE on)
  /\ UNCHANGED <<grant, declaring, running>>

\* Mutant: a grant that is there is written again.
SyncGrant_Upserts(r) ==
  /\ call[r].at = "grants" /\ call[r].todo # {}
  /\ grant' = [grant EXCEPT ![MinOf(call[r].todo)] = "on"]
  /\ Writes(r)
  /\ Calls(r, [call[r] EXCEPT !.todo = @ \ {MinOf(@)}, !.new = @ \cup {"file"}])
  /\ UNCHANGED <<row, declaring, running>>

\* _INSERT_GRANT_IF_NEW
SyncGrant(r) ==
  /\ call[r].at = "grants" /\ call[r].todo # {}
  /\ LET s == MinOf(call[r].todo) IN
       IF grant[s] = "none"
       THEN /\ grant' = [grant EXCEPT ![s] = "on"]
            /\ Writes(r)
            /\ Calls(r, [call[r] EXCEPT !.todo = @ \ {s}, !.new = @ \cup {"file"}])
       ELSE /\ Calls(r, [call[r] EXCEPT !.todo = @ \ {s}])
            /\ UNCHANGED <<grant, cacheVars, busVars>>
  /\ UNCHANGED <<row, declaring, running>>

\* The file is in; the sections of the plugins that are loaded follow.
SyncGrantsDone(r) ==
  /\ call[r].at = "grants" /\ call[r].todo = {}
  /\ LET next == [call[r] EXCEPT !.at = "sync", !.of = "plugins", !.new = {},
                                 !.todo = DeclaredIn(call[r].ran)] IN
       Calls(r, IF call[r].new # {} THEN ThenDrop(next) ELSE next)
  /\ UNCHANGED <<cacheVars, busVars, row, grant, declaring, running>>

\* set_declared_plugins for those whose rows were written, and set_running_plugins.
SyncPluginsDone(r) ==
  /\ call[r].at = "sync" /\ call[r].todo = {} /\ call[r].of = "plugins"
  /\ declaring' = [declaring EXCEPT ![r] = @ \cup call[r].new]
  /\ running' = [running EXCEPT ![r] = call[r].ran]
  /\ InvalidateEverywhere(r, {"sections"})
  /\ Calls(r, Idle)
  /\ UNCHANGED <<now, loads, changed, failed, busVars, row, grant>>

SectionsNext ==
  \E r \in Replicas :
    \/ DropSections(r) \/ UpdateSection(r) \/ GrantNext(r) \/ GrantsDone(r)
    \/ ImportNext(r) \/ CallFails(r)
    \/ SyncSection(r) \/ SyncGrant(r) \/ SyncGrantsDone(r) \/ SyncPluginsDone(r)

-----------------------------------------------------------------------------

\* The starts of other replicas may fall between any two statements of a grant
\* call: when it is through, and no other was under way, the role has what the
\* administrator listed, and besides only what it had never been asked about
\* (update_role_modules, sync_new_modules_from_json).
RoleEndsAsSet ==
  \A r \in Replicas :
    call[r].at = "grant" /\ call[r].todo = {} /\ call[r].alone =>
      call[r].list \subseteq Granted /\ (Granted \ call[r].list) \cap call[r].had = {}

=============================================================================
