------------------------------- MODULE Themes -------------------------------
(***************************************************************************)
(* The visual themes (keepup_ui/themes.py): their rows, the start of the   *)
(* service in every replica, and the administrator's calls.  A theme is    *)
(* its id, which PostgreSQL keeps when the name is written again; the page *)
(* asks for the active one through the replica's cache.                    *)
(***************************************************************************)
EXTENDS ReplicaCache

CONSTANTS
  BuiltIn,     \* register_built_in_themes: the ids of the themes that ship
  ThemeIds     \* all ids, in the order of the table

ASSUME ThemesAssumption ==
  BuiltIn # {} /\ BuiltIn \subseteq ThemeIds /\ ThemeIds \subseteq Nat

VARIABLES
  theme,       \* the rows of visual_themes
  setup,       \* where a replica's call in ConfigService stands
  cut          \* how many themes were left active that no call then ended: created and not
               \* activated, or made so while another's activation was under way

themeVars == <<theme, setup, cut>>

ActiveThemes == {t \in ThemeIds : theme[t] = "active"}
Rows == {t \in ThemeIds : theme[t] # "absent"}
FirstOf(S) == CHOOSE t \in S : \A u \in S : t <= u

\* GET_ACTIVE_THEME_SQL: one of the active rows.
ActiveReads == IF ActiveThemes = {} THEN {{}} ELSE {{t} : t \in ActiveThemes}

Ready == [at |-> "ready"]
\* A change is committed: the cache is dropped next, and then the call stands at `to'.
DropBefore(to) == [at |-> "drop", to |-> to]
\* initialize drops it once more when it is through.
Last == DropBefore(Ready)
Ship(fresh) == [at |-> "ship", fresh |-> fresh]
\* set_active_theme is called, by create_theme for its `own' theme.
Activation(t, own, to) == [at |-> "activate", id |-> t, own |-> own, to |-> to]

\* Replicas that serve, or that start at once for the first time.
ThemesInit(there) ==
  /\ theme = [t \in ThemeIds |-> IF t \notin there THEN "absent"
                            ELSE IF t = FirstOf(there) THEN "active" ELSE "idle"]
  /\ setup = [r \in Replicas |-> IF there = {} THEN [at |-> "boot"] ELSE Ready]
  /\ cut = 0

Stands(r, to) == setup' = [setup EXCEPT ![r] = to]

-----------------------------------------------------------------------------
(* The statements                                                          *)

\* Mutant: the rows that were active are not asked for.
Activated_ItsOwn(statement) == [u \in ThemeIds |->
  IF u \in statement.sees /\ u = statement.id THEN "active" ELSE theme[u]]

\* SET_THEME_ACTIVE_SQL, which visits the rows of its snapshot and finds each as the
\* others committed it: a row that was not one of them stays as it is, and no row need
\* have the id.
Activated(statement) == [u \in ThemeIds |->
  IF u \notin statement.sees THEN theme[u] ELSE IF u = statement.id THEN "active" ELSE "idle"]

\* CREATE_THEME_SQL: the flag is written with a new row only.
Created(t, active) ==
  IF theme[t] # "absent" THEN theme ELSE
    [theme EXCEPT ![t] = IF active THEN "active" ELSE "idle"]

Became(rows) == {u \in ThemeIds : rows[u] = "active" /\ theme[u] # "active"}

\* A statement commits.  Those under way will meet no row that is deleted; whether a
\* theme became active meanwhile they carry for the properties alone.
Commits(r, rows, to) ==
  /\ theme' = rows
  /\ setup' = [q \in Replicas |->
       IF q = r THEN to
       ELSE IF setup[q].at # "update" THEN setup[q]
       ELSE [setup[q] EXCEPT !.sees = {u \in @ : rows[u] # "absent"},
               !.met = IF Became(rows) = {} THEN @ ELSE TRUE]]

-----------------------------------------------------------------------------
(* Making a theme active: the statement begins, and later commits          *)

ActivateBegins(r) ==
  /\ setup[r].at = "activate"
  /\ Stands(r, [at |-> "update", id |-> setup[r].id, own |-> setup[r].own, to |-> setup[r].to,
                sees |-> ActiveThemes \cup (Rows \cap {setup[r].id}), met |-> FALSE])
  /\ UNCHANGED <<cacheVars, busVars, theme, cut>>

ActivateCommits(r) ==
  /\ setup[r].at = "update"
  /\ Commits(r, Activated(setup[r]), DropBefore(setup[r].to))
  /\ Changes(r, {"theme"})
  /\ cut' = IF setup[r].met THEN cut + 1 ELSE cut
  /\ UNCHANGED <<now, entry, outbox, failed, busVars>>

DropTheme(r) ==
  /\ setup[r].at = "drop"
  /\ InvalidateEverywhere(r, {"theme"})
  /\ Stands(r, setup[r].to)
  /\ UNCHANGED <<now, loads, changed, failed, busVars, theme, cut>>

\* The theme a create_theme has still to make the only one, where the call stands.
Promised(stage) ==
  LET next == IF stage.at = "drop" THEN stage.to ELSE stage IN
  {t \in ThemeIds : next.at \in {"activate", "update"} /\ next.own /\ next.id = t}

\* The activation will not come: its row, if it is active, stays so.
CutOff(r) == cut' = IF Promised(setup[r]) \cap ActiveThemes # {} THEN cut + 1 ELSE cut

\* set_active_theme answers that it failed, and its caller goes on.
ActivateFails(r) ==
  /\ setup[r].at = "update" /\ Fails
  /\ Stands(r, setup[r].to)
  /\ CutOff(r)
  /\ UNCHANGED <<now, entry, loads, outbox, owing, changed, busVars, theme>>

-----------------------------------------------------------------------------
(* The administrator's calls                                               *)

\* set_active_theme.
Activate(r, t) ==
  /\ setup[r] = Ready
  /\ Stands(r, Activation(t, FALSE, Ready))
  /\ UNCHANGED <<cacheVars, busVars, theme, cut>>

\* create_theme: the row first; activated by a statement of its own.
Create(r, t, active) ==
  /\ setup[r] = Ready
  /\ Commits(r, Created(t, active), IF active THEN DropBefore(Activation(t, TRUE, Ready)) ELSE Last)
  /\ Changes(r, {"theme"})
  /\ UNCHANGED <<now, entry, outbox, failed, cut, busVars>>

\* delete_theme: looked at, and looked at again by the statement.
Delete(r, t) ==
  /\ setup[r] = Ready
  /\ theme[t] = "idle"
  /\ Stands(r, [at |-> "delete", id |-> t])
  /\ UNCHANGED <<cacheVars, busVars, theme, cut>>

Deleted(r) ==
  /\ setup[r].at = "delete"
  /\ Commits(r, [theme EXCEPT ![setup[r].id] = IF @ = "active" THEN @ ELSE "absent"], Ready)
  /\ UNCHANGED <<cacheVars, busVars, cut>>

-----------------------------------------------------------------------------
(* ConfigService.initialize: every start of a replica                      *)

\* get_all_themes answers no rows where it could not read.
BootReads(r) ==
  /\ setup[r].at = "boot"
  /\ \/ Rows # {} /\ Stands(r, [at |-> "look", first |-> FirstOf(Rows)]) /\ UNCHANGED failed
     \/ Rows = {} /\ Stands(r, Ship(TRUE)) /\ UNCHANGED failed
     \/ Fails /\ Stands(r, Ship(TRUE))
  /\ UNCHANGED <<now, entry, loads, outbox, owing, changed, busVars, theme, cut>>

\* _ensure_default_theme: the first row is activated where no theme is active,
\* or the active one could not be read.
BootLooks(r) ==
  /\ setup[r].at = "look"
  /\ \/ /\ IF ActiveThemes = {} THEN UNCHANGED failed ELSE Fails
        /\ Stands(r, Activation(setup[r].first, FALSE, Ship(FALSE)))
     \/ ActiveThemes # {} /\ Stands(r, Ship(FALSE)) /\ UNCHANGED failed
  /\ UNCHANGED <<now, entry, loads, outbox, owing, changed, busVars, theme, cut>>

\* _ensure_built_in_themes: the first one missing, or on; the first of all is activated
\* where there was none.
BootShips(r) ==
  /\ setup[r].at = "ship"
  /\ IF BuiltIn \subseteq Rows
     THEN /\ Stands(r, IF setup[r].fresh THEN Activation(FirstOf(Rows), FALSE, Last) ELSE Last)
          /\ UNCHANGED <<theme, owing, changed, loads>>
     ELSE /\ Commits(r, Created(FirstOf(BuiltIn \ Rows), FALSE), DropBefore(setup[r]))
          /\ Changes(r, {"theme"})
  /\ UNCHANGED <<now, entry, outbox, failed, cut, busVars>>

\* The process ends in the middle of a call, and starts.
BootThemes(r) ==
  /\ Stands(r, [at |-> "boot"])
  /\ CutOff(r)
  /\ UNCHANGED theme

ThemesNext ==
  \E r \in Replicas :
    \/ BootReads(r) \/ BootLooks(r) \/ BootShips(r)
    \/ ActivateBegins(r) \/ ActivateCommits(r) \/ ActivateFails(r)
    \/ DropTheme(r) \/ Deleted(r)

\* Apart from those a call created active and is about to make the only one, one theme
\* at most is active, whoever activates, deletes and starts; and one more for every
\* activation that failed or died after its row, or that committed when another theme had
\* become active since its statement began, whose row it does not see (set_active_theme,
\* create_theme; PostgreSQL reads what was committed before a statement).
OneThemeIsActive ==
  Cardinality(ActiveThemes \ UNION {Promised(setup[r]) : r \in Replicas}) <= 1 + cut

=============================================================================
