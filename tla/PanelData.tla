----------------------------- MODULE PanelData -----------------------------
(***************************************************************************)
(* What the panel reads on every page -- the active theme and the sections *)
(* of a role -- through the caches of replicas that start, serve and are   *)
(* administered at once: Themes and Sections over one ReplicaCache.        *)
(*                                                                         *)
(* Entries touch neither one another nor the rows, so a behaviour follows  *)
(* those of one replica and one cache, and the calls that change that.     *)
(***************************************************************************)
EXTENDS Themes, Sections

CONSTANTS
  KnownBefore, \* the sections an earlier release may have left
  ThemesBefore,\* and the themes
  Lists,       \* bound: what an administrator may grant the role
  MaxChanges,  \* bound: administrators' calls
  MaxStarts    \* bound: replicas that start again

ASSUME PanelAssumption ==
  /\ Keys = {"theme", "sections"}
  /\ KnownBefore \cup Lists \subseteq SUBSET SectionIds /\ ThemesBefore \subseteq SUBSET ThemeIds
  /\ {MaxChanges, MaxStarts} \subseteq Nat

VARIABLES
  watched,  \* the replica and the cache that are followed
  changes, starts

panelVars == <<busVars, cacheVars, themeVars, sectionVars, watched, changes, starts>>

\* In a first deployment every replica starts at once; it is followed until they serve.
PanelInit ==
  /\ watched \in Replicas \X Keys
  /\ CacheInit
  /\ \E there \in ThemesBefore :
       /\ ThemesInit(there) /\ (watched[2] = "sections" => there = ThemeIds)
       /\ changes = (IF there = {} THEN MaxChanges ELSE 0)
       /\ starts = (IF there = {} THEN MaxStarts ELSE 0)
  /\ \E known \in KnownBefore : SectionsInit(known)

\* What a key may be read as now.
Current(r, k) == IF k = "theme" THEN ActiveReads ELSE {SectionsRead(r)}

\* A page asks, and finds nothing to answer with.
Ask(r, k) ==
  /\ <<r, k>> = watched
  /\ \E value \in Current(r, k) : Load(r, k, value)
  /\ UNCHANGED <<themeVars, sectionVars, watched, changes, starts>>

Administer ==
  /\ changes < MaxChanges /\ changes' = changes + 1
  /\ \E r \in Replicas :
       \/ /\ watched[2] = "theme"
          /\ \E t \in ThemeIds : Activate(r, t) \/ Delete(r, t) \/ Create(r, t, TRUE) \/ Create(r, t, FALSE)
          /\ UNCHANGED sectionVars
       \/ /\ watched[2] = "sections"
          /\ \/ \E s \in SectionIds : CreateSection(r, s) \/ ReadSection(r, s) \/ DeleteSection(r, s)
             \/ \E list \in Lists : SetRole(r, list)
             \/ Import(r)
          /\ UNCHANGED themeVars
  /\ UNCHANGED <<watched, starts>>

\* A replica ends, and starts with some of the plugins.
Restart ==
  /\ starts < MaxStarts /\ starts' = starts + 1
  /\ \E r \in Replicas, ran \in SUBSET Declarers :
       /\ Forget(r)
       /\ IF watched[2] = "theme"
          THEN BootThemes(r) /\ ran = {} /\ UNCHANGED call
          ELSE BeginSync(r, ran) /\ UNCHANGED themeVars
       /\ declaring' = [declaring EXCEPT ![r] = {}]
       /\ running' = [running EXCEPT ![r] = {}]
  /\ UNCHANGED <<row, grant, watched, changes>>

PanelNext ==
  \/ \E r \in Replicas, k \in Keys : Ask(r, k)
  \/ CacheNext /\ UNCHANGED <<themeVars, sectionVars, watched, changes, starts>>
  \/ ThemesNext /\ UNCHANGED <<sectionVars, watched, changes, starts>>
  \/ SectionsNext /\ UNCHANGED <<themeVars, watched, changes, starts>>
  \/ Administer
  \/ Restart

PanelSpec == PanelInit /\ [][PanelNext]_panelVars

-----------------------------------------------------------------------------
(* Properties                                                              *)

Stale(r, k) == Usable(r, k) /\ entry[r][k].value \notin Current(r, k)

\* "Whatever happens to the other mechanisms": when as long as an entry lives and
\* a load takes has passed since a change, no replica answers what was before it
\* (ReplicaCache.get, the first promise of cache.py).
LifetimeBoundsStaleness ==
  \A r \in Replicas, k \in Keys : now >= changed[k] + TTL + Latency => ~Stale(r, k)

\* Sooner than that, a replica answers what is no longer so only while the change
\* is on its way to it, or where a message was lost, the call that changed it failed
\* (invalidate_everywhere, on_envelope), or a load overlapped the change.  The last is
\* what cache.py:20-21 denies ("never a stale value"): a page that asks and reads, then a
\* change that drops the entry, then the page's store of what it had read -- for a
\* lifetime, in the replica that made the change too.
StaleIsExplained ==
  \A r \in Replicas, k \in Keys : Stale(r, k) =>
    \/ entry[r][k].deaf
    \/ \E q \in Replicas : k \in owing[q]
    \/ \E q \in Replicas \ {r} : k \in outbox[q]
    \/ \E e \in inbox[r] : e.kind = k

\* What an administrator set is what there is when the call is through: of a role's
\* sections, and of the active theme.
CallsEndAsMeant == RoleEndsAsSet /\ OneThemeIsActive

=============================================================================
