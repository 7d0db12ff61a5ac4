------------------------------ MODULE Accounts ------------------------------
(***************************************************************************)
(* The accounts of a deployment: the two a start creates for itself        *)
(* (seed_accounts.py), what administrators change of the others            *)
(* (user_routes.py, user_roles.py), and those people are given when they   *)
(* register or come from an identity provider (external_accounts.py).      *)
(*                                                                         *)
(* Requests and starts of several replicas overlap; a step is one          *)
(* statement, or one transaction.                                          *)
(***************************************************************************)
EXTENDS Integers, FiniteSets, FiniteSetsExt

CONSTANTS
  Calls,          \* requests and starts under way at once
  Subjects,       \* whom the provider knows
  Proposed,       \* the name each of them would be given (propose_username)
  Names,          \* what a person who registers may ask for
  Permissions,    \* what the provider may grant
  Administrative, \* ADMIN_PERMISSIONS
  Policy,         \* the roles and states the application gives new accounts
  Changes,        \* the roles an administrator may set, {} for leaving them
  Given,          \* whether ADMIN_INITIAL_PASSWORD is set
  Attempts,       \* _NAME_ATTEMPTS
  MaxAccounts,    \* bound: accounts beside the two
  MaxCalls        \* bound: requests and starts in all

Roles == {"ADMIN", "CLIENT"}

AccountsAssumption ==
  /\ Proposed \in [Subjects -> Names] /\ Changes \subseteq SUBSET Roles /\ Administrative \subseteq Permissions
  /\ Policy \subseteq [status : {"active", "blocked"}, roles : SUBSET Roles]
  /\ "" \notin Subjects   \* what accounts nobody tied to a provider have
  /\ Given \in BOOLEAN /\ {Attempts, MaxAccounts, MaxCalls} \subseteq Nat

Admin == 1   \* ADMIN_USERNAME
System == 2  \* SYSTEM_USERNAME
Ids == 1 .. MaxAccounts + 2

VARIABLES
  row,     \* users and user_roles: one record of each account
  perms,   \* user_permissions
  call,    \* what is under way
  made,    \* how many calls there were
  seeded,  \* whether a start has committed with an administrator there
  \* for the properties: whether what ends the last administrator has happened, and
  \* whether an administrator has opened the service account
  excused, opened

vars == <<row, perms, call, made, seeded, excused, opened>>

Absent == [name |-> <<"", 0>>, subject |-> "", status |-> "none", password |-> "none", roles |-> {}]
Idle == [kind |-> "idle"]

Exists(u) == row[u] # Absent
Named(name) == {u \in Ids : Exists(u) /\ row[u].name = name}

\* roles_of: an account with no row of its own reads as CLIENT.
RolesOf(u) == IF row[u].roles = {} THEN {"CLIENT"} ELSE row[u].roles

ActiveAdministrators == {u \in Ids : row[u].status = "active" /\ "ADMIN" \in row[u].roles}

\* authenticate and login: with a password somebody knows; the administrator's that
\* was published is refused (is_retired_admin_password).
MaySignIn(u) ==
  /\ row[u].status = "active"
  /\ \/ row[u].password \in {"given", "generated", "chosen"}
     \/ row[u].password = "retired" /\ row[u].name # <<"admin", 1>>

FirstAdministrator ==
  [Absent EXCEPT !.name = <<"admin", 1>>, !.status = "active", !.roles = {"ADMIN"},
                 !.password = IF Given THEN "given" ELSE "generated"]

ServiceAccount ==
  [Absent EXCEPT !.name = <<"system", 1>>, !.status = "system", !.roles = {"ADMIN"}]

EarlierBuild(account, password) == [account EXCEPT !.status = "active", !.password = password]

Holding(admin, system) ==
  [u \in Ids |-> CASE u = Admin -> admin [] u = System -> system [] OTHER -> Absent]

\* A fresh database, one that a start of this release has filled, or one of an
\* earlier build, with passwords from the source or changed since.
Init ==
  /\ \/ row = Holding(Absent, Absent) /\ seeded = FALSE
     \/ row = Holding(FirstAdministrator, ServiceAccount) /\ seeded = TRUE
     \/ /\ \E password \in {"retired", "chosen"} :
             row = Holding(EarlierBuild(FirstAdministrator, "retired"), EarlierBuild(ServiceAccount, password))
        /\ seeded = FALSE
  /\ perms = [u \in Ids |-> {}]
  /\ call = [c \in Calls |-> Idle]
  /\ made = 0 /\ excused = FALSE /\ opened = FALSE

MayBegin(c) == call[c] = Idle /\ made < MaxCalls

Begin(c, what) ==
  /\ MayBegin(c)
  /\ made' = made + 1
  /\ call' = [call EXCEPT ![c] = what]

End(c) == call' = [call EXCEPT ![c] = Idle]

-----------------------------------------------------------------------------
(* A start: one transaction of its own (create_first_accounts)             *)

\* What the transaction will write; nothing else sees it before it commits.
BeginStart(c) ==
  /\ Begin(c, [kind |-> "start", pc |-> "admin", admin |-> Absent, system |-> Absent])
  /\ UNCHANGED <<row, perms, seeded, excused, opened>>

\* ensure_admin: created when the name is free; a published password is replaced by
\* the one the deployer gave, if one was given.
EnsureAdmin(c) ==
  /\ call[c].kind = "start" /\ call[c].pc = "admin"
  /\ LET there == Named(<<"admin", 1>>) IN
       call' = [call EXCEPT ![c].pc = "system", ![c].admin =
         IF there = {} THEN FirstAdministrator
         ELSE IF Given /\ \E u \in there : row[u].password = "retired"
         THEN [Absent EXCEPT !.password = "given"] ELSE Absent]
  /\ UNCHANGED <<row, perms, made, seeded, excused, opened>>

\* Mutant: by its password alone, leaving one that was changed.
ToRetire_ByPassword(r) == r.password = "retired"

\* retire_known_system_password: whether a row is not as the service account's should be.
ToRetire(r) == r.password = "retired" \/ r.status # "system"

EnsureSystem(c) ==
  /\ call[c].kind = "start" /\ call[c].pc = "system"
  /\ LET there == Named(<<"system", 1>>) IN
       call' = [call EXCEPT ![c].pc = "commit", ![c].system =
         IF there = {} THEN ServiceAccount
         ELSE IF \E u \in there : ToRetire(row[u]) THEN [Absent EXCEPT !.status = "system"] ELSE Absent]
  /\ UNCHANGED <<row, perms, made, seeded, excused, opened>>

\* A row of the transaction: inserted, updated where its columns are given, or left.
Written(old, new) ==
  IF new.roles # {} THEN new
  ELSE IF new.status = "system" THEN [old EXCEPT !.status = "system", !.password = "none"]
  ELSE IF new.password = "given" THEN [old EXCEPT !.password = "given"]
  ELSE old

\* The account a name's row is in, or the row it would be inserted as.
RowOf(name, id) == IF Named(name) = {} THEN id ELSE CHOOSE u \in Named(name) : TRUE

\* A name that was taken meanwhile takes the whole transaction back, and the
\* application serves without it (AuthPlugin.post_construct).
Refused(c) ==
  \/ call[c].admin.roles # {} /\ Named(<<"admin", 1>>) # {}
  \/ call[c].system.roles # {} /\ Named(<<"system", 1>>) # {}

CommitStart(c) ==
  /\ call[c].kind = "start" /\ call[c].pc = "commit" /\ ~Refused(c)
  /\ LET a == RowOf(<<"admin", 1>>, Admin)  s == RowOf(<<"system", 1>>, System) IN
       row' = [row EXCEPT ![a] = Written(@, call[c].admin), ![s] = Written(@, call[c].system)]
  /\ seeded' = (seeded \/ \E u \in Ids : row'[u].status = "active" /\ "ADMIN" \in row'[u].roles)
  /\ excused' = (excused \/ \E u \in ActiveAdministrators : row'[u].status = "system")
  /\ End(c)
  /\ UNCHANGED <<perms, made, opened>>

\* The transaction is refused, or fails, or its process ends.
RollBack(c) ==
  /\ call[c].kind = "start"
  /\ End(c)
  /\ UNCHANGED <<row, perms, made, seeded, excused, opened>>

-----------------------------------------------------------------------------
(* Administrators (user_routes.py)                                         *)

\* get_current_admin, and the account the change is about: the set of its roles, or
\* (update_user) its state and perhaps the one role.
BeginChange(c, actor, u, roles, status) ==
  /\ Exists(u)
  /\ roles # {} \/ status # ""
  /\ status # "" => Cardinality(roles) <= 1
  /\ ~(status = "blocked" /\ actor = u)
  /\ Begin(c, [kind |-> "change", pc |-> IF roles = {} THEN "status" ELSE "check",
               actor |-> actor, user |-> u, roles |-> roles, status |-> status])
  /\ UNCHANGED <<row, perms, seeded, excused, opened>>

\* Mutant: any other administrator will do, blocked or not, whoever asks.
AdministratorKept_Own(u, roles, actor) ==
  "ADMIN" \in roles \/ "ADMIN" \notin RolesOf(u) \/ {v \in Ids : "ADMIN" \in row[v].roles} \ {u} # {}

\* ensure_an_administrator_remains
AdministratorKept(u, roles, actor) ==
  \/ "ADMIN" \in roles \/ "ADMIN" \notin RolesOf(u)
  \/ actor # u /\ ActiveAdministrators \ {u} # {}

CheckChange(c) ==
  /\ call[c].kind = "change" /\ call[c].pc = "check"
  /\ IF AdministratorKept(call[c].user, call[c].roles, call[c].actor)
     THEN call' = [call EXCEPT ![c].pc = "roles"]
     ELSE End(c)
  /\ UNCHANGED <<row, perms, made, seeded, excused, opened>>

\* Whether a change, checked or about to be, would end an administrator.
EndsAnAdministrator(q) ==
  /\ q.kind = "change" /\ q.user \in ActiveAdministrators
  /\ (q.roles # {} /\ "ADMIN" \notin q.roles) \/ q.status = "blocked"

Overlaps(c) == EndsAnAdministrator(call[c]) /\ \E d \in Calls \ {c} : EndsAnAdministrator(call[d])

\* set_roles: one transaction; update_user writes the one role before the columns and
\* once more after them.
SetRoles(c) ==
  /\ call[c].kind = "change" /\ call[c].pc \in {"roles", "again"}
  /\ row' = [row EXCEPT ![call[c].user].roles = call[c].roles]
  /\ excused' = (excused \/ Overlaps(c))
  /\ IF call[c].pc = "roles" /\ call[c].status # ""
     THEN call' = [call EXCEPT ![c].pc = "status"]
     ELSE End(c)
  /\ UNCHANGED <<perms, made, seeded, opened>>

\* update_user: the columns. The sessions of a blocked account end elsewhere.
SetStatus(c) ==
  /\ call[c].kind = "change" /\ call[c].pc = "status"
  /\ row' = [row EXCEPT ![call[c].user].status = call[c].status]
  /\ opened' = (opened \/ (row[call[c].user].name = <<"system", 1>> /\ call[c].status = "active"))
  /\ excused' = (excused \/ Overlaps(c))
  /\ IF call[c].roles = {} THEN End(c) ELSE call' = [call EXCEPT ![c].pc = "again"]
  /\ UNCHANGED <<perms, made, seeded>>

\* admin_change_user_password
SetPassword(actor, u) ==
  /\ Exists(u) /\ made < MaxCalls
  /\ row' = [row EXCEPT ![u].password = "chosen"] /\ made' = made + 1
  /\ UNCHANGED <<perms, call, seeded, excused, opened>>

-----------------------------------------------------------------------------
(* A person registers: blocked until an administrator says otherwise       *)

Unused == {u \in Ids \ {Admin, System} : ~Exists(u)}

Register(name) ==
  /\ made < MaxCalls /\ Named(<<name, 1>>) = {} /\ Unused # {}
  /\ \E roles \in {{}, {"CLIENT"}} : row' = [row EXCEPT ![Min(Unused)] =
       [Absent EXCEPT !.name = <<name, 1>>, !.status = "blocked", !.password = "chosen", !.roles = roles]]
  /\ made' = made + 1
  /\ UNCHANGED <<perms, call, seeded, excused, opened>>

-----------------------------------------------------------------------------
(* A person comes from the provider (complete_sign_in)                     *)

FindAccount(subject) == {u \in Ids : Exists(u) /\ row[u].subject = subject}

BeginSignIn(c, subject, claims) ==
  /\ Begin(c, [kind |-> "signin", pc |-> "find", subject |-> subject, claims |-> claims,
               user |-> 0, name |-> <<"", 0>>, tries |-> 0, left |-> claims, policy |-> Absent])
  /\ UNCHANGED <<row, perms, seeded, excused, opened>>

\* The account that was read goes on if it is active, and the call ends if it is not.
GoesOn(c, u) ==
  IF row[u].status = "active" THEN call' = [call EXCEPT ![c].pc = "clear", ![c].user = u] ELSE End(c)

\* Found, or what the application's policy decides (refused: the call ends).
Find(c) ==
  /\ call[c].kind = "signin" /\ call[c].pc = "find"
  /\ LET found == FindAccount(call[c].subject) IN
       IF found # {} THEN \E u \in found : GoesOn(c, u)
       ELSE \/ End(c)
            \/ \E decision \in Policy : call' = [call EXCEPT ![c].pc = "name", ![c].policy = decision]
  /\ UNCHANGED <<row, perms, made, seeded, excused, opened>>

\* free_username: the first variant that is free now.
FreeUsername(proposed) ==
  <<proposed, CHOOSE k \in 1 .. Cardinality(Ids) + 1 :
     Named(<<proposed, k>>) = {} /\ \A j \in 1 .. k - 1 : Named(<<proposed, j>>) # {}>>

ChooseName(c) ==
  /\ call[c].kind = "signin" /\ call[c].pc = "name"
  /\ call' = [call EXCEPT ![c].name = FreeUsername(Proposed[call[c].subject]),
                          ![c].tries = @ + 1, ![c].pc = "insert"]
  /\ UNCHANGED <<row, perms, made, seeded, excused, opened>>

\* The unique indexes on the name and on the subject.
Insertable(c) == Named(call[c].name) = {} /\ FindAccount(call[c].subject) = {}

InsertAccount(c) ==
  /\ call[c].kind = "signin" /\ call[c].pc = "insert" /\ Insertable(c) /\ Unused # {}
  /\ LET u == Min(Unused) IN
       /\ row' = [row EXCEPT ![u] = [Absent EXCEPT !.name = call[c].name, !.subject = call[c].subject,
                                                   !.status = call[c].policy.status]]
       /\ call' = [call EXCEPT ![c].user = u, ![c].pc = "roles"]
  /\ UNCHANGED <<perms, made, seeded, excused, opened>>

\* Whom a refused INSERT goes on with: the account a parallel request made.
Existing(c) == FindAccount(call[c].subject)

InsertRefused(c) ==
  /\ call[c].kind = "signin" /\ call[c].pc = "insert" /\ ~Insertable(c)
  /\ IF Existing(c) # {} THEN \E u \in Existing(c) : GoesOn(c, u)
     ELSE IF call[c].tries < Attempts THEN call' = [call EXCEPT ![c].pc = "name"] ELSE End(c)
  /\ UNCHANGED <<row, perms, made, seeded, excused, opened>>

\* create_account's set_roles, unchecked. The row read back is the one inserted.
FirstRoles(c) ==
  /\ call[c].kind = "signin" /\ call[c].pc = "roles"
  /\ row' = [row EXCEPT ![call[c].user].roles = call[c].policy.roles]
  /\ IF call[c].policy.status = "active" THEN call' = [call EXCEPT ![c].pc = "clear"] ELSE End(c)
  /\ excused' = (excused \/ (call[c].user \in ActiveAdministrators /\ "ADMIN" \notin call[c].policy.roles))
  /\ UNCHANGED <<perms, made, seeded, opened>>

\* apply_permissions: deleted, and inserted one by one, each committed by itself.
ClearPermissions(c) ==
  /\ call[c].kind = "signin" /\ call[c].pc = "clear"
  /\ perms' = [perms EXCEPT ![call[c].user] = {}]
  /\ call' = [call EXCEPT ![c].pc = "grant"]
  /\ UNCHANGED <<row, made, seeded, excused, opened>>

Grant(c) ==
  /\ call[c].kind = "signin" /\ call[c].pc = "grant" /\ call[c].left # {}
  /\ \E p \in call[c].left :
       IF p \in perms[call[c].user] THEN End(c) /\ UNCHANGED perms
       ELSE /\ perms' = [perms EXCEPT ![call[c].user] = @ \cup {p}]
            /\ call' = [call EXCEPT ![c].left = @ \ {p}]
  /\ UNCHANGED <<row, made, seeded, excused, opened>>

\* role_from_permissions
RoleFrom(claims) == IF claims \cap Administrative # {} THEN {"ADMIN"} ELSE {"CLIENT"}

\* sync_roles: whatever the provider says, the last administrator included.
SyncRoles(c) ==
  /\ call[c].kind = "signin" /\ call[c].pc = "grant" /\ call[c].left = {}
  /\ row' = [row EXCEPT ![call[c].user].roles = IF RolesOf(call[c].user) = RoleFrom(call[c].claims) THEN @
                                                ELSE RoleFrom(call[c].claims)]
  /\ excused' = (excused \/ (call[c].user \in ActiveAdministrators /\ "ADMIN" \notin RoleFrom(call[c].claims)))
  /\ call' = [call EXCEPT ![c].pc = "session"]
  /\ UNCHANGED <<perms, made, seeded, opened>>

\* issue_session_token
OpenSession(c) ==
  /\ call[c].kind = "signin" /\ call[c].pc = "session"
  /\ End(c)
  /\ UNCHANGED <<row, perms, made, seeded, excused, opened>>

-----------------------------------------------------------------------------

Start(c) == BeginStart(c) \/ EnsureAdmin(c) \/ EnsureSystem(c) \/ CommitStart(c) \/ RollBack(c)

Change(c) ==
  \/ /\ MayBegin(c)
     /\ \E actor \in ActiveAdministrators, u \in Ids, roles \in Changes, status \in {"", "active", "blocked"} :
          BeginChange(c, actor, u, roles, status)
  \/ CheckChange(c) \/ SetRoles(c) \/ SetStatus(c)

SignIn(c) ==
  \/ \E subject \in Subjects, claims \in SUBSET Permissions : BeginSignIn(c, subject, claims)
  \/ Find(c) \/ ChooseName(c) \/ InsertAccount(c) \/ InsertRefused(c) \/ FirstRoles(c)
  \/ ClearPermissions(c) \/ Grant(c) \/ SyncRoles(c) \/ OpenSession(c)

Next ==
  \/ \E c \in Calls : Start(c) \/ Change(c) \/ SignIn(c)
  \/ \E actor \in ActiveAdministrators, u \in Ids : SetPassword(actor, u)
  \/ \E name \in Names : Register(name)

Spec == Init /\ [][Next]_vars

-----------------------------------------------------------------------------
(* Properties                                                              *)

\* Once a start has made an administrator, one remains through every change of roles
\* and states, unless two changes that each end an administrator overlapped, which
\* ensure_an_administrator_remains leaves to "the database, as before", or what asks
\* nobody took one away: a sign-in (set_roles, sync_roles), or the retirement of a
\* service account that was let in as one (retire_known_system_password).
AnAdministratorRemains == seeded /\ ~excused => ActiveAdministrators # {}

\* After a start of this release nobody signs in as the service account, whatever an
\* earlier build left in its row, until an administrator opens it (ensure_system_user).
SystemIsNoWayIn ==
  seeded /\ ~opened => \A u \in Named(<<"system", 1>>) : ~MaySignIn(u)

\* Whoever is let in from outside is let in as their own account, and the names and
\* subjects of accounts stay apart, however first sign-ins of one person, of two
\* people of one name and registrations overlap (create_account).
EachTheirOwn ==
  /\ \A c \in Calls : call[c].kind = "signin" /\ call[c].user # 0 =>
       row[call[c].user].subject = call[c].subject
  /\ \A u, v \in Ids : u # v /\ Exists(u) /\ Exists(v) =>
       row[u].name # row[v].name /\ (row[u].subject # "" => row[u].subject # row[v].subject)

\* Whoever is let in is let in as themselves: nobody as the service account, everybody
\* from outside as their own.
LetInAsThemselves == SystemIsNoWayIn /\ EachTheirOwn

=============================================================================
