---------------------------- MODULE PanelSession ----------------------------
(***************************************************************************)
(* The sessions of one account: keepup_auth/panel_session.py,              *)
(* session_lifetime.py, dependencies.py and the sign-in routes.            *)
(*                                                                         *)
(* A session is a row; a token names it and carries its own end, the       *)
(* beginning its renewals are counted from, and whether it is remembered.  *)
(* A request is handled in steps, each a statement in a worker thread:     *)
(* what one reads, another replica may change before the next.             *)
(***************************************************************************)
EXTENDS Integers, FiniteSets

CONSTANTS
  Sids,            \* the session ids drawn, in order of no importance
  Requests,        \* bound: requests under way at a time
  Administrators,  \* bound: administrators' requests under way at a time
  Factors,         \* whether the account signs in with a second factor
  Life,            \* ACCESS_TOKEN_EXPIRE_MINUTES
  Window,          \* renewal_window()
  RememberWindow,  \* remember_window()
  Keep,            \* how long purge_expired keeps a row past its end
  Patience,        \* bound: the ticks a request may take
  MaxTime,         \* bound: the clock
  MaxChanges       \* bound: changes that are to end the account's sessions

ASSUME TimesAssumption ==
  /\ {Life, Window, RememberWindow} \subseteq Nat \ {0}
  /\ {Keep, Patience, MaxTime, MaxChanges} \subseteq Nat
  /\ Life <= RememberWindow
  \* A token lasts an hour, a row that has ended a week: what a request under way when its
  \* session was revoked may still issue has run out when the row goes.
  /\ Patience + Life <= Keep + 2
ASSUME FactorsAssumption == Factors \subseteq BOOLEAN

VARIABLES
  now,
  row,      \* auth_session; a purged row's columns are kept for the properties
  token,    \* the token the holder of a session has, and its renewal credential
  account,  \* the row of users: its status
  request,  \* the requests under way
  admin,    \* how far each administrator's request has come
  changes,  \* how many changes were to end the account's sessions: passwords, and blocks
  spared    \* those whose request ended without revoking them

accountVars == <<account, admin, changes, spared>>
vars == <<now, row, token, request, accountVars>>

NoToken == [exp |-> 0, started |-> 0, remember |-> FALSE, otp |-> FALSE]
NoRow == [state |-> "unopened", ends |-> 0, remember |-> FALSE,
          created |-> 0, otp |-> FALSE, opened |-> 0]
Idle == [at |-> "idle"]

\* session_owner: neither unknown nor revoked; the end is not looked at.
Live(s) == row[s].state = "live"
\* _session_and_user
Welcome(s) == Live(s) /\ account = "active"
\* decode_token: a token is good before its end, not at it.
Unexpired(s) == token[s].exp > now

Init ==
  /\ now = 0
  /\ row = [s \in Sids |-> NoRow]
  /\ token = [s \in Sids |-> NoToken]
  /\ account \in {"active", "blocked"}
  /\ request = [q \in Requests |-> Idle]
  /\ admin = [a \in Administrators |-> Idle]
  /\ changes = 0
  /\ spared = {}

-----------------------------------------------------------------------------
(* What the row and the token are told                                     *)

\* session_lifetime.is_renewable
IsRenewable(started, remember) ==
  now - started <= (IF remember THEN RememberWindow ELSE Window)

\* How far issue_session_token sets the row's end.
RowLife(remember) == IF remember THEN RememberWindow ELSE Life

\* open_session
OpenSession(s, remember, otp) ==
  row' = [row EXCEPT ![s] =
    [state |-> "live", ends |-> now + RowLife(remember), remember |-> remember,
     created |-> now, otp |-> otp, opened |-> changes]]

\* Mutant: a renewal leaves the row's end behind the token.
Extend_TokenOnly(s, remember) == row' = row

\* extend: a revoked row is left as it is, and so is one that is gone.
Extend(s, remember) ==
  row' = IF Live(s) THEN [row EXCEPT ![s].ends = now + RowLife(remember)] ELSE row

\* create_access_token: a remembered session is counted from this renewal.
NewToken(started, remember, otp) ==
  [exp |-> now + Life, started |-> IF remember THEN now ELSE started,
   remember |-> remember, otp |-> otp]

\* Mutant: only the rows that still serve are ended.
Revoked_Serving(S) ==
  [s \in Sids |-> IF s \in S /\ Live(s) /\ row[s].ends > now
                   THEN [row[s] EXCEPT !.state = "revoked"] ELSE row[s]]

\* revoke and revoke_all
Revoked(S) ==
  [s \in Sids |-> IF s \in S /\ Live(s) THEN [row[s] EXCEPT !.state = "revoked"] ELSE row[s]]

-----------------------------------------------------------------------------
(* Signing in: the password is checked, then the session is opened         *)

CheckPassword(q) ==
  /\ request[q] = Idle
  /\ account = "active"
  /\ \E remember \in BOOLEAN, otp \in Factors :
       request' = [request EXCEPT ![q] =
         [at |-> "proved", since |-> now, remember |-> remember, otp |-> otp]]
  /\ UNCHANGED <<now, row, token, accountVars>>

SignIn(q, s) ==
  /\ request[q].at = "proved"
  /\ row[s].state = "unopened"
  /\ OpenSession(s, request[q].remember, request[q].otp)
  /\ token' = [token EXCEPT ![s] = NewToken(now, request[q].remember, request[q].otp)]
  /\ request' = [request EXCEPT ![q] = Idle]
  /\ UNCHANGED <<now, accountVars>>

-----------------------------------------------------------------------------
(* Renewing: /api/auth/refresh with a token or with the credential of a    *)
(* remembered session, and /api/auth/session                               *)

\* get_current_user: the token, its session and the account.
Authorise(q, s) ==
  /\ request[q] = Idle
  /\ Unexpired(s) /\ Welcome(s)
  /\ request' = [request EXCEPT ![q] =
       [at |-> "authorised", since |-> now, sid |-> s, started |-> token[s].started,
        remember |-> token[s].remember]]
  /\ UNCHANGED <<now, row, token, accountVars>>

\* Mutant: the row's end is not looked at.
SessionForRefresh_AnyEnd(q, s) ==
  /\ request[q] = Idle
  /\ ~Unexpired(s)
  /\ Live(s) /\ row[s].remember
  /\ request' = [request EXCEPT ![q] = [at |-> "credential", since |-> now, sid |-> s]]
  /\ UNCHANGED <<now, row, token, accountVars>>

\* session_for_refresh: only once the token no longer serves.
SessionForRefresh(q, s) ==
  /\ request[q] = Idle
  /\ ~Unexpired(s)
  /\ Live(s) /\ row[s].remember /\ row[s].ends > now
  /\ request' = [request EXCEPT ![q] = [at |-> "credential", since |-> now, sid |-> s]]
  /\ UNCHANGED <<now, row, token, accountVars>>

\* The account the session belongs to is read by itself.
OwnerOfCredential(q) ==
  /\ request[q].at = "credential"
  /\ request' = [request EXCEPT ![q] =
       IF account = "active"
       THEN [at |-> "authorised", since |-> request[q].since, sid |-> request[q].sid,
             started |-> now, remember |-> TRUE]
       ELSE Idle]
  /\ UNCHANGED <<now, row, token, accountVars>>

\* issue_session_token with the session carried on: no route passes `mfa`.
\* The answer may never reach the holder, who keeps the older token then.
CarryOn(r) ==
  IF IsRenewable(r.started, r.remember)
  THEN /\ Extend(r.sid, r.remember)
       /\ token' \in {token, [token EXCEPT ![r.sid] = NewToken(r.started, r.remember, FALSE)]}
  ELSE UNCHANGED <<row, token>>

Renew(q) ==
  /\ request[q].at = "authorised"
  /\ CarryOn(request[q])
  /\ request' = [request EXCEPT ![q] = Idle]
  /\ UNCHANGED <<now, accountVars>>

-----------------------------------------------------------------------------
(* Ending sessions                                                         *)

\* logout: an expired token still names the session to revoke.
Logout(s) ==
  /\ Live(s)
  /\ row' = Revoked({s})
  /\ UNCHANGED <<now, token, request, accountVars>>

-----------------------------------------------------------------------------
(* Administrators: each request is a few statements, and two overlap       *)

\* The next change of the account that is to end its sessions, made by a's request.
Changes(a) ==
  /\ changes < MaxChanges
  /\ changes' = changes + 1
  /\ admin' = [admin EXCEPT ![a] = [at |-> "revoking", change |-> changes + 1]]
  /\ UNCHANGED <<now, row, token, request, spared>>

\* admin_change_user_password: the password, then the sessions.
ChangePassword(a) ==
  /\ admin[a] = Idle
  /\ Changes(a)
  /\ UNCHANGED account

\* update_user_endpoint reads the account before it writes it.
ReadStatus(a) ==
  /\ admin[a] = Idle /\ changes < MaxChanges
  /\ admin' = [admin EXCEPT ![a] = [at |-> "read", status |-> account]]
  /\ UNCHANGED <<now, row, token, account, request, changes, spared>>

\* Away from "active", as it was read: a block.
Block(a) ==
  /\ admin[a].at = "read" /\ admin[a].status = "active"
  /\ Changes(a)
  /\ account' = "blocked"

\* The same write by a request that had read the account as blocked: no block to it, though
\* another may have unblocked the account since.
WriteBlocked(a) ==
  /\ admin[a].at = "read" /\ admin[a].status = "blocked"
  /\ account = "active" => changes < MaxChanges
  /\ account' = "blocked"
  /\ changes' = IF account = "active" THEN changes + 1 ELSE changes
  /\ spared' = spared \cup (changes + 1) .. changes'
  /\ admin' = [admin EXCEPT ![a] = Idle]
  /\ UNCHANGED <<now, row, token, request>>

\* An update to "active", by whomever: what it had read decides nothing.
Unblock ==
  /\ account = "blocked"
  /\ account' = "active"
  /\ UNCHANGED <<now, row, token, request, admin, changes, spared>>

\* Mutant: an account that is blocked needs no session of its ended.
RevokeAll_Unblocked(a) ==
  /\ admin[a].at = "revoking"
  /\ row' = IF account = "active" THEN Revoked(Sids) ELSE row
  /\ admin' = [admin EXCEPT ![a] = Idle]
  /\ UNCHANGED <<now, token, account, request, changes, spared>>

RevokeAll(a) ==
  /\ admin[a].at = "revoking"
  /\ row' = Revoked(Sids)
  /\ admin' = [admin EXCEPT ![a] = Idle]
  /\ UNCHANGED <<now, token, account, request, changes, spared>>

\* The statement fails: the administrator is told so, and what was written stays.
RevokeFails(a) ==
  /\ admin[a].at = "revoking"
  /\ spared' = spared \cup {admin[a].change}
  /\ admin' = [admin EXCEPT ![a] = Idle]
  /\ UNCHANGED <<now, row, token, account, request, changes>>

-----------------------------------------------------------------------------
(* Time                                                                    *)

\* init_table at the start of any replica.
PurgeExpired ==
  /\ \E s \in Sids : row[s].state \in {"live", "revoked"} /\ row[s].ends < now - Keep
  /\ row' = [s \in Sids |->
       IF row[s].state \in {"live", "revoked"} /\ row[s].ends < now - Keep
       THEN [row[s] EXCEPT !.state = "purged"] ELSE row[s]]
  /\ UNCHANGED <<now, token, request, accountVars>>

Tick ==
  /\ now < MaxTime
  /\ \A q \in Requests : request[q] # Idle => now - request[q].since < Patience
  /\ now' = now + 1
  /\ UNCHANGED <<row, token, request, accountVars>>

Next ==
  \/ \E q \in Requests :
       \/ CheckPassword(q)
       \/ OwnerOfCredential(q)
       \/ Renew(q)
       \/ \E s \in Sids : SignIn(q, s) \/ Authorise(q, s) \/ SessionForRefresh(q, s)
  \/ \E s \in Sids : Logout(s)
  \/ \E a \in Administrators :
       \/ ChangePassword(a)
       \/ ReadStatus(a) \/ Block(a) \/ WriteBlocked(a)
       \/ RevokeAll(a) \/ RevokeFails(a)
  \/ Unblock
  \/ PurgeExpired
  \/ Tick

Spec == Init /\ [][Next]_vars

-----------------------------------------------------------------------------
(* Properties                                                              *)

\* However often and through whichever route a session that was not asked to
\* stay signed in is renewed, no token of it outlives its sign-in by more than
\* the renewal window and one token's life (session_lifetime.py, keepup-64).
OrdinarySessionEnds ==
  \A s \in Sids : ~token[s].remember /\ row[s].state # "unopened"
    => token[s].exp <= row[s].created + Window + Life

\* A row is deleted only when nobody can still use or renew it: the end the
\* renewals move is never behind the token they issue, and a request under way
\* does not outlast the week a row is kept (purge_expired).
PurgeSparesTheUsable ==
  \A s \in Sids : row[s].state = "purged" => ~Unexpired(s)

\* A session outlives no change of the account that was to end it, a new password or a
\* block: it lives only while the change's request has still to revoke, whatever sign-ins,
\* renewals and other administrators are under way (revoke_all, extend).  Spared are the
\* sessions of a change whose revocation failed, and of a block by a request that had read
\* the account as blocked before another unblocked it (user_routes.py:308).
ChangeEndsEarlierSessions ==
  \A s \in Sids : Live(s) =>
    \A c \in (row[s].opened + 1) .. changes :
      c \in spared \/ \E a \in Administrators : admin[a] = [at |-> "revoking", change |-> c]

\* A remembered session nobody used for its window is not revived: a renewal
\* moves its end only if its request came before that end (session_for_refresh).
IdleSessionStaysOver ==
  [][\A s \in Sids : row[s].remember /\ row'[s].ends > row[s].ends
       => now <= row[s].ends + Patience]_vars

\* A session lasts as long as it was promised: no longer when it was not asked to be
\* remembered, and as long as its holder's token when it was.
SessionLastsAsPromised == OrdinarySessionEnds /\ PurgeSparesTheUsable

=============================================================================
