----------------------------- MODULE MCSignedIn -----------------------------
(* Signing in, and staying signed in: the throttle and the second factor     *)
(* (SignIn), the sessions of an account (PanelSession), and the sockets that *)
(* are over with their session (SocketSessions).  They share no variable; a  *)
(* behaviour is one of one of them, `which' says whose, and leaves the       *)
(* others' alone.  Two sessions and two requests, alike.                     *)
EXTENDS PanelSession, TLC

CONSTANTS s1, s2, q1, q2, a, b
TwoSessions == {s1, s2}
TwoRequests == {q1, q2}
TwoReplicas == {a, b}
Symmetry == Permutations(TwoSessions) \cup Permutations(TwoRequests)

VARIABLES which, hour, attempts, checked, factor, call, spent, undone, secrets, errors, logins
signInVars == <<hour, attempts, checked, factor, call, spent, undone, secrets, errors, logins>>

CONSTANTS MaxAttempts, Lockout, Recoveries, MaxSecrets, MaxErrors, LastHour, MaxLogins
SignsIn == INSTANCE SignIn WITH Calls <- Requests, MaxTime <- LastHour, now <- hour

VARIABLES listening, inbox, breaks, revoked, socket, due, publishing, woken, sweeper, faults
socketVars == <<listening, inbox, breaks, revoked, socket, due, publishing, woken, sweeper, faults>>

CONSTANTS Replicas, Sockets, MaxBreaks, MaxFaults
Connected == INSTANCE SocketSessions WITH Sessions <- Sids

ASSUME SignInAssumption == SignsIn!BoundsAssumption

NoSession == Init /\ account = "active"
NoSigningIn ==
  /\ hour = 0 /\ attempts = 0 /\ checked = 0 /\ factor = 0 /\ call = 0
  /\ spent = 0 /\ undone = 0 /\ secrets = 0 /\ errors = 0 /\ logins = 0
NoSockets ==
  /\ listening = 0 /\ inbox = 0 /\ breaks = 0 /\ revoked = 0 /\ socket = 0
  /\ due = 0 /\ publishing = 0 /\ woken = 0 /\ sweeper = 0 /\ faults = 0

SignedInInit ==
  \/ which = "signed in" /\ Init /\ NoSigningIn /\ NoSockets
  \/ which = "signing in" /\ NoSession /\ SignsIn!Init /\ NoSockets
  \/ which = "connected" /\ NoSession /\ NoSigningIn /\ Connected!Init

SignedInNext ==
  \/ which = "signed in" /\ Next /\ UNCHANGED <<which, signInVars, socketVars>>
  \/ which = "signing in" /\ SignsIn!Next /\ UNCHANGED <<which, vars, socketVars>>
  \/ which = "connected" /\ Connected!Next /\ UNCHANGED <<which, vars, signInVars>>

SignedInSpec == SignedInInit /\ [][SignedInNext]_<<which, vars, signInVars, socketVars>>

AttemptsAreLimited == which = "signing in" => SignsIn!AttemptsAreLimited
CodeLetsInOnce == which = "signing in" => SignsIn!CodeLetsInOnce
RevocationIsNotOverlooked == which = "connected" => Connected!RevocationIsNotOverlooked
=============================================================================
