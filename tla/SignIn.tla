------------------------------- MODULE SignIn -------------------------------
(***************************************************************************)
(* Signing in to one account: the attempts counted per name                *)
(* (keepup_auth/login_throttle.py), the password, and the second factor    *)
(* with its enrolment (mfa.py, mfa_routes.py).                             *)
(*                                                                         *)
(* Calls are handled at once by any replica, each in steps that are one    *)
(* statement of the database.  The clock counts the steps of the factor's  *)
(* codes; the code of a secret at a step is that pair.                     *)
(***************************************************************************)
EXTENDS Integers, FiniteSets, Sequences

CONSTANTS
  Calls,        \* bound: calls under way at a time
  MaxAttempts,  \* max_attempts()
  Lockout,      \* lockout_window()
  Recoveries,   \* the recovery codes of a secret
  MaxSecrets,   \* bound: secrets drawn
  MaxErrors,    \* bound: statements of the throttle that fail
  MaxTime,      \* bound: the clock
  MaxLogins     \* bound: calls of the sign-in

BoundsAssumption ==
  /\ {MaxAttempts, Lockout} \subseteq Nat \ {0}
  /\ {MaxSecrets, MaxErrors, MaxTime, MaxLogins} \subseteq Nat
  /\ Recoveries \cap (1 .. MaxTime + 1) = {}   \* no recovery code is a step's

VARIABLES
  now,
  attempts,  \* the row of login_attempts
  checked,   \* the passwords looked at since a success: when, and as which attempt
  factor,    \* the row of auth_totp
  call,
  spent,     \* how often each code let somebody in
  undone,    \* a statement wrote a row that another enrolment had made since the read
  secrets, errors, logins

vars == <<now, attempts, checked, factor, call, spent, undone, secrets, errors, logins>>
throttle == <<attempts, checked, errors, logins>>
enrolment == <<factor, spent, undone, secrets>>

None == [failures |-> 0, last |-> 0]
NoFactor == [secret |-> 0, confirmed |-> FALSE, last |-> 0, recovery |-> {}]
Idle == [at |-> "idle"]

\* code_for and _hash_recovery: what is told apart of a code.
Steps == 1 .. MaxTime + 1
Codes == ((1 .. MaxSecrets) \X Steps) \cup ((1 .. MaxSecrets) \X Recoveries)

Init ==
  /\ now = 1
  /\ attempts = None
  /\ checked = <<>>
  /\ factor = NoFactor
  /\ call = [c \in Calls |-> Idle]
  /\ spent = [k \in Codes |-> 0]
  /\ undone = FALSE
  /\ secrets = 0 /\ errors = 0 /\ logins = 0

Goes(c, to) == call' = [call EXCEPT ![c] = to]

-----------------------------------------------------------------------------
(* The password: counted, then looked at                                   *)

\* locked_until
Locked == attempts.failures >= MaxAttempts /\ attempts.last + Lockout > now

\* The statement of record_failure and reserve_attempt.
Counted ==
  [failures |-> IF attempts.failures > 0 /\ attempts.last <= now - Lockout
                THEN 1 ELSE attempts.failures + 1,
   last |-> now]

LooksAt(number) == checked' = Append(checked, [at |-> now, number |-> number])

\* login begins: a locked name is answered 429 and changes nothing.
Login(c) ==
  /\ call[c] = Idle /\ logins < MaxLogins
  /\ ~Locked
  /\ Goes(c, [at |-> "unlocked", seen |-> attempts.failures])
  /\ logins' = logins + 1
  /\ UNCHANGED <<now, attempts, checked, errors, enrolment>>

\* The name could not be read: the call goes on.
LoginBlind(c) ==
  /\ call[c] = Idle /\ logins < MaxLogins
  /\ errors < MaxErrors
  /\ Goes(c, [at |-> "unlocked", seen |-> 0])
  /\ errors' = errors + 1
  /\ logins' = logins + 1
  /\ UNCHANGED <<now, attempts, checked, enrolment>>

\* Mutant: the count that was read is written back with one more.
Reserve_WritesBack(c) ==
  /\ call[c].at = "unlocked"
  /\ attempts' = [failures |-> call[c].seen + 1, last |-> now]
  /\ IF call[c].seen + 1 > MaxAttempts
     THEN Goes(c, Idle) /\ UNCHANGED checked
     ELSE Goes(c, [at |-> "numbered"]) /\ LooksAt(call[c].seen + 1)
  /\ UNCHANGED <<now, errors, logins, enrolment>>

\* reserve_attempt, and the refusal of an attempt past the limit.
Reserve(c) ==
  /\ call[c].at = "unlocked"
  /\ attempts' = Counted
  /\ IF Counted.failures > MaxAttempts
     THEN Goes(c, Idle) /\ UNCHANGED checked
     ELSE Goes(c, [at |-> "numbered"]) /\ LooksAt(Counted.failures)
  /\ UNCHANGED <<now, errors, logins, enrolment>>

\* The attempt could not be counted, and is let through as the nought-th.
ReserveFails(c) ==
  /\ call[c].at = "unlocked" /\ errors < MaxErrors
  /\ errors' = errors + 1
  /\ Goes(c, [at |-> "numbered"])
  /\ LooksAt(0)
  /\ UNCHANGED <<now, attempts, logins, enrolment>>

\* A wrong password is refused; nothing more is written.
Refuse(c) ==
  /\ call[c].at = "numbered"
  /\ Goes(c, Idle)
  /\ UNCHANGED <<now, throttle, enrolment>>

\* A right one: record_success forgets the row.
Prove(c) ==
  /\ call[c].at = "numbered"
  /\ attempts' = None
  /\ checked' = <<>>
  /\ Goes(c, [at |-> "proved"])
  /\ UNCHANGED <<now, errors, logins, enrolment>>

\* needs_second_factor: a session at once, or the challenge.
Answer(c) ==
  /\ call[c].at = "proved"
  /\ Goes(c, IF factor.confirmed THEN [at |-> "challenged"] ELSE Idle)
  /\ UNCHANGED <<now, throttle, enrolment>>

-----------------------------------------------------------------------------
(* The second factor                                                       *)

\* _matches: the step before, this one or the next, past the last one spent.
Acceptable(row) == {k \in {now - 1, now, now + 1} \cap Steps : k > row.last}

\* verify_for_user reads the row; a code, or a recovery code, is presented for
\* a challenge, or to disable the factor.
Present(c, purpose) ==
  /\ IF purpose = "verify" THEN call[c].at = "challenged" ELSE call[c] = Idle
  /\ factor.confirmed
  /\ \/ \E k \in Acceptable(factor) :
          Goes(c, [at |-> "presented", for |-> purpose, code |-> <<factor.secret, k>>])
     \/ /\ purpose = "verify"
        /\ \E r \in factor.recovery :
             Goes(c, [at |-> "recovering", code |-> r, seen |-> factor.recovery])
  /\ UNCHANGED <<now, throttle, enrolment>>

\* The challenge runs out, or the holder gives up.
Lapse(c) ==
  /\ call[c].at = "challenged"
  /\ Goes(c, Idle)
  /\ UNCHANGED <<now, throttle, enrolment>>

LetIn(code) == spent' = [spent EXCEPT ![code] = @ + 1]

\* Mutant: the code is taken by the reading alone.
ClaimStep_AsRead(c) ==
  /\ call[c].at = "presented"
  /\ factor' = IF factor.secret > 0 THEN [factor EXCEPT !.last = call[c].code[2]] ELSE factor
  /\ LetIn(call[c].code)
  /\ Goes(c, IF call[c].for = "disable" THEN [at |-> "disabling"] ELSE Idle)
  /\ UNCHANGED <<now, throttle, undone, secrets>>

\* The UPDATE that claims the step: it looks at last_step alone.
ClaimStep(c) ==
  /\ call[c].at = "presented"
  /\ IF factor.secret > 0 /\ factor.last < call[c].code[2]
     THEN /\ factor' = [factor EXCEPT !.last = call[c].code[2]]
          /\ undone' = (undone \/ factor.secret # call[c].code[1])
          /\ LetIn(call[c].code)
          /\ Goes(c, IF call[c].for = "disable" THEN [at |-> "disabling"] ELSE Idle)
     ELSE UNCHANGED <<factor, spent, undone>> /\ Goes(c, Idle)
  /\ UNCHANGED <<now, throttle, secrets>>

\* The UPDATE that claims a recovery code: only on the list that was read.
ClaimRecovery(c) ==
  /\ call[c].at = "recovering"
  /\ IF factor.secret > 0 /\ factor.recovery = call[c].seen
     THEN /\ factor' = [factor EXCEPT !.recovery = @ \ {call[c].code}]
          /\ LetIn(call[c].code)
     ELSE UNCHANGED <<factor, spent>>
  /\ Goes(c, Idle)
  /\ UNCHANGED <<now, throttle, undone, secrets>>

Disable(c) ==
  /\ call[c].at = "disabling"
  /\ factor' = NoFactor
  /\ Goes(c, Idle)
  /\ UNCHANGED <<now, throttle, spent, undone, secrets>>

-----------------------------------------------------------------------------
(* Enrolment: a secret, then a code of it                                  *)

\* begin reads that no factor is confirmed.
Begin(c) ==
  /\ call[c] = Idle /\ secrets < MaxSecrets
  /\ ~factor.confirmed
  /\ secrets' = secrets + 1
  /\ Goes(c, [at |-> "beginning", secret |-> secrets + 1])
  /\ UNCHANGED <<now, throttle, factor, spent, undone>>

\* Its INSERT .. ON CONFLICT replaces whatever row there is by now.
Replace(c) ==
  /\ call[c].at = "beginning"
  /\ factor' = [NoFactor EXCEPT !.secret = call[c].secret]
  /\ undone' = (undone \/ factor.confirmed)
  /\ Goes(c, Idle)
  /\ UNCHANGED <<now, throttle, spent, secrets>>

\* confirm reads the row and finds the step its code belongs to.
Confirm(c) ==
  /\ call[c] = Idle
  /\ factor.secret > 0 /\ ~factor.confirmed
  /\ \E k \in Acceptable(factor) :
       Goes(c, [at |-> "confirming", secret |-> factor.secret, step |-> k])
  /\ UNCHANGED <<now, throttle, enrolment>>

\* Its UPDATE looks at the account alone.
Confirmed(c) ==
  /\ call[c].at = "confirming"
  /\ factor' = IF factor.secret = 0 THEN factor ELSE
       [factor EXCEPT !.confirmed = TRUE, !.last = call[c].step, !.recovery = {factor.secret} \X Recoveries]
  /\ undone' = (undone \/ (factor.secret > 0
                           /\ (factor.confirmed \/ factor.secret # call[c].secret)))
  /\ Goes(c, Idle)
  /\ UNCHANGED <<now, throttle, spent, secrets>>

-----------------------------------------------------------------------------

Tick ==
  /\ now < MaxTime
  /\ now' = now + 1
  /\ UNCHANGED <<throttle, enrolment, call>>

Next ==
  \/ \E c \in Calls :
       \/ Login(c) \/ LoginBlind(c) \/ Reserve(c) \/ ReserveFails(c) \/ Refuse(c)
       \/ Prove(c) \/ Answer(c)
       \/ Present(c, "verify") \/ Present(c, "disable") \/ Lapse(c)
       \/ ClaimStep(c) \/ ClaimRecovery(c) \/ Disable(c)
       \/ Begin(c) \/ Replace(c) \/ Confirm(c) \/ Confirmed(c)
  \/ Tick

Spec == Init /\ [][Next]_vars

-----------------------------------------------------------------------------
(* Properties                                                              *)

\* However many calls arrive at once, in any span as long as the lockout no more
\* passwords of a name are looked at than the limit allows, an attempt whose
\* count failed apart (reserve_attempt, keepup-63; keepup-48).
AttemptsAreLimited ==
  \A t \in 1 .. MaxTime :
    Cardinality({i \in DOMAIN checked : t <= checked[i].at /\ checked[i].at < t + Lockout})
      <= MaxAttempts + errors

\* A code, or a recovery code, lets in once, whoever presents it and however
\* many at a time, unless the account enrolled anew between the reading of the row
\* and the statement, which names the account alone
\* (verify_for_user, keepup-174).
CodeLetsInOnce == undone \/ \A k \in Codes : spent[k] <= 1

=============================================================================
