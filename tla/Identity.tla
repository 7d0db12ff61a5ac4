------------------------------ MODULE Identity ------------------------------
(***************************************************************************)
(* The other system that knows who everybody is (identity/runtime.py,      *)
(* access.py, contract.py): what it says about a token and about an action *)
(* is believed for a while, and asked again after that.                    *)
(*                                                                         *)
(* One person with one token of that system takes actions that want one    *)
(* right. The system changes its mind at any moment; its answer to a call  *)
(* is what held at some moment of the call. A moment is kept as what is    *)
(* left until it, or what has passed since, so that time needs no bound;   *)
(* the caches' clock and the identity's run alike.                         *)
(***************************************************************************)
EXTENDS Integers

CONSTANTS
  Requests,
  Actions,       \* what may be asked for: records of a declared path and the values in it
  Settings,      \* what a deployment may have set: [authorization, token, decision]
  RefusalCache,  \* REFUSAL_CACHE_SECONDS
  Timeout,       \* timeout_seconds
  Ends           \* the moments an identity may end (expires_at), or Never

Never == -1

\* The question whose token it is
Whose == [path |-> "token", of |-> "token"]

ASSUME IdentityAssumption ==
  /\ \A s \in Settings : s.authorization \in {"local", "provider"} /\ {s.token, s.decision} \subseteq Nat
  /\ RefusalCache \in Nat /\ Timeout \in Nat \ {0} /\ Ends \subseteq Nat \cup {Never}
  /\ Whose \notin Actions

VARIABLES
  config,
  ends,      \* what is left of the identity
  stands,    \* whether the system vouches for the token
  may,       \* the actions the system allows
  since,     \* how long ago each answer was last the true one
  token,     \* the entry of the token cache
  decision,  \* the entries of the decision cache, by key
  req        \* the requests

vars == <<config, ends, stands, may, since, token, decision, req>>

None == [left |-> 0, says |-> "nothing"]
Idle == [pc |-> "idle"]
Answers == {"yes", "no"}
Questions == {Whose} \cup Actions

Less(a, b) == IF a < b THEN a ELSE b

\* Bound: what passed this long ago or longer is all one.
Forgotten == 1 + Timeout + IF config.token < config.decision THEN config.decision ELSE config.token

OtherDecides == config.authorization = "provider"

\* Mutant: the right alone.
Key_Right(a) == "right"

\* What a decision is remembered by: the person, the right and the declared path.
Key(a) == a.path

Keys == {Key(a) : a \in Actions}

\* Whether this is what the system would answer.
Holds(q, says) == (says = "yes") = IF q = Whose THEN stands ELSE q \in may

Init ==
  /\ config \in Settings /\ ends \in Ends /\ stands \in BOOLEAN /\ may \in SUBSET Actions
  /\ ~OtherDecides => may = {}
  /\ since = [q \in Questions |-> [says \in Answers |-> IF Holds(q, says) THEN 0 ELSE Forgotten]]
  /\ token = None /\ decision = [k \in Keys |-> None]
  /\ req = [r \in Requests |-> Idle]

-----------------------------------------------------------------------------
(* The other system, and time                                              *)

\* Both answers are true ones of this moment.
Changed(q) == since' = [since EXCEPT ![q] = [says \in Answers |-> 0]]

ChangeToken == stands' = ~stands /\ Changed(Whose) /\ UNCHANGED <<config, ends, may, token, decision, req>>

\* Where nobody asks for its rights they do not matter.
ChangeRight(a) ==
  /\ OtherDecides
  /\ may' = IF a \in may THEN may \ {a} ELSE may \cup {a}
  /\ Changed(a) /\ UNCHANGED <<config, ends, stands, token, decision, req>>

\* It looks at what it knows; or something is wrong with it.
Looks(r) ==
  /\ req[r].pc = "asks" /\ req[r].said = "nothing"
  /\ \E says \in Answers \cup {"broken"} :
       /\ says \in Answers => Holds(req[r].what, says)
       /\ req' = [req EXCEPT ![r].said = says]
  /\ UNCHANGED <<config, ends, stands, may, since, token, decision>>

Passed(left) == IF left > 0 THEN left - 1 ELSE left
Aged(entry) == IF entry.left > 1 THEN [entry EXCEPT !.left = @ - 1] ELSE None

\* A call whose time is over ends before more of it passes.
Tick ==
  /\ \A r \in Requests : req[r].pc = "asks" => req[r].left > 0
  /\ since' = [q \in Questions |-> [says \in Answers |->
                 IF Holds(q, says) THEN 0 ELSE Less(since[q][says] + 1, Forgotten)]]
  /\ ends' = Passed(ends)
  /\ token' = Aged(token) /\ decision' = [k \in Keys |-> Aged(decision[k])]
  /\ req' = [r \in Requests |-> IF req[r].pc = "asks" THEN [req[r] EXCEPT !.left = Passed(@)] ELSE req[r]]
  /\ UNCHANGED <<config, stands, may>>

-----------------------------------------------------------------------------
(* The caches: an entry that has ended is no entry                         *)

\* An entry after it was read: as old as it was.
Used(entry, seconds) == entry

Put(entry, says, seconds) == IF seconds <= 0 THEN entry ELSE [left |-> seconds, says |-> says]

\* Mutant: whatever the identity's end.
Lifetime_Full == config.token

\* How long a confirmed token is believed: never longer than the identity lives.
Lifetime == IF ends = Never THEN config.token ELSE Less(config.token, ends)

\* Others' entries push the oldest out.
Evict ==
  /\ \/ token # None /\ token' = None /\ UNCHANGED decision
     \/ \E k \in Keys : decision[k] # None /\ decision' = [decision EXCEPT ![k] = None] /\ UNCHANGED token
  /\ UNCHANGED <<config, ends, stands, may, since, req>>

-----------------------------------------------------------------------------
(* A request                                                               *)

\* Where an answer leaves a request.
After(q, says) ==
  CASE says = "broken" -> "unavailable"
    [] says = "no" -> "refused"
    [] OTHER -> IF q = Whose THEN "known" ELSE "served"

\* What a request still wants to do is kept until it has its answer.
At(pc, a) == IF pc = "known" THEN [pc |-> pc, action |-> a] ELSE [pc |-> pc]
Asking(q, a) == [pc |-> "asks", what |-> q, action |-> a, said |-> "nothing", left |-> Timeout]

\* A token that is not the framework's: what is remembered of it, or the system.
Begin(r, a) ==
  /\ req[r].pc = "idle"
  /\ token' = Used(token, config.token)
  /\ req' = [req EXCEPT ![r] =
       IF token = None THEN Asking(Whose, a) ELSE At(After(Whose, token.says), a)]
  /\ UNCHANGED <<config, ends, stands, may, since, decision>>

Over == ends = 0

\* The answer about the token: an identity that has ended is refused.
TokenAnswered(r) ==
  /\ req[r].pc = "asks" /\ req[r].what = Whose /\ req[r].said # "nothing"
  /\ LET says == IF req[r].said = "yes" /\ Over THEN "no" ELSE req[r].said IN
     /\ token' = CASE says = "yes" -> Put(token, "yes", Lifetime)
                   [] says = "no" -> Put(token, "no", Less(RefusalCache, config.token))
                   [] OTHER -> token
     /\ req' = [req EXCEPT ![r] = At(After(Whose, says), @.action)]
  /\ UNCHANGED <<config, ends, stands, may, since, decision>>

\* The call is given up at its deadline, whatever arrives with it.
TimedOut(r) ==
  /\ req[r].pc = "asks" /\ req[r].left = 0
  /\ req' = [req EXCEPT ![r] = [pc |-> "unavailable"]]
  /\ UNCHANGED <<config, ends, stands, may, since, token, decision>>

Goes(r, pc) ==
  /\ req' = [req EXCEPT ![r] = [pc |-> pc]]
  /\ UNCHANGED <<config, ends, stands, may, since, token, decision>>

\* The account of the identity (Accounts): there is none, it is blocked, or the tables fail.
NoAccount(r) == req[r].pc = "known" /\ (Goes(r, "nobody") \/ Goes(r, "unavailable"))

\* check, where the rights are this application's: its own tables, or the identity, decide.
CheckHere(r) ==
  /\ req[r].pc = "known" /\ ~OtherDecides
  /\ Goes(r, "served") \/ Goes(r, "refused")

\* check, where the other system decides
CheckThere(r) ==
  /\ req[r].pc = "known" /\ OtherDecides
  /\ LET a == req[r].action entry == decision[Key(a)] IN
     /\ decision' = [decision EXCEPT ![Key(a)] = Used(@, config.decision)]
     /\ req' = [req EXCEPT ![r] = IF entry = None THEN Asking(a, a) ELSE At(After(a, entry.says), a)]
  /\ UNCHANGED <<config, ends, stands, may, since, token>>

\* A yes or a no is kept; what is neither is no answer.
RightAnswered(r) ==
  /\ req[r].pc = "asks" /\ req[r].what # Whose /\ req[r].said # "nothing"
  /\ LET a == req[r].action says == req[r].said IN
     /\ decision' = [decision EXCEPT ![Key(a)] = IF says \in Answers THEN Put(@, says, config.decision) ELSE @]
     /\ req' = [req EXCEPT ![r] = At(After(a, says), a)]
  /\ UNCHANGED <<config, ends, stands, may, since, token>>

\* The handler has run, or the refusal is sent; the caller may come again.
Answered(r) ==
  /\ req[r].pc \in {"served", "refused", "nobody", "unavailable"}
  /\ req' = [req EXCEPT ![r] = Idle]
  /\ UNCHANGED <<config, ends, stands, may, since, token, decision>>

Request(r) ==
  \/ \E a \in Actions : Begin(r, a)
  \/ Looks(r) \/ TokenAnswered(r) \/ TimedOut(r) \/ NoAccount(r)
  \/ CheckHere(r) \/ CheckThere(r) \/ RightAnswered(r) \/ Answered(r)

Next == ChangeToken \/ (\E a \in Actions : ChangeRight(a)) \/ Tick \/ Evict \/ (\E r \in Requests : Request(r))

Spec == Init /\ [][Next]_vars

-----------------------------------------------------------------------------

Turns(r, pc) == req[r].pc # pc /\ req'[r].pc = pc

\* The request is let through, or not, by an answer of the other system about its action.
Decided(r, says) ==
  /\ OtherDecides
  /\ \/ req[r].pc = "known"
     \/ req[r].pc = "asks" /\ req[r].what # Whose
  /\ req'[r].pc = After(req[r].action, says)

\* A token is believed only if the other system stood by it at some moment of the last
\* token_cache_seconds and one call, and the identity has not ended, however the calls of
\* two requests overlap (identity_for_token).
VouchedForLately ==
  [][\A r \in Requests : Turns(r, "known") => since[Whose]["yes"] <= config.token + Timeout /\ ~Over]_vars

\* Where the other system decides, an action is let through, or not, only if at some moment
\* of the last decision_cache_seconds and one call it would have answered so of an action
\* of the same right and declared path (decide).
DecidedLately ==
  [][\A r \in Requests : \A says \in Answers :
       Decided(r, says) =>
         \E a \in Actions :
           a.path = req[r].action.path /\ since[a][says] <= config.decision + Timeout]_vars

=============================================================================
