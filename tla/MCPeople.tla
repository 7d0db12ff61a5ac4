------------------------------ MODULE MCPeople ------------------------------
(* Who somebody is, and what they may do: the accounts of this application   *)
(* (Accounts), and another system's word about a token and an action         *)
(* (Identity).  The two share no variable; a behaviour is one of one of      *)
(* them, `which' says whose, and leaves the other's alone.  Two calls at     *)
(* once; two people of the provider who would be given one name.             *)
EXTENDS Identity, FiniteSets, TLC

CONSTANTS r1, r2, things, people, one
TwoRequests == {r1, r2}
Symmetry == Permutations(TwoRequests) \cup Permutations({things, people})

TwoPaths == {[path |-> things, of |-> one], [path |-> people, of |-> one]}

\* Rights kept here, the tokens remembered; rights kept there, decisions remembered.
HereOrThere ==
  {[authorization |-> "local", token |-> 2, decision |-> 0],
   [authorization |-> "provider", token |-> 0, decision |-> 1]}
EndsOrNot == {Never, 1}

VARIABLES which, row, perms, call, made, seeded, excused, opened
accountVars == <<row, perms, call, made, seeded, excused, opened>>

CONSTANTS
  Subjects, Proposed, Names, Permissions, Administrative, Policy, Changes, Given, Attempts,
  MaxAccounts, MaxCalls
People == INSTANCE Accounts WITH Calls <- Requests

ASSUME PeopleAssumption == People!AccountsAssumption

\* Where the rights are kept there no token is remembered, so the end of the identity,
\* which bounds how long one is, is left out.
PeopleInit ==
  \/ /\ which = "identity" /\ Init /\ (OtherDecides => ends = Never)
     /\ row = 0 /\ perms = 0 /\ call = 0 /\ made = 0 /\ seeded = 0 /\ excused = 0 /\ opened = 0
  \/ /\ which = "accounts" /\ People!Init
     /\ Init /\ config = CHOOSE s \in Settings : s.authorization = "local"
     /\ ends = Never /\ stands = FALSE

PeopleNext ==
  \/ which = "identity" /\ Next /\ UNCHANGED <<which, accountVars>>
  \/ which = "accounts" /\ People!Next /\ UNCHANGED <<which, vars>>

PeopleSpec == PeopleInit /\ [][PeopleNext]_<<which, vars, accountVars>>

AnAdministratorRemains == which = "accounts" => People!AnAdministratorRemains
LetInAsThemselves == which = "accounts" => People!LetInAsThemselves

-----------------------------------------------------------------------------

MCProposed == "s1" :> "ann" @@ "s2" :> "ann"
MCPolicy == {[status |-> "active", roles |-> {"CLIENT"}]}
MCChanges == {{}, {"CLIENT"}, {"ADMIN", "CLIENT"}}
=============================================================================
