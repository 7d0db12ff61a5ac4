---------------------------- MODULE SignedInProofs ----------------------------
(***************************************************************************)
(* Theorems about signing in and staying signed in (MCSignedIn): the       *)
(* sessions of an account (PanelSession), its second factor (SignIn), and  *)
(* the sockets that end with a session (SocketSessions).                   *)
(***************************************************************************)
EXTENDS MCSignedIn, FiniteSetTheorems, SequenceTheorems, TLAPS

-----------------------------------------------------------------------------
(* PanelSession: the inductive invariant                                   *)

Row == [state : {"unopened", "live", "revoked", "purged"}, ends : Nat, remember : BOOLEAN,
        created : Nat, otp : BOOLEAN, opened : Nat]
Token == [exp : Nat, started : Nat, remember : BOOLEAN, otp : BOOLEAN]
Proved == [at : {"proved"}, since : Nat, remember : BOOLEAN, otp : BOOLEAN]
Authorised == [at : {"authorised"}, since : Nat, sid : Sids, started : Nat, remember : BOOLEAN]
Credential == [at : {"credential"}, since : Nat, sid : Sids]
Reading == [at : {"read"}, status : {"active", "blocked"}]
Revoking == [at : {"revoking"}, change : Nat]

PanelTyped ==
  /\ now \in Nat
  /\ row \in [Sids -> Row]
  /\ token \in [Sids -> Token]
  /\ account \in {"active", "blocked"}
  /\ request \in [Requests -> {Idle} \cup Proved \cup Authorised \cup Credential]
  /\ admin \in [Administrators -> {Idle} \cup Reading \cup Revoking]
  /\ changes \in Nat

\* The row and the token of a session agree, and the row's end is no further off than its
\* last renewal set it.
Agrees(s) ==
  /\ token[s].remember = row[s].remember
  /\ row[s].ends <= now + RowLife(row[s].remember)
  /\ ~row[s].remember => /\ token[s].started = row[s].created
                         /\ token[s].exp <= row[s].created + Window + Life

\* How far the token outlives the row: not while it is live, by what a request under way
\* may issue once it is revoked, and not at all when it is gone.
Outlives(s) ==
  /\ row[s].state = "live" => token[s].exp <= row[s].ends
  /\ row[s].state = "revoked" => token[s].exp <= row[s].ends + Patience + Life - 1
  /\ row[s].state = "purged" => token[s].exp <= now

SessionInv(s) ==
  IF row[s].state = "unopened" THEN ~row[s].remember ELSE Agrees(s) /\ Outlives(s)

\* A request is no older than its patience, and what it names was there when it came.
Names(q, s) ==
  /\ row[s].state \in {"live", "revoked"}
  /\ request[q].since < row[s].ends
  /\ IF request[q].at = "authorised"
     THEN /\ request[q].remember = row[s].remember
          /\ ~row[s].remember => request[q].started = row[s].created
     ELSE row[s].remember

RequestInv(q) ==
  request[q] # Idle =>
    /\ request[q].since <= now /\ now <= request[q].since + Patience
    /\ request[q].at # "proved" => Names(q, request[q].sid)

PanelInv ==
  /\ PanelTyped
  /\ \A s \in Sids : SessionInv(s)
  /\ \A q \in Requests : RequestInv(q)
  /\ ChangeEndsEarlierSessions

LEMMA Lives ==
  /\ Life \in Nat /\ Window \in Nat /\ Keep \in Nat /\ Patience \in Nat
  /\ Life >= 1 /\ Patience + Life <= Keep + 2
  /\ \A remember \in BOOLEAN : RowLife(remember) \in Nat /\ Life <= RowLife(remember)
BY TimesAssumption DEF RowLife

LEMMA PanelInitially == Init => PanelInv
BY DEF Init, accountVars, PanelInv, PanelTyped, SessionInv, RequestInv, ChangeEndsEarlierSessions, Live, Row,
       Token, NoRow, NoToken, Idle

\* A session a step leaves alone keeps its part, however late it gets.
LEMMA SessionKept ==
  ASSUME PanelTyped, NEW s \in Sids, SessionInv(s), row'[s] = row[s], token'[s] = token[s],
         now' \in Nat, now <= now'
  PROVE  SessionInv(s)'
<1>1. row[s] \in Row /\ token[s] \in Token /\ now \in Nat
  BY DEF PanelTyped
<1>2. RowLife(row[s].remember) \in Nat
  BY <1>1, Lives DEF Row
<1>3. Agrees(s) => Agrees(s)'
  <2>1. PICK n \in Nat : n = now'
    OBVIOUS
  <2>2. now <= n
    BY <2>1
  <2>3. \A e, l \in Nat : e <= now + l => e <= n + l
    BY <1>1, <2>2
  <2>4. row[s].ends <= now + RowLife(row[s].remember) => row[s].ends <= n + RowLife(row[s].remember)
    BY <1>1, <1>2, <2>3 DEF Row
  <2>5. QED
    BY <2>1, <2>4 DEF Agrees, RowLife
<1>4. Outlives(s) => Outlives(s)'
  <2>1. PICK n \in Nat : n = now'
    OBVIOUS
  <2>2. token[s].exp <= now => token[s].exp <= n
    BY <1>1, <2>1 DEF Token
  <2>3. QED
    BY <2>1, <2>2 DEF Outlives
<1>5. QED
  BY <1>3, <1>4 DEF SessionInv

\* A request a step leaves alone keeps its part while rows are only renewed or revoked.
LEMMA RequestKept ==
  ASSUME PanelTyped, NEW q \in Requests, RequestInv(q), request'[q] = request[q], now' = now,
         \A s \in Sids : row[s].state \in {"live", "revoked"} =>
           /\ row'[s].state \in {"live", "revoked"} /\ row'[s].ends \in Nat
           /\ row[s].ends <= row'[s].ends
           /\ row'[s].remember = row[s].remember /\ row'[s].created = row[s].created
  PROVE  RequestInv(q)'
<1>1. CASE request[q] = Idle
  BY <1>1 DEF RequestInv
<1>2. CASE request[q] # Idle /\ request[q].at = "proved"
  BY <1>2 DEF RequestInv
<1>3. CASE request[q] # Idle /\ request[q].at # "proved"
  <2> DEFINE s == request[q].sid
  <2>1. s \in Sids /\ request[q].since \in Nat
    BY <1>3 DEF PanelTyped, Proved, Authorised, Credential
  <2>2. Names(q, s)
    BY <1>3 DEF RequestInv
  <2>3. row[s].ends \in Nat /\ row'[s].ends \in Nat /\ request[q].since < row'[s].ends
    BY <2>1, <2>2 DEF Names, PanelTyped, Row
  <2>4. Names(q, s)'
    BY <2>1, <2>2, <2>3 DEF Names
  <2>5. QED
    BY <1>3, <2>4 DEF RequestInv
<1>4. QED
  BY <1>1, <1>2, <1>3

\* A step that opens no session and changes no account keeps what changes have ended.
LEMMA EarlierSessionsKept ==
  ASSUME ChangeEndsEarlierSessions, UNCHANGED accountVars,
         \A s \in Sids : Live(s)' => Live(s) /\ row'[s].opened = row[s].opened
  PROVE  ChangeEndsEarlierSessions'
BY DEF ChangeEndsEarlierSessions, accountVars

\* Rows that are revoked keep their columns.
LEMMA RevokedRows ==
  ASSUME PanelTyped, NEW S, row' = Revoked(S)
  PROVE  /\ row' \in [Sids -> Row]
         /\ \A s \in Sids :
              /\ row'[s] = [row[s] EXCEPT !.state = row'[s].state]
              /\ row'[s].state = IF s \in S /\ Live(s) THEN "revoked" ELSE row[s].state
<1> SUFFICES ASSUME NEW s \in Sids
             PROVE  /\ row'[s] \in Row
                    /\ row'[s] = [row[s] EXCEPT !.state = row'[s].state]
                    /\ row'[s].state = IF s \in S /\ Live(s) THEN "revoked" ELSE row[s].state
  BY DEF Revoked
<1>1. row[s] \in Row
  BY DEF PanelTyped
<1>2. row'[s] = IF s \in S /\ Live(s) THEN [row[s] EXCEPT !.state = "revoked"] ELSE row[s]
  BY DEF Revoked
<1>3. QED
  BY <1>1, <1>2 DEF Row

LEMMA RevokingKeeps ==
  ASSUME PanelInv, NEW S, row' = Revoked(S), UNCHANGED <<now, token, request>>
  PROVE  /\ \A s \in Sids : SessionInv(s)'
         /\ \A q \in Requests : RequestInv(q)'
<1> USE DEF PanelInv
<1>1. ASSUME NEW s \in Sids
      PROVE  /\ row[s] \in Row /\ token[s] \in Token
             /\ row'[s].ends = row[s].ends /\ row'[s].remember = row[s].remember
             /\ row'[s].created = row[s].created
             /\ row'[s].state = IF s \in S /\ Live(s) THEN "revoked" ELSE row[s].state
  <2>1. row[s] \in Row /\ token[s] \in Token
    BY DEF PanelTyped
  <2>2. QED
    BY <2>1, RevokedRows DEF Row
<1>2. ASSUME NEW s \in Sids
      PROVE  SessionInv(s)'
  <2>1. Agrees(s) => Agrees(s)'
    BY <1>1 DEF Agrees, RowLife
  <2>2. Outlives(s) /\ row'[s].state = row[s].state => Outlives(s)'
    BY <1>1 DEF Outlives
  <2>3. Outlives(s) /\ row[s].state = "live" /\ row'[s].state = "revoked" => Outlives(s)'
    BY <1>1, Lives DEF Outlives, Row, Token
  <2>4. QED
    BY <1>1, <2>1, <2>2, <2>3 DEF SessionInv, Live
<1>3. ASSUME NEW q \in Requests
      PROVE  RequestInv(q)'
  <2>1. \A s \in Sids : row[s].state \in {"live", "revoked"} =>
           /\ row'[s].state \in {"live", "revoked"} /\ row'[s].ends \in Nat
           /\ row[s].ends <= row'[s].ends
           /\ row'[s].remember = row[s].remember /\ row'[s].created = row[s].created
    BY <1>1 DEF Row
  <2>2. QED
    BY <2>1, RequestKept
<1>4. QED
  BY <1>2, <1>3

\* A request of the account's takes a step of its own, the others none.
LEMMA OthersKept ==
  ASSUME PanelInv, NEW q \in Requests, \A p \in Requests \ {q} : request'[p] = request[p],
         UNCHANGED <<now, row>>, RequestInv(q)'
  PROVE  \A p \in Requests : RequestInv(p)'
<1> SUFFICES ASSUME NEW p \in Requests, p # q
             PROVE  RequestInv(p)'
  OBVIOUS
<1>1. \A s \in Sids : row[s].ends \in Nat
  BY DEF PanelInv, PanelTyped, Row
<1>2. QED
  BY <1>1, RequestKept DEF PanelInv

LEMMA SessionsKept ==
  ASSUME PanelInv, UNCHANGED <<row, token>>, now' \in Nat, now <= now'
  PROVE  \A s \in Sids : SessionInv(s)'
BY SessionKept DEF PanelInv

LEMMA CheckPasswordKeeps ==
  ASSUME PanelInv, NEW q \in Requests, CheckPassword(q)
  PROVE  PanelInv'
<1> USE DEF CheckPassword, accountVars
<1>1. PICK remember \in BOOLEAN, otp \in Factors :
        request' = [request EXCEPT ![q] =
          [at |-> "proved", since |-> now, remember |-> remember, otp |-> otp]]
  OBVIOUS
<1> DEFINE r == [at |-> "proved", since |-> now, remember |-> remember, otp |-> otp]
<1>2. r \in Proved
  BY FactorsAssumption DEF Proved, PanelInv, PanelTyped
<1>3. r.since = now /\ r.at = "proved"
  OBVIOUS
<1> HIDE DEF r
<1>4. request'[q] = r /\ \A p \in Requests \ {q} : request'[p] = request[p]
  BY <1>1 DEF PanelInv, PanelTyped, r
<1>5. PanelTyped'
  BY <1>1, <1>2 DEF PanelInv, PanelTyped, r
<1>6. RequestInv(q)'
  BY <1>3, <1>4, Lives DEF RequestInv, PanelInv, PanelTyped
<1>7. QED
  BY <1>4, <1>5, <1>6, OthersKept, SessionsKept DEF PanelInv, PanelTyped, ChangeEndsEarlierSessions, Live

LEMMA SignInKeeps ==
  ASSUME PanelInv, NEW q \in Requests, NEW s \in Sids, SignIn(q, s)
  PROVE  PanelInv'
<1> USE DEF SignIn, accountVars
<1> DEFINE remember == request[q].remember
           r == [state |-> "live", ends |-> now + RowLife(remember), remember |-> remember,
                 created |-> now, otp |-> request[q].otp, opened |-> changes]
           k == NewToken(now, remember, request[q].otp)
<1>1. remember \in BOOLEAN /\ request[q].otp \in BOOLEAN
  BY DEF PanelInv, PanelTyped, Idle, Proved, Authorised, Credential
<1>2. now \in Nat /\ changes \in Nat /\ RowLife(remember) \in Nat
  BY <1>1, Lives DEF PanelInv, PanelTyped
<1>3. r \in Row
  BY <1>1, <1>2 DEF Row
<1>4. k \in Token
  BY <1>1, <1>2, Lives DEF NewToken, Token
<1>5. /\ r.state = "live" /\ r.ends = now + RowLife(remember) /\ r.remember = remember
      /\ r.created = now /\ r.opened = changes
  OBVIOUS
<1>6. /\ k.exp = now + Life /\ k.remember = remember
      /\ ~remember => k.started = now
  BY DEF NewToken
<1>7. row' = [row EXCEPT ![s] = r] /\ token' = [token EXCEPT ![s] = k]
  BY DEF OpenSession
<1> HIDE DEF r, k, remember
<1>8. /\ row'[s] = r /\ token'[s] = k
      /\ \A z \in Sids \ {s} : row'[z] = row[z] /\ token'[z] = token[z]
  BY <1>7 DEF PanelInv, PanelTyped
<1>9. PanelTyped'
  BY <1>3, <1>4, <1>7 DEF PanelInv, PanelTyped
<1>10. SessionInv(s)'
  <2>1. r.ends <= now + RowLife(r.remember)
    BY <1>2, <1>5
  <2>2. k.exp <= r.ends
    BY <1>1, <1>2, <1>5, <1>6, Lives
  <2>3. k.exp <= now + Window + Life
    BY <1>2, <1>6, Lives
  <2>4. Agrees(s)'
    BY <1>5, <1>6, <1>8, <2>1, <2>3 DEF Agrees, RowLife
  <2>5. QED
    BY <1>5, <1>8, <2>2, <2>4 DEF SessionInv, Outlives
<1>11. \A z \in Sids : SessionInv(z)'
  BY <1>2, <1>8, <1>10, SessionKept DEF PanelInv
<1>12. ASSUME NEW p \in Requests
       PROVE  RequestInv(p)'
  <2>1. CASE p = q
    BY <2>1 DEF PanelInv, PanelTyped, RequestInv
  <2>2. CASE p # q
    <3>1. request'[p] = request[p]
      BY <2>2 DEF PanelInv, PanelTyped
    <3>2. \A z \in Sids : row[z].state \in {"live", "revoked"} => row'[z] = row[z] /\ row[z].ends \in Nat
      BY <1>8 DEF PanelInv, PanelTyped, Row
    <3>3. QED
      BY <3>1, <3>2, RequestKept DEF PanelInv
  <2>3. QED
    BY <2>1, <2>2
<1>13. ChangeEndsEarlierSessions'
  <2>1. \A c \in (r.opened + 1) .. changes : FALSE
    BY <1>2, <1>5
  <2>2. QED
    BY <1>8, <2>1 DEF PanelInv, ChangeEndsEarlierSessions, Live
<1>14. QED
  BY <1>9, <1>11, <1>12, <1>13 DEF PanelInv

LEMMA AuthoriseKeeps ==
  ASSUME PanelInv, NEW q \in Requests, NEW s \in Sids, Authorise(q, s)
  PROVE  PanelInv'
<1> USE DEF Authorise, accountVars
<1> DEFINE r == [at |-> "authorised", since |-> now, sid |-> s, started |-> token[s].started,
                 remember |-> token[s].remember]
<1>1. now \in Nat /\ row[s] \in Row /\ token[s] \in Token
  BY DEF PanelInv, PanelTyped
<1>2. r \in Authorised
  BY <1>1 DEF Authorised, Token
<1>3. /\ r.at = "authorised" /\ r.since = now /\ r.sid = s /\ r.started = token[s].started
      /\ r.remember = token[s].remember
  OBVIOUS
<1>4. request' = [request EXCEPT ![q] = r]
  OBVIOUS
<1> HIDE DEF r
<1>5. request'[q] = r /\ \A p \in Requests \ {q} : request'[p] = request[p]
  BY <1>4 DEF PanelInv, PanelTyped
<1>6. PanelTyped'
  BY <1>2, <1>4 DEF PanelInv, PanelTyped
<1>7. row[s].state = "live" /\ Agrees(s) /\ Outlives(s)
  BY DEF PanelInv, SessionInv, Welcome, Live
<1>8. now < row[s].ends
  BY <1>1, <1>7 DEF Outlives, Unexpired, Row, Token
<1>9. Names(q, s)'
  BY <1>3, <1>5, <1>7, <1>8 DEF Names, Agrees
<1>10. RequestInv(q)'
  BY <1>1, <1>3, <1>5, <1>9, Lives DEF RequestInv
<1>11. QED
  BY <1>1, <1>5, <1>6, <1>10, OthersKept, SessionsKept DEF PanelInv, ChangeEndsEarlierSessions, Live

LEMMA SessionForRefreshKeeps ==
  ASSUME PanelInv, NEW q \in Requests, NEW s \in Sids, SessionForRefresh(q, s)
  PROVE  PanelInv'
<1> USE DEF SessionForRefresh, accountVars
<1> DEFINE r == [at |-> "credential", since |-> now, sid |-> s]
<1>1. now \in Nat
  BY DEF PanelInv, PanelTyped
<1>2. r \in Credential
  BY <1>1 DEF Credential
<1>3. r.at = "credential" /\ r.since = now /\ r.sid = s
  OBVIOUS
<1>4. request' = [request EXCEPT ![q] = r]
  OBVIOUS
<1> HIDE DEF r
<1>5. request'[q] = r /\ \A p \in Requests \ {q} : request'[p] = request[p]
  BY <1>4 DEF PanelInv, PanelTyped
<1>6. PanelTyped'
  BY <1>2, <1>4 DEF PanelInv, PanelTyped
<1>7. Names(q, s)'
  BY <1>3, <1>5 DEF Names, Live
<1>8. RequestInv(q)'
  BY <1>1, <1>3, <1>5, <1>7, Lives DEF RequestInv
<1>9. QED
  BY <1>1, <1>5, <1>6, <1>8, OthersKept, SessionsKept DEF PanelInv, ChangeEndsEarlierSessions, Live

LEMMA OwnerOfCredentialKeeps ==
  ASSUME PanelInv, NEW q \in Requests, OwnerOfCredential(q)
  PROVE  PanelInv'
<1> USE DEF OwnerOfCredential, accountVars
<1> DEFINE since == request[q].since
           s == request[q].sid
           r == [at |-> "authorised", since |-> since, sid |-> s, started |-> now,
                 remember |-> TRUE]
<1>1. now \in Nat /\ since \in Nat /\ s \in Sids
  BY DEF PanelInv, PanelTyped, Idle, Proved, Authorised, Credential
<1>2. r \in Authorised
  BY <1>1 DEF Authorised
<1>3. /\ r.at = "authorised" /\ r.since = since /\ r.sid = s
      /\ r.remember = TRUE /\ row[s].remember \in BOOLEAN
  BY <1>1 DEF PanelInv, PanelTyped, Row
<1>4. request[q] # Idle /\ request[q].at # "proved" /\ request[q].at # "authorised"
  BY DEF Idle
<1>5. since <= now /\ now <= since + Patience /\ Names(q, s)
  BY <1>4 DEF PanelInv, RequestInv
<1>6. request' = [request EXCEPT ![q] = IF account = "active" THEN r ELSE Idle]
  OBVIOUS
<1> HIDE DEF r
<1>7. /\ request'[q] = IF account = "active" THEN r ELSE Idle
      /\ \A p \in Requests \ {q} : request'[p] = request[p]
  BY <1>6 DEF PanelInv, PanelTyped
<1>8. PanelTyped'
  BY <1>2, <1>6 DEF PanelInv, PanelTyped
<1>9. account = "active" => Names(q, s)'
  BY <1>3, <1>4, <1>5, <1>7 DEF Names
<1>10. RequestInv(q)'
  BY <1>1, <1>3, <1>5, <1>7, <1>9 DEF RequestInv
<1>11. QED
  BY <1>1, <1>7, <1>8, <1>10, OthersKept, SessionsKept DEF PanelInv, ChangeEndsEarlierSessions, Live

\* What a renewal does to the row and the token of its session: the row, if it is live, ends
\* later, and the token is the old one or counts from the same sign-in.
LEMMA CarriedOn ==
  ASSUME PanelInv, NEW q \in Requests, request[q].at = "authorised", CarryOn(request[q]),
         NEW s \in Sids, s = request[q].sid, now' = now
  PROVE  /\ row' \in [Sids -> Row] /\ token' \in [Sids -> Token]
         /\ \A z \in Sids \ {s} : row'[z] = row[z] /\ token'[z] = token[z]
         /\ \A z \in Sids : /\ row[z].ends <= row'[z].ends
                            /\ row'[z] = [row[z] EXCEPT !.ends = row'[z].ends]
                            /\ row'[z].ends # row[z].ends => Live(z) /\ now <= row[z].ends + Patience
         /\ SessionInv(s)'
<1> DEFINE r == request[q]
           k == NewToken(r.started, r.remember, FALSE)
<1>1. /\ r.started \in Nat /\ r.remember \in BOOLEAN /\ r.since \in Nat
      /\ now \in Nat /\ row[s] \in Row /\ token[s] \in Token
  BY DEF PanelInv, PanelTyped, Idle, Proved, Authorised, Credential
<1>2. RequestInv(q) /\ SessionInv(s)
  BY <1>1 DEF PanelInv
<1>3. /\ r.since <= now /\ now <= r.since + Patience /\ r.since < row[s].ends
      /\ row[s].state \in {"live", "revoked"}
      /\ r.remember = row[s].remember
      /\ ~row[s].remember => r.started = row[s].created
  BY <1>2 DEF RequestInv, Names, Idle
<1>4. Agrees(s) /\ Outlives(s)
  BY <1>2, <1>3 DEF SessionInv
<1>5. now + RowLife(r.remember) \in Nat /\ row[s].ends <= now + RowLife(r.remember)
  BY <1>1, <1>3, <1>4, Lives DEF Agrees
<1>6. now <= row[s].ends + Patience /\ now + Life <= row[s].ends + Patience + Life - 1
  BY <1>1, <1>3, Lives DEF Row
<1>7. /\ k \in Token /\ k.exp = now + Life /\ k.remember = r.remember
      /\ ~r.remember => k.started = r.started
  BY <1>1, Lives DEF NewToken, Token
<1> HIDE DEF k
<1>8. \/ UNCHANGED <<row, token>>
      \/ /\ IsRenewable(r.started, r.remember)
         /\ row' = IF Live(s) THEN [row EXCEPT ![s].ends = now + RowLife(r.remember)] ELSE row
         /\ token' \in {token, [token EXCEPT ![s] = k]}
  BY DEF CarryOn, Extend, k
<1>9. /\ row' \in [Sids -> Row] /\ token' \in [Sids -> Token]
      /\ \A z \in Sids \ {s} : row'[z] = row[z] /\ token'[z] = token[z]
  BY <1>5, <1>7, <1>8 DEF PanelInv, PanelTyped, Row
<1>10. /\ row'[s].state = row[s].state /\ row'[s].created = row[s].created
       /\ row'[s].remember = row[s].remember
       /\ \/ row'[s].ends = row[s].ends
          \/ Live(s) /\ row'[s].ends = now + RowLife(r.remember)
       /\ row'[s] = [row[s] EXCEPT !.ends = row'[s].ends]
  <2>1. CASE row'[s] = row[s]
    BY <1>1, <2>1 DEF Row
  <2>2. CASE Live(s) /\ row' = [row EXCEPT ![s].ends = now + RowLife(r.remember)]
    <3>1. row'[s] = [row[s] EXCEPT !.ends = now + RowLife(r.remember)]
      BY <1>1, <2>2 DEF PanelInv, PanelTyped
    <3>2. QED
      BY <1>1, <2>2, <3>1 DEF Row
  <2>3. QED
    BY <1>8, <2>1, <2>2
<1>11. \/ token'[s] = token[s]
       \/ /\ token'[s] = k /\ now - r.started <= IF r.remember THEN RememberWindow ELSE Window
          /\ Live(s) => row'[s].ends = now + RowLife(r.remember)
  <2>1. token' = [token EXCEPT ![s] = k] => token'[s] = k
    BY DEF PanelInv, PanelTyped
  <2>2. token' = token => token'[s] = token[s]
    OBVIOUS
  <2>3. row' = [row EXCEPT ![s].ends = now + RowLife(r.remember)]
          => row'[s].ends = now + RowLife(r.remember)
    BY <1>1 DEF PanelInv, PanelTyped, Row
  <2>4. IsRenewable(r.started, r.remember)
          => now - r.started <= IF r.remember THEN RememberWindow ELSE Window
    BY DEF IsRenewable
  <2> HIDE DEF r
  <2>5. QED
    BY <1>8, <2>1, <2>2, <2>3, <2>4
<1>12. row[s].ends <= row'[s].ends /\ row'[s].ends <= now + RowLife(r.remember) /\ row'[s].ends \in Nat
  BY <1>1, <1>5, <1>10 DEF Row
<1>13. Agrees(s)'
  <2>1. token'[s].remember = row[s].remember
    BY <1>3, <1>4, <1>7, <1>11 DEF Agrees
  <2>2. ~row[s].remember => /\ token'[s].started = row[s].created
                            /\ token'[s].exp <= row[s].created + Window + Life
    <3>1. CASE token'[s] = token[s]
      BY <1>4, <3>1 DEF Agrees
    <3>2. CASE token'[s] = k /\ now - r.started <= IF r.remember THEN RememberWindow ELSE Window
      <4>1. ~row[s].remember => now - row[s].created <= Window
        BY <1>3, <3>2
      <4>2. ~row[s].remember => now + Life <= row[s].created + Window + Life
        BY <1>1, <4>1, Lives DEF Row
      <4>3. QED
        BY <1>3, <1>7, <3>2, <4>2
    <3>3. QED
      BY <1>11, <3>1, <3>2
  <2>3. QED
    BY <1>3, <1>10, <1>12, <2>1, <2>2 DEF Agrees, RowLife
<1>14. Outlives(s)'
  <2>1. row[s].state = "live" => token'[s].exp <= row'[s].ends
    <3>1. CASE token'[s] = token[s]
      BY <1>1, <1>4, <1>12, <3>1 DEF Outlives, Row, Token
    <3>2. CASE token'[s] = k /\ (Live(s) => row'[s].ends = now + RowLife(r.remember))
      BY <1>1, <1>7, <3>2, Lives DEF Live
    <3>3. QED
      BY <1>11, <3>1, <3>2
  <2>2. row[s].state = "revoked" => token'[s].exp <= row'[s].ends + Patience + Life - 1
    <3>1. row[s].state = "revoked" => row'[s].ends = row[s].ends
      BY <1>10 DEF Live
    <3>2. CASE token'[s] = token[s]
      BY <1>4, <3>1, <3>2 DEF Outlives
    <3>3. CASE token'[s] = k
      BY <1>6, <1>7, <3>1, <3>3
    <3>4. QED
      BY <1>11, <3>2, <3>3
  <2>3. QED
    BY <1>3, <1>10, <2>1, <2>2 DEF Outlives
<1>15. SessionInv(s)'
  BY <1>3, <1>10, <1>13, <1>14 DEF SessionInv
<1>16. ASSUME NEW z \in Sids
       PROVE  /\ row[z].ends <= row'[z].ends
              /\ row'[z] = [row[z] EXCEPT !.ends = row'[z].ends]
              /\ row'[z].ends # row[z].ends => Live(z) /\ now <= row[z].ends + Patience
  <2>1. CASE z = s
    BY <1>6, <1>10, <1>12, <2>1
  <2>2. CASE z # s
    <3>1. row'[z] = row[z] /\ row[z] \in Row
      BY <1>9, <2>2 DEF PanelInv, PanelTyped
    <3>2. QED
      BY <3>1 DEF Row
  <2>3. QED
    BY <2>1, <2>2
<1>17. QED
  BY <1>1, <1>9, <1>15, <1>16

LEMMA RenewKeeps ==
  ASSUME PanelInv, NEW q \in Requests, Renew(q)
  PROVE  PanelInv'
<1> USE DEF Renew, accountVars
<1>0. PICK s \in Sids : s = request[q].sid
  BY DEF PanelInv, PanelTyped, Idle, Proved, Authorised, Credential
<1>1. /\ row' \in [Sids -> Row] /\ token' \in [Sids -> Token]
      /\ \A z \in Sids \ {s} : row'[z] = row[z] /\ token'[z] = token[z]
      /\ \A z \in Sids : /\ row[z].ends <= row'[z].ends
                         /\ row'[z] = [row[z] EXCEPT !.ends = row'[z].ends]
      /\ SessionInv(s)'
  BY <1>0, CarriedOn
<1>2. PanelTyped'
  BY <1>1 DEF PanelInv, PanelTyped
<1>3. \A z \in Sids : /\ row'[z].state = row[z].state /\ row'[z].created = row[z].created
                      /\ row'[z].remember = row[z].remember /\ row'[z].opened = row[z].opened
                      /\ row'[z].ends \in Nat
  <2> SUFFICES ASSUME NEW z \in Sids
               PROVE  /\ row'[z].state = row[z].state /\ row'[z].created = row[z].created
                      /\ row'[z].remember = row[z].remember /\ row'[z].opened = row[z].opened
                      /\ row'[z].ends \in Nat
    OBVIOUS
  <2>1. row[z] \in Row /\ row'[z] \in Row
    BY <1>1 DEF PanelInv, PanelTyped
  <2>2. QED
    BY <1>1, <2>1 DEF Row
<1>4. \A z \in Sids : SessionInv(z)'
  <2>1. now \in Nat
    BY DEF PanelInv, PanelTyped
  <2>2. QED
    BY <1>1, <2>1, SessionKept DEF PanelInv
<1>5. ASSUME NEW p \in Requests
      PROVE  RequestInv(p)'
  <2>1. CASE p = q
    BY <2>1 DEF PanelInv, PanelTyped, RequestInv
  <2>2. CASE p # q
    <3>1. request'[p] = request[p]
      BY <2>2 DEF PanelInv, PanelTyped
    <3>2. QED
      BY <1>1, <1>3, <3>1, RequestKept DEF PanelInv
  <2>3. QED
    BY <2>1, <2>2
<1>6. ChangeEndsEarlierSessions'
  BY <1>3 DEF PanelInv, ChangeEndsEarlierSessions, Live
<1>7. QED
  BY <1>2, <1>4, <1>5, <1>6 DEF PanelInv

LEMMA LogoutKeeps ==
  ASSUME PanelInv, NEW s \in Sids, Logout(s)
  PROVE  PanelInv'
<1>1. UNCHANGED <<now, token, request, accountVars>> /\ row' = Revoked({s})
  BY DEF Logout
<1>2. PanelTyped'
  BY <1>1, RevokedRows DEF PanelInv, PanelTyped, accountVars
<1>3. \A z \in Sids : Live(z)' => Live(z) /\ row'[z].opened = row[z].opened
  <2> SUFFICES ASSUME NEW z \in Sids
               PROVE  Live(z)' => Live(z) /\ row'[z].opened = row[z].opened
    OBVIOUS
  <2>1. row[z] \in Row
    BY DEF PanelInv, PanelTyped
  <2>2. row'[z] = [row[z] EXCEPT !.state = row'[z].state]
    BY <1>1, RevokedRows DEF PanelInv
  <2>3. row'[z].state = IF z \in {s} /\ Live(z) THEN "revoked" ELSE row[z].state
    BY <1>1, RevokedRows DEF PanelInv
  <2>4. row'[z].opened = row[z].opened
    BY <2>1, <2>2 DEF Row
  <2> QED
    BY <2>3, <2>4 DEF Live
<1>4. ChangeEndsEarlierSessions'
  BY <1>1, <1>3, EarlierSessionsKept DEF PanelInv
<1>5. QED
  BY <1>2, <1>4, RevokingKeeps DEF PanelInv, Logout

LEMMA RevokeAllKeeps ==
  ASSUME PanelInv, NEW m \in Administrators, RevokeAll(m)
  PROVE  PanelInv'
<1>1. PanelTyped'
  BY RevokedRows DEF PanelInv, PanelTyped, RevokeAll
<1>2. \A s \in Sids : ~Live(s)'
  BY RevokedRows DEF PanelInv, RevokeAll, Live
<1>3. QED
  BY <1>1, <1>2, RevokingKeeps DEF PanelInv, RevokeAll, ChangeEndsEarlierSessions

\* What a step of m's request does to the account is one of: nothing, a change it has still
\* to revoke for, a change that spares the sessions, and the end of a revocation that failed.
LEMMA AccountKeeps ==
  ASSUME PanelInv, UNCHANGED <<now, row, token, request>>, PanelTyped',
         NEW m \in Administrators,
         \A n \in Administrators \ {m} : admin'[n] = admin[n],
         \/ admin[m] \notin Revoking /\ UNCHANGED <<changes, spared>>
         \/ /\ admin[m] \notin Revoking /\ changes' = changes + 1
            /\ \/ admin'[m] = [at |-> "revoking", change |-> changes + 1] /\ spared' = spared
               \/ spared' = spared \cup {changes + 1}
         \/ changes' = changes /\ spared' = spared \cup {admin[m].change}
  PROVE  PanelInv'
<1> DEFINE Pending(n, c) == admin[n] = [at |-> "revoking", change |-> c]
<1>1. ASSUME NEW s \in Sids, Live(s)', NEW c \in (row[s].opened + 1) .. changes'
      PROVE  c \in spared' \/ \E n \in Administrators : Pending(n, c)'
  <2>1. row[s].opened \in Nat /\ changes \in Nat
    BY DEF PanelInv, PanelTyped, Row
  <2>2. CASE c = changes + 1 /\ changes' = changes + 1
    BY <2>1, <2>2
  <2>3. CASE c \in (row[s].opened + 1) .. changes
    <3>1. Live(s)
      BY <1>1 DEF Live
    <3>2. c \in Nat
      BY <2>1, <2>3
    <3>3. c \in spared \/ \E n \in Administrators : Pending(n, c)
      BY <2>3, <3>1 DEF PanelInv, ChangeEndsEarlierSessions
    <3>4. ASSUME Pending(m, c)
          PROVE  c \in spared'
      <4>1. admin[m] \in Revoking /\ admin[m].change = c
        BY <3>2, <3>4 DEF Revoking
      <4>2. QED
        BY <4>1
    <3>5. \A n \in Administrators \ {m} : Pending(n, c) => Pending(n, c)'
      OBVIOUS
    <3>6. spared \subseteq spared'
      OBVIOUS
    <3>7. QED
      BY <3>3, <3>4, <3>5, <3>6
  <2>4. QED
    BY <1>1, <2>1, <2>2, <2>3
<1>2. ChangeEndsEarlierSessions'
  BY <1>1 DEF ChangeEndsEarlierSessions
<1>3. \A s \in Sids : SessionInv(s)'
  BY SessionsKept DEF PanelInv, PanelTyped
<1>4. \A q \in Requests : RequestInv(q)'
  <2>1. \A s \in Sids : row[s].ends \in Nat
    BY DEF PanelInv, PanelTyped, Row
  <2>2. QED
    BY <2>1, RequestKept DEF PanelInv
<1>5. QED
  BY <1>2, <1>3, <1>4 DEF PanelInv

LEMMA ChangesKeep ==
  ASSUME PanelInv, NEW m \in Administrators, Changes(m), admin[m] \notin Revoking,
         account' \in {"active", "blocked"}
  PROVE  PanelInv'
<1> USE DEF Changes
<1> DEFINE r == [at |-> "revoking", change |-> changes + 1]
<1>1. changes \in Nat /\ r \in Revoking
  BY DEF PanelInv, PanelTyped, Revoking
<1>2. admin' = [admin EXCEPT ![m] = r]
  OBVIOUS
<1>3. admin'[m] = r /\ \A n \in Administrators \ {m} : admin'[n] = admin[n]
  BY <1>2 DEF PanelInv, PanelTyped
<1> HIDE DEF r
<1>4. PanelTyped'
  BY <1>1, <1>2 DEF PanelInv, PanelTyped
<1>5. QED
  BY <1>3, <1>4, AccountKeeps DEF r

LEMMA ChangePasswordKeeps ==
  ASSUME PanelInv, NEW m \in Administrators, ChangePassword(m)
  PROVE  PanelInv'
<1>1. admin[m] \notin Revoking
  BY DEF ChangePassword, Idle, Revoking
<1>2. QED
  BY <1>1, ChangesKeep DEF ChangePassword, PanelInv, PanelTyped

LEMMA BlockKeeps ==
  ASSUME PanelInv, NEW m \in Administrators, Block(m)
  PROVE  PanelInv'
<1>1. admin[m] \notin Revoking
  BY DEF Block, Revoking
<1>2. QED
  BY <1>1, ChangesKeep DEF Block

LEMMA ReadStatusKeeps ==
  ASSUME PanelInv, NEW m \in Administrators, ReadStatus(m)
  PROVE  PanelInv'
<1> DEFINE r == [at |-> "read", status |-> account]
<1>1. r \in Reading
  BY DEF PanelInv, PanelTyped, Reading
<1>2. admin' = [admin EXCEPT ![m] = r]
  BY DEF ReadStatus
<1> HIDE DEF r
<1>3. PanelTyped'
  BY <1>1, <1>2 DEF ReadStatus, PanelInv, PanelTyped
<1>4. \A n \in Administrators \ {m} : admin'[n] = admin[n]
  BY <1>2 DEF PanelInv, PanelTyped
<1>5. admin[m] \notin Revoking
  BY DEF ReadStatus, Idle, Revoking
<1>6. QED
  BY <1>3, <1>4, <1>5, AccountKeeps DEF ReadStatus

LEMMA WriteBlockedKeeps ==
  ASSUME PanelInv, NEW m \in Administrators, WriteBlocked(m)
  PROVE  PanelInv'
<1> USE DEF WriteBlocked
<1>1. changes \in Nat /\ changes' \in Nat
  BY DEF PanelInv, PanelTyped
<1>2. PanelTyped'
  BY <1>1 DEF PanelInv, PanelTyped
<1>3. \A n \in Administrators \ {m} : admin'[n] = admin[n]
  BY DEF PanelInv, PanelTyped
<1>4. admin[m] \notin Revoking
  BY DEF Revoking
<1>5. CASE account = "active"
  <2>1. changes' = changes + 1 /\ spared' = spared \cup {changes + 1}
    BY <1>1, <1>5
  <2>2. QED
    BY <1>2, <1>3, <1>4, <2>1, AccountKeeps
<1>6. CASE account # "active"
  <2>1. changes' = changes /\ spared' = spared
    BY <1>1, <1>6
  <2>2. QED
    BY <1>2, <1>3, <1>4, <2>1, AccountKeeps
<1>7. QED
  BY <1>5, <1>6

LEMMA UnblockKeeps ==
  ASSUME PanelInv, Unblock
  PROVE  PanelInv'
<1> USE DEF Unblock
<1>1. PanelTyped' /\ ChangeEndsEarlierSessions'
  BY DEF PanelInv, PanelTyped, ChangeEndsEarlierSessions, Live
<1>2. now \in Nat /\ \A s \in Sids : row[s].ends \in Nat
  BY DEF PanelInv, PanelTyped, Row
<1>3. QED
  BY <1>1, <1>2, SessionsKept, RequestKept DEF PanelInv

LEMMA RevokeFailsKeeps ==
  ASSUME PanelInv, NEW m \in Administrators, RevokeFails(m)
  PROVE  PanelInv'
<1> USE DEF RevokeFails
<1>1. PanelTyped'
  BY DEF PanelInv, PanelTyped
<1>2. \A n \in Administrators \ {m} : admin'[n] = admin[n]
  BY DEF PanelInv, PanelTyped
<1>3. QED
  BY <1>1, <1>2, AccountKeeps

\* A row that goes has ended longer ago than a request takes and a token it may still issue
\* lasts: no request under way names it, and its token has run out.
LEMMA PurgeExpiredKeeps ==
  ASSUME PanelInv, PurgeExpired
  PROVE  PanelInv'
<1> DEFINE Goes(s) == row[s].state \in {"live", "revoked"} /\ row[s].ends < now - Keep
<1>1. UNCHANGED <<now, token, request, accountVars>>
  BY DEF PurgeExpired
<1>2. now \in Nat /\ \A s \in Sids : row[s] \in Row /\ token[s] \in Token
  BY DEF PanelInv, PanelTyped
<1>3. row' = [s \in Sids |-> IF Goes(s) THEN [row[s] EXCEPT !.state = "purged"] ELSE row[s]]
  BY DEF PurgeExpired
<1>4. row' \in [Sids -> Row] /\ \A s \in Sids : ~Goes(s) => row'[s] = row[s]
  BY <1>2, <1>3 DEF Row
<1>5. \A s \in Sids : /\ row'[s].ends = row[s].ends /\ row'[s].remember = row[s].remember
                      /\ row'[s].created = row[s].created /\ row'[s].opened = row[s].opened
                      /\ Goes(s) => row'[s].state = "purged"
  BY <1>2, <1>3 DEF Row
<1> HIDE DEF Goes
<1>6. PanelTyped'
  BY <1>1, <1>4 DEF PanelInv, PanelTyped, accountVars
<1>7. ASSUME NEW s \in Sids, Goes(s)
      PROVE  SessionInv(s)'
  <2>1. Agrees(s) /\ Outlives(s) /\ row[s].state \in {"live", "revoked"} /\ row[s].ends < now - Keep
    BY <1>7 DEF Goes, PanelInv, SessionInv
  <2>2. token[s].exp <= row[s].ends + Patience + Life - 1
    BY <1>2, <2>1, Lives DEF Outlives, Row, Token
  <2>3. token[s].exp <= now
    BY <1>2, <2>1, <2>2, Lives DEF Row, Token
  <2>4. Agrees(s)'
    BY <1>1, <1>5, <2>1 DEF Agrees, RowLife
  <2>5. QED
    BY <1>1, <1>5, <1>7, <2>3, <2>4 DEF SessionInv, Outlives
<1>8. \A s \in Sids : SessionInv(s)'
  <2>1. ASSUME NEW s \in Sids, ~Goes(s)
        PROVE  SessionInv(s)'
    BY <1>1, <1>2, <1>4, <2>1, SessionKept DEF PanelInv
  <2>2. QED
    BY <1>7, <2>1
<1>9. ASSUME NEW q \in Requests
      PROVE  RequestInv(q)'
  <2>1. CASE request[q] = Idle \/ request[q].at = "proved"
    BY <1>1, <2>1 DEF PanelInv, RequestInv
  <2>2. CASE request[q] # Idle /\ request[q].at # "proved"
    <3> DEFINE s == request[q].sid
    <3>1. s \in Sids /\ request[q].since \in Nat
      BY <2>2 DEF PanelInv, PanelTyped, Proved, Authorised, Credential
    <3>2. /\ request[q].since <= now /\ now <= request[q].since + Patience /\ Names(q, s)
      BY <2>2 DEF PanelInv, RequestInv
    <3>3. ~Goes(s)
      BY <1>2, <3>1, <3>2, Lives DEF Goes, Names, Row
    <3>4. Names(q, s)'
      BY <1>1, <1>4, <3>1, <3>2, <3>3 DEF Names
    <3>5. QED
      BY <1>1, <3>2, <3>4 DEF RequestInv
  <2>3. QED
    BY <2>1, <2>2
<1>10. \A s \in Sids : Live(s)' => Live(s) /\ row'[s].opened = row[s].opened
  BY <1>4, <1>5 DEF Live
<1>11. QED
  BY <1>1, <1>6, <1>8, <1>9, <1>10, EarlierSessionsKept DEF PanelInv

LEMMA TickKeeps ==
  ASSUME PanelInv, Tick
  PROVE  PanelInv'
<1> USE DEF Tick, accountVars
<1>1. now \in Nat /\ now' \in Nat /\ now <= now' /\ UNCHANGED <<row, token, request, accountVars>>
  BY DEF PanelInv, PanelTyped
<1>2. PanelTyped'
  BY <1>1 DEF PanelInv, PanelTyped
<1>3. \A s \in Sids : SessionInv(s)'
  BY <1>1, SessionsKept
<1>4. ASSUME NEW q \in Requests, request[q] # Idle
      PROVE  /\ request[q].since <= now' /\ now' <= request[q].since + Patience
             /\ request[q].at # "proved" => Names(q, request[q].sid)'
  <2>1. request[q].since \in Nat
    BY <1>4 DEF PanelInv, PanelTyped, Proved, Authorised, Credential
  <2>2. request[q].since <= now /\ now - request[q].since < Patience
    BY <1>4 DEF PanelInv, RequestInv
  <2>3. request[q].since <= now + 1 /\ now + 1 <= request[q].since + Patience
    BY <1>1, <2>1, <2>2, Lives
  <2>4. request[q].at # "proved" => Names(q, request[q].sid)
    BY <1>4 DEF PanelInv, RequestInv
  <2>5. QED
    BY <1>1, <2>3, <2>4 DEF Names
<1>5. \A q \in Requests : RequestInv(q)'
  BY <1>1, <1>4 DEF RequestInv
<1>6. ChangeEndsEarlierSessions'
  BY <1>1 DEF PanelInv, ChangeEndsEarlierSessions, Live
<1>7. QED
  BY <1>2, <1>3, <1>5, <1>6 DEF PanelInv

LEMMA PanelStep == PanelInv /\ [Next]_vars => PanelInv'
<1> SUFFICES ASSUME PanelInv, [Next]_vars
             PROVE  PanelInv'
  OBVIOUS
<1>1. CASE UNCHANGED vars
  <2>1. UNCHANGED <<now, row, token, request, accountVars>>
    BY <1>1 DEF vars
  <2>2. PanelTyped' /\ ChangeEndsEarlierSessions'
    BY <2>1 DEF PanelInv, PanelTyped, ChangeEndsEarlierSessions, Live, accountVars
  <2>3. now \in Nat /\ \A s \in Sids : row[s].ends \in Nat
    BY DEF PanelInv, PanelTyped, Row
  <2>4. QED
    BY <2>1, <2>2, <2>3, SessionsKept, RequestKept DEF PanelInv
<1>2. QED
  BY <1>1, CheckPasswordKeeps, OwnerOfCredentialKeeps, RenewKeeps, SignInKeeps, AuthoriseKeeps,
     SessionForRefreshKeeps, LogoutKeeps, ChangePasswordKeeps, ReadStatusKeeps, BlockKeeps,
     WriteBlockedKeeps, UnblockKeeps, RevokeAllKeeps, RevokeFailsKeeps, PurgeExpiredKeeps, TickKeeps
  DEF Next

\* Of MCSignedIn's two kinds of behaviour, the one leaves the sessions alone.
LEMMA SignedInIsSpec == SignedInSpec => Spec
<1>1. SignedInInit => Init
  BY DEF SignedInInit, NoSession
<1>2. [SignedInNext]_<<which, vars, signInVars, socketVars>> => [Next]_vars
  BY DEF SignedInNext
<1>3. QED
  BY <1>1, <1>2, PTL DEF SignedInSpec, Spec

LEMMA PanelIsInvariant == SignedInSpec => []PanelInv
<1>1. Spec => []PanelInv
  BY PanelInitially, PanelStep, PTL DEF Spec
<1>2. QED
  BY <1>1, SignedInIsSpec, PTL

\* No session outlives a change of its account that was to end it, a new password or a
\* block: it lives only while the request of the change has still to revoke, whatever
\* sign-ins, renewals and other administrators are under way; except where the revocation
\* failed, or the block came from a request that had read the account as blocked already
\* (panel_session.revoke_all, extend; user_routes.py:308).
THEOREM ChangesEndSessions == SignedInSpec => []ChangeEndsEarlierSessions
BY PanelIsInvariant, PTL DEF PanelInv

\* A token of a session that was not asked to stay signed in ends with the renewal window
\* of its sign-in and one token's life, through whichever route it was renewed; and the row
\* of a session is purged only when its token serves no more (session_lifetime.is_renewable,
\* panel_session.purge_expired).
THEOREM SessionsLastAsPromised == SignedInSpec => []SessionLastsAsPromised
<1>1. PanelInv => SessionLastsAsPromised
  <2> SUFFICES ASSUME PanelInv, NEW s \in Sids, row[s].state # "unopened"
               PROVE  /\ ~token[s].remember => token[s].exp <= row[s].created + Window + Life
                      /\ row[s].state = "purged" => ~Unexpired(s)
    BY DEF SessionLastsAsPromised, OrdinarySessionEnds, PurgeSparesTheUsable
  <2>1. Agrees(s) /\ Outlives(s)
    BY DEF PanelInv, SessionInv
  <2>2. now \in Nat /\ token[s].exp \in Nat
    BY DEF PanelInv, PanelTyped, Token
  <2>3. QED
    BY <2>1, <2>2 DEF Agrees, Outlives, Unexpired
<1>2. QED
  BY <1>1, PanelIsInvariant, PTL

\* A remembered session nobody used for its window is not revived: a step that moves its
\* end is a renewal whose request came before that end (session_for_refresh, extend).
THEOREM IdleSessionsStayOver == SignedInSpec => IdleSessionStaysOver
<1> DEFINE StaysOver == \A s \in Sids : row[s].remember /\ row'[s].ends > row[s].ends
                          => now <= row[s].ends + Patience
<1>1. PanelInv /\ [Next]_vars => [StaysOver]_vars
  <2> SUFFICES ASSUME PanelInv, Next, NEW s \in Sids, row[s].remember, row'[s].ends > row[s].ends
               PROVE  now <= row[s].ends + Patience
    OBVIOUS
  <2>1. row[s].ends \in Nat
    BY DEF PanelInv, PanelTyped, Row
  <2>2. row'[s].ends # row[s].ends
    BY <2>1
  <2>3. ASSUME NEW q \in Requests, Renew(q)
        PROVE  now <= row[s].ends + Patience
    <3>1. request[q].sid \in Sids
      BY <2>3 DEF Renew, PanelInv, PanelTyped, Idle, Proved, Authorised, Credential
    <3>2. QED
      BY <2>2, <2>3, <3>1, CarriedOn DEF Renew
  <2>4. ASSUME NEW q \in Requests, NEW z \in Sids, SignIn(q, z)
        PROVE  FALSE
    <3>1. row'[s] = row[s] \/ row[s].state = "unopened"
      BY <2>4 DEF SignIn, OpenSession, PanelInv, PanelTyped
    <3>2. QED
      BY <2>2, <3>1 DEF PanelInv, SessionInv
  <2>5. ASSUME NEW S, row' = Revoked(S)
        PROVE  FALSE
    <3>1. row[s] \in Row
      BY DEF PanelInv, PanelTyped
    <3>2. QED
      BY <2>2, <2>5, <3>1, RevokedRows DEF PanelInv, Row
  <2>6. ~PurgeExpired
    <3>1. row[s] \in Row
      BY DEF PanelInv, PanelTyped
    <3>2. PurgeExpired => row'[s] = row[s] \/ row'[s] = [row[s] EXCEPT !.state = "purged"]
      BY DEF PurgeExpired
    <3>3. QED
      BY <2>2, <3>1, <3>2 DEF Row
  <2>7. QED
    BY <2>2, <2>3, <2>4, <2>5, <2>6
    DEF Next, CheckPassword, OwnerOfCredential, Authorise, SessionForRefresh, Logout, ChangePassword,
        Changes, ReadStatus, Block, WriteBlocked, Unblock, RevokeAll, RevokeFails, Tick
<1>2. QED
  BY <1>1, PanelIsInvariant, SignedInIsSpec, PTL DEF Spec, IdleSessionStaysOver

-----------------------------------------------------------------------------
(* SignIn: the inductive invariant                                         *)

Code == SignsIn!Codes
Bare == [at : {"idle", "numbered", "proved", "challenged", "disabling"}]
Unlocked == [at : {"unlocked"}, seen : Nat]
Presented == [at : {"presented"}, for : {"verify", "disable"},
              code : (1 .. MaxSecrets) \X SignsIn!Steps]
Recovering == [at : {"recovering"}, code : Code, seen : SUBSET Code]
Beginning == [at : {"beginning"}, secret : 1 .. MaxSecrets]
Confirming == [at : {"confirming"}, secret : Nat, step : SignsIn!Steps]
Factor == [secret : 0 .. MaxSecrets, confirmed : BOOLEAN, last : Nat, recovery : SUBSET Code]

SignTyped ==
  /\ attempts \in [failures : Nat, last : Nat]
  /\ factor \in Factor
  /\ factor.confirmed => factor.secret > 0
  /\ call \in [Requests -> Bare \cup Unlocked \cup Presented \cup Recovering
                            \cup Beginning \cup Confirming]
  /\ spent \in [Code -> Nat]
  /\ undone \in BOOLEAN
  /\ secrets \in 0 .. MaxSecrets
  /\ hour \in Nat

\* The secret was drawn; recovery codes are of the factor's secret, and of one that is confirmed.
FactorInv ==
  /\ factor.secret <= secrets
  /\ factor.recovery \subseteq {factor.secret} \X Recoveries
  /\ factor.recovery # {} => factor.confirmed

Spent(k) == spent[k] > 0

\* A code is spent once; then its secret has been drawn, and while that is the factor's the
\* row refuses the code: its step is past, or it is off the list.
SpentInv(k) ==
  /\ spent[k] <= 1
  /\ Spent(k) =>
       /\ k[1] <= secrets
       /\ k[1] = factor.secret =>
            /\ factor.confirmed
            /\ k[2] \in SignsIn!Steps => k[2] <= factor.last
            /\ k \notin factor.recovery

\* A code that is presented is of a secret that was confirmed; a secret that was drawn and
\* is not yet written has never been anybody's.
CallInv(c) ==
  /\ call[c].at = "presented" =>
       /\ call[c].code[1] <= secrets
       /\ call[c].code[1] = factor.secret => factor.confirmed
  /\ call[c].at = "recovering" => call[c].code \in call[c].seen
  /\ call[c].at = "beginning" =>
       /\ call[c].secret \in 1 .. secrets
       /\ call[c].secret # factor.secret
       /\ \A k \in Code : Spent(k) => k[1] # call[c].secret
       /\ \A d \in Requests :
            /\ call[d].at = "presented" => call[d].code[1] # call[c].secret
            /\ call[d].at = "beginning" /\ d # c => call[d].secret # call[c].secret

\* A row written over another enrolment's (undone) is what the promise is made without.
CodesInv ==
  /\ SignTyped
  /\ \/ undone
     \/ /\ FactorInv
        /\ \A k \in Code : SpentInv(k)
        /\ \A c \in Requests : CallInv(c)

LEMMA SignBounds ==
  /\ MaxSecrets \in Nat /\ LastHour \in Nat
  /\ Recoveries \cap SignsIn!Steps = {}
  /\ SignsIn!Steps \subseteq Nat
  /\ Code = (1 .. MaxSecrets) \X SignsIn!Steps \cup ((1 .. MaxSecrets) \X Recoveries)
BY SignInAssumption DEF SignsIn!BoundsAssumption, SignsIn!Steps, Code, SignsIn!Codes

LEMMA CodesInitially == SignsIn!Init => CodesInv
<1> SUFFICES ASSUME SignsIn!Init
             PROVE  CodesInv
  OBVIOUS
<1>1. /\ spent = [k \in Code |-> 0]
      /\ attempts = [failures |-> 0, last |-> 0]
      /\ factor = [secret |-> 0, confirmed |-> FALSE, last |-> 0, recovery |-> {}]
      /\ call = [c \in Requests |-> [at |-> "idle"]]
      /\ undone = FALSE /\ secrets = 0 /\ hour = 1
  BY DEF SignsIn!Init, SignsIn!NoFactor, SignsIn!None, SignsIn!Idle, Code
<1>2. SignTyped
  <2>1. call \in [Requests -> Bare]
    BY <1>1 DEF Bare
  <2>2. factor \in Factor /\ ~factor.confirmed
    BY <1>1, SignBounds DEF Factor
  <2>3. spent \in [Code -> Nat]
    BY <1>1
  <2>4. attempts \in [failures : Nat, last : Nat]
    BY <1>1
  <2>5. secrets \in 0 .. MaxSecrets
    BY <1>1, SignBounds
  <2>6. undone \in BOOLEAN /\ hour \in Nat
    BY <1>1
  <2>7. QED
    BY <2>1, <2>2, <2>3, <2>4, <2>5, <2>6 DEF SignTyped
<1>3. FactorInv
  BY <1>1 DEF FactorInv
<1>4. \A k \in Code : SpentInv(k)
  BY <1>1 DEF SpentInv, Spent
<1>5. \A c \in Requests : CallInv(c)
  BY <1>1 DEF CallInv
<1>6. QED
  BY <1>2, <1>3, <1>4, <1>5 DEF CodesInv

\* What a call's part of the invariant rests on besides itself: that nobody else presents or
\* draws, and what becomes of the factor and of the codes that are spent.
LEMMA CallKept ==
  ASSUME NEW d \in Requests, CallInv(d), call'[d] = call[d], secrets' = secrets,
         \A e \in Requests : call'[e].at \in {"presented", "beginning"} => call'[e] = call[e],
         call[d].at = "presented" /\ call[d].code[1] = factor'.secret => factor'.confirmed,
         call[d].at = "beginning" =>
           /\ call[d].secret # factor'.secret
           /\ \A k \in Code : Spent(k)' => k[1] # call[d].secret
  PROVE  CallInv(d)'
BY DEF CallInv

\* The steps that leave the factor, the codes and the secrets alone, and present nothing.
LEMMA QuietKeeps ==
  ASSUME CodesInv, NEW c \in Requests, NEW to \in Bare \cup Unlocked \cup Confirming,
         call' = [call EXCEPT ![c] = to], UNCHANGED <<factor, spent, undone, secrets>>,
         attempts' \in [failures : Nat, last : Nat], hour' \in Nat
  PROVE  CodesInv'
<1>1. SignTyped'
  BY DEF CodesInv, SignTyped
<1>2. ~undone => FactorInv'
  BY DEF CodesInv, FactorInv
<1>3. to.at \notin {"presented", "recovering", "beginning"}
  BY DEF Bare, Unlocked, Confirming
<1>4. call'[c] = to /\ \A d \in Requests \ {c} : call'[d] = call[d]
  BY DEF CodesInv, SignTyped
<1>5. ASSUME ~undone, NEW k \in Code
      PROVE  SpentInv(k)'
  BY <1>5 DEF CodesInv, SpentInv, Spent
<1>6. ASSUME ~undone, NEW d \in Requests
      PROVE  CallInv(d)'
  <2>1. CASE d = c
    BY <1>3, <1>4, <2>1 DEF CallInv
  <2>2. CASE d # c
    <3>1. CallInv(d) /\ call'[d] = call[d]
      BY <1>4, <1>6, <2>2 DEF CodesInv
    <3>2. QED
      BY <1>3, <1>4, <3>1, CallKept DEF CallInv, Spent
  <2>3. QED
    BY <2>1, <2>2
<1>7. QED
  BY <1>1, <1>2, <1>5, <1>6 DEF CodesInv

LEMMA ThrottleKeeps ==
  ASSUME CodesInv, NEW c \in Requests,
         \/ SignsIn!Login(c) \/ SignsIn!LoginBlind(c) \/ SignsIn!Reserve(c)
         \/ SignsIn!ReserveFails(c) \/ SignsIn!Refuse(c) \/ SignsIn!Prove(c)
         \/ SignsIn!Answer(c) \/ SignsIn!Lapse(c) \/ SignsIn!Confirm(c)
  PROVE  CodesInv'
<1> USE DEF SignsIn!enrolment, SignsIn!throttle, SignsIn!Goes, SignsIn!Idle
<1>1. /\ attempts \in [failures : Nat, last : Nat] /\ hour \in Nat
      /\ factor.secret \in Nat
      /\ SignsIn!Acceptable(factor) \subseteq SignsIn!Steps
  BY SignBounds DEF CodesInv, SignTyped, Factor, SignsIn!Acceptable
<1>2. \A at \in {"idle", "numbered", "proved", "challenged", "disabling"} : [at |-> at] \in Bare
  BY DEF Bare
<1>3. \A n \in Nat : [at |-> "unlocked", seen |-> n] \in Unlocked
  BY DEF Unlocked
<1>4. CASE SignsIn!Login(c)
  BY <1>1, <1>3, <1>4, QuietKeeps DEF SignsIn!Login
<1>5. CASE SignsIn!LoginBlind(c)
  BY <1>1, <1>3, <1>5, QuietKeeps DEF SignsIn!LoginBlind
<1>6. CASE SignsIn!Reserve(c)
  <2>1. attempts' \in [failures : Nat, last : Nat]
    BY <1>1, <1>6 DEF SignsIn!Reserve, SignsIn!Counted
  <2>2. \E to \in Bare : call' = [call EXCEPT ![c] = to]
    BY <1>2, <1>6 DEF SignsIn!Reserve
  <2>3. QED
    BY <1>1, <1>6, <2>1, <2>2, QuietKeeps DEF SignsIn!Reserve
<1>7. CASE SignsIn!ReserveFails(c)
  BY <1>1, <1>2, <1>7, QuietKeeps DEF SignsIn!ReserveFails
<1>8. CASE SignsIn!Refuse(c)
  BY <1>1, <1>2, <1>8, QuietKeeps DEF SignsIn!Refuse
<1>9. CASE SignsIn!Prove(c)
  <2>1. attempts' \in [failures : Nat, last : Nat]
    BY <1>9 DEF SignsIn!Prove, SignsIn!None
  <2>2. QED
    BY <1>1, <1>2, <1>9, <2>1, QuietKeeps DEF SignsIn!Prove
<1>10. CASE SignsIn!Answer(c)
  <2>1. \E to \in Bare : call' = [call EXCEPT ![c] = to]
    BY <1>2, <1>10 DEF SignsIn!Answer
  <2>2. QED
    BY <1>1, <1>10, <2>1, QuietKeeps DEF SignsIn!Answer
<1>11. CASE SignsIn!Lapse(c)
  BY <1>1, <1>2, <1>11, QuietKeeps DEF SignsIn!Lapse
<1>12. CASE SignsIn!Confirm(c)
  <2>1. PICK k \in SignsIn!Acceptable(factor) :
          call' = [call EXCEPT ![c] = [at |-> "confirming", secret |-> factor.secret, step |-> k]]
    BY <1>12 DEF SignsIn!Confirm
  <2>2. [at |-> "confirming", secret |-> factor.secret, step |-> k] \in Confirming
    BY <1>1, <2>1 DEF Confirming
  <2>3. QED
    BY <1>1, <1>12, <2>1, <2>2, QuietKeeps DEF SignsIn!Confirm
<1>13. QED
  BY <1>4, <1>5, <1>6, <1>7, <1>8, <1>9, <1>10, <1>11, <1>12

LEMMA HourKeeps ==
  ASSUME CodesInv, SignsIn!Tick \/ UNCHANGED SignsIn!vars
  PROVE  CodesInv'
<1>1. UNCHANGED <<attempts, factor, spent, undone, secrets, call>> /\ hour' \in Nat
  BY DEF SignsIn!Tick, SignsIn!vars, SignsIn!throttle, SignsIn!enrolment, CodesInv, SignTyped
<1>2. SignTyped' /\ (~undone => FactorInv')
  BY <1>1 DEF CodesInv, SignTyped, FactorInv
<1>3. ASSUME ~undone, NEW k \in Code
      PROVE  SpentInv(k)'
  BY <1>1, <1>3 DEF CodesInv, SpentInv, Spent
<1>4. ASSUME ~undone, NEW c \in Requests
      PROVE  CallInv(c)'
  BY <1>1, <1>4, CallKept DEF CodesInv, CallInv, Spent
<1>5. QED
  BY <1>1, <1>2, <1>3, <1>4 DEF CodesInv

LEMMA PresentKeeps ==
  ASSUME CodesInv, NEW c \in Requests, NEW purpose \in {"verify", "disable"},
         SignsIn!Present(c, purpose)
  PROVE  CodesInv'
<1> USE DEF SignsIn!Present, SignsIn!enrolment, SignsIn!throttle, SignsIn!Goes
<1>1. /\ UNCHANGED <<hour, attempts, factor, spent, undone, secrets>>
      /\ factor.confirmed /\ factor.secret \in 1 .. MaxSecrets
      /\ ~undone => factor.secret <= secrets
  BY SignBounds DEF CodesInv, SignTyped, Factor, FactorInv
<1>2. \E to \in Presented \cup Recovering :
        /\ call' = [call EXCEPT ![c] = to]
        /\ to.at = "presented" => to.code[1] = factor.secret
        /\ to.at = "recovering" => to.code \in to.seen
        /\ to.at # "beginning"
  <2>1. ASSUME NEW k \in SignsIn!Acceptable(factor),
               call' = [call EXCEPT ![c] = [at |-> "presented", for |-> purpose,
                                            code |-> <<factor.secret, k>>]]
        PROVE  \E to \in Presented : /\ call' = [call EXCEPT ![c] = to]
                                     /\ to.at = "presented" /\ to.code[1] = factor.secret
    <3>1. k \in SignsIn!Steps
      BY DEF SignsIn!Acceptable
    <3>2. [at |-> "presented", for |-> purpose, code |-> <<factor.secret, k>>] \in Presented
      BY <1>1, <3>1 DEF Presented
    <3>3. QED
      BY <2>1, <3>2
  <2>2. ASSUME NEW r \in factor.recovery,
               call' = [call EXCEPT ![c] = [at |-> "recovering", code |-> r, seen |-> factor.recovery]]
        PROVE  \E to \in Recovering : /\ call' = [call EXCEPT ![c] = to]
                                      /\ to.at = "recovering" /\ to.code \in to.seen
    <3>1. factor.recovery \subseteq Code
      BY DEF CodesInv, SignTyped, Factor
    <3>2. [at |-> "recovering", code |-> r, seen |-> factor.recovery] \in Recovering
      BY <3>1 DEF Recovering
    <3>3. QED
      BY <2>2, <3>2
  <2>3. QED
    BY <2>1, <2>2
<1>3. PICK to \in Presented \cup Recovering :
        /\ call' = [call EXCEPT ![c] = to]
        /\ to.at = "presented" => to.code[1] = factor.secret
        /\ to.at = "recovering" => to.code \in to.seen
        /\ to.at # "beginning"
  BY <1>2
<1>4. call'[c] = to /\ \A d \in Requests \ {c} : call'[d] = call[d]
  BY <1>3 DEF CodesInv, SignTyped
<1>5. SignTyped' /\ (~undone => FactorInv')
  BY <1>1, <1>3 DEF CodesInv, SignTyped, FactorInv
<1>6. ASSUME ~undone, NEW k \in Code
      PROVE  SpentInv(k)'
  BY <1>1, <1>6 DEF CodesInv, SpentInv, Spent
<1>7. ASSUME ~undone, NEW d \in Requests
      PROVE  CallInv(d)'
  <2>1. CASE d = c
    BY <1>1, <1>3, <1>4, <1>7, <2>1 DEF CallInv, CodesInv, SignTyped
  <2>2. CASE d # c
    <3>1. CallInv(d) /\ call'[d] = call[d]
      BY <1>4, <1>7, <2>2 DEF CodesInv
    <3>2. QED
      BY <1>1, <1>3, <1>4, <3>1, <2>2 DEF CallInv, Spent
  <2>3. QED
    BY <2>1, <2>2
<1>8. QED
  BY <1>1, <1>5, <1>6, <1>7 DEF CodesInv

LEMMA BeginKeeps ==
  ASSUME CodesInv, NEW c \in Requests, SignsIn!Begin(c)
  PROVE  CodesInv'
<1> USE DEF SignsIn!Begin, SignsIn!throttle, SignsIn!Goes
<1> DEFINE to == [at |-> "beginning", secret |-> secrets + 1]
<1>1. /\ UNCHANGED <<hour, attempts, factor, spent, undone>>
      /\ secrets \in Nat /\ secrets' = secrets + 1 /\ secrets' \in 0 .. MaxSecrets
      /\ factor.secret \in Nat /\ (~undone => factor.secret <= secrets)
      /\ secrets + 1 \in 1 .. MaxSecrets
  BY SignBounds DEF CodesInv, SignTyped, Factor, FactorInv
<1>2. to \in Beginning /\ to.at = "beginning" /\ to.secret = secrets + 1
  BY <1>1 DEF Beginning
<1>3. call' = [call EXCEPT ![c] = to]
  OBVIOUS
<1> HIDE DEF to
<1>4. call'[c] = to /\ \A d \in Requests \ {c} : call'[d] = call[d]
  BY <1>3 DEF CodesInv, SignTyped
<1>5. SignTyped' /\ (~undone => FactorInv')
  BY <1>1, <1>2, <1>3 DEF CodesInv, SignTyped, FactorInv
<1>6. \A k \in Code : k[1] \in Nat
  BY SignBounds
<1>7. ASSUME ~undone, NEW k \in Code
      PROVE  SpentInv(k)'
  BY <1>1, <1>6, <1>7 DEF CodesInv, SpentInv, Spent
<1>8. ASSUME ~undone
      PROVE  \A k \in Code : Spent(k) => k[1] # secrets + 1
  BY <1>1, <1>6, <1>8 DEF CodesInv, SpentInv
<1>9. ASSUME ~undone, NEW d \in Requests \ {c}
      PROVE  /\ call[d].at = "presented" => call[d].code[1] \in Nat /\ call[d].code[1] <= secrets
             /\ call[d].at = "beginning" => call[d].secret \in 1 .. secrets
  <2>1. CallInv(d)
    BY <1>9 DEF CodesInv
  <2>2. call[d].at = "presented" => call[d].code[1] \in Nat
    BY SignBounds DEF CodesInv, SignTyped, Bare, Unlocked, Presented, Recovering, Beginning, Confirming
  <2>3. QED
    BY <2>1, <2>2 DEF CallInv
<1>10. ASSUME ~undone, NEW d \in Requests
       PROVE  CallInv(d)'
  <2>1. CASE d = c
    <3>1. \A e \in Requests \ {c} :
            /\ call[e].at = "presented" => call[e].code[1] # secrets + 1
            /\ call[e].at = "beginning" => call[e].secret # secrets + 1
      BY <1>1, <1>9, <1>10
    <3>2. secrets + 1 \in 1 .. secrets' /\ secrets + 1 # factor.secret
      BY <1>1, <1>10
    <3>3. QED
      BY <1>1, <1>2, <1>4, <1>8, <1>10, <2>1, <3>1, <3>2 DEF CallInv, Spent
  <2>2. CASE d # c
    <3>1. CallInv(d) /\ call'[d] = call[d]
      BY <1>4, <1>10, <2>2 DEF CodesInv
    <3>2. call[d].at = "presented" => call[d].code[1] <= secrets'
      BY <1>1, <1>9, <1>10, <2>2
    <3>3. call[d].at = "beginning" => call[d].secret \in 1 .. secrets' /\ call[d].secret # secrets + 1
      BY <1>1, <1>9, <1>10, <2>2
    <3>4. QED
      BY <1>1, <1>2, <1>4, <3>1, <3>2, <3>3 DEF CallInv, Spent
  <2>3. QED
    BY <2>1, <2>2
<1>11. QED
  BY <1>1, <1>5, <1>7, <1>10 DEF CodesInv

\* A call that ends a statement presents and draws nothing, so the others' parts rest on what
\* it did to the factor and the codes.
LEMMA StatementKeeps ==
  ASSUME CodesInv, NEW c \in Requests, NEW to \in Bare, call' = [call EXCEPT ![c] = to],
         UNCHANGED <<hour, attempts, secrets>>,
         factor' \in Factor, factor'.confirmed => factor'.secret > 0,
         spent' \in [Code -> Nat], undone' \in BOOLEAN,
         ~undone' =>
           /\ ~undone /\ FactorInv'
           /\ \A k \in Code : SpentInv(k)'
           /\ \A d \in Requests \ {c} :
                /\ call[d].at = "presented" /\ call[d].code[1] = factor'.secret => factor'.confirmed
                /\ call[d].at = "beginning" =>
                     /\ call[d].secret # factor'.secret
                     /\ \A k \in Code : Spent(k)' => k[1] # call[d].secret
  PROVE  CodesInv'
<1>1. SignTyped'
  BY DEF CodesInv, SignTyped
<1>2. to.at \notin {"presented", "recovering", "beginning"}
  BY DEF Bare
<1>3. call'[c] = to /\ \A d \in Requests \ {c} : call'[d] = call[d]
  BY DEF CodesInv, SignTyped
<1>4. ASSUME ~undone', NEW d \in Requests
      PROVE  CallInv(d)'
  <2>1. CASE d = c
    BY <1>2, <1>3, <2>1 DEF CallInv
  <2>2. CASE d # c
    <3>1. CallInv(d) /\ call'[d] = call[d]
      BY <1>3, <1>4, <2>2 DEF CodesInv
    <3>2. QED
      BY <1>2, <1>3, <1>4, <2>2, <3>1, CallKept
  <2>3. QED
    BY <2>1, <2>2
<1>5. QED
  BY <1>1, <1>4 DEF CodesInv

\* A code that lets in is counted once more, the others as they were.
LEMMA LetInCounts ==
  ASSUME SignTyped, NEW code \in Code, SignsIn!LetIn(code)
  PROVE  /\ spent' \in [Code -> Nat]
         /\ \A k \in Code : spent'[k] = IF k = code THEN spent[k] + 1 ELSE spent[k]
BY DEF SignTyped, SignsIn!LetIn

LEMMA ClaimStepKeeps ==
  ASSUME CodesInv, NEW c \in Requests, SignsIn!ClaimStep(c)
  PROVE  CodesInv'
<1> USE DEF SignsIn!ClaimStep, SignsIn!throttle, SignsIn!Goes
<1>0. PICK code \in (1 .. MaxSecrets) \X SignsIn!Steps : code = call[c].code
  BY DEF CodesInv, SignTyped, Bare, Unlocked, Presented, Recovering, Beginning, Confirming
<1>1. /\ code \in Code /\ code[1] \in 1 .. MaxSecrets
      /\ code[2] \in Nat /\ code[2] \in SignsIn!Steps
  BY SignBounds
<1>2. PICK to \in Bare : call' = [call EXCEPT ![c] = to]
  BY DEF SignsIn!Idle, Bare
<1>3. UNCHANGED <<hour, attempts, secrets>> /\ SignTyped /\ call[c].at = "presented"
  BY DEF CodesInv
<1>4. CASE UNCHANGED <<factor, spent, undone>>
  <2>1. /\ factor' \in Factor /\ (factor'.confirmed => factor'.secret > 0)
        /\ spent' \in [Code -> Nat] /\ undone' \in BOOLEAN
    BY <1>3, <1>4 DEF SignTyped
  <2>2. ~undone => /\ FactorInv' /\ \A k \in Code : SpentInv(k)'
                   /\ \A d \in Requests : CallInv(d)
    BY <1>3, <1>4 DEF CodesInv, SpentInv, Spent, FactorInv
  <2>3. QED
    BY <1>2, <1>3, <1>4, <2>1, <2>2, StatementKeeps DEF CallInv, Spent
<1>5. CASE /\ factor.secret > 0 /\ factor.last < code[2]
           /\ factor' = [factor EXCEPT !.last = code[2]]
           /\ undone' = (undone \/ factor.secret # code[1])
           /\ SignsIn!LetIn(code)
  <2>1. /\ factor' \in Factor /\ (factor'.confirmed => factor'.secret > 0)
        /\ factor'.secret = factor.secret /\ factor'.confirmed = factor.confirmed
        /\ factor'.recovery = factor.recovery /\ factor'.last = code[2] /\ factor.last \in Nat
    BY <1>1, <1>3, <1>5 DEF SignTyped, Factor
  <2>2. ~undone => FactorInv /\ FactorInv'
    BY <1>3, <2>1 DEF CodesInv, FactorInv
  <2>3. /\ spent' \in [Code -> Nat]
        /\ \A k \in Code : spent'[k] = IF k = code THEN spent[k] + 1 ELSE spent[k]
    BY <1>1, <1>3, <1>5, LetInCounts
  <2>4. undone' \in BOOLEAN
    BY <1>3, <1>5 DEF SignTyped
  <2>5. ASSUME ~undone'
        PROVE  /\ ~undone
               /\ FactorInv' /\ \A k \in Code : SpentInv(k)'
               /\ \A d \in Requests \ {c} :
                    /\ call[d].at = "presented" /\ call[d].code[1] = factor'.secret => factor'.confirmed
                    /\ call[d].at = "beginning" =>
                         /\ call[d].secret # factor'.secret
                         /\ \A k \in Code : Spent(k)' => k[1] # call[d].secret
    <3>1. ~undone /\ factor.secret = code[1]
      BY <1>3, <1>5, <2>5 DEF SignTyped
    <3>2. (\A k \in Code : SpentInv(k)) /\ (\A d \in Requests : CallInv(d))
      BY <3>1 DEF CodesInv
    <3>3. factor.confirmed /\ code[1] <= secrets
      BY <1>0, <1>3, <3>1, <3>2 DEF CallInv
    <3>4. spent[code] = 0
      <4>1. Spent(code) => code[2] <= factor.last
        BY <1>1, <3>1, <3>2 DEF SpentInv
      <4>2. ~Spent(code)
        BY <1>1, <1>5, <2>1, <4>1
      <4>3. QED
        BY <1>1, <1>3, <4>2 DEF Spent, SignTyped
    <3>5. SpentInv(code)'
      <4>1. code \notin factor.recovery
        BY <1>1, <2>2, <3>1, SignBounds DEF FactorInv
      <4>2. QED
        BY <1>1, <1>3, <2>1, <2>3, <3>3, <3>4, <4>1 DEF SpentInv, Spent
    <3>6. ASSUME NEW k \in Code, k # code
          PROVE  SpentInv(k)'
      <4>1. SpentInv(k) /\ spent'[k] = spent[k]
        BY <2>3, <3>2, <3>6
      <4>2. k[2] \in SignsIn!Steps /\ k[2] <= factor.last => k[2] <= code[2]
        BY <1>1, <1>5, <2>1, SignBounds
      <4>3. QED
        BY <1>3, <2>1, <4>1, <4>2 DEF SpentInv, Spent
    <3>7. ASSUME NEW d \in Requests, call[d].at = "beginning"
          PROVE  \A k \in Code : Spent(k)' => k[1] # call[d].secret
      <4>1. code[1] # call[d].secret
        BY <1>0, <1>3, <3>2, <3>7 DEF CallInv
      <4>2. QED
        BY <2>3, <3>2, <3>7, <4>1 DEF CallInv, Spent
    <3>8. QED
      BY <2>1, <2>2, <3>1, <3>2, <3>5, <3>6, <3>7 DEF CallInv
  <2>6. QED
    BY <1>2, <1>3, <2>1, <2>2, <2>3, <2>4, <2>5, StatementKeeps
<1>6. QED
  BY <1>0, <1>4, <1>5

LEMMA ClaimRecoveryKeeps ==
  ASSUME CodesInv, NEW c \in Requests, SignsIn!ClaimRecovery(c)
  PROVE  CodesInv'
<1>0. PICK code \in Code : code = call[c].code
  BY DEF SignsIn!ClaimRecovery, CodesInv, SignTyped, Bare, Unlocked, Presented, Recovering, Beginning,
         Confirming
<1>1. PICK to \in Bare : call' = [call EXCEPT ![c] = to]
  BY DEF SignsIn!Idle, Bare, SignsIn!ClaimRecovery, SignsIn!Goes
<1>2. /\ UNCHANGED <<hour, attempts, secrets>> /\ undone' = undone /\ SignTyped
      /\ call[c].at = "recovering"
  BY DEF CodesInv, SignsIn!ClaimRecovery, SignsIn!throttle
<1>3. CASE UNCHANGED <<factor, spent>>
  <2>1. /\ factor' \in Factor /\ (factor'.confirmed => factor'.secret > 0)
        /\ spent' \in [Code -> Nat] /\ undone' \in BOOLEAN
    BY <1>2, <1>3 DEF SignTyped
  <2>2. ~undone => /\ FactorInv' /\ \A k \in Code : SpentInv(k)'
                   /\ \A d \in Requests : CallInv(d)
    BY <1>2, <1>3 DEF CodesInv, SpentInv, Spent, FactorInv
  <2>3. QED
    BY <1>1, <1>2, <1>3, <2>1, <2>2, StatementKeeps DEF CallInv, Spent
<1>4. CASE /\ factor.recovery = call[c].seen
           /\ factor' = [factor EXCEPT !.recovery = @ \ {code}]
           /\ SignsIn!LetIn(code)
  <2>1. /\ factor' \in Factor /\ (factor'.confirmed => factor'.secret > 0)
        /\ factor'.secret = factor.secret /\ factor'.confirmed = factor.confirmed
        /\ factor'.recovery = factor.recovery \ {code} /\ factor'.last = factor.last
    BY <1>2, <1>4 DEF SignTyped, Factor
  <2>2. ~undone => FactorInv /\ FactorInv'
    BY <1>2, <2>1 DEF CodesInv, FactorInv
  <2>3. /\ spent' \in [Code -> Nat]
        /\ \A k \in Code : spent'[k] = IF k = code THEN spent[k] + 1 ELSE spent[k]
    BY <1>2, <1>4, LetInCounts
  <2>4. ASSUME ~undone
        PROVE  /\ \A k \in Code : SpentInv(k)'
               /\ \A d \in Requests \ {c} :
                    /\ call[d].at = "presented" /\ call[d].code[1] = factor'.secret => factor'.confirmed
                    /\ call[d].at = "beginning" =>
                         /\ call[d].secret # factor'.secret
                         /\ \A k \in Code : Spent(k)' => k[1] # call[d].secret
    <3>1. (\A k \in Code : SpentInv(k)) /\ (\A d \in Requests : CallInv(d))
      BY <2>4 DEF CodesInv
    <3>2. code \in factor.recovery
      BY <1>0, <1>2, <1>4, <3>1 DEF CallInv
    <3>3. factor.confirmed /\ code[1] = factor.secret /\ code[2] \in Recoveries
      BY <2>2, <2>4, <3>2 DEF FactorInv
    <3>4. spent[code] = 0
      <4>1. ~Spent(code)
        BY <1>2, <3>1, <3>2, <3>3 DEF SpentInv
      <4>2. QED
        BY <1>2, <4>1 DEF Spent, SignTyped
    <3>5. SpentInv(code)'
      BY <1>2, <2>1, <2>2, <2>3, <2>4, <3>3, <3>4, SignBounds DEF SpentInv, Spent, FactorInv
    <3>6. ASSUME NEW k \in Code, k # code
          PROVE  SpentInv(k)'
      <4>1. SpentInv(k) /\ spent'[k] = spent[k]
        BY <2>3, <3>1, <3>6
      <4>2. QED
        BY <1>2, <2>1, <4>1 DEF SpentInv, Spent
    <3>7. ASSUME NEW d \in Requests, call[d].at = "beginning"
          PROVE  \A k \in Code : Spent(k)' => k[1] # call[d].secret
      <4>1. code[1] # call[d].secret
        BY <3>1, <3>3, <3>7 DEF CallInv
      <4>2. QED
        BY <2>3, <3>1, <3>7, <4>1 DEF CallInv, Spent
    <3>8. QED
      BY <2>1, <3>1, <3>3, <3>5, <3>6, <3>7 DEF CallInv
  <2>5. undone' \in BOOLEAN
    BY <1>2 DEF SignTyped
  <2>6. QED
    BY <1>1, <1>2, <2>1, <2>2, <2>3, <2>4, <2>5, StatementKeeps
<1>5. QED
  BY <1>0, <1>3, <1>4 DEF SignsIn!ClaimRecovery

LEMMA DisableKeeps ==
  ASSUME CodesInv, NEW c \in Requests, SignsIn!Disable(c)
  PROVE  CodesInv'
<1>1. PICK to \in Bare : call' = [call EXCEPT ![c] = to]
  BY DEF SignsIn!Idle, Bare, SignsIn!Disable, SignsIn!Goes
<1>2. /\ UNCHANGED <<hour, attempts, secrets>> /\ undone' = undone /\ spent' = spent /\ SignTyped
      /\ factor' = [secret |-> 0, confirmed |-> FALSE, last |-> 0, recovery |-> {}]
  BY DEF SignsIn!Disable, SignsIn!throttle, CodesInv, SignsIn!NoFactor
<1>3. /\ factor' \in Factor /\ ~factor'.confirmed
      /\ factor'.secret = 0 /\ FactorInv'
  BY <1>2, SignBounds DEF SignTyped, Factor, FactorInv
<1>4. \A k \in Code : k[1] \in Nat /\ k[1] # 0
  BY SignBounds
<1>5. ASSUME ~undone, NEW k \in Code
      PROVE  SpentInv(k)'
  BY <1>2, <1>3, <1>4, <1>5 DEF CodesInv, SpentInv, Spent
<1>6. ASSUME ~undone, NEW d \in Requests
      PROVE  /\ call[d].at = "presented" => call[d].code[1] # 0
             /\ call[d].at = "beginning" =>
                  /\ call[d].secret # 0
                  /\ \A k \in Code : Spent(k)' => k[1] # call[d].secret
  <2>1. call[d].at = "presented" => call[d].code[1] # 0
    BY <1>2 DEF SignTyped, Bare, Unlocked, Presented, Recovering, Beginning, Confirming
  <2>2. QED
    BY <1>2, <1>6, <2>1 DEF CodesInv, CallInv, Spent
<1>7. QED
  BY <1>1, <1>2, <1>3, <1>5, <1>6, StatementKeeps DEF SignTyped

LEMMA ReplaceKeeps ==
  ASSUME CodesInv, NEW c \in Requests, SignsIn!Replace(c)
  PROVE  CodesInv'
<1>0. PICK z \in 1 .. MaxSecrets : z = call[c].secret
  BY DEF SignsIn!Replace, CodesInv, SignTyped, Bare, Unlocked, Presented, Recovering, Beginning, Confirming
<1>1. PICK to \in Bare : call' = [call EXCEPT ![c] = to]
  BY DEF SignsIn!Idle, Bare, SignsIn!Replace, SignsIn!Goes
<1>2. /\ UNCHANGED <<hour, attempts, secrets>> /\ spent' = spent /\ SignTyped
      /\ undone' = (undone \/ factor.confirmed) /\ undone' \in BOOLEAN
      /\ call[c].at = "beginning"
      /\ factor' = [secret |-> z, confirmed |-> FALSE, last |-> 0, recovery |-> {}]
  BY <1>0 DEF SignsIn!Replace, SignsIn!throttle, CodesInv, SignsIn!NoFactor, SignTyped, Factor
<1>3. factor' \in Factor /\ ~factor'.confirmed /\ factor'.secret = z /\ factor'.recovery = {}
  <2>1. z \in 0 .. MaxSecrets
    BY SignBounds
  <2>2. QED
    BY <1>2, <2>1 DEF Factor
<1>4. ASSUME ~undone'
      PROVE  /\ ~undone /\ FactorInv'
             /\ \A k \in Code : SpentInv(k)'
             /\ \A d \in Requests \ {c} :
                  /\ call[d].at = "presented" => call[d].code[1] # z
                  /\ call[d].at = "beginning" =>
                       /\ call[d].secret # z
                       /\ \A k \in Code : Spent(k)' => k[1] # call[d].secret
  <2>1. /\ ~undone /\ \A k \in Code : SpentInv(k)
        /\ \A d \in Requests : CallInv(d)
    BY <1>2, <1>4 DEF CodesInv
  <2>2. /\ z <= secrets /\ \A k \in Code : Spent(k) => k[1] # z
        /\ \A d \in Requests \ {c} :
             /\ call[d].at = "presented" => call[d].code[1] # z
             /\ call[d].at = "beginning" => call[d].secret # z
    BY <1>0, <1>2, <2>1 DEF CallInv
  <2>3. \A k \in Code : SpentInv(k)'
    BY <1>2, <1>3, <2>1, <2>2 DEF SpentInv, Spent
  <2>4. QED
    BY <1>2, <1>3, <2>1, <2>2, <2>3 DEF FactorInv, CallInv, Spent
<1>5. QED
  BY <1>1, <1>2, <1>3, <1>4, StatementKeeps DEF SignTyped

LEMMA ConfirmedKeeps ==
  ASSUME CodesInv, NEW c \in Requests, SignsIn!Confirmed(c)
  PROVE  CodesInv'
<1>1. PICK to \in Bare : call' = [call EXCEPT ![c] = to]
  BY DEF SignsIn!Idle, Bare, SignsIn!Confirmed, SignsIn!Goes
<1>2. /\ UNCHANGED <<hour, attempts, secrets>> /\ spent' = spent /\ SignTyped
      /\ factor.secret \in 0 .. MaxSecrets /\ call[c].step \in SignsIn!Steps /\ call[c].step \in Nat
      /\ undone' \in BOOLEAN
  BY SignBounds DEF SignsIn!Confirmed, SignsIn!throttle, CodesInv, SignTyped, Factor, Bare, Unlocked, Presented,
         Recovering, Beginning, Confirming
<1>3. factor.secret > 0 =>
        factor' = [factor EXCEPT !.confirmed = TRUE, !.last = call[c].step,
                                 !.recovery = {factor.secret} \X Recoveries]
  BY <1>2 DEF SignsIn!Confirmed
<1>4. /\ factor' \in Factor /\ factor'.secret = factor.secret
      /\ factor'.confirmed => factor'.secret > 0
  <2>1. CASE factor.secret = 0
    BY <1>2, <2>1 DEF SignTyped, SignsIn!Confirmed
  <2>2. CASE factor.secret > 0
    <3>1. {factor.secret} \X Recoveries \subseteq Code
      BY <1>2, <2>2, SignBounds
    <3>2. QED
      BY <1>2, <1>3, <2>2, <3>1 DEF SignTyped, Factor
  <2>3. QED
    BY <1>2, <2>1, <2>2
<1>5. ASSUME ~undone'
      PROVE  /\ ~undone /\ FactorInv'
             /\ \A k \in Code : SpentInv(k)'
             /\ \A d \in Requests : CallInv(d)
             /\ factor.confirmed => factor'.confirmed
  <2>1. /\ ~undone /\ FactorInv /\ \A k \in Code : SpentInv(k)
        /\ \A d \in Requests : CallInv(d)
    BY <1>5 DEF CodesInv, SignsIn!Confirmed
  <2>2. CASE factor.secret = 0
    <3>1. factor' = factor
      BY <2>2 DEF SignsIn!Confirmed
    <3>2. QED
      BY <1>2, <2>1, <3>1 DEF FactorInv, SpentInv, Spent
  <2>3. CASE factor.secret > 0
    <3>1. ~factor.confirmed
      BY <1>5, <2>3 DEF SignsIn!Confirmed
    <3>2. factor'.confirmed /\ factor'.recovery = {factor.secret} \X Recoveries
      BY <1>2, <1>3, <2>3 DEF SignTyped, Factor
    <3>3. ASSUME NEW k \in Code
          PROVE  SpentInv(k)'
      BY <1>2, <1>4, <2>1, <3>1 DEF SpentInv, Spent
    <3>4. QED
      BY <1>2, <1>4, <2>1, <3>1, <3>2, <3>3 DEF FactorInv
  <2>4. QED
    BY <1>2, <2>2, <2>3
<1>6. QED
  BY <1>1, <1>2, <1>4, <1>5, StatementKeeps DEF CallInv, Spent, SignTyped

LEMMA CodesStep == CodesInv /\ [SignsIn!Next]_(SignsIn!vars) => CodesInv'
BY ThrottleKeeps, HourKeeps, PresentKeeps, BeginKeeps, ClaimStepKeeps, ClaimRecoveryKeeps,
   DisableKeeps, ReplaceKeeps, ConfirmedKeeps DEF SignsIn!Next

\* Whoever presents it and however many at a time, a code or a recovery code lets in once,
\* unless the account enrolled anew between the reading of the row and the statement
\* (mfa.verify_for_user).
THEOREM CodesLetInOnce == SignedInSpec => []CodeLetsInOnce
<1> DEFINE Inv == which = "signing in" => CodesInv
<1>1. SignedInInit => Inv
  BY CodesInitially DEF SignedInInit
<1>2. Inv /\ [SignedInNext]_<<which, vars, signInVars, socketVars>> => Inv'
  <2>1. UNCHANGED signInVars => UNCHANGED SignsIn!vars
    BY DEF signInVars, SignsIn!vars
  <2>2. QED
    BY <2>1, CodesStep DEF SignedInNext
<1>3. Inv => CodeLetsInOnce
  <2> SUFFICES ASSUME CodesInv, ~undone, NEW k \in SignsIn!Codes
               PROVE  spent[k] <= 1
    BY DEF CodeLetsInOnce, SignsIn!CodeLetsInOnce
  <2>1. QED
    BY DEF CodesInv, SpentInv, Code
<1>4. QED
  BY <1>1, <1>2, <1>3, PTL DEF SignedInSpec

-----------------------------------------------------------------------------
(* SignIn: how many passwords are looked at                                *)

Looks == DOMAIN checked
Counts(i) == checked[i].number # 0
Uncounted == {i \in Looks : ~Counts(i)}

ThrottleTyped ==
  /\ hour \in Nat /\ errors \in Nat
  /\ attempts \in [failures : Nat, last : Nat]
  /\ checked \in Seq([at : Nat, number : Nat])

\* What the row still knows of a look it counted: a number up to its own, unless the
\* lockout has passed since.
Remembered(i) ==
  /\ checked[i].number <= MaxAttempts
  /\ checked[i].at <= attempts.last
  /\ attempts.failures > 0
  /\ attempts.last < checked[i].at + Lockout => checked[i].number <= attempts.failures

\* Of two looks less than the lockout apart, the later has the higher number; and of those
\* without a number each cost a failing statement.
ThrottleInv ==
  /\ ThrottleTyped
  /\ attempts.last <= hour
  /\ Cardinality(Uncounted) <= errors
  /\ \A i \in Looks : Counts(i) => Remembered(i)
  /\ \A i, j \in Looks :
       i < j /\ Counts(i) /\ Counts(j) /\ checked[j].at < checked[i].at + Lockout
         => checked[i].number < checked[j].number

LEMMA ThrottleBounds ==
  MaxAttempts \in Nat \ {0} /\ Lockout \in Nat \ {0} /\ MaxErrors \in Nat
BY SignInAssumption DEF SignsIn!BoundsAssumption

LEMMA LooksTyped ==
  ASSUME ThrottleTyped
  PROVE  /\ Looks = 1 .. Len(checked) /\ Len(checked) \in Nat
         /\ \A i \in Looks : /\ i \in Nat /\ checked[i] \in [at : Nat, number : Nat]
                            /\ checked[i].at \in Nat /\ checked[i].number \in Nat
<1>1. Looks = 1 .. Len(checked) /\ Len(checked) \in Nat
  BY DEF ThrottleTyped, Looks
<1>2. \A i \in 1 .. Len(checked) : checked[i] \in [at : Nat, number : Nat]
  BY ElementOfSeq, Zenon DEF ThrottleTyped
<1> QED
  BY <1>1, <1>2

LEMMA UncountedAreFinite ==
  ASSUME ThrottleTyped
  PROVE  IsFiniteSet(Uncounted) /\ Cardinality(Uncounted) \in Nat
<1>1. Looks = 1 .. Len(checked) /\ Len(checked) \in Nat
  BY LooksTyped
<1>2. IsFiniteSet(1 .. Len(checked))
  BY <1>1, FS_Interval
<1>3. Uncounted \in SUBSET (1 .. Len(checked))
  BY <1>1 DEF Uncounted
<1>4. IsFiniteSet(Uncounted)
  BY <1>2, <1>3, FS_Subset
<1> QED
  BY <1>4, FS_CardinalityType

\* A look at a password, with a number or without.
LEMMA LooksAtAdds ==
  ASSUME ThrottleTyped, NEW n \in Nat, SignsIn!LooksAt(n)
  PROVE  /\ checked' \in Seq([at : Nat, number : Nat])
         /\ Looks' = Looks \cup {Len(checked) + 1}
         /\ checked'[Len(checked) + 1] = [at |-> hour, number |-> n]
         /\ \A i \in Looks : i \in Nat /\ i < Len(checked) + 1 /\ checked'[i] = checked[i]
         /\ Uncounted' = Uncounted \cup (IF n = 0 THEN {Len(checked) + 1} ELSE {})
<1>1. checked' = Append(checked, [at |-> hour, number |-> n])
  BY DEF SignsIn!LooksAt
<1>2. [at |-> hour, number |-> n] \in [at : Nat, number : Nat]
  BY DEF ThrottleTyped
<1>3. /\ checked \in Seq([at : Nat, number : Nat]) /\ Len(checked) \in Nat
      /\ Looks = 1 .. Len(checked)
  BY DEF ThrottleTyped, Looks
<1>4. /\ checked' \in Seq([at : Nat, number : Nat])
      /\ Len(checked') = Len(checked) + 1
      /\ checked'[Len(checked) + 1] = [at |-> hour, number |-> n]
      /\ \A i \in 1 .. Len(checked) : checked'[i] = checked[i]
  BY <1>1, <1>2, <1>3
<1>5. Looks' = 1 .. Len(checked) + 1
  BY <1>4 DEF Looks
<1>6. Looks' = Looks \cup {Len(checked) + 1}
  BY <1>3, <1>5
<1>7. \A i \in Looks : i \in Nat /\ i < Len(checked) + 1 /\ checked'[i] = checked[i]
  BY <1>3, <1>4
<1>8. Uncounted' = Uncounted \cup (IF n = 0 THEN {Len(checked) + 1} ELSE {})
  BY <1>4, <1>6, <1>7 DEF Uncounted, Counts
<1> QED
  BY <1>4, <1>6, <1>7, <1>8

LEMMA ReserveNumbers ==
  ASSUME ThrottleInv, NEW c \in Requests, SignsIn!Reserve(c)
  PROVE  ThrottleInv'
<1> DEFINE n == SignsIn!Counted.failures
           k == Len(checked) + 1
<1> USE ThrottleBounds
<1>1. /\ hour' = hour /\ errors' = errors /\ attempts' = SignsIn!Counted
      /\ hour \in Nat /\ errors \in Nat /\ attempts.last <= hour
      /\ attempts.failures \in Nat /\ attempts.last \in Nat
  BY DEF SignsIn!Reserve, ThrottleInv, ThrottleTyped
<1>2. n \in Nat \ {0} /\ attempts'.failures = n /\ attempts'.last = hour
      /\ attempts' \in [failures : Nat, last : Nat]
  BY <1>1 DEF SignsIn!Counted
\* What is remembered still is, and has a lower number where the lockout has not passed.
<1>3. ASSUME NEW i \in Looks, Counts(i)
      PROVE  /\ checked[i].number <= MaxAttempts /\ checked[i].at <= hour
             /\ hour < checked[i].at + Lockout => checked[i].number < n
  <2>1. Remembered(i) /\ checked[i] \in [at : Nat, number : Nat]
    BY <1>3, LooksTyped DEF ThrottleInv
  <2>2. QED
    BY <1>1, <2>1 DEF Remembered, SignsIn!Counted
<1>4. CASE n > MaxAttempts
  <2>1. checked' = checked
    BY <1>4 DEF SignsIn!Reserve
  <2>2. ThrottleTyped' /\ (attempts.last <= hour)'
    BY <1>1, <1>2, <2>1 DEF ThrottleInv, ThrottleTyped
  <2>3. (Cardinality(Uncounted) <= errors)'
    BY <1>1, <2>1 DEF ThrottleInv, Uncounted, Looks, Counts
  <2>4. ASSUME NEW i \in Looks', Counts(i)'
        PROVE  Remembered(i)'
    <3>1. i \in Looks /\ Counts(i)
      BY <2>1, <2>4 DEF Looks, Counts
    <3>2. QED
      BY <1>2, <1>3, <2>1, <3>1, LooksTyped DEF Remembered, ThrottleInv
  <2>5. QED
    BY <2>1, <2>2, <2>3, <2>4 DEF ThrottleInv, Looks, Counts
<1>5. CASE ~(n > MaxAttempts)
  <2>1. SignsIn!LooksAt(n)
    BY <1>5 DEF SignsIn!Reserve
  <2>2. /\ checked' \in Seq([at : Nat, number : Nat])
        /\ Looks' = Looks \cup {k} /\ checked'[k] = [at |-> hour, number |-> n]
        /\ \A i \in Looks : i \in Nat /\ i < k /\ checked'[i] = checked[i]
        /\ Uncounted' = Uncounted
    BY <1>2, <2>1, LooksAtAdds DEF ThrottleInv
  <2>3. \A i \in Looks : checked[i] \in [at : Nat, number : Nat]
    BY LooksTyped DEF ThrottleInv
  <2> HIDE DEF n, k
  <2>4. ThrottleTyped' /\ (attempts.last <= hour)'
    BY <1>1, <1>2, <2>2 DEF ThrottleTyped
  <2>5. (Cardinality(Uncounted) <= errors)'
    BY <1>1, <2>2 DEF ThrottleInv
  <2>6. ASSUME NEW i \in Looks', Counts(i)'
        PROVE  Remembered(i)'
    <3>1. CASE i = k
      BY <1>2, <1>5, <2>2, <3>1, <1>1 DEF Remembered
    <3>2. CASE i \in Looks
      <4>1. checked'[i] = checked[i] /\ Counts(i)
        BY <2>2, <2>6, <3>2 DEF Counts
      <4>2. QED
        BY <1>2, <1>3, <2>3, <3>2, <4>1 DEF Remembered
    <3>3. QED
      BY <2>2, <2>6, <3>1, <3>2
  <2>7. ASSUME NEW i \in Looks', NEW j \in Looks', i < j, Counts(i)', Counts(j)',
               checked'[j].at < checked'[i].at + Lockout
        PROVE  checked'[i].number < checked'[j].number
    <3>0. k \in Nat
      BY DEF k, ThrottleInv, ThrottleTyped
    <3>1. i \in Looks /\ checked'[i] = checked[i] /\ Counts(i)
      BY <2>2, <2>7, <3>0 DEF Counts
    <3>2. CASE j = k
      BY <1>3, <2>2, <2>7, <3>1, <3>2
    <3>3. CASE j \in Looks
      BY <2>2, <2>7, <3>1, <3>3 DEF ThrottleInv, Counts
    <3>4. QED
      BY <2>2, <3>2, <3>3
  <2>8. QED
    BY <2>4, <2>5, <2>6, <2>7 DEF ThrottleInv
<1>6. QED
  BY <1>4, <1>5

\* The attempt that could not be counted is paid for with a failing statement.
LEMMA BlindLookIsPaidFor ==
  ASSUME ThrottleInv, NEW c \in Requests, SignsIn!ReserveFails(c)
  PROVE  ThrottleInv'
<1> DEFINE k == Len(checked) + 1
<1>1. /\ hour' = hour /\ errors' = errors + 1 /\ attempts' = attempts
      /\ errors \in Nat /\ SignsIn!LooksAt(0)
  BY DEF SignsIn!ReserveFails, ThrottleInv, ThrottleTyped
<1>2. /\ checked' \in Seq([at : Nat, number : Nat])
      /\ Looks' = Looks \cup {k} /\ checked'[k] = [at |-> hour, number |-> 0]
      /\ \A i \in Looks : checked'[i] = checked[i]
      /\ Uncounted' = Uncounted \cup {k}
  BY <1>1, LooksAtAdds DEF ThrottleInv
<1> HIDE DEF k
<1>3. \A i \in Looks' : Counts(i)' => i \in Looks /\ Counts(i) /\ checked'[i] = checked[i]
  BY <1>2 DEF Counts
<1>4. (Cardinality(Uncounted) <= errors)'
  <2>1. IsFiniteSet(Uncounted) /\ Cardinality(Uncounted) \in Nat
    BY UncountedAreFinite DEF ThrottleInv
  <2>2. Cardinality(Uncounted \cup {k}) \in {Cardinality(Uncounted), Cardinality(Uncounted) + 1}
    BY <2>1, FS_AddElement, Zenon
  <2>3. IsFiniteSet(Uncounted \cup {k}) /\ Cardinality(Uncounted \cup {k}) \in Nat
    BY <2>1, FS_AddElement, FS_CardinalityType
  <2>4. Cardinality(Uncounted) <= errors
    BY DEF ThrottleInv
  <2>5. QED
    BY <1>1, <1>2, <2>1, <2>2, <2>3, <2>4
<1>5. ThrottleTyped' /\ (attempts.last <= hour)'
  BY <1>1, <1>2 DEF ThrottleInv, ThrottleTyped
<1>6. \A i \in Looks' : Counts(i)' => Remembered(i)'
  BY <1>1, <1>3 DEF ThrottleInv, Remembered
<1>7. QED
  BY <1>3, <1>4, <1>5, <1>6 DEF ThrottleInv

LEMMA ThrottleInitially == SignsIn!Init => ThrottleInv
<1> SUFFICES ASSUME SignsIn!Init
             PROVE  ThrottleInv
  OBVIOUS
<1>1. /\ hour = 1 /\ errors = 0 /\ checked = <<>>
      /\ attempts = [failures |-> 0, last |-> 0]
  BY DEF SignsIn!Init, SignsIn!None
<1>2. Looks = {} /\ Uncounted = {}
  BY <1>1 DEF Looks, Uncounted
<1>3. QED
  BY <1>1, <1>2, FS_EmptySet DEF ThrottleInv, ThrottleTyped

\* A success starts anew.
LEMMA ProveForgets ==
  ASSUME ThrottleInv, NEW c \in Requests, SignsIn!Prove(c)
  PROVE  ThrottleInv'
<1>1. /\ hour' = hour /\ errors' = errors /\ checked' = <<>>
      /\ attempts' = [failures |-> 0, last |-> 0]
  BY DEF SignsIn!Prove, SignsIn!None
<1>2. Looks' = {} /\ Uncounted' = {}
  BY <1>1 DEF Looks, Uncounted
<1>3. Cardinality({}) = 0
  BY FS_EmptySet
<1>4. QED
  BY <1>1, <1>2, <1>3 DEF ThrottleInv, ThrottleTyped

\* What leaves the row and the looks alone, whatever the time and however much fails.
LEMMA ThrottleRests ==
  ASSUME ThrottleInv, UNCHANGED <<attempts, checked>>,
         hour' \in Nat, hour' >= hour, errors' \in Nat, errors' >= errors
  PROVE  ThrottleInv'
<1>1. ThrottleTyped' /\ (attempts.last <= hour)'
  BY DEF ThrottleInv, ThrottleTyped
<1>2. Looks' = Looks /\ Uncounted' = Uncounted /\ (\A i : Counts(i)' = Counts(i))
  BY DEF Looks, Uncounted, Counts
<1>3. Cardinality(Uncounted) \in Nat /\ errors \in Nat
  BY UncountedAreFinite DEF ThrottleInv, ThrottleTyped
<1>4. QED
  BY <1>1, <1>2, <1>3 DEF ThrottleInv, Remembered

LEMMA ThrottleStep == ThrottleInv /\ [SignsIn!Next]_(SignsIn!vars) => ThrottleInv'
<1> SUFFICES ASSUME ThrottleInv, [SignsIn!Next]_(SignsIn!vars)
             PROVE  ThrottleInv'
  OBVIOUS
<1>1. hour \in Nat /\ errors \in Nat
  BY DEF ThrottleInv, ThrottleTyped
<1>2. ASSUME NEW c \in Requests,
             \/ SignsIn!Login(c) \/ SignsIn!LoginBlind(c) \/ SignsIn!Refuse(c)
             \/ SignsIn!Answer(c) \/ SignsIn!Present(c, "verify") \/ SignsIn!Present(c, "disable")
             \/ SignsIn!Lapse(c) \/ SignsIn!ClaimStep(c) \/ SignsIn!ClaimRecovery(c)
             \/ SignsIn!Disable(c) \/ SignsIn!Begin(c) \/ SignsIn!Replace(c)
             \/ SignsIn!Confirm(c) \/ SignsIn!Confirmed(c)
      PROVE  UNCHANGED <<attempts, checked, hour>> /\ errors' \in {errors, errors + 1}
  BY <1>2 DEF SignsIn!throttle, SignsIn!Login, SignsIn!LoginBlind, SignsIn!Refuse, SignsIn!Answer,
     SignsIn!Present, SignsIn!Lapse, SignsIn!ClaimStep, SignsIn!ClaimRecovery, SignsIn!Disable,
     SignsIn!Begin, SignsIn!Replace, SignsIn!Confirm, SignsIn!Confirmed
<1>3. SignsIn!Tick \/ UNCHANGED SignsIn!vars
        => UNCHANGED <<attempts, checked, errors>> /\ hour' \in {hour, hour + 1}
  BY DEF SignsIn!Tick, SignsIn!vars, SignsIn!throttle
<1>4. QED
  BY <1>1, <1>2, <1>3, ThrottleRests, ReserveNumbers, BlindLookIsPaidFor, ProveForgets DEF SignsIn!Next

\* However many calls arrive at once, in any span as long as the lockout no more passwords of
\* a name are looked at than the limit allows, but for one more for each statement of the
\* throttle that failed (login_throttle.reserve_attempt).
THEOREM AttemptsStayLimited == SignedInSpec => []AttemptsAreLimited
<1> DEFINE Inv == which = "signing in" => ThrottleInv
<1>1. SignedInInit => Inv
  BY ThrottleInitially DEF SignedInInit
<1>2. Inv /\ [SignedInNext]_<<which, vars, signInVars, socketVars>> => Inv'
  <2>1. UNCHANGED signInVars => UNCHANGED SignsIn!vars
    BY DEF signInVars, SignsIn!vars
  <2>2. QED
    BY <2>1, ThrottleStep DEF SignedInNext
<1>3. Inv => AttemptsAreLimited
  <2> SUFFICES ASSUME ThrottleInv, NEW t \in 1 .. LastHour
               PROVE  Cardinality({i \in DOMAIN checked :
                        t <= checked[i].at /\ checked[i].at < t + Lockout}) <= MaxAttempts + errors
    <3> SUFFICES ASSUME ThrottleInv
                 PROVE  SignsIn!AttemptsAreLimited
      BY DEF AttemptsAreLimited
    <3>1. \A S : SignsIn!Cardinality(S) = Cardinality(S)
      BY DEF SignsIn!Cardinality, Cardinality
    <3>2. QED
      BY <3>1 DEF SignsIn!AttemptsAreLimited
  <2> DEFINE span == {i \in DOMAIN checked : t <= checked[i].at /\ checked[i].at < t + Lockout}
             of == [i \in span \ Uncounted |-> checked[i].number]
  <2>1. \A i \in span : i \in Looks /\ i \in Nat /\ checked[i] \in [at : Nat, number : Nat]
    BY LooksTyped DEF ThrottleInv, Looks
  <2>2. of \in Injection(span \ Uncounted, 1 .. MaxAttempts)
    <3>1. \A i \in span \ Uncounted : Counts(i) /\ Remembered(i) /\ checked[i].number \in Nat
      BY <2>1 DEF ThrottleInv, Uncounted
    <3>2. of \in [span \ Uncounted -> 1 .. MaxAttempts]
      BY <3>1, ThrottleBounds DEF Counts, Remembered
    <3>3. ASSUME NEW i \in span \ Uncounted, NEW j \in span \ Uncounted, i < j
          PROVE  of[i] # of[j]
      <4>1. checked[j].at < checked[i].at + Lockout
        BY <2>1, ThrottleBounds
      <4>2. checked[i].number < checked[j].number
        BY <2>1, <3>1, <3>3, <4>1 DEF ThrottleInv
      <4>3. QED
        BY <3>1, <4>2
    <3>4. \A i, j \in span \ Uncounted : of[i] = of[j] => i = j
      BY <2>1, <3>3
    <3>5. QED
      BY <3>2, <3>4, Zenon DEF Injection, IsInjective
  <2>3. /\ IsFiniteSet(1 .. MaxAttempts) /\ Cardinality(1 .. MaxAttempts) = MaxAttempts
    BY ThrottleBounds, FS_Interval
  <2>4. /\ IsFiniteSet(span \ Uncounted) /\ Cardinality(span \ Uncounted) <= MaxAttempts
    BY <2>2, <2>3, FS_Injection
  <2>5. IsFiniteSet(Uncounted) /\ Cardinality(Uncounted) \in Nat /\ Cardinality(Uncounted) <= errors
    BY UncountedAreFinite DEF ThrottleInv
  <2>6. span \subseteq (span \ Uncounted) \cup Uncounted
    OBVIOUS
  <2> HIDE DEF span
  <2>7. /\ IsFiniteSet((span \ Uncounted) \cup Uncounted)
        /\ Cardinality((span \ Uncounted) \cup Uncounted) =
             Cardinality(span \ Uncounted) + Cardinality(Uncounted)
               - Cardinality((span \ Uncounted) \cap Uncounted)
    BY <2>4, <2>5, FS_Union
  <2>8. Cardinality((span \ Uncounted) \cap Uncounted) = 0
    <3>1. (span \ Uncounted) \cap Uncounted = {}
      OBVIOUS
    <3>2. QED
      BY <3>1, FS_EmptySet
  <2>9. Cardinality(span) <= Cardinality((span \ Uncounted) \cup Uncounted)
    BY <2>6, <2>7, FS_Subset
  <2>10. Cardinality(span \ Uncounted) \in Nat /\ IsFiniteSet(span) /\ Cardinality(span) \in Nat
    BY <2>4, <2>6, <2>7, FS_Subset, FS_CardinalityType
  <2>11. QED
    BY <2>4, <2>5, <2>7, <2>8, <2>9, <2>10, ThrottleBounds DEF span, ThrottleInv, ThrottleTyped
<1>4. QED
  BY <1>1, <1>2, <1>3, PTL DEF SignedInSpec

-----------------------------------------------------------------------------
(* SocketSessions: the sockets a revocation must reach                     *)

Socket ==
  {Connected!Away, Connected!Gone}
    \cup [at : {"admitted"}, replica : Replicas, sid : Sids]
    \cup [at : {"held"}, replica : Replicas, sid : Sids, untold : BOOLEAN]

SocketsTyped ==
  /\ socket \in [Sockets -> Socket]
  /\ revoked \subseteq Sids
  /\ inbox \in [Replicas -> SUBSET [origin : Replicas, kind : {Connected!Kind}]]
  /\ listening \in [Replicas -> BOOLEAN]
  /\ due \in [Replicas -> BOOLEAN] /\ publishing \in [Replicas -> BOOLEAN]
  /\ woken \in [Replicas -> BOOLEAN]
  /\ sweeper \in [Replicas -> {Connected!Waiting} \cup [at : {"reading", "closing"}, held : SUBSET Sockets]]

\* What keeps a socket whose session is over from being overlooked.
Reached(r, w) ==
  socket[w].untold \/ Connected!Underway(r, w) \/ Connected!OnItsWay(r)

HeldAt(r, w) == socket[w].at = "held" /\ socket[w].replica = r

NoneOverlooked ==
  \A r \in Replicas, w \in Sockets : HeldAt(r, w) /\ socket[w].sid \in revoked => Reached(r, w)

SocketsInv == SocketsTyped /\ NoneOverlooked

LEMMA SocketsInitially == Connected!Init => SocketsInv
BY DEF Connected!Init, Connected!BusInit, SocketsInv, SocketsTyped, NoneOverlooked, Socket, HeldAt,
       Connected!Away, Connected!Gone, Connected!Waiting

\* Those a replica cannot tell are marked, and nothing else of a socket changes.
LEMMA UntoldSockets ==
  ASSUME SocketsTyped, NEW R
  PROVE  /\ Connected!Untold(R) \in [Sockets -> Socket]
         /\ \A w \in Sockets : LET told == Connected!Untold(R)[w] IN
              /\ told.at = socket[w].at
              /\ told.at = "held" =>
                   /\ told.replica = socket[w].replica /\ told.sid = socket[w].sid
                   /\ told.untold = (socket[w].untold \/ (told.replica \in R /\ told.sid \in revoked))
<1> DEFINE told == Connected!Untold(R)
<1>1. ASSUME NEW w \in Sockets
      PROVE  /\ told[w] \in Socket
             /\ told[w].at = socket[w].at
             /\ told[w].at = "held" =>
                  /\ told[w].replica = socket[w].replica /\ told[w].sid = socket[w].sid
                  /\ told[w].untold = (socket[w].untold \/ (told[w].replica \in R /\ told[w].sid \in revoked))
  <2>1. socket[w] \in Socket
    BY DEF SocketsTyped
  <2>2. told[w] = IF socket[w].at = "held" /\ socket[w].replica \in R /\ socket[w].sid \in revoked
                  THEN [socket[w] EXCEPT !.untold = TRUE] ELSE socket[w]
    BY DEF Connected!Untold
  <2> HIDE DEF told
  <2>3. CASE socket[w].at = "held"
    <3>1. socket[w] \in [at : {"held"}, replica : Replicas, sid : Sids, untold : BOOLEAN]
      BY <2>1, <2>3 DEF Socket, Connected!Away, Connected!Gone
    <3>2. CASE socket[w].replica \in R /\ socket[w].sid \in revoked
      BY <2>2, <2>3, <3>1, <3>2 DEF Socket
    <3>3. CASE ~(socket[w].replica \in R /\ socket[w].sid \in revoked)
      BY <2>2, <2>3, <3>1, <3>3 DEF Socket
    <3> QED
      BY <3>2, <3>3
  <2>4. CASE socket[w].at # "held"
    BY <2>1, <2>2, <2>4
  <2> QED
    BY <2>3, <2>4
<1>2. told = [w \in Sockets |-> told[w]]
  BY DEF Connected!Untold
<1> QED
  BY <1>1, <1>2

LEMMA SocketComesAndGoes ==
  ASSUME SocketsInv, NEW w \in Sockets,
         \/ Connected!Hold(w) \/ Connected!Disconnect(w)
         \/ \E r \in Replicas, s \in Sids : Connected!Connect(w, r, s)
  PROVE  SocketsInv'
<1>1. /\ UNCHANGED <<listening, inbox, revoked, due, publishing, woken, sweeper>>
      /\ \A z \in Sockets \ {w} : socket'[z] = socket[z]
  BY DEF SocketsInv, SocketsTyped, Connected!Hold, Connected!Disconnect, Connected!Connect, Connected!busVars,
         Connected!replicaVars
<1>2. socket' = [socket EXCEPT ![w] = socket'[w]]
  BY DEF SocketsInv, SocketsTyped, Connected!Hold, Connected!Disconnect, Connected!Connect
<1>3. /\ socket'[w] \in Socket
      /\ socket'[w].at = "held" /\ socket'[w].sid \in revoked => socket'[w].untold
  <2>1. CASE Connected!Hold(w)
    <3>1. socket[w] \in [at : {"admitted"}, replica : Replicas, sid : Sids]
      BY <2>1 DEF SocketsInv, SocketsTyped, Socket, Connected!Hold, Connected!Away, Connected!Gone
    <3>2. socket'[w] = [at |-> "held", replica |-> socket[w].replica, sid |-> socket[w].sid,
                        untold |-> socket[w].sid \in revoked]
      BY <2>1 DEF SocketsInv, SocketsTyped, Connected!Hold
    <3>3. PICK over \in BOOLEAN : over <=> socket[w].sid \in revoked
      OBVIOUS
    <3>4. socket'[w] \in [at : {"held"}, replica : Replicas, sid : Sids, untold : BOOLEAN]
      BY <3>1, <3>2
    <3>5. socket'[w].sid = socket[w].sid /\ socket'[w].untold = (socket[w].sid \in revoked)
      BY <3>2
    <3> QED
      BY <3>4, <3>5 DEF Socket
  <2>2. CASE Connected!Disconnect(w)
    <3>1. socket'[w] = Connected!Gone
      BY <2>2 DEF SocketsInv, SocketsTyped, Connected!Disconnect
    <3> QED
      BY <3>1 DEF Socket, Connected!Gone
  <2>3. ASSUME NEW r \in Replicas, NEW s \in Sids, Connected!Connect(w, r, s)
        PROVE  socket'[w] \in Socket /\ socket'[w].at # "held"
    <3>1. socket'[w] = [at |-> "admitted", replica |-> r, sid |-> s]
      BY <2>3 DEF SocketsInv, SocketsTyped, Connected!Connect
    <3> QED
      BY <3>1 DEF Socket
  <2> QED
    BY <2>1, <2>2, <2>3
<1>4. SocketsTyped'
  BY <1>1, <1>2, <1>3 DEF SocketsInv, SocketsTyped
<1>5. ASSUME NEW r \in Replicas, NEW z \in Sockets, HeldAt(r, z)', socket'[z].sid \in revoked'
      PROVE  Reached(r, z)'
  <2>1. CASE z = w
    BY <1>1, <1>3, <1>5, <2>1 DEF HeldAt, Reached
  <2>2. CASE z # w
    <3>1. Reached(r, z)
      BY <1>1, <1>5, <2>2 DEF SocketsInv, NoneOverlooked, HeldAt
    <3> QED
      BY <1>1, <2>2, <3>1 DEF Reached, Connected!Underway, Connected!OnItsWay
  <2> QED
    BY <2>1, <2>2
<1> QED
  BY <1>4, <1>5 DEF SocketsInv, NoneOverlooked

LEMMA RevokeKeeps ==
  ASSUME SocketsInv, NEW r \in Replicas, NEW S \in SUBSET Sids, Connected!Revoke(r, S)
  PROVE  SocketsInv'
<1>1. /\ UNCHANGED <<listening, inbox, socket, publishing, woken, sweeper>>
      /\ revoked' = revoked \cup S /\ due' = [due EXCEPT ![r] = TRUE]
  BY DEF Connected!Revoke, Connected!busVars
<1>2. SocketsTyped'
  BY <1>1 DEF SocketsInv, SocketsTyped
<1>3. due'[r]
  BY <1>1 DEF SocketsInv, SocketsTyped
<1>4. ASSUME NEW q \in Replicas, NEW w \in Sockets
      PROVE  Reached(q, w)'
  BY <1>3 DEF Reached, Connected!Underway, Connected!OnItsWay
<1> QED
  BY <1>2, <1>4 DEF SocketsInv, NoneOverlooked

LEMMA SetAndPublishKeeps ==
  ASSUME SocketsInv, NEW r \in Replicas, Connected!SetAndPublish(r)
  PROVE  SocketsInv'
<1>1. /\ UNCHANGED <<listening, inbox, socket, revoked, sweeper>>
      /\ due' = [due EXCEPT ![r] = FALSE] /\ woken' = [woken EXCEPT ![r] = TRUE]
      /\ publishing' = [publishing EXCEPT ![r] = TRUE]
  BY DEF Connected!SetAndPublish, Connected!busVars
<1>2. SocketsTyped'
  BY <1>1 DEF SocketsInv, SocketsTyped
<1>3. woken'[r] /\ publishing'[r]
  BY <1>1 DEF SocketsInv, SocketsTyped
<1>4. ASSUME NEW q \in Replicas, NEW w \in Sockets
      PROVE  Reached(q, w)'
  BY <1>3 DEF Reached, Connected!Underway, Connected!OnItsWay
<1> QED
  BY <1>2, <1>4 DEF SocketsInv, NoneOverlooked

\* Whoever listens has an envelope, and the sockets of whoever does not are marked.
LEMMA TellKeeps ==
  ASSUME SocketsInv, NEW r \in Replicas, Connected!Tell(r) \/ Connected!TellFails(r)
  PROVE  SocketsInv'
<1>1. /\ UNCHANGED <<listening, revoked, due, woken, sweeper>>
      /\ publishing' = [publishing EXCEPT ![r] = FALSE]
  BY DEF Connected!Tell, Connected!TellFails, Connected!busVars
<1>2. /\ inbox' \in [Replicas -> SUBSET [origin : Replicas, kind : {Connected!Kind}]]
      /\ \A q \in Replicas : inbox[q] \subseteq inbox'[q]
  BY DEF SocketsInv, SocketsTyped, Connected!Tell, Connected!TellFails, Connected!Publish, Connected!Envelope,
         Connected!busVars
<1>3. PICK R \in SUBSET Replicas :
        /\ socket' = Connected!Untold(R)
        /\ \A q \in Replicas \ {r} : q \in R \/ inbox'[q] # {}
  <2>1. CASE Connected!Tell(r)
    <3>1. \A q \in Replicas \ {r} : listening[q] => inbox'[q] # {}
      BY <2>1 DEF Connected!Tell, Connected!Publish, Connected!Hears
    <3> QED
      BY <2>1, <3>1 DEF Connected!Tell
  <2>2. CASE Connected!TellFails(r)
    BY <2>2 DEF Connected!TellFails
  <2> QED
    BY <2>1, <2>2
<1>4. SocketsTyped'
  BY <1>1, <1>2, <1>3, UntoldSockets DEF SocketsInv, SocketsTyped
<1>5. ASSUME NEW q \in Replicas, NEW w \in Sockets, HeldAt(q, w)', socket'[w].sid \in revoked'
      PROVE  Reached(q, w)'
  <2>1. /\ HeldAt(q, w) /\ socket[w].sid \in revoked
        /\ socket'[w].untold = (socket[w].untold \/ q \in R)
    BY <1>1, <1>3, <1>5, UntoldSockets DEF SocketsInv, HeldAt
  <2>2. Reached(q, w)
    BY <2>1 DEF SocketsInv, NoneOverlooked
  <2>3. CASE Connected!Underway(q, w)
    BY <1>1, <2>3 DEF Reached, Connected!Underway
  <2>4. CASE q \in R \/ inbox'[q] # {} \/ socket[w].untold
    BY <2>1, <2>4 DEF Reached, Connected!OnItsWay
  <2>5. CASE q = r /\ Connected!OnItsWay(q)
    <3>1. inbox[q] # {} => inbox'[q] # {}
      BY <1>2
    <3>2. \A p \in Replicas \ {r} : publishing'[p] = publishing[p]
      BY <1>1 DEF SocketsInv, SocketsTyped
    <3> QED
      BY <1>1, <2>5, <3>1, <3>2 DEF Reached, Connected!OnItsWay
  <2> QED
    BY <1>3, <2>2, <2>3, <2>4, <2>5 DEF Reached
<1> QED
  BY <1>4, <1>5 DEF SocketsInv, NoneOverlooked

LEMMA OnEnvelopeKeeps ==
  ASSUME SocketsInv, NEW r \in Replicas, NEW e, Connected!OnEnvelope(r, e)
  PROVE  SocketsInv'
<1>1. /\ UNCHANGED <<listening, socket, revoked, due, publishing, sweeper>>
      /\ inbox' = [inbox EXCEPT ![r] = inbox[r] \ {e}] /\ woken' = [woken EXCEPT ![r] = TRUE]
  BY DEF Connected!OnEnvelope, Connected!Taken
<1>2. SocketsTyped'
  BY <1>1 DEF SocketsInv, SocketsTyped
<1>3. ASSUME NEW q \in Replicas, NEW w \in Sockets, HeldAt(q, w)', socket'[w].sid \in revoked'
      PROVE  Reached(q, w)'
  <2>1. CASE q = r
    BY <1>1, <2>1 DEF SocketsInv, SocketsTyped, Reached, Connected!Underway
  <2>2. CASE q # r
    <3>1. Reached(q, w)
      BY <1>1, <1>3 DEF SocketsInv, NoneOverlooked, HeldAt
    <3>2. inbox'[q] = inbox[q] /\ woken'[q] = woken[q]
      BY <1>1, <2>2 DEF SocketsInv, SocketsTyped
    <3> QED
      BY <1>1, <3>1, <3>2 DEF Reached, Connected!Underway, Connected!OnItsWay
  <2> QED
    BY <2>1, <2>2
<1> QED
  BY <1>2, <1>3 DEF SocketsInv, NoneOverlooked

\* A step of the sweeper that leaves the sockets alone: what is reached in another way, or
\* stays in its hands, is still reached.
LEMMA SweeperMoves ==
  ASSUME SocketsInv, NEW r \in Replicas, NEW to,
         UNCHANGED <<listening, inbox, revoked, due, publishing, socket>>,
         woken' \in [Replicas -> BOOLEAN], \A q \in Replicas \ {r} : woken'[q] = woken[q],
         sweeper' = [sweeper EXCEPT ![r] = to],
         to \in {Connected!Waiting} \cup [at : {"reading", "closing"}, held : SUBSET Sockets],
         \A w \in Sockets : HeldAt(r, w) /\ socket[w].sid \in revoked /\ Reached(r, w) =>
           \/ woken'[r] \/ due[r] \/ Connected!OnItsWay(r) \/ socket[w].untold
           \/ to # Connected!Waiting /\ w \in to.held
  PROVE  SocketsInv'
<1>1. SocketsTyped'
  BY DEF SocketsInv, SocketsTyped
<1>2. ASSUME NEW q \in Replicas, NEW w \in Sockets, HeldAt(q, w)', socket'[w].sid \in revoked'
      PROVE  Reached(q, w)'
  <2>1. HeldAt(q, w) /\ socket[w].sid \in revoked /\ Reached(q, w)
    BY <1>2 DEF SocketsInv, NoneOverlooked, HeldAt
  <2>2. CASE q = r
    <3>1. sweeper'[q] = to
      BY <2>2 DEF SocketsInv, SocketsTyped
    <3> QED
      BY <2>1, <2>2, <3>1 DEF Reached, Connected!Underway, Connected!OnItsWay
  <2>3. CASE q # r
    <3>1. sweeper'[q] = sweeper[q] /\ woken'[q] = woken[q]
      BY <2>3 DEF SocketsInv, SocketsTyped
    <3> QED
      BY <2>1, <3>1 DEF Reached, Connected!Underway, Connected!OnItsWay
  <2> QED
    BY <2>2, <2>3
<1> QED
  BY <1>1, <1>2 DEF SocketsInv, NoneOverlooked

LEMMA SweepBeginKeeps ==
  ASSUME SocketsInv, NEW r \in Replicas, Connected!Begin(r)
  PROVE  SocketsInv'
<1> DEFINE to == IF Connected!Held(r) = {} THEN Connected!Waiting
                 ELSE [at |-> "reading", held |-> Connected!Held(r)]
<1>1. /\ UNCHANGED <<listening, inbox, revoked, due, publishing, socket>>
      /\ sweeper[r] = Connected!Waiting /\ sweeper' = [sweeper EXCEPT ![r] = to]
      /\ woken' = [woken EXCEPT ![r] = FALSE]
  BY DEF Connected!Begin, Connected!busVars
<1>2. woken' \in [Replicas -> BOOLEAN] /\ \A q \in Replicas \ {r} : woken'[q] = woken[q]
  BY <1>1 DEF SocketsInv, SocketsTyped
<1>3. to \in {Connected!Waiting} \cup [at : {"reading", "closing"}, held : SUBSET Sockets]
  BY DEF Connected!Held
<1>4. \A w \in Sockets : HeldAt(r, w) => to # Connected!Waiting /\ w \in to.held
  BY DEF HeldAt, Connected!Held, Connected!Waiting
<1> HIDE DEF to
<1> QED
  BY <1>1, <1>2, <1>3, <1>4, SweeperMoves

LEMMA SweepReadKeeps ==
  ASSUME SocketsInv, NEW r \in Replicas, Connected!Read(r)
  PROVE  SocketsInv'
<1> DEFINE over == {w \in sweeper[r].held : socket[w].at = "held" /\ socket[w].sid \in revoked}
           to == IF over = {} THEN Connected!Waiting ELSE [at |-> "closing", held |-> over]
<1>1. /\ UNCHANGED <<listening, inbox, revoked, due, publishing, socket, woken>>
      /\ sweeper[r].at = "reading" /\ sweeper' = [sweeper EXCEPT ![r] = to]
  BY DEF Connected!Read, Connected!busVars
<1>2. woken' \in [Replicas -> BOOLEAN] /\ \A q \in Replicas : woken'[q] = woken[q]
  BY <1>1 DEF SocketsInv, SocketsTyped
<1>3. sweeper[r].held \in SUBSET Sockets /\ sweeper[r] # Connected!Waiting
  BY <1>1 DEF SocketsInv, SocketsTyped, Connected!Waiting
<1>4. to \in {Connected!Waiting} \cup [at : {"reading", "closing"}, held : SUBSET Sockets]
  BY <1>3
<1>5. \A w \in over : to # Connected!Waiting /\ w \in to.held
  BY DEF Connected!Waiting
<1> HIDE DEF to
<1>6. \A w \in Sockets : HeldAt(r, w) /\ socket[w].sid \in revoked /\ Reached(r, w) =>
           \/ woken'[r] \/ due[r] \/ Connected!OnItsWay(r) \/ socket[w].untold
           \/ to # Connected!Waiting /\ w \in to.held
  BY <1>2, <1>5 DEF HeldAt, Reached, Connected!Underway
<1> QED
  BY <1>1, <1>2, <1>4, <1>6, SweeperMoves

LEMMA SweepFailsKeeps ==
  ASSUME SocketsInv, NEW r \in Replicas, Connected!ReadFails(r)
  PROVE  SocketsInv'
<1>1. /\ UNCHANGED <<listening, inbox, revoked, due, publishing, woken>>
      /\ socket' = Connected!Untold({r})
      /\ sweeper' = [sweeper EXCEPT ![r] = Connected!Waiting]
  BY DEF Connected!ReadFails, Connected!busVars
<1>2. SocketsTyped'
  BY <1>1, UntoldSockets DEF SocketsInv, SocketsTyped
<1>3. ASSUME NEW q \in Replicas, NEW w \in Sockets, HeldAt(q, w)', socket'[w].sid \in revoked'
      PROVE  Reached(q, w)'
  <2>1. /\ HeldAt(q, w) /\ socket[w].sid \in revoked
        /\ socket'[w].untold = (socket[w].untold \/ q \in {r})
    BY <1>1, <1>3, UntoldSockets DEF SocketsInv, HeldAt
  <2>2. CASE q = r
    BY <2>1, <2>2 DEF Reached
  <2>3. CASE q # r
    <3>1. Reached(q, w)
      BY <2>1 DEF SocketsInv, NoneOverlooked
    <3>2. sweeper'[q] = sweeper[q]
      BY <1>1, <2>3 DEF SocketsInv, SocketsTyped
    <3> QED
      BY <1>1, <2>1, <3>1, <3>2 DEF Reached, Connected!Underway, Connected!OnItsWay
  <2> QED
    BY <2>2, <2>3
<1> QED
  BY <1>2, <1>3 DEF SocketsInv, NoneOverlooked

\* The closing of a socket takes it, and no other, out of the sweeper's hands.
LEMMA CloseKeeps ==
  ASSUME SocketsInv, NEW r \in Replicas, NEW w \in Sockets, Connected!Close(r, w)
  PROVE  SocketsInv'
<1> DEFINE left == sweeper[r].held \ {w}
           to == IF left = {} THEN Connected!Waiting ELSE [at |-> "closing", held |-> left]
<1>1. /\ UNCHANGED <<listening, inbox, revoked, due, publishing, woken>>
      /\ sweeper[r].at = "closing" /\ sweeper' = [sweeper EXCEPT ![r] = to]
      /\ socket' = IF socket[w].at = "held" THEN [socket EXCEPT ![w] = Connected!Gone] ELSE socket
  BY DEF Connected!Close, Connected!busVars
<1>2. sweeper[r].held \in SUBSET Sockets
  BY <1>1 DEF SocketsInv, SocketsTyped, Connected!Waiting
<1>3. to \in {Connected!Waiting} \cup [at : {"reading", "closing"}, held : SUBSET Sockets]
  BY <1>2
<1>4. \A z \in left : to # Connected!Waiting /\ z \in to.held
  BY DEF Connected!Waiting
<1> HIDE DEF to
<1>5. /\ socket' \in [Sockets -> Socket] /\ socket'[w].at # "held"
      /\ \A z \in Sockets \ {w} : socket'[z] = socket[z]
  <2>1. Connected!Gone \in Socket /\ Connected!Gone.at # "held"
    BY DEF Socket, Connected!Gone
  <2> QED
    BY <1>1, <2>1 DEF SocketsInv, SocketsTyped
<1>6. SocketsTyped'
  BY <1>1, <1>3, <1>5 DEF SocketsInv, SocketsTyped
<1>7. ASSUME NEW q \in Replicas, NEW z \in Sockets, HeldAt(q, z)', socket'[z].sid \in revoked'
      PROVE  Reached(q, z)'
  <2>1. z # w /\ socket'[z] = socket[z]
    BY <1>5, <1>7 DEF HeldAt
  <2>2. Reached(q, z)
    BY <1>1, <1>7, <2>1 DEF SocketsInv, NoneOverlooked, HeldAt
  <2>3. \/ sweeper'[q] = sweeper[q]
        \/ q = r /\ sweeper'[q] = to
    BY <1>1 DEF SocketsInv, SocketsTyped
  <2> QED
    BY <1>1, <1>4, <2>1, <2>2, <2>3 DEF Reached, Connected!Underway, Connected!OnItsWay
<1> QED
  BY <1>6, <1>7 DEF SocketsInv, NoneOverlooked

LEMMA HearKeeps ==
  ASSUME SocketsInv, NEW r \in Replicas, Connected!Hear(r)
  PROVE  SocketsInv'
<1>1. /\ UNCHANGED <<inbox, revoked, socket, due, publishing, woken, sweeper>>
      /\ listening' = [listening EXCEPT ![r] = TRUE]
  BY DEF Connected!Hear, Connected!Listen, Connected!replicaVars
<1> QED
  BY <1>1 DEF SocketsInv, SocketsTyped, NoneOverlooked, HeldAt, Reached, Connected!Underway, Connected!OnItsWay

\* What was on its way to a replica is gone with its connection, and its sockets are marked.
LEMMA LoseTheBusKeeps ==
  ASSUME SocketsInv, NEW r \in Replicas, Connected!LoseTheBus(r)
  PROVE  SocketsInv'
<1>1. /\ UNCHANGED <<revoked, due, publishing, woken, sweeper>>
      /\ listening' = [listening EXCEPT ![r] = FALSE] /\ inbox' = [inbox EXCEPT ![r] = {}]
      /\ socket' = IF inbox[r] # {} THEN Connected!Untold({r}) ELSE socket
  BY DEF Connected!LoseTheBus, Connected!BreakOff, Connected!replicaVars
<1>2. SocketsTyped'
  BY <1>1, UntoldSockets DEF SocketsInv, SocketsTyped
<1>3. ASSUME NEW q \in Replicas, NEW w \in Sockets, HeldAt(q, w)', socket'[w].sid \in revoked'
      PROVE  Reached(q, w)'
  <2>1. /\ HeldAt(q, w) /\ socket[w].sid \in revoked
        /\ socket[w].untold \/ (q = r /\ inbox[r] # {}) => socket'[w].untold
    BY <1>1, <1>3, UntoldSockets DEF SocketsInv, HeldAt
  <2>2. Reached(q, w)
    BY <2>1 DEF SocketsInv, NoneOverlooked
  <2>3. inbox'[q] = inbox[q] \/ (q = r /\ inbox'[q] = {})
    BY <1>1 DEF SocketsInv, SocketsTyped
  <2> QED
    BY <1>1, <2>1, <2>2, <2>3 DEF Reached, Connected!Underway, Connected!OnItsWay
<1> QED
  BY <1>2, <1>3 DEF SocketsInv, NoneOverlooked

\* A replica takes its sockets with it, and what it had still to tell is marked elsewhere.
LEMMA CrashKeeps ==
  ASSUME SocketsInv, NEW r \in Replicas, Connected!Crash(r)
  PROVE  SocketsInv'
<1> DEFINE others == IF due[r] \/ publishing[r] THEN Replicas \ {r} ELSE {}
           gone(w) == socket[w].at \in {"admitted", "held"} /\ socket[w].replica = r
<1>1. /\ UNCHANGED revoked
      /\ listening' = [listening EXCEPT ![r] = FALSE] /\ inbox' = [inbox EXCEPT ![r] = {}]
      /\ due' = [due EXCEPT ![r] = FALSE] /\ publishing' = [publishing EXCEPT ![r] = FALSE]
      /\ woken' = [woken EXCEPT ![r] = FALSE]
      /\ sweeper' = [sweeper EXCEPT ![r] = Connected!Waiting]
      /\ socket' = [w \in Sockets |-> IF gone(w) THEN Connected!Gone ELSE Connected!Untold(others)[w]]
  BY DEF Connected!Crash, Connected!Silence
<1>2. Connected!Gone \in Socket /\ Connected!Gone.at # "held"
  BY DEF Socket, Connected!Gone
<1> HIDE DEF others
<1>3. SocketsTyped'
  BY <1>1, <1>2, UntoldSockets DEF SocketsInv, SocketsTyped
<1>4. ASSUME NEW q \in Replicas, NEW w \in Sockets, HeldAt(q, w)', socket'[w].sid \in revoked'
      PROVE  Reached(q, w)'
  <2>1. ~gone(w) /\ socket'[w] = Connected!Untold(others)[w]
    BY <1>1, <1>2, <1>4 DEF HeldAt
  <2>2. /\ HeldAt(q, w) /\ socket[w].sid \in revoked
        /\ socket[w].untold \/ q \in others => socket'[w].untold
    BY <1>1, <1>4, <2>1, UntoldSockets DEF SocketsInv, HeldAt
  <2>3. q # r
    BY <2>1, <2>2 DEF HeldAt
  <2>4. Reached(q, w)
    BY <2>2 DEF SocketsInv, NoneOverlooked
  <2>5. due[r] \/ publishing[r] => q \in others
    BY <2>3 DEF others
  <2>6. /\ \A p \in Replicas \ {r} : due'[p] = due[p] /\ publishing'[p] = publishing[p]
        /\ inbox'[q] = inbox[q] /\ woken'[q] = woken[q] /\ sweeper'[q] = sweeper[q] /\ due'[q] = due[q]
    BY <1>1, <2>3 DEF SocketsInv, SocketsTyped
  <2> QED
    BY <2>2, <2>4, <2>5, <2>6 DEF Reached, Connected!Underway, Connected!OnItsWay
<1> QED
  BY <1>3, <1>4 DEF SocketsInv, NoneOverlooked

LEMMA SocketsStep == SocketsInv /\ [Connected!Next]_(Connected!vars) => SocketsInv'
<1> SUFFICES ASSUME SocketsInv, [Connected!Next]_(Connected!vars)
             PROVE  SocketsInv'
  OBVIOUS
<1>1. CASE UNCHANGED Connected!vars
  BY <1>1 DEF Connected!vars, Connected!busVars, SocketsInv, SocketsTyped, NoneOverlooked, HeldAt, Reached,
              Connected!Underway, Connected!OnItsWay
<1>2. ASSUME NEW r \in Replicas, Connected!Sweep(r)
      PROVE  SocketsInv'
  BY <1>2, SweepBeginKeeps, SweepReadKeeps, CloseKeeps DEF Connected!Sweep
<1>3. QED
  BY <1>1, <1>2, SocketComesAndGoes, RevokeKeeps, SetAndPublishKeeps, TellKeeps, OnEnvelopeKeeps,
     SweepFailsKeeps, HearKeeps, LoseTheBusKeeps, CrashKeeps
  DEF Connected!Next

\* A socket whose session was revoked waits for a sweeper's period only where the news was
\* missed on its way, or the session ended between its check and its hold: a wake that comes
\* while the sweeper reads is not lost with the one it answers (socket_sessions.wake,
\* run_forever, sweep).
THEOREM RevokedSocketsAreReached == SignedInSpec => []RevocationIsNotOverlooked
<1> DEFINE Inv == which = "connected" => SocketsInv
<1>1. SignedInInit => Inv
  BY SocketsInitially DEF SignedInInit
<1>2. Inv /\ [SignedInNext]_<<which, vars, signInVars, socketVars>> => Inv'
  <2>1. UNCHANGED socketVars => UNCHANGED Connected!vars
    BY DEF socketVars, Connected!vars, Connected!busVars
  <2>2. QED
    BY <2>1, SocketsStep DEF SignedInNext
<1>3. Inv => RevocationIsNotOverlooked
  BY DEF RevocationIsNotOverlooked, Connected!RevocationIsNotOverlooked, Connected!Held, SocketsInv,
         NoneOverlooked, HeldAt, Reached
<1>4. QED
  BY <1>1, <1>2, <1>3, PTL DEF SignedInSpec

=============================================================================
