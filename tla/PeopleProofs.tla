----------------------------- MODULE PeopleProofs -----------------------------
(***************************************************************************)
(* Theorems about who somebody is and what they may do (MCPeople): the     *)
(* other system's word about a token and an action (Identity), and the     *)
(* accounts of this application (Accounts).                                *)
(***************************************************************************)
EXTENDS MCPeople, FiniteSetTheorems, TLAPS

-----------------------------------------------------------------------------
(* Identity: the inductive invariant                                       *)

Remembered == [left : Nat \ {0}, says : Answers]
Waiting == [pc : {"idle", "served", "refused", "nobody", "unavailable"}]
Known == [pc : {"known"}, action : Actions]
Asks == [pc : {"asks"}, what : Questions, action : Actions,
         said : Answers \cup {"nothing", "broken"}, left : Nat]

IdentityTyped ==
  /\ config \in Settings
  /\ ends \in Nat \cup {Never}
  /\ may \subseteq Actions
  /\ since \in [Questions -> [Answers -> Nat]]
  /\ token \in {None} \cup Remembered
  /\ decision \in [Keys -> {None} \cup Remembered]
  /\ req \in [Requests -> Waiting \cup Known \cup Asks]

\* What is true now was true no time ago.
TrueIsNew == \A q \in Questions : \A says \in Answers : Holds(q, says) => since[q][says] = 0

\* A token that is remembered as confirmed will be forgotten before the answer is too old,
\* and before the identity ends.
TokenIsFresh(entry) ==
  entry # None /\ entry.says = "yes" =>
    /\ since[Whose]["yes"] + entry.left <= config.token + Timeout
    /\ ends = Never \/ entry.left <= ends

\* A decision that is remembered was made of an action with that key, and will be forgotten
\* before the answer is too old.
DecisionIsFresh(k, entry) ==
  entry # None =>
    \E a \in Actions : /\ a.path = k
                       /\ since[a][entry.says] + entry.left <= config.decision + Timeout

\* An answer on its way was the true one since the call began.
AnswerIsFresh(asked) ==
  asked.pc = "asks" =>
    /\ asked.what \in {Whose, asked.action}
    /\ asked.left <= Timeout
    /\ asked.said \in Answers => since[asked.what][asked.said] + asked.left <= Timeout

IdentityInv ==
  /\ IdentityTyped /\ TrueIsNew /\ TokenIsFresh(token)
  /\ \A k \in Keys : DecisionIsFresh(k, decision[k])
  /\ \A r \in Requests : AnswerIsFresh(req[r])

LEMMA Seconds ==
  ASSUME IdentityTyped
  PROVE  /\ config.token \in Nat /\ config.decision \in Nat /\ RefusalCache \in Nat
         /\ Timeout \in Nat /\ Timeout > 0 /\ Whose \notin Actions
         /\ Forgotten \in Nat
<1>1. config.token \in Nat /\ config.decision \in Nat
  BY IdentityAssumption DEF IdentityTyped
<1>2. QED
  BY <1>1, IdentityAssumption DEF Forgotten

LEMMA IdentityInitially == Init => IdentityInv
<1> SUFFICES ASSUME Init
             PROVE  IdentityInv
  OBVIOUS
<1>1. config.token \in Nat /\ config.decision \in Nat /\ Timeout \in Nat
  BY IdentityAssumption DEF Init
<1>2. Forgotten \in Nat
  BY <1>1 DEF Forgotten
<1>3. IdentityTyped
  <2>1. since \in [Questions -> [Answers -> Nat]]
    BY <1>2 DEF Init
  <2>2. ends \in Nat \cup {Never}
    BY IdentityAssumption DEF Init
  <2>3. QED
    BY <2>1, <2>2 DEF Init, IdentityTyped, Waiting, Idle
<1>4. TrueIsNew
  BY DEF Init, TrueIsNew
<1>5. TokenIsFresh(token) /\ \A k \in Keys : DecisionIsFresh(k, decision[k])
  BY DEF Init, TokenIsFresh, DecisionIsFresh
<1>6. \A r \in Requests : AnswerIsFresh(req[r])
  BY DEF Init, AnswerIsFresh, Idle
<1>7. QED
  BY <1>3, <1>4, <1>5, <1>6 DEF IdentityInv

\* The other system changes its mind: both answers are true ones of that moment.
LEMMA MindChanged ==
  ASSUME IdentityInv, NEW q \in Questions, Changed(q), may' \subseteq Actions,
         UNCHANGED <<config, ends, token, decision, req>>,
         \A p \in Questions \ {q} : \A says \in Answers : Holds(p, says)' => Holds(p, says)
  PROVE  IdentityInv'
<1>1. IdentityTyped'
  BY DEF IdentityInv, IdentityTyped, Changed
<1>2. \A p \in Questions : \A says \in Answers :
        /\ since'[p][says] = IF p = q THEN 0 ELSE since[p][says]
        /\ since[p][says] \in Nat /\ since'[p][says] <= since[p][says]
  BY DEF IdentityInv, IdentityTyped, Changed
<1>3. TrueIsNew'
  BY <1>2 DEF IdentityInv, TrueIsNew
<1>4. Whose \in Questions /\ Actions \subseteq Questions /\ "yes" \in Answers
  BY DEF Questions, Answers
<1>5. TokenIsFresh(token)'
  <2>1. token # None /\ token.says = "yes" => token.left \in Nat
    BY DEF IdentityInv, IdentityTyped, Remembered
  <2>2. QED
    BY <1>2, <1>4, <2>1, Seconds DEF IdentityInv, TokenIsFresh
<1>6. ASSUME NEW k \in Keys
      PROVE  DecisionIsFresh(k, decision[k])'
  <2>1. CASE decision[k] = None
    BY <2>1 DEF DecisionIsFresh
  <2>2. CASE decision[k] # None
    <3>1. decision[k].says \in Answers /\ decision[k].left \in Nat
      BY <2>2 DEF IdentityInv, IdentityTyped, Remembered
    <3>2. PICK a \in Actions :
            /\ a.path = k
            /\ since[a][decision[k].says] + decision[k].left <= config.decision + Timeout
      BY <2>2 DEF IdentityInv, DecisionIsFresh
    <3>3. since'[a][decision[k].says] + decision[k].left <= config.decision + Timeout
      BY <1>2, <1>4, <3>1, <3>2, Seconds DEF IdentityInv
    <3>4. QED
      BY <3>2, <3>3 DEF DecisionIsFresh
  <2>3. QED
    BY <2>1, <2>2
<1>7. ASSUME NEW r \in Requests
      PROVE  AnswerIsFresh(req[r])'
  <2>1. CASE req[r].pc # "asks"
    BY <2>1 DEF AnswerIsFresh
  <2>2. CASE req[r].pc = "asks"
    <3>1. req[r].what \in Questions /\ req[r].left \in Nat
      BY <2>2 DEF IdentityInv, IdentityTyped, Waiting, Known, Asks
    <3>2. AnswerIsFresh(req[r])
      BY DEF IdentityInv
    <3>3. QED
      BY <1>2, <2>2, <3>1, <3>2, Seconds DEF IdentityInv, AnswerIsFresh
  <2>3. QED
    BY <2>1, <2>2
<1>8. QED
  BY <1>1, <1>3, <1>5, <1>6, <1>7 DEF IdentityInv

LEMMA WorldKeeps ==
  ASSUME IdentityInv, ChangeToken \/ \E a \in Actions : ChangeRight(a)
  PROVE  IdentityInv'
<1>1. CASE ChangeToken
  <2>1. \A p \in Questions \ {Whose} : \A says \in Answers : Holds(p, says)' => Holds(p, says)
    BY <1>1 DEF ChangeToken, Holds
  <2>2. QED
    BY <1>1, <2>1, MindChanged DEF ChangeToken, Questions, IdentityInv, IdentityTyped
<1>2. ASSUME NEW a \in Actions, ChangeRight(a)
      PROVE  IdentityInv'
  <2>1. may' \subseteq Actions /\ \A p : p # a => (p \in may' <=> p \in may)
    BY <1>2 DEF ChangeRight, IdentityInv, IdentityTyped
  <2>2. \A p \in Questions \ {a} : \A says \in Answers : Holds(p, says)' => Holds(p, says)
    BY <1>2, <2>1 DEF ChangeRight, Holds
  <2>3. QED
    BY <1>2, <2>1, <2>2, MindChanged DEF ChangeRight, Questions
<1>3. QED
  BY <1>1, <1>2

\* A moment passes: what is remembered has one less to live, and is one older.
LEMMA AgedEntry ==
  ASSUME NEW entry \in {None} \cup Remembered
  PROVE  /\ Aged(entry) \in {None} \cup Remembered
         /\ Aged(entry) # None => /\ entry # None /\ Aged(entry).says = entry.says
                                 /\ Aged(entry).left + 1 = entry.left
<1>1. CASE entry = None
  BY <1>1 DEF Aged, None
<1>2. CASE entry \in Remembered
  BY <1>2 DEF Aged, Remembered, None, Answers
<1>3. QED
  BY <1>1, <1>2

LEMMA TimeKeeps ==
  ASSUME IdentityInv, Tick
  PROVE  IdentityInv'
<1>1. IdentityTyped /\ UNCHANGED <<config, stands, may>> /\ Forgotten \in Nat
  BY Seconds DEF IdentityInv, Tick
<1>2. \A q \in Questions : \A says \in Answers :
        /\ since[q][says] \in Nat /\ since'[q][says] \in Nat /\ since'[q][says] <= since[q][says] + 1
        /\ Holds(q, says) => since'[q][says] = 0
  BY <1>1 DEF Tick, IdentityTyped, Less
<1>3. ends' \in Nat \cup {Never} /\ (ends = Never => ends' = Never)
      /\ (ends # Never /\ ends > 0 => ends' = ends - 1)
  BY <1>1 DEF Tick, Passed, IdentityTyped, Never
<1>4. /\ token' = Aged(token) /\ decision' = [k \in Keys |-> Aged(decision[k])]
      /\ \A k \in Keys : decision[k] \in {None} \cup Remembered
      /\ token \in {None} \cup Remembered
  BY <1>1 DEF Tick, IdentityTyped
<1>5. ASSUME NEW r \in Requests
      PROVE  /\ req'[r] \in Waiting \cup Known \cup Asks
             /\ AnswerIsFresh(req[r])'
  <2>1. req'[r] = IF req[r].pc = "asks" THEN [req[r] EXCEPT !.left = Passed(@)] ELSE req[r]
    BY DEF Tick
  <2>2. CASE req[r].pc # "asks"
    BY <1>1, <2>1, <2>2 DEF AnswerIsFresh, IdentityTyped
  <2>3. CASE req[r].pc = "asks"
    <3>1. req[r] \in Asks /\ req[r].left > 0
      BY <1>1, <2>3 DEF Tick, IdentityTyped, Waiting, Known
    <3>2. req'[r] = [req[r] EXCEPT !.left = req[r].left - 1]
      BY <2>1, <2>3, <3>1 DEF Passed, Asks
    <3>3. /\ req'[r] \in Asks /\ req'[r].left = req[r].left - 1 /\ req'[r].what = req[r].what
          /\ req'[r].said = req[r].said /\ req'[r].action = req[r].action
          /\ req[r].left \in Nat /\ req[r].what \in Questions
      BY <3>1, <3>2 DEF Asks
    <3>4. AnswerIsFresh(req[r])
      BY DEF IdentityInv
    <3>5. req[r].said \in Answers =>
            since'[req[r].what][req[r].said] + (req[r].left - 1) <= Timeout
      BY <1>1, <1>2, <2>3, <3>3, <3>4, Seconds DEF AnswerIsFresh
    <3>6. req'[r].left <= Timeout
      BY <1>1, <2>3, <3>3, <3>4, Seconds DEF AnswerIsFresh
    <3>7. QED
      BY <2>3, <3>3, <3>4, <3>5, <3>6 DEF AnswerIsFresh
  <2>4. QED
    BY <2>2, <2>3
<1>6. TrueIsNew'
  BY <1>1, <1>2 DEF TrueIsNew, Holds
<1>7. IdentityTyped'
  <2>1. since' \in [Questions -> [Answers -> Nat]]
    BY <1>1, <1>2 DEF Tick, IdentityTyped
  <2>2. token' \in {None} \cup Remembered /\ decision' \in [Keys -> {None} \cup Remembered]
    BY <1>4, AgedEntry
  <2>3. req' \in [Requests -> Waiting \cup Known \cup Asks]
    BY <1>5 DEF Tick
  <2>4. QED
    BY <1>1, <1>3, <2>1, <2>2, <2>3 DEF IdentityTyped
<1>8. TokenIsFresh(token)'
  <2>1. CASE token' = None \/ token'.says # "yes"
    BY <2>1 DEF TokenIsFresh
  <2>2. CASE token' # None /\ token'.says = "yes"
    <3>1. /\ token # None /\ token.says = "yes" /\ token'.left + 1 = token.left
          /\ token.left \in Nat /\ token'.left \in Nat /\ token'.left > 0
      BY <1>4, <2>2, AgedEntry DEF Remembered
    <3>2. TokenIsFresh(token)
      BY DEF IdentityInv
    <3>3. since'[Whose]["yes"] + token'.left <= config.token + Timeout
      BY <1>1, <1>2, <3>1, <3>2, Seconds DEF TokenIsFresh, Questions, Answers
    <3>4. ends' = Never \/ token'.left <= ends'
      BY <1>1, <1>3, <3>1, <3>2 DEF TokenIsFresh, IdentityTyped
    <3>5. QED
      BY <1>1, <3>3, <3>4 DEF TokenIsFresh
  <2>3. QED
    BY <2>1, <2>2
<1>9. ASSUME NEW k \in Keys
      PROVE  DecisionIsFresh(k, decision[k])'
  <2>1. CASE decision'[k] = None
    BY <2>1 DEF DecisionIsFresh
  <2>2. CASE decision'[k] # None
    <3>1. /\ decision[k] # None /\ decision'[k].says = decision[k].says
          /\ decision'[k].left + 1 = decision[k].left /\ decision[k].says \in Answers
          /\ decision[k].left \in Nat /\ decision'[k].left \in Nat
      BY <1>4, <2>2, AgedEntry DEF Remembered
    <3>2. PICK a \in Actions :
            /\ a.path = k
            /\ since[a][decision[k].says] + decision[k].left <= config.decision + Timeout
      BY <3>1 DEF IdentityInv, DecisionIsFresh
    <3>3. since'[a][decision[k].says] + decision'[k].left <= config.decision + Timeout
      BY <1>1, <1>2, <3>1, <3>2, Seconds DEF Questions
    <3>4. QED
      BY <1>1, <3>1, <3>2, <3>3 DEF DecisionIsFresh
  <2>3. QED
    BY <2>1, <2>2
<1>10. QED
  BY <1>5, <1>6, <1>7, <1>8, <1>9 DEF IdentityInv

\* A step of a request moves that request, and may write an entry of each cache.
LEMMA RequestMoves ==
  ASSUME IdentityInv, NEW r \in Requests, NEW to \in Waiting \cup Known \cup Asks,
         req' = [req EXCEPT ![r] = to], AnswerIsFresh(to),
         UNCHANGED <<config, ends, stands, may, since>>,
         token' \in {None} \cup Remembered, TokenIsFresh(token'),
         decision' \in [Keys -> {None} \cup Remembered],
         \A k \in Keys : DecisionIsFresh(k, decision'[k])
  PROVE  IdentityInv'
<1>1. IdentityTyped'
  BY DEF IdentityInv, IdentityTyped
<1>2. TrueIsNew'
  BY DEF IdentityInv, TrueIsNew, Holds
<1>3. TokenIsFresh(token)' /\ \A k \in Keys : DecisionIsFresh(k, decision[k])'
  BY DEF TokenIsFresh, DecisionIsFresh
<1>4. ASSUME NEW q \in Requests
      PROVE  AnswerIsFresh(req[q])'
  <2>1. AnswerIsFresh(req'[q])
    BY DEF IdentityInv, IdentityTyped
  <2>2. QED
    BY <2>1 DEF AnswerIsFresh
<1>5. QED
  BY <1>1, <1>2, <1>3, <1>4 DEF IdentityInv

LEMMA EvictKeeps ==
  ASSUME IdentityInv, Evict
  PROVE  IdentityInv'
<1>1. /\ UNCHANGED <<config, ends, may, since, req>> /\ stands' = stands
      /\ token' \in {token, None} /\ decision' \in [Keys -> {None} \cup Remembered]
      /\ \A k \in Keys : decision'[k] \in {decision[k], None}
  BY DEF Evict, IdentityInv, IdentityTyped
<1>2. IdentityTyped'
  BY <1>1 DEF IdentityInv, IdentityTyped
<1>3. TrueIsNew' /\ \A r \in Requests : AnswerIsFresh(req[r])'
  BY <1>1 DEF IdentityInv, TrueIsNew, Holds, AnswerIsFresh
<1>4. TokenIsFresh(token)'
  <2>1. CASE token' = None
    BY <2>1 DEF TokenIsFresh
  <2>2. CASE token' = token
    BY <1>1, <2>2 DEF IdentityInv, TokenIsFresh
  <2>3. QED
    BY <1>1, <2>1, <2>2
<1>5. ASSUME NEW k \in Keys
      PROVE  DecisionIsFresh(k, decision[k])'
  <2>1. CASE decision'[k] = None
    BY <2>1 DEF DecisionIsFresh
  <2>2. CASE decision'[k] = decision[k]
    BY <1>1, <2>2 DEF IdentityInv, DecisionIsFresh
  <2>3. QED
    BY <1>1, <2>1, <2>2
<1>6. QED
  BY <1>2, <1>3, <1>4, <1>5 DEF IdentityInv

\* What a request is asked with, and where an answer leaves it.
LEMMA Askings ==
  ASSUME IdentityTyped, NEW q \in Questions, NEW a \in Actions, q \in {Whose, a}
  PROVE  /\ Asking(q, a) \in Asks /\ AnswerIsFresh(Asking(q, a))
         /\ Asking(q, a).pc = "asks"
<1>1. Timeout \in Nat
  BY Seconds
<1>2. QED
  BY <1>1 DEF Asking, Asks, AnswerIsFresh, Answers

LEMMA Afters ==
  ASSUME NEW q \in Questions, NEW a \in Actions, NEW says \in Answers \cup {"broken"}
  PROVE  /\ At(After(q, says), a) \in Waiting \cup Known
         /\ At(After(q, says), a).pc = After(q, says)
         /\ AnswerIsFresh(At(After(q, says), a))
         /\ After(q, says) = IF says = "broken" THEN "unavailable" ELSE IF says = "no" THEN "refused"
                            ELSE IF q = Whose THEN "known" ELSE "served"
<1>1. After(q, says) = IF says = "broken" THEN "unavailable" ELSE IF says = "no" THEN "refused"
                       ELSE IF q = Whose THEN "known" ELSE "served"
  BY DEF After, Answers
<1>2. QED
  BY <1>1 DEF At, Waiting, Known, AnswerIsFresh

LEMMA BeginKeeps ==
  ASSUME IdentityInv, NEW r \in Requests, NEW a \in Actions, Begin(r, a)
  PROVE  IdentityInv'
<1>1. IdentityTyped /\ Whose \in Questions /\ token' = token
      /\ UNCHANGED <<config, ends, stands, may, since>> /\ decision' = decision
  BY DEF IdentityInv, Begin, Used, Questions
<1>2. CASE token = None
  BY <1>1, <1>2, Askings, RequestMoves DEF Begin, IdentityInv, IdentityTyped
<1>3. CASE token # None
  <2>1. token.says \in Answers \cup {"broken"}
    BY <1>1, <1>3 DEF IdentityTyped, Remembered
  <2>2. QED
    BY <1>1, <1>3, <2>1, Afters, RequestMoves DEF Begin, IdentityInv, IdentityTyped
<1>4. QED
  BY <1>2, <1>3

LEMMA LooksKeeps ==
  ASSUME IdentityInv, NEW r \in Requests, Looks(r)
  PROVE  IdentityInv'
<1>1. PICK says \in Answers \cup {"broken"} :
        /\ says \in Answers => Holds(req[r].what, says)
        /\ req' = [req EXCEPT ![r].said = says]
  BY DEF Looks
<1> DEFINE to == [req[r] EXCEPT !.said = says]
<1>2. req[r] \in Asks
  BY DEF Looks, IdentityInv, IdentityTyped, Waiting, Known
<1>3. /\ to \in Asks /\ to.what = req[r].what /\ to.left = req[r].left /\ to.action = req[r].action
      /\ to.said = says /\ to.pc = "asks" /\ to.what \in Questions /\ to.left \in Nat
  BY <1>1, <1>2 DEF Asks
<1>4. req' = [req EXCEPT ![r] = to]
  BY <1>1 DEF IdentityInv, IdentityTyped
<1> HIDE DEF to
<1>5. AnswerIsFresh(req[r]) /\ Timeout \in Nat
  BY Seconds DEF IdentityInv
<1>6. says \in Answers => since[to.what][says] = 0
  BY <1>1, <1>3 DEF IdentityInv, TrueIsNew
<1>7. AnswerIsFresh(to)
  BY <1>2, <1>3, <1>5, <1>6 DEF AnswerIsFresh, Asks
<1>8. QED
  BY <1>3, <1>4, <1>7, RequestMoves DEF Looks, IdentityInv, IdentityTyped

\* An entry that is written is one, unless it would have no time to live.
LEMMA PutEntry ==
  ASSUME NEW entry \in {None} \cup Remembered, NEW says \in Answers, NEW seconds \in Int
  PROVE  /\ Put(entry, says, seconds) \in {None} \cup Remembered
         /\ \/ Put(entry, says, seconds) = entry
            \/ /\ Put(entry, says, seconds).left = seconds
               /\ Put(entry, says, seconds).says = says
BY DEF Put, Remembered

LEMMA TokenAnsweredKeeps ==
  ASSUME IdentityInv, NEW r \in Requests, TokenAnswered(r)
  PROVE  IdentityInv'
<1> DEFINE says == IF req[r].said = "yes" /\ Over THEN "no" ELSE req[r].said
<1>1. IdentityTyped /\ req[r] \in Asks /\ AnswerIsFresh(req[r])
  BY DEF TokenAnswered, IdentityInv, IdentityTyped, Waiting, Known
<1>2. /\ req[r].what = Whose /\ req[r].said # "nothing" /\ req[r].action \in Actions /\ Whose \in Questions
      /\ req[r].left \in Nat /\ req[r].said \in Answers \cup {"broken"}
      /\ says \in Answers \cup {"broken"} /\ (says = "yes" => req[r].said = "yes" /\ ~Over)
  BY <1>1 DEF TokenAnswered, Asks, Questions, Answers
<1>3. /\ UNCHANGED <<config, ends, stands, may, since>> /\ decision' = decision
      /\ req' = [req EXCEPT ![r] = At(After(Whose, says), req[r].action)]
      /\ token' = CASE says = "yes" -> Put(token, "yes", Lifetime)
                    [] says = "no" -> Put(token, "no", Less(RefusalCache, config.token))
                    [] OTHER -> token
  BY DEF TokenAnswered
<1> HIDE DEF says
<1>4. /\ config.token \in Nat /\ Less(RefusalCache, config.token) \in Int /\ Lifetime \in Int
      /\ Lifetime <= config.token /\ (ends = Never \/ Lifetime <= ends)
  BY <1>1, Seconds DEF Less, Lifetime, IdentityTyped, Never
<1>5. token \in {None} \cup Remembered /\ TokenIsFresh(token)
  BY DEF IdentityInv, IdentityTyped
<1>6. token' \in {None} \cup Remembered /\ TokenIsFresh(token')
  <2>1. CASE says = "yes"
    <3>1. token' = Put(token, "yes", Lifetime)
      BY <1>3, <2>1
    <3>2. token' \in {None} \cup Remembered
          /\ (token' = token \/ (token'.left = Lifetime /\ token'.says = "yes"))
      BY <1>4, <1>5, <3>1, PutEntry DEF Answers
    <3>3. since[Whose]["yes"] \in Nat /\ since[Whose]["yes"] <= Timeout
      BY <1>1, <1>2, <2>1, Seconds DEF AnswerIsFresh, IdentityTyped, Answers, Asks
    <3>4. since[Whose]["yes"] + Lifetime <= config.token + Timeout
      BY <1>1, <1>4, <3>3, Seconds
    <3>5. QED
      BY <1>4, <1>5, <3>2, <3>4 DEF TokenIsFresh
  <2>2. CASE says = "no"
    <3>1. token' = Put(token, "no", Less(RefusalCache, config.token))
      BY <1>3, <2>2
    <3>2. token' \in {None} \cup Remembered /\ (token' = token \/ token'.says = "no")
      BY <1>4, <1>5, <3>1, PutEntry DEF Answers
    <3>3. QED
      BY <1>5, <3>2 DEF TokenIsFresh
  <2>3. CASE says = "broken"
    <3>1. token' = token
      BY <1>3, <2>3
    <3>2. QED
      BY <1>5, <3>1
  <2>4. QED
    BY <1>2, <2>1, <2>2, <2>3 DEF Answers
<1>7. QED
  BY <1>2, <1>3, <1>6, Afters, RequestMoves DEF IdentityInv, IdentityTyped

LEMMA GoesKeeps ==
  ASSUME IdentityInv, NEW r \in Requests,
         TimedOut(r) \/ NoAccount(r) \/ CheckHere(r) \/ Answered(r)
  PROVE  IdentityInv'
<1>1. PICK pc \in {"idle", "served", "refused", "nobody", "unavailable"} : req' = [req EXCEPT ![r] = [pc |-> pc]]
  BY DEF TimedOut, NoAccount, CheckHere, Answered, Goes, Idle
<1>2. [pc |-> pc] \in Waiting /\ AnswerIsFresh([pc |-> pc])
  BY DEF Waiting, AnswerIsFresh
<1>3. UNCHANGED <<config, ends, stands, may, since>> /\ token' = token /\ decision' = decision
  BY DEF TimedOut, NoAccount, CheckHere, Answered, Goes
<1>4. QED
  BY <1>1, <1>2, <1>3, RequestMoves DEF IdentityInv, IdentityTyped

LEMMA CheckThereKeeps ==
  ASSUME IdentityInv, NEW r \in Requests, CheckThere(r)
  PROVE  IdentityInv'
<1>1. PICK a \in Actions : a = req[r].action
  BY DEF CheckThere, IdentityInv, IdentityTyped, Waiting, Known, Asks
<1>2. IdentityTyped /\ a \in Questions /\ Key(a) \in Keys
      /\ UNCHANGED <<config, ends, stands, may, since>> /\ token' = token /\ decision' = decision
  BY <1>1 DEF CheckThere, IdentityInv, IdentityTyped, Questions, Keys, Used
<1>3. CASE decision[Key(a)] = None
  BY <1>1, <1>2, <1>3, Askings, RequestMoves DEF CheckThere, IdentityInv, IdentityTyped
<1>4. CASE decision[Key(a)] # None
  <2>1. decision[Key(a)].says \in Answers \cup {"broken"}
    BY <1>2, <1>4 DEF IdentityTyped, Remembered
  <2>2. QED
    BY <1>1, <1>2, <1>4, <2>1, Afters, RequestMoves DEF CheckThere, IdentityInv, IdentityTyped
<1>5. QED
  BY <1>3, <1>4

LEMMA RightAnsweredKeeps ==
  ASSUME IdentityInv, NEW r \in Requests, RightAnswered(r)
  PROVE  IdentityInv'
<1> DEFINE says == req[r].said
<1>1. IdentityTyped /\ req[r] \in Asks /\ AnswerIsFresh(req[r]) /\ req[r].pc = "asks"
  BY DEF RightAnswered, IdentityInv, IdentityTyped, Waiting, Known
<1>2. PICK a \in Actions : a = req[r].action
  BY <1>1 DEF Asks
<1>3. /\ req[r].what = a /\ says \in Answers \cup {"broken"} /\ req[r].left \in Nat
      /\ a \in Questions /\ a.path \in Keys
  BY <1>1, <1>2 DEF RightAnswered, AnswerIsFresh, Asks, Questions, Keys, Key
<1>4. /\ UNCHANGED <<config, ends, stands, may, since>> /\ token' = token
      /\ req' = [req EXCEPT ![r] = At(After(a, says), a)]
      /\ decision' = [decision EXCEPT ![a.path] =
                        IF says \in Answers THEN Put(decision[a.path], says, config.decision) ELSE decision[a.path]]
  BY <1>2 DEF RightAnswered, Key
<1> HIDE DEF says
<1>5. config.decision \in Nat /\ config.decision \in Int /\ Timeout \in Nat
  BY <1>1, Seconds
<1>6. /\ decision[a.path] \in {None} \cup Remembered
      /\ \A k \in Keys : DecisionIsFresh(k, decision[k])
  BY <1>3 DEF IdentityInv, IdentityTyped
<1>7. /\ decision' \in [Keys -> {None} \cup Remembered]
      /\ \A k \in Keys : \/ decision'[k] = decision[k]
                         \/ /\ k = a.path /\ says \in Answers /\ decision'[k] # None
                            /\ decision'[k].says = says /\ decision'[k].left = config.decision
  <2>1. CASE says \in Answers
    <3> DEFINE e == Put(decision[a.path], says, config.decision)
    <3>1. e \in {None} \cup Remembered
          /\ (e = decision[a.path] \/ (e.left = config.decision /\ e.says = says))
      BY <1>5, <1>6, <2>1, PutEntry
    <3>2. e # None \/ e = decision[a.path]
      BY <2>1, <3>1 DEF None, Answers
    <3>3. decision' = [decision EXCEPT ![a.path] = e]
      BY <1>4, <2>1
    <3> HIDE DEF e
    <3>4. QED
      BY <1>1, <1>3, <2>1, <3>1, <3>2, <3>3 DEF IdentityTyped
  <2>2. CASE says \notin Answers
    BY <1>1, <1>3, <1>4, <2>2 DEF IdentityTyped
  <2>3. QED
    BY <2>1, <2>2
<1>8. says \in Answers => since[a][says] + config.decision <= config.decision + Timeout
  BY <1>1, <1>3, <1>5 DEF AnswerIsFresh, IdentityTyped, says
<1>9. \A k \in Keys : DecisionIsFresh(k, decision'[k])
  BY <1>6, <1>7, <1>8 DEF DecisionIsFresh
<1>10. QED
  BY <1>1, <1>3, <1>4, <1>7, <1>9, Afters, RequestMoves DEF IdentityInv, IdentityTyped

LEMMA IdentityStep == IdentityInv /\ [Next]_vars => IdentityInv'
<1> SUFFICES ASSUME IdentityInv, [Next]_vars
             PROVE  IdentityInv'
  OBVIOUS
<1>1. CASE UNCHANGED vars
  BY <1>1 DEF vars, IdentityInv, IdentityTyped, TrueIsNew, Holds, TokenIsFresh, DecisionIsFresh, AnswerIsFresh
<1>2. CASE Next
  BY <1>2, WorldKeeps, TimeKeeps, EvictKeeps, BeginKeeps, LooksKeeps, TokenAnsweredKeeps, GoesKeeps,
     CheckThereKeeps, RightAnsweredKeeps DEF Next, Request
<1>3. QED
  BY <1>1, <1>2

\* Of MCPeople's two kinds of behaviour, the one leaves the identity alone.
LEMMA PeopleIsIdentity == PeopleSpec => Spec
<1>1. PeopleInit => Init
  BY DEF PeopleInit
<1>2. [PeopleNext]_<<which, vars, accountVars>> => [Next]_vars
  BY DEF PeopleNext
<1>3. QED
  BY <1>1, <1>2, PTL DEF PeopleSpec, Spec

LEMMA IdentityIsInvariant == Spec => []IdentityInv
BY IdentityInitially, IdentityStep, PTL DEF Spec


-----------------------------------------------------------------------------
(* Identity: what is believed was true lately                              *)

\* Only a request's own steps decide anything about it.
LEMMA OnlyItsOwnSteps ==
  ASSUME IdentityInv, Next, NEW r \in Requests,
         ~ \/ \E a \in Actions : Begin(r, a)
           \/ Looks(r) \/ TokenAnswered(r) \/ TimedOut(r) \/ NoAccount(r)
           \/ CheckHere(r) \/ CheckThere(r) \/ RightAnswered(r) \/ Answered(r)
  PROVE  req'[r].pc = req[r].pc
<1>1. IdentityTyped
  BY DEF IdentityInv
<1>2. ASSUME ChangeToken \/ (\E a \in Actions : ChangeRight(a)) \/ Evict
      PROVE  req' = req
  BY <1>2 DEF ChangeToken, ChangeRight, Evict
<1>3. CASE Tick
  <2>1. req'[r] = IF req[r].pc = "asks" THEN [req[r] EXCEPT !.left = Passed(@)] ELSE req[r]
    BY <1>3 DEF Tick
  <2>2. req[r].pc = "asks" => req[r] \in Asks
    BY <1>1 DEF IdentityTyped, Waiting, Known
  <2>3. QED
    BY <2>1, <2>2 DEF Asks
<1>4. ASSUME NEW q \in Requests \ {r}, Request(q)
      PROVE  req'[r] = req[r]
  <2>1. PICK to : req' = [req EXCEPT ![q] = to]
    BY <1>4 DEF Request, Begin, Looks, TokenAnswered, TimedOut, NoAccount, CheckHere, CheckThere,
       RightAnswered, Answered, Goes
  <2>2. QED
    BY <1>1, <2>1 DEF IdentityTyped
<1>5. ~Request(r)
  BY DEF Request
<1>6. QED
  BY <1>2, <1>3, <1>4, <1>5 DEF Next

LEMMA KnownByTheToken ==
  ASSUME IdentityInv, Next, NEW r \in Requests, Turns(r, "known")
  PROVE  since[Whose]["yes"] <= config.token + Timeout /\ ~Over
<1>1. IdentityTyped /\ Whose \in Questions /\ req[r] \in Waiting \cup Known \cup Asks
  BY DEF IdentityInv, IdentityTyped, Questions
<1>2. config.token \in Nat /\ Timeout \in Nat /\ since[Whose]["yes"] \in Nat
  BY <1>1, Seconds DEF IdentityTyped, Answers
<1>3. ASSUME NEW a \in Actions, Begin(r, a)
      PROVE  since[Whose]["yes"] <= config.token + Timeout /\ ~Over
  <2>1. req'[r] = IF token = None THEN Asking(Whose, a) ELSE At(After(Whose, token.says), a)
    BY <1>1, <1>3 DEF Begin, IdentityTyped
  <2>2. token # None
    BY <1>1, <2>1, Askings DEF Turns
  <2>3. token.says = "yes" /\ token.left \in Nat /\ token.left > 0
    BY <1>1, <2>1, <2>2, Afters DEF Turns, IdentityTyped, Remembered, Answers
  <2>4. since[Whose]["yes"] + token.left <= config.token + Timeout /\ (ends = Never \/ token.left <= ends)
    BY <2>2, <2>3 DEF IdentityInv, TokenIsFresh
  <2>5. QED
    BY <1>2, <2>3, <2>4 DEF Over, Never
<1>4. CASE TokenAnswered(r)
  <2>1. req[r] \in Asks /\ req[r].pc = "asks" /\ req[r].what = Whose /\ req[r].said \in Answers \cup {"broken"}
    BY <1>1, <1>4 DEF TokenAnswered, Waiting, Known, Asks
  <2>2. req[r].said = "yes" /\ ~Over
    <3>1. PICK says \in Answers \cup {"broken"} : says = IF req[r].said = "yes" /\ Over THEN "no" ELSE req[r].said
      BY <2>1 DEF Answers
    <3>2. req'[r] = At(After(Whose, says), req[r].action)
      BY <1>1, <1>4, <3>1 DEF TokenAnswered, IdentityTyped
    <3>3. says = "yes"
      BY <1>1, <2>1, <3>2, Afters DEF Turns, Asks, Answers
    <3>4. QED
      BY <3>1, <3>3
  <2>3. since[Whose]["yes"] + req[r].left <= Timeout /\ req[r].left \in Nat
    BY <2>1, <2>2 DEF IdentityInv, AnswerIsFresh, Asks, Answers
  <2>4. QED
    BY <1>2, <2>2, <2>3
<1>5. CASE Looks(r)
  <2>1. PICK says : req' = [req EXCEPT ![r].said = says]
    BY <1>5 DEF Looks
  <2>2. req[r] \in Asks
    BY <1>1, <1>5 DEF Looks, Waiting, Known
  <2>3. QED
    BY <1>1, <1>5, <2>1, <2>2 DEF Looks, Turns, Asks, IdentityTyped
<1>6. CASE TimedOut(r) \/ NoAccount(r) \/ CheckHere(r) \/ Answered(r)
  BY <1>1, <1>6 DEF TimedOut, NoAccount, CheckHere, Answered, Goes, Turns, IdentityTyped, Idle
<1>7. CASE CheckThere(r)
  BY <1>7 DEF CheckThere, Turns
<1>8. CASE RightAnswered(r)
  <2>1. /\ req[r] \in Asks /\ req[r].what # Whose /\ req[r].pc = "asks" /\ req[r].said \in Answers \cup {"broken"}
    BY <1>1, <1>8 DEF RightAnswered, Waiting, Known, Asks
  <2>2. req[r].action \in Actions /\ req[r].action \in Questions
    BY <2>1 DEF Asks, Questions
  <2>3. req'[r] = At(After(req[r].action, req[r].said), req[r].action)
    BY <1>1, <1>8 DEF RightAnswered, IdentityTyped
  <2>4. req[r].action # Whose
    BY <2>2, IdentityAssumption
  <2>5. QED
    BY <2>1, <2>2, <2>3, <2>4, Afters DEF Turns
<1>9. QED
  BY <1>3, <1>4, <1>5, <1>6, <1>7, <1>8, OnlyItsOwnSteps DEF Turns

LEMMA DecidedByTheOtherSystem ==
  ASSUME IdentityInv, Next, NEW r \in Requests, NEW says \in Answers, Decided(r, says)
  PROVE  \E a \in Actions : a.path = req[r].action.path /\ since[a][says] <= config.decision + Timeout
<1>1. IdentityTyped /\ req[r] \in Known \cup Asks /\ req[r].action \in Actions /\ OtherDecides
  BY DEF IdentityInv, IdentityTyped, Decided, Waiting, Known, Asks
<1>2. PICK b \in Actions : b = req[r].action
  BY <1>1
<1>3. b # Whose /\ b \in Questions /\ Key(b) \in Keys /\ config.decision \in Nat /\ Timeout \in Nat
  BY <1>1, IdentityAssumption, Seconds DEF Questions, Keys
<1>4. After(b, "yes") = "served" /\ After(b, "no") = "refused"
      /\ After(b, says) \in {"served", "refused"} /\ req'[r].pc = After(b, says)
  BY <1>2, <1>3, Afters DEF Decided, Answers
<1>5. CASE CheckThere(r)
  <2>1. req'[r] = IF decision[Key(b)] = None THEN Asking(b, b) ELSE At(After(b, decision[Key(b)].says), b)
    BY <1>1, <1>2, <1>5 DEF CheckThere, IdentityTyped
  <2>2. decision[Key(b)] # None
    BY <1>1, <1>3, <1>4, <2>1, Askings
  <2>3. decision[Key(b)] \in Remembered
    BY <1>1, <1>3, <2>2 DEF IdentityTyped
  <2>4. decision[Key(b)].says = says /\ decision[Key(b)].left \in Nat
    BY <1>3, <1>4, <2>1, <2>2, <2>3, Afters DEF Remembered, Answers
  <2>5. PICK a \in Actions :
          /\ a.path = Key(b)
          /\ since[a][says] + decision[Key(b)].left <= config.decision + Timeout
    BY <1>3, <2>2, <2>4 DEF IdentityInv, DecisionIsFresh
  <2>6. since[a][says] \in Nat
    BY <1>1 DEF IdentityTyped, Questions
  <2>7. QED
    BY <1>2, <1>3, <2>4, <2>5, <2>6 DEF Key
<1>6. CASE RightAnswered(r)
  <2>1. req[r] \in Asks /\ req[r].pc = "asks" /\ req[r].said \in Answers \cup {"broken"} /\ req[r].left \in Nat
    BY <1>1, <1>6 DEF RightAnswered, Known, Asks
  <2>2. req'[r] = At(After(b, req[r].said), b)
    BY <1>1, <1>2, <1>6 DEF RightAnswered, IdentityTyped
  <2>3. req[r].said = says
    BY <1>3, <1>4, <2>1, <2>2, Afters DEF Answers
  <2>4. req[r].what = b
    BY <1>2, <1>6, <2>1 DEF RightAnswered, IdentityInv, AnswerIsFresh
  <2>5. since[b][says] + req[r].left <= Timeout /\ since[b][says] \in Nat
    BY <1>1, <1>3, <2>1, <2>3, <2>4 DEF IdentityInv, AnswerIsFresh, IdentityTyped
  <2>6. QED
    BY <1>2, <1>3, <2>1, <2>5
<1>7. ~TokenAnswered(r) /\ \A a \in Actions : ~Begin(r, a)
  BY <1>1 DEF Decided, TokenAnswered, Begin
<1>8. CASE Looks(r)
  <2>1. PICK x : req' = [req EXCEPT ![r].said = x]
    BY <1>8 DEF Looks
  <2>2. req[r] \in Asks /\ req[r].pc = "asks"
    BY <1>1, <1>8 DEF Looks, Known
  <2>3. QED
    BY <1>1, <1>4, <2>1, <2>2 DEF Asks, IdentityTyped
<1>9. CASE TimedOut(r) \/ NoAccount(r)
  BY <1>1, <1>4, <1>9 DEF TimedOut, NoAccount, Goes, IdentityTyped
<1>10. ~CheckHere(r) /\ ~Answered(r)
  BY <1>1 DEF CheckHere, Answered, Decided, Known, Asks
<1>11. QED
  BY <1>1, <1>4, <1>5, <1>6, <1>7, <1>8, <1>9, <1>10, OnlyItsOwnSteps DEF Known, Asks

\* A token is believed only if the other system stood by it at some moment of the last
\* token_cache_seconds and one call, and the identity has not ended, for every number of
\* requests and every deployment's settings (identity_for_token).
THEOREM TokensAreVouchedFor == PeopleSpec => VouchedForLately
<1>1. IdentityInv /\ [Next]_vars
      => [\A r \in Requests : Turns(r, "known") => since[Whose]["yes"] <= config.token + Timeout /\ ~Over]_vars
  BY KnownByTheToken
<1>2. Spec => VouchedForLately
  BY <1>1, IdentityIsInvariant, PTL DEF Spec, VouchedForLately
<1>3. QED
  BY <1>2, PeopleIsIdentity, PTL

\* Where the other system decides, nothing is let through or refused by an answer older than
\* decision_cache_seconds and one call, and none but of the same right and declared path
\* (decide).
THEOREM DecisionsAreItsOwn == PeopleSpec => DecidedLately
<1>1. IdentityInv /\ [Next]_vars
      => [\A r \in Requests : \A says \in Answers :
            Decided(r, says) =>
              \E a \in Actions :
                a.path = req[r].action.path /\ since[a][says] <= config.decision + Timeout]_vars
  BY DecidedByTheOtherSystem
<1>2. Spec => DecidedLately
  BY <1>1, IdentityIsInvariant, PTL DEF Spec, DecidedLately
<1>3. QED
  BY <1>2, PeopleIsIdentity, PTL

-----------------------------------------------------------------------------
(* Accounts: the inductive invariant                                       *)

Name == (Names \cup {"", "admin", "system"}) \X Nat
Account == [name : Name, subject : Subjects \cup {""}, status : {"none", "active", "blocked", "system"},
            password : {"none", "given", "generated", "chosen", "retired"}, roles : SUBSET People!Roles]
\* What a start may be going to write: nothing, a new account, or columns of the one there.
AdminWrites == {People!Absent, People!FirstAdministrator, [People!Absent EXCEPT !.password = "given"]}
SystemWrites == {People!Absent, People!ServiceAccount, [People!Absent EXCEPT !.status = "system"]}
StartCall ==
  [kind : {"start"}, pc : {"admin", "system", "commit"},
   admin : AdminWrites,
   system : SystemWrites]
ChangeCall ==
  [kind : {"change"}, pc : {"check", "roles", "status", "again"}, actor : People!Ids, user : People!Ids,
   roles : SUBSET People!Roles, status : {"", "active", "blocked"}]
SignInCall ==
  [kind : {"signin"}, pc : {"find", "name", "insert", "roles", "clear", "grant", "session"},
   subject : Subjects, claims : SUBSET Permissions, user : People!Ids \cup {0}, name : Name, tries : Nat,
   left : SUBSET Permissions, policy : {People!Absent} \cup Policy]
Call == {People!Idle} \cup StartCall \cup ChangeCall \cup SignInCall

AccountsTyped ==
  /\ row \in [People!Ids -> Account]
  /\ call \in [Requests -> Call]
  /\ seeded \in BOOLEAN /\ excused \in BOOLEAN /\ opened \in BOOLEAN

TheAdministrators == <<"admin", 1>>
TheServices == <<"system", 1>>

\* Nobody who has the name of the service account can sign in by it.
Closed == \A u \in People!Named(TheServices) : row[u].status # "active"

Apart ==
  \A u, v \in People!Ids : u # v /\ People!Exists(u) /\ People!Exists(v) =>
    row[u].name # row[v].name /\ (row[u].subject # "" => row[u].subject # row[v].subject)

\* The two first rows are the two accounts of a start, and no others.
RowsFit ==
  /\ \A u \in People!Ids : People!Exists(u) => row[u].status # "none"
  /\ People!Exists(People!Admin) => row[People!Admin].name = TheAdministrators
  /\ People!Exists(People!System) => row[People!System].name = TheServices
  /\ Apart
  /\ seeded => People!Named(TheServices) # {}
  /\ seeded /\ ~opened => Closed

\* What a start found there is there when it commits, and closed unless it was opened.
StartFits(q) ==
  /\ q.pc \in {"system", "commit"} /\ q.admin.roles = {} => People!Named(TheAdministrators) # {}
  /\ q.pc = "commit" /\ q.system.roles = {} => People!Named(TheServices) # {}
  /\ q.pc = "commit" /\ q.system = People!Absent /\ ~opened => Closed

ChangeFits(q) ==
  /\ People!Exists(q.user)
  /\ q.pc = "status" => q.status # ""
  /\ q.pc \in {"check", "roles", "again"} => q.roles # {}

SignInFits(q) ==
  /\ q.pc \in {"roles", "clear", "grant", "session"} => q.user # 0
  /\ q.pc \in {"name", "insert", "roles"} => q.policy \in Policy
  /\ q.user # 0 => People!Exists(q.user) /\ row[q.user].subject = q.subject

CallFits(q) ==
  /\ q.kind = "start" => StartFits(q)
  /\ q.kind = "change" => ChangeFits(q)
  /\ q.kind = "signin" => SignInFits(q)

\* The rows and the calls under way agree.
Books == AccountsTyped /\ RowsFit /\ \A c \in Requests : CallFits(call[c])

\* Past what was asked of it before it writes: it checked the roles, or is not the actor's own.
Allowed(q) == q.status = "blocked" \/ q.pc \in {"roles", "status", "again"}

\* There is an administrator while changes are under way, and another one whenever one that
\* is allowed would end one.
Administered ==
  ~excused =>
    /\ seeded \/ (\E c \in Requests : call[c].kind = "change") => People!ActiveAdministrators # {}
    /\ \A c \in Requests : People!EndsAnAdministrator(call[c]) /\ Allowed(call[c]) =>
         People!ActiveAdministrators \ {call[c].user} # {}

AccountsInv == Books /\ Administered

LEMMA AccountConstants ==
  /\ Proposed \in [Subjects -> Names] /\ Changes \subseteq SUBSET People!Roles
  /\ Policy \subseteq [status : {"active", "blocked"}, roles : SUBSET People!Roles]
  /\ "" \notin Subjects /\ Given \in BOOLEAN /\ MaxAccounts \in Nat
  /\ People!Ids = 1 .. MaxAccounts + 2 /\ People!Admin \in People!Ids /\ People!System \in People!Ids
  /\ People!Admin = 1 /\ People!System = 2 /\ People!Ids \subseteq Nat \ {0}
<1>1. MaxAccounts \in Nat
  BY PeopleAssumption DEF People!AccountsAssumption
<1>2. /\ People!Ids = 1 .. MaxAccounts + 2 /\ People!Admin = 1 /\ People!System = 2
      /\ 1 \in People!Ids /\ 2 \in People!Ids /\ People!Ids \subseteq Nat \ {0}
  BY <1>1 DEF People!Ids, People!Admin, People!System
<1>3. /\ Proposed \in [Subjects -> Names] /\ Changes \subseteq SUBSET People!Roles
      /\ Policy \subseteq [status : {"active", "blocked"}, roles : SUBSET People!Roles]
      /\ "" \notin Subjects /\ Given \in BOOLEAN
  BY PeopleAssumption DEF People!AccountsAssumption
<1>4. QED
  BY <1>1, <1>2, <1>3

\* The records that accounts begin as.
LEMMA FirstAccounts ==
  /\ People!Absent \in Account /\ People!FirstAdministrator \in Account /\ People!ServiceAccount \in Account
  /\ People!Absent.status = "none" /\ People!Absent.roles = {} /\ People!Absent.subject = ""
  /\ People!FirstAdministrator.name = TheAdministrators /\ People!FirstAdministrator.status = "active"
  /\ People!FirstAdministrator.roles = {"ADMIN"} /\ People!FirstAdministrator.subject = ""
  /\ People!ServiceAccount.name = TheServices /\ People!ServiceAccount.status = "system"
  /\ People!ServiceAccount.roles = {"ADMIN"} /\ People!ServiceAccount.subject = ""
BY AccountConstants
DEF People!Absent, People!FirstAdministrator, People!ServiceAccount, Account, Name, People!Roles,
    TheAdministrators, TheServices

LEMMA EarlierAccounts ==
  ASSUME NEW account \in Account, NEW password \in {"retired", "chosen"}
  PROVE  /\ People!EarlierBuild(account, password) \in Account
         /\ People!EarlierBuild(account, password).name = account.name
         /\ People!EarlierBuild(account, password).subject = account.subject
         /\ People!EarlierBuild(account, password).status = "active"
BY DEF People!EarlierBuild, Account

\* The two accounts of a database that a start finds.
Found(admin, system) ==
  /\ row = People!Holding(admin, system)
  /\ \/ admin = People!Absent /\ system = People!Absent /\ seeded = FALSE
     \/ /\ admin.name = TheAdministrators /\ admin.status = "active" /\ admin.subject = ""
        /\ system.name = TheServices /\ system.subject = "" /\ system.status # "none"
        /\ seeded => system.status = "system" /\ "ADMIN" \in admin.roles
  /\ seeded \in BOOLEAN

LEMMA AccountsInitially == People!Init => AccountsInv
<1> SUFFICES ASSUME People!Init
             PROVE  AccountsInv
  OBVIOUS
<1>1. PICK admin \in Account, system \in Account : Found(admin, system)
  <2>1. CASE row = People!Holding(People!Absent, People!Absent) /\ seeded = FALSE
    BY <2>1, FirstAccounts DEF Found
  <2>2. CASE row = People!Holding(People!FirstAdministrator, People!ServiceAccount) /\ seeded = TRUE
    BY <2>2, FirstAccounts DEF Found
  <2>3. ASSUME NEW password \in {"retired", "chosen"}, seeded = FALSE,
               row = People!Holding(People!EarlierBuild(People!FirstAdministrator, "retired"),
                                    People!EarlierBuild(People!ServiceAccount, password))
        PROVE  \E admin \in Account, system \in Account : Found(admin, system)
    <3>1. PICK a \in Account, s \in Account :
            /\ a = People!EarlierBuild(People!FirstAdministrator, "retired")
            /\ s = People!EarlierBuild(People!ServiceAccount, password)
      BY FirstAccounts, EarlierAccounts
    <3>2. a.name = TheAdministrators /\ a.status = "active" /\ a.subject = ""
      BY <3>1, FirstAccounts, EarlierAccounts
    <3>3. s.name = TheServices /\ s.status = "active" /\ s.subject = ""
      BY <3>1, FirstAccounts, EarlierAccounts
    <3>4. QED
      BY <2>3, <3>1, <3>2, <3>3 DEF Found
  <2>4. QED
    <3>1. \/ row = People!Holding(People!Absent, People!Absent) /\ seeded = FALSE
          \/ row = People!Holding(People!FirstAdministrator, People!ServiceAccount) /\ seeded = TRUE
          \/ /\ seeded = FALSE
             /\ \E password \in {"retired", "chosen"} :
                  row = People!Holding(People!EarlierBuild(People!FirstAdministrator, "retired"),
                                       People!EarlierBuild(People!ServiceAccount, password))
      BY DEF People!Init
    <3>2. QED
      BY <2>1, <2>2, <2>3, <3>1
<1>2. /\ row \in [People!Ids -> Account]
      /\ row[1] = admin /\ row[2] = system
      /\ \A u \in People!Ids \ {1, 2} : row[u] = People!Absent
  <2>1. row = [u \in People!Ids |-> CASE u = 1 -> admin [] u = 2 -> system [] OTHER -> People!Absent]
    BY <1>1 DEF Found, People!Holding, People!Admin, People!System
  <2>2. People!Absent \in Account
    BY FirstAccounts
  <2>3. row[1] = admin /\ row[2] = system
    <3>1. 1 \in People!Ids /\ 2 \in People!Ids
      BY AccountConstants
    <3>2. QED
      BY <2>1, <3>1
  <2>4. \A u \in People!Ids \ {1, 2} : row[u] = People!Absent
    BY <2>1
  <2>5. row \in [People!Ids -> Account]
    BY <2>1, <2>2
  <2>6. QED
    BY <2>3, <2>4, <2>5
<1>3. /\ call \in [Requests -> Call] /\ \A c \in Requests : call[c] = People!Idle
      /\ seeded \in BOOLEAN /\ excused = FALSE /\ opened = FALSE
  BY <1>1 DEF People!Init, Call, Found
<1>4. RowsFit
  <2>1. TheAdministrators # TheServices
    BY DEF TheAdministrators, TheServices
  <2>2. \A u \in People!Ids : People!Exists(u) => u \in {1, 2} /\ row[u].status # "none"
    BY <1>1, <1>2, <2>1 DEF People!Exists, Found
  <2>3. Apart
    <3>1. SUFFICES ASSUME NEW u \in People!Ids, NEW v \in People!Ids, u # v, People!Exists(u), People!Exists(v)
                   PROVE  row[u].name # row[v].name /\ row[u].subject = ""
      BY DEF Apart
    <3>2. (u = 1 /\ v = 2) \/ (u = 2 /\ v = 1)
      BY <2>2, <3>1
    <3>3. QED
      BY <1>1, <1>2, <2>1, <3>1, <3>2 DEF People!Exists, Found
  <2>4. seeded => People!Exists(2) /\ People!Exists(1)
    BY <1>1, <1>2, FirstAccounts DEF People!Exists, Found
  <2>5. seeded => People!Named(TheServices) # {} /\ Closed
    BY <1>1, <1>2, <2>1, <2>2, <2>4, AccountConstants DEF People!Named, Closed, Found
  <2>6. People!Exists(1) => row[1].name = TheAdministrators
    BY <1>1, <1>2 DEF People!Exists, Found
  <2>7. People!Exists(2) => row[2].name = TheServices
    BY <1>1, <1>2 DEF People!Exists, Found
  <2>8. QED
    BY <2>2, <2>3, <2>5, <2>6, <2>7, AccountConstants DEF RowsFit
<1>5. \A c \in Requests : call[c].kind = "idle"
  <2>1. People!Idle.kind = "idle"
    BY DEF People!Idle
  <2>2. QED
    BY <1>3, <2>1
<1>6. Administered
  <2>1. seeded => 1 \in People!ActiveAdministrators
    BY <1>1, <1>2, AccountConstants, FirstAccounts DEF People!ActiveAdministrators, Found
  <2>2. QED
    BY <1>5, <2>1 DEF Administered, People!EndsAnAdministrator
<1>7. QED
  BY <1>2, <1>3, <1>4, <1>5, <1>6 DEF AccountsInv, Books, AccountsTyped, CallFits

-----------------------------------------------------------------------------
(* Accounts: what every step does to the rows and the calls                *)

\* A step moves at most one call, and leaves the others where they still fit.
LEMMA BooksAfter ==
  ASSUME Books, row' \in [People!Ids -> Account], RowsFit',
         \A q \in Call : CallFits(q) => CallFits(q)',
         seeded' \in BOOLEAN, excused' \in BOOLEAN, opened' \in BOOLEAN,
         \/ call' = call
         \/ \E c \in Requests, q \in Call : call' = [call EXCEPT ![c] = q] /\ CallFits(q)'
  PROVE  Books'
<1>1. call \in [Requests -> Call] /\ \A c \in Requests : CallFits(call[c])
  BY DEF Books, AccountsTyped
<1>2. call' \in [Requests -> Call]
  BY <1>1
<1>3. AccountsTyped'
  BY <1>2 DEF AccountsTyped
<1>4. ASSUME NEW d \in Requests
      PROVE  CallFits(call[d])'
  <2>1. PICK q \in Call : q = call'[d]
    BY <1>2
  <2>2. CallFits(q)'
    BY <1>1, <2>1
  <2>3. QED
    BY <2>1, <2>2 DEF CallFits, StartFits, ChangeFits, SignInFits
<1>5. QED
  BY <1>3, <1>4 DEF Books

\* A step that writes no account.
LEMMA CallMoves ==
  ASSUME Books, NEW c \in Requests, NEW q \in Call, CallFits(q),
         UNCHANGED <<row, seeded, opened>>, excused' \in BOOLEAN, call' = [call EXCEPT ![c] = q]
  PROVE  Books'
<1>1. row' \in [People!Ids -> Account] /\ seeded' \in BOOLEAN /\ opened' \in BOOLEAN
  BY DEF Books, AccountsTyped
<1>2. RowsFit'
  BY DEF Books, RowsFit, People!Exists, People!Named, Apart, Closed
<1>3. \A p \in Call : CallFits(p) => CallFits(p)'
  BY DEF CallFits, StartFits, ChangeFits, SignInFits, People!Exists, People!Named, Closed
<1>4. CallFits(q)'
  BY <1>3
<1>5. QED
  BY <1>1, <1>2, <1>3, <1>4, BooksAfter

LEMMA EndMoves ==
  ASSUME Books, NEW c \in Requests, UNCHANGED <<row, seeded, opened>>, excused' \in BOOLEAN, People!End(c)
  PROVE  Books'
<1>1. People!Idle \in Call /\ CallFits(People!Idle)
  BY DEF Call, CallFits, People!Idle
<1>2. QED
  BY <1>1, CallMoves DEF People!End

\* What a call was promised holds on, when no account goes or changes its name, and the
\* service account is not let in.
LEMMA StillFits ==
  ASSUME NEW q, CallFits(q), q.kind = "change" => q.user \in People!Ids,
         q.kind = "signin" => q.user \in People!Ids \cup {0}, opened \in BOOLEAN, opened' \in BOOLEAN,
         \A u \in People!Ids : People!Exists(u) =>
           People!Exists(u)' /\ row'[u].name = row[u].name /\ row'[u].subject = row[u].subject,
         opened => opened',
         ~opened' /\ People!Named(TheServices) # {} /\ Closed
           => Closed'
  PROVE  CallFits(q)'
<1>1. \A name : People!Named(name) # {} => People!Named(name)' # {}
  BY DEF People!Named
<1>2. q.kind = "start" => StartFits(q)'
  <2>1. SUFFICES ASSUME q.kind = "start"
                 PROVE  StartFits(q)'
    OBVIOUS
  <2>2. StartFits(q)
    BY <2>1 DEF CallFits
  <2>3. q.pc = "commit" /\ q.system = People!Absent => People!Named(TheServices) # {}
    BY <2>2, FirstAccounts DEF StartFits
  <2>4. QED
    BY <1>1, <2>2, <2>3 DEF StartFits
<1>3. q.kind = "change" => ChangeFits(q)'
  BY DEF CallFits, ChangeFits
<1>4. q.kind = "signin" => SignInFits(q)'
  BY DEF CallFits, SignInFits
<1>5. QED
  BY <1>2, <1>3, <1>4 DEF CallFits

LEMMA Users ==
  ASSUME NEW q \in Call
  PROVE  /\ q.kind = "change" => q \in ChangeCall /\ q.user \in People!Ids
         /\ q.kind = "signin" => q \in SignInCall /\ q.user \in People!Ids \cup {0}
         /\ q.kind = "start" => q \in StartCall
         /\ q = People!Idle => q.kind = "idle"
<1>1. CASE q = People!Idle
  BY <1>1 DEF People!Idle
<1>2. CASE q \in StartCall
  <2>1. q.kind = "start"
    BY <1>2 DEF StartCall
  <2>2. QED
    BY <1>2, <2>1 DEF People!Idle
<1>3. CASE q \in ChangeCall
  <2>1. q.kind = "change" /\ q.user \in People!Ids
    BY <1>3 DEF ChangeCall
  <2>2. QED
    BY <1>3, <2>1 DEF People!Idle
<1>4. CASE q \in SignInCall
  <2>1. q.kind = "signin" /\ q.user \in People!Ids \cup {0}
    BY <1>4 DEF SignInCall
  <2>2. QED
    BY <1>4, <2>1 DEF People!Idle
<1>5. QED
  BY <1>1, <1>2, <1>3, <1>4 DEF Call

\* One account gets other roles, another state or another password.
LEMMA AccountUpdated ==
  ASSUME Books, NEW u \in People!Ids, People!Exists(u), NEW new \in Account,
         new.name = row[u].name, new.subject = row[u].subject, new.status # "none",
         row' = [row EXCEPT ![u] = new], seeded' = seeded, opened' \in BOOLEAN, opened => opened',
         ~opened' /\ row[u].name = TheServices /\ new.status = "active" => row[u].status = "active"
  PROVE  /\ row' \in [People!Ids -> Account] /\ RowsFit'
         /\ \A q \in Call : CallFits(q) => CallFits(q)'
<1>1. row \in [People!Ids -> Account] /\ RowsFit
  BY DEF Books, AccountsTyped
<1>2. row' \in [People!Ids -> Account]
  BY <1>1
<1>3. new # People!Absent
  BY FirstAccounts
<1>4. \A v \in People!Ids :
        /\ People!Exists(v)' <=> People!Exists(v)
        /\ row'[v].name = row[v].name /\ row'[v].subject = row[v].subject
        /\ v # u => row'[v] = row[v]
        /\ v = u => row'[v] = new
  BY <1>1, <1>3 DEF People!Exists
<1>5. \A name : People!Named(name)' = People!Named(name)
  BY <1>4 DEF People!Named
<1>6. ~opened' /\ Closed => Closed'
  <2>1. SUFFICES ASSUME ~opened', Closed, NEW v \in People!Named(TheServices)
                 PROVE  row'[v].status # "active"
    BY <1>5 DEF Closed
  <2>2. v \in People!Ids /\ row[v].name = TheServices /\ row[v].status # "active"
    BY <2>1 DEF Closed, People!Named
  <2>3. QED
    BY <1>4, <2>1, <2>2
<1>7. Apart'
  <2>1. SUFFICES ASSUME NEW v \in People!Ids, NEW w \in People!Ids, v # w, People!Exists(v)', People!Exists(w)'
                 PROVE  row'[v].name # row'[w].name
                        /\ (row'[v].subject # "" => row'[v].subject # row'[w].subject)
    BY DEF Apart
  <2>2. row[v].name # row[w].name /\ (row[v].subject # "" => row[v].subject # row[w].subject)
    BY <1>1, <1>4, <2>1 DEF RowsFit, Apart
  <2>3. QED
    BY <1>4, <2>2
<1>8. \A v \in People!Ids : People!Exists(v)' => row'[v].status # "none"
  BY <1>1, <1>4 DEF RowsFit
<1>9. /\ People!Exists(People!Admin)' => row'[People!Admin].name = TheAdministrators
      /\ People!Exists(People!System)' => row'[People!System].name = TheServices
  BY <1>1, <1>4, AccountConstants DEF RowsFit
<1>10. RowsFit'
  BY <1>1, <1>5, <1>6, <1>7, <1>8, <1>9 DEF RowsFit
<1>11. ASSUME NEW q \in Call, CallFits(q)
       PROVE  CallFits(q)'
  BY <1>4, <1>6, <1>11, Users, StillFits DEF Books, AccountsTyped
<1>12. QED
  BY <1>2, <1>10, <1>11

\* One account is inserted, under a name and a subject nobody has.
LEMMA AccountInserted ==
  ASSUME Books, NEW u \in People!Ids, u \notin {People!Admin, People!System}, ~People!Exists(u),
         NEW new \in Account, new.status # "none",
         People!Named(new.name) = {}, new.subject # "" => People!FindAccount(new.subject) = {},
         row' = [row EXCEPT ![u] = new], seeded' = seeded, opened' = opened
  PROVE  /\ row' \in [People!Ids -> Account] /\ RowsFit'
         /\ \A q \in Call : CallFits(q) => CallFits(q)'
<1>1. row \in [People!Ids -> Account] /\ RowsFit /\ opened \in BOOLEAN
  BY DEF Books, AccountsTyped
<1>2. row' \in [People!Ids -> Account]
  BY <1>1
<1>3. new # People!Absent
  BY FirstAccounts
<1>4. \A v \in People!Ids :
        /\ People!Exists(v)' <=> People!Exists(v) \/ v = u
        /\ v # u => row'[v] = row[v]
        /\ v = u => row'[v] = new
        /\ People!Exists(v) => v # u
  BY <1>1, <1>3 DEF People!Exists
<1>5. \A v \in People!Ids : People!Exists(v) =>
        row[v].name # new.name /\ (new.subject # "" => row[v].subject # new.subject)
  BY DEF People!Named, People!FindAccount
<1>6. \A name : name # new.name => People!Named(name)' = People!Named(name)
  BY <1>4 DEF People!Named
<1>7. People!Named(TheServices) # {} => People!Named(TheServices)' = People!Named(TheServices)
  BY <1>6
<1>8. People!Named(TheServices) # {} /\ Closed => Closed'
  <2>1. SUFFICES ASSUME People!Named(TheServices) # {}, Closed, NEW v \in People!Named(TheServices)
                 PROVE  row'[v].status # "active"
    BY <1>7 DEF Closed
  <2>2. v \in People!Ids /\ People!Exists(v) /\ row[v].status # "active"
    BY <2>1 DEF Closed, People!Named
  <2>3. QED
    BY <1>4, <2>2
<1>9. Apart'
  <2>1. SUFFICES ASSUME NEW v \in People!Ids, NEW w \in People!Ids, v # w, People!Exists(v)', People!Exists(w)'
                 PROVE  row'[v].name # row'[w].name
                        /\ (row'[v].subject # "" => row'[v].subject # row'[w].subject)
    BY DEF Apart
  <2>2. CASE v = u
    BY <1>4, <1>5, <2>1, <2>2
  <2>3. CASE w = u
    BY <1>4, <1>5, <2>1, <2>3
  <2>4. CASE v # u /\ w # u
    BY <1>1, <1>4, <2>1, <2>4 DEF RowsFit, Apart
  <2>5. QED
    BY <2>2, <2>3, <2>4
<1>10. /\ \A v \in People!Ids : People!Exists(v)' => row'[v].status # "none"
       /\ People!Exists(People!Admin)' => row'[People!Admin].name = TheAdministrators
       /\ People!Exists(People!System)' => row'[People!System].name = TheServices
  BY <1>1, <1>4, AccountConstants DEF RowsFit
<1>11. RowsFit'
  BY <1>1, <1>7, <1>8, <1>9, <1>10 DEF RowsFit
<1>12. \A v \in People!Ids : People!Exists(v) =>
         People!Exists(v)' /\ row'[v].name = row[v].name /\ row'[v].subject = row[v].subject
  BY <1>4
<1>13. ASSUME NEW q \in Call, CallFits(q)
       PROVE  CallFits(q)'
  BY <1>1, <1>8, <1>12, <1>13, Users, StillFits
<1>14. QED
  BY <1>2, <1>11, <1>13

\* Nobody stops being an active administrator, and what is under way ends none that is the
\* only one.
LEMMA AdministeredGrows ==
  ASSUME AccountsInv, ~excused, ~excused', seeded' => seeded \/ People!ActiveAdministrators' # {},
         People!ActiveAdministrators \subseteq People!ActiveAdministrators',
         \A c \in Requests :
           \/ call'[c].kind # "change"
           \/ /\ call[c].kind = "change" /\ call'[c].user = call[c].user
              /\ call'[c].roles = call[c].roles /\ call'[c].status = call[c].status
              /\ Allowed(call'[c]) => Allowed(call[c])
           \/ /\ People!ActiveAdministrators' # {}
              /\ People!EndsAnAdministrator(call[c])' /\ Allowed(call'[c])
                   => People!ActiveAdministrators' \ {call'[c].user} # {}
  PROVE  Administered'
<1>1. /\ seeded \/ (\E c \in Requests : call[c].kind = "change") => People!ActiveAdministrators # {}
      /\ \A c \in Requests : People!EndsAnAdministrator(call[c]) /\ Allowed(call[c]) =>
           People!ActiveAdministrators \ {call[c].user} # {}
  BY DEF AccountsInv, Administered
<1>2. seeded' \/ (\E c \in Requests : call'[c].kind = "change") => People!ActiveAdministrators' # {}
  BY <1>1
<1>3. ASSUME NEW c \in Requests, People!EndsAnAdministrator(call[c])', Allowed(call'[c])
      PROVE  People!ActiveAdministrators' \ {call'[c].user} # {}
  <2>1. call'[c].kind = "change"
    BY <1>3 DEF People!EndsAnAdministrator
  <2>2. ASSUME call[c].kind = "change", call'[c].user = call[c].user,
               call'[c].roles = call[c].roles, call'[c].status = call[c].status, Allowed(call[c])
        PROVE  People!ActiveAdministrators' \ {call'[c].user} # {}
    <3>1. CASE call[c].user \in People!ActiveAdministrators
      <4>1. People!EndsAnAdministrator(call[c])
        BY <1>3, <2>2, <3>1 DEF People!EndsAnAdministrator
      <4>2. People!ActiveAdministrators \ {call[c].user} # {}
        BY <1>1, <2>2, <4>1
      <4>3. QED
        BY <2>2, <4>2
    <3>2. CASE call[c].user \notin People!ActiveAdministrators
      <4>1. People!ActiveAdministrators # {}
        BY <1>1, <2>2
      <4>2. QED
        BY <2>2, <3>2, <4>1
    <3>3. QED
      BY <3>1, <3>2
  <2>3. QED
    BY <1>3, <2>1, <2>2
<1>4. QED
  BY <1>2, <1>3 DEF Administered, Allowed

LEMMA ExcusedAdministered == ASSUME excused' PROVE Administered'
BY DEF Administered

\* A call that changes nothing of an account goes on, or ends, or begins.
LEMMA CallGoesOn ==
  ASSUME AccountsInv, NEW c \in Requests, NEW q \in Call, CallFits(q), q.kind # "change",
         UNCHANGED <<row, seeded, opened, excused>>, call' = [call EXCEPT ![c] = q]
  PROVE  AccountsInv'
<1>1. Books /\ call \in [Requests -> Call] /\ excused' \in BOOLEAN
  BY DEF AccountsInv, Books, AccountsTyped
<1>2. Books'
  BY <1>1, CallMoves
<1>3. People!ActiveAdministrators' = People!ActiveAdministrators
  BY DEF People!ActiveAdministrators
<1>4. \A d \in Requests : call'[d] = call[d] \/ call'[d].kind # "change"
  BY <1>1
<1>5. Administered'
  <2>1. CASE excused'
    BY <2>1, ExcusedAdministered
  <2>2. CASE ~excused'
    BY <1>3, <1>4, <2>2, AdministeredGrows
  <2>3. QED
    BY <2>1, <2>2
<1>6. QED
  BY <1>2, <1>5 DEF AccountsInv

LEMMA CallEnds ==
  ASSUME AccountsInv, NEW c \in Requests, UNCHANGED <<row, seeded, opened, excused>>, People!End(c)
  PROVE  AccountsInv'
<1>1. People!Idle \in Call /\ CallFits(People!Idle) /\ People!Idle.kind # "change"
  BY DEF Call, CallFits, People!Idle
<1>2. QED
  BY <1>1, CallGoesOn DEF People!End

\* A step that writes accounts, of a call that is no change, and ends no administrator.
LEMMA WriteGoesOn ==
  ASSUME AccountsInv, row' \in [People!Ids -> Account], RowsFit',
         \A q \in Call : CallFits(q) => CallFits(q)',
         seeded' \in BOOLEAN, excused' \in BOOLEAN, opened' \in BOOLEAN, excused => excused',
         ~excused' =>
           /\ seeded' => seeded \/ People!ActiveAdministrators' # {}
           /\ People!ActiveAdministrators \subseteq People!ActiveAdministrators',
         \/ call' = call
         \/ \E c \in Requests, q \in Call :
              call' = [call EXCEPT ![c] = q] /\ CallFits(q)' /\ q.kind # "change"
  PROVE  AccountsInv'
<1>1. Books'
  BY BooksAfter DEF AccountsInv
<1>2. call \in [Requests -> Call]
  BY DEF AccountsInv, Books, AccountsTyped
<1>3. \A d \in Requests : call'[d] = call[d] \/ call'[d].kind # "change"
  BY <1>2
<1>4. ASSUME excused'
      PROVE  Administered'
  BY <1>4, ExcusedAdministered
<1>5. ASSUME ~excused'
      PROVE  Administered'
  BY <1>3, <1>5, AdministeredGrows
<1>6. QED
  BY <1>1, <1>4, <1>5 DEF AccountsInv

-----------------------------------------------------------------------------
(* Accounts: the steps of a start                                          *)

LEMMA StartCalls ==
  ASSUME NEW q \in StartCall
  PROVE  q \in Call /\ q.kind = "start" /\ (StartFits(q) => CallFits(q))
BY DEF StartCall, Call, CallFits

LEMMA BeginStartKeeps ==
  ASSUME AccountsInv, NEW c \in Requests, People!BeginStart(c)
  PROVE  AccountsInv'
<1> DEFINE q == [kind |-> "start", pc |-> "admin", admin |-> People!Absent, system |-> People!Absent]
<1>1. q \in StartCall /\ StartFits(q)
  BY DEF StartCall, StartFits, AdminWrites, SystemWrites
<1>2. call' = [call EXCEPT ![c] = q] /\ UNCHANGED <<row, seeded, opened, excused>>
  BY DEF People!BeginStart, People!Begin
<1> HIDE DEF q
<1>3. QED
  BY <1>1, <1>2, StartCalls, CallGoesOn

\* What a start is going to write of the administrator, and of the service account.
LEMMA EnsureAdminKeeps ==
  ASSUME AccountsInv, NEW c \in Requests, People!EnsureAdmin(c)
  PROVE  AccountsInv'
<1>1. call \in [Requests -> Call] /\ call[c] \in StartCall
  BY Users DEF People!EnsureAdmin, AccountsInv, Books, AccountsTyped
<1>2. PICK admin \in AdminWrites :
        /\ call' = [call EXCEPT ![c].pc = "system", ![c].admin = admin]
        /\ admin.roles = {} => People!Named(TheAdministrators) # {}
  <2>1. People!FirstAdministrator.roles # {}
    BY FirstAccounts
  <2>2. QED
    BY <2>1 DEF People!EnsureAdmin, TheAdministrators, AdminWrites
<1> DEFINE q == [call[c] EXCEPT !.pc = "system", !.admin = admin]
<1>3. q \in StartCall /\ q.pc = "system" /\ q.admin = admin
  BY <1>1, <1>2 DEF StartCall
<1>4. call' = [call EXCEPT ![c] = q]
  BY <1>1, <1>2
<1> HIDE DEF q
<1>5. StartFits(q)
  BY <1>2, <1>3 DEF StartFits
<1>6. UNCHANGED <<row, seeded, opened, excused>>
  BY DEF People!EnsureAdmin
<1>7. QED
  BY <1>3, <1>4, <1>5, <1>6, StartCalls, CallGoesOn

LEMMA EnsureSystemKeeps ==
  ASSUME AccountsInv, NEW c \in Requests, People!EnsureSystem(c)
  PROVE  AccountsInv'
<1>1. call \in [Requests -> Call] /\ call[c] \in StartCall /\ StartFits(call[c])
  BY Users DEF People!EnsureSystem, AccountsInv, Books, AccountsTyped, CallFits
<1>2. PICK system \in SystemWrites :
        /\ call' = [call EXCEPT ![c].pc = "commit", ![c].system = system]
        /\ system.roles = {} => People!Named(TheServices) # {}
        /\ system = People!Absent => \A u \in People!Named(TheServices) : ~People!ToRetire(row[u])
  <2>1. People!ServiceAccount.roles # {} /\ People!ServiceAccount # People!Absent
    BY FirstAccounts
  <2>2. [People!Absent EXCEPT !.status = "system"] # People!Absent
    BY DEF People!Absent
  <2>3. QED
    BY <2>1, <2>2 DEF People!EnsureSystem, TheServices, SystemWrites
<1> DEFINE q == [call[c] EXCEPT !.pc = "commit", !.system = system]
<1>3. /\ q \in StartCall /\ q.pc = "commit" /\ q.system = system /\ q.admin = call[c].admin
  BY <1>1, <1>2 DEF StartCall
<1>4. call' = [call EXCEPT ![c] = q]
  BY <1>1, <1>2
<1> HIDE DEF q
<1>5. StartFits(q)
  <2>1. call[c].pc = "system"
    BY DEF People!EnsureSystem
  <2>2. system = People!Absent => Closed
    BY <1>2 DEF Closed, People!ToRetire
  <2>3. QED
    BY <1>1, <1>2, <1>3, <2>1, <2>2 DEF StartFits
<1>6. UNCHANGED <<row, seeded, opened, excused>>
  BY DEF People!EnsureSystem
<1>7. QED
  BY <1>3, <1>4, <1>5, <1>6, StartCalls, CallGoesOn

\* A name's row is the account that has the name, or a free one.
LEMMA RowOfName ==
  ASSUME Books, NEW name, NEW id \in People!Ids, People!Exists(id) => row[id].name = name
  PROVE  /\ People!RowOf(name, id) \in People!Ids
         /\ People!Named(name) = {} => People!RowOf(name, id) = id /\ ~People!Exists(id)
         /\ People!Named(name) # {} => /\ People!Exists(People!RowOf(name, id))
                                       /\ row[People!RowOf(name, id)].name = name
         /\ \A v \in People!Ids \ {People!RowOf(name, id)} : People!Exists(v) => row[v].name # name
<1>1. CASE People!Named(name) = {}
  BY <1>1 DEF People!RowOf, People!Named
<1>2. CASE People!Named(name) # {}
  <2>1. People!RowOf(name, id) \in People!Named(name)
    BY <1>2 DEF People!RowOf
  <2>2. QED
    BY <1>2, <2>1 DEF People!Named, Books, RowsFit, Apart
<1>3. QED
  BY <1>1, <1>2

\* A row that is inserted is the account of a start; one that is there keeps whose it is.
LEMMA AdminWritten ==
  ASSUME NEW old \in Account,
         NEW new \in AdminWrites
  PROVE  /\ new.roles # {} => new = People!FirstAdministrator /\ People!Written(old, new) = new
         /\ new.roles = {} =>
              /\ People!Written(old, new) \in Account
              /\ People!Written(old, new).name = old.name /\ People!Written(old, new).subject = old.subject
              /\ People!Written(old, new).status = old.status /\ People!Written(old, new).roles = old.roles
<1>1. CASE new = People!FirstAdministrator
  BY <1>1, FirstAccounts DEF People!Written
<1>2. CASE new = People!Absent
  BY <1>2 DEF People!Written, People!Absent
<1>3. CASE new = [People!Absent EXCEPT !.password = "given"]
  <2>1. new.roles = {} /\ new.status = "none" /\ new.password = "given"
    BY <1>3 DEF People!Absent
  <2>2. People!Written(old, new) = [old EXCEPT !.password = "given"]
    BY <2>1 DEF People!Written
  <2>3. QED
    BY <2>1, <2>2 DEF Account
<1>4. QED
  BY <1>1, <1>2, <1>3 DEF AdminWrites

LEMMA SystemWritten ==
  ASSUME NEW old \in Account,
         NEW new \in SystemWrites
  PROVE  /\ new.roles # {} => new = People!ServiceAccount /\ People!Written(old, new) = new
         /\ new.roles = {} =>
              /\ People!Written(old, new) \in Account
              /\ People!Written(old, new).name = old.name /\ People!Written(old, new).subject = old.subject
              /\ People!Written(old, new).status = IF new = People!Absent THEN old.status ELSE "system"
              /\ People!Written(old, new).roles = old.roles
<1>1. CASE new = People!ServiceAccount
  BY <1>1, FirstAccounts DEF People!Written
<1>2. CASE new = People!Absent
  BY <1>2 DEF People!Written, People!Absent
<1>3. CASE new = [People!Absent EXCEPT !.status = "system"]
  <2>1. new.roles = {} /\ new.status = "system" /\ new # People!Absent
    BY <1>3 DEF People!Absent
  <2>2. People!Written(old, new) = [old EXCEPT !.status = "system", !.password = "none"]
    BY <2>1 DEF People!Written
  <2>3. QED
    BY <2>1, <2>2 DEF Account
<1>4. QED
  BY <1>1, <1>2, <1>3 DEF SystemWrites

LEMMA CommitStartKeeps ==
  ASSUME AccountsInv, NEW c \in Requests, People!CommitStart(c)
  PROVE  AccountsInv'
<1>1. /\ Books /\ row \in [People!Ids -> Account] /\ RowsFit /\ call \in [Requests -> Call]
      /\ call[c] \in StartCall /\ call[c].pc = "commit" /\ StartFits(call[c])
      /\ opened \in BOOLEAN /\ seeded \in BOOLEAN /\ excused \in BOOLEAN
  BY Users DEF People!CommitStart, AccountsInv, Books, AccountsTyped, CallFits
<1>2. /\ call[c].admin \in AdminWrites
      /\ call[c].system \in SystemWrites
  BY <1>1 DEF StartCall
<1>3. PICK a \in People!Ids, s \in People!Ids :
        /\ a = People!RowOf(TheAdministrators, People!Admin)
        /\ s = People!RowOf(TheServices, People!System)
  BY <1>1, AccountConstants, RowOfName DEF RowsFit
<1>4. /\ People!Named(TheAdministrators) = {} => a = 1 /\ ~People!Exists(a)
      /\ People!Named(TheAdministrators) # {} => People!Exists(a) /\ row[a].name = TheAdministrators
      /\ \A v \in People!Ids \ {a} : People!Exists(v) => row[v].name # TheAdministrators
  <2>1. People!Exists(1) => row[1].name = TheAdministrators
    BY <1>1 DEF RowsFit, People!Admin
  <2>2. 1 \in People!Ids /\ a = People!RowOf(TheAdministrators, 1)
    BY <1>3, AccountConstants DEF People!Admin
  <2>3. QED
    BY <1>1, <2>1, <2>2, RowOfName
<1>5. /\ People!Named(TheServices) = {} => s = 2 /\ ~People!Exists(s)
      /\ People!Named(TheServices) # {} => People!Exists(s) /\ row[s].name = TheServices
      /\ \A v \in People!Ids \ {s} : People!Exists(v) => row[v].name # TheServices
  <2>1. People!Exists(2) => row[2].name = TheServices
    BY <1>1 DEF RowsFit, People!System
  <2>2. 2 \in People!Ids /\ s = People!RowOf(TheServices, 2)
    BY <1>3, AccountConstants DEF People!System
  <2>3. QED
    BY <1>1, <2>1, <2>2, RowOfName
<1>6. TheAdministrators # TheServices
  BY DEF TheAdministrators, TheServices
<1>7. a # s /\ a # 2 /\ s # 1
  <2>1. /\ People!Exists(1) => row[1].name = TheAdministrators
        /\ People!Exists(2) => row[2].name = TheServices
    BY <1>1 DEF RowsFit, People!Admin, People!System
  <2>2. a = 1 \/ (People!Exists(a) /\ row[a].name = TheAdministrators)
    BY <1>4
  <2>3. s = 2 \/ (People!Exists(s) /\ row[s].name = TheServices)
    BY <1>5
  <2>4. (a = 1 => ~People!Exists(1) \/ People!Named(TheAdministrators) # {})
        /\ (s = 2 => ~People!Exists(2) \/ People!Named(TheServices) # {})
    BY <1>4, <1>5
  <2>5. a # 2 /\ s # 1
    BY <1>6, <2>1, <2>2, <2>3
  <2>6. QED
    BY <1>6, <2>2, <2>3, <2>5
<1>8. /\ call[c].admin.roles = {} <=> People!Named(TheAdministrators) # {}
      /\ call[c].system.roles = {} <=> People!Named(TheServices) # {}
  BY <1>1 DEF People!CommitStart, People!Refused, StartFits, TheAdministrators, TheServices
<1>9. PICK na, ns : /\ na = People!Written(row[a], call[c].admin)
                    /\ ns = People!Written(row[s], call[c].system)
  OBVIOUS
<1>10. row' = [row EXCEPT ![a] = na, ![s] = ns]
  BY <1>3, <1>9 DEF People!CommitStart, TheAdministrators, TheServices
<1>11. /\ na \in Account /\ na.name = TheAdministrators /\ na.status # "none"
       /\ People!Exists(a) => na.subject = row[a].subject /\ na.status = row[a].status /\ na.roles = row[a].roles
       /\ ~People!Exists(a) => na.subject = ""
  <2>1. CASE People!Exists(a)
    BY <1>1, <1>2, <1>4, <1>8, <1>9, <2>1, AdminWritten DEF RowsFit
  <2>2. CASE ~People!Exists(a)
    <3>1. call[c].admin.roles # {} /\ row[a] \in Account
      BY <1>1, <1>4, <1>8, <2>2
    <3>2. na = People!FirstAdministrator
      BY <1>2, <1>9, <3>1, AdminWritten
    <3>3. QED
      BY <2>2, <3>2, FirstAccounts
  <2>3. QED
    BY <2>1, <2>2
<1>12. /\ ns \in Account /\ ns.name = TheServices /\ ns.status # "none"
       /\ People!Exists(s) => /\ ns.subject = row[s].subject /\ ns.roles = row[s].roles
                              /\ ns.status \in {row[s].status, "system"}
       /\ ~People!Exists(s) => ns.subject = "" /\ ns.status = "system"
       /\ call[c].system # People!Absent => ns.status = "system"
       /\ call[c].system = People!Absent => People!Exists(s) /\ ns.status = row[s].status
  <2>1. CASE People!Exists(s)
    BY <1>1, <1>2, <1>5, <1>8, <1>9, <2>1, SystemWritten DEF RowsFit
  <2>2. CASE ~People!Exists(s)
    <3>1. call[c].system.roles # {} /\ row[s] \in Account
      BY <1>1, <1>5, <1>8, <2>2
    <3>2. ns = People!ServiceAccount /\ call[c].system # People!Absent
      <4>1. ns = People!ServiceAccount
        BY <1>2, <1>9, <3>1, SystemWritten
      <4>2. call[c].system # People!Absent
        BY <3>1, FirstAccounts
      <4>3. QED
        BY <4>1, <4>2
    <3>3. QED
      BY <2>2, <3>2, FirstAccounts
  <2>3. QED
    BY <2>1, <2>2
<1>13. /\ row' \in [People!Ids -> Account] /\ row'[a] = na /\ row'[s] = ns
       /\ \A v \in People!Ids \ {a, s} : row'[v] = row[v]
  BY <1>1, <1>7, <1>10, <1>11, <1>12
<1>14. /\ People!Exists(a)' /\ People!Exists(s)'
       /\ \A v \in People!Ids : People!Exists(v) => People!Exists(v)'
       /\ \A v \in People!Ids \ {a, s} : People!Exists(v)' => People!Exists(v)
  BY <1>11, <1>12, <1>13, FirstAccounts DEF People!Exists
<1>15. \A v \in People!Ids : People!Exists(v) => row'[v].name = row[v].name /\ row'[v].subject = row[v].subject
  BY <1>4, <1>5, <1>11, <1>12, <1>13
<1>16. seeded' \in BOOLEAN /\ excused' \in BOOLEAN /\ opened' = opened /\ (excused => excused')
  BY <1>1 DEF People!CommitStart
<1>17. ~opened => Closed'
  <2>1. SUFFICES ASSUME ~opened, NEW v \in People!Ids, People!Exists(v)', row'[v].name = TheServices
                 PROVE  row'[v].status # "active"
    BY DEF Closed, People!Named
  <2>2. v = s
    BY <1>5, <1>6, <1>11, <1>13, <1>14, <2>1
  <2>3. CASE call[c].system = People!Absent
    <3>1. Closed /\ s \in People!Named(TheServices)
      BY <1>1, <1>5, <1>12, <2>1, <2>3 DEF StartFits, People!Named
    <3>2. QED
      BY <1>12, <1>13, <2>2, <2>3, <3>1 DEF Closed
  <2>4. CASE call[c].system # People!Absent
    BY <1>12, <1>13, <2>2, <2>4
  <2>5. QED
    BY <2>3, <2>4
<1>18. Apart'
  <2>1. SUFFICES ASSUME NEW v \in People!Ids, NEW w \in People!Ids, v # w, People!Exists(v)', People!Exists(w)'
                 PROVE  row'[v].name # row'[w].name
                        /\ (row'[v].subject # "" => row'[v].subject # row'[w].subject)
    BY DEF Apart
  <2>2. CASE People!Exists(v) /\ People!Exists(w)
    BY <1>1, <1>15, <2>1, <2>2 DEF RowsFit, Apart
  <2>3. CASE ~People!Exists(v)
    <3>1. v \in {a, s} /\ row'[v].subject = ""
      BY <1>11, <1>12, <1>13, <1>14, <2>1, <2>3
    <3>2. row'[v].name # row'[w].name
      <4>1. CASE v = a
        BY <1>4, <1>6, <1>7, <1>11, <1>12, <1>13, <1>14, <2>1, <4>1
      <4>2. CASE v = s
        BY <1>5, <1>6, <1>7, <1>11, <1>12, <1>13, <1>14, <2>1, <4>2
      <4>3. QED
        BY <3>1, <4>1, <4>2
    <3>3. QED
      BY <3>1, <3>2
  <2>4. CASE ~People!Exists(w)
    <3>1. w \in {a, s} /\ row'[w].subject = ""
      BY <1>11, <1>12, <1>13, <1>14, <2>1, <2>4
    <3>2. row'[v].name # row'[w].name
      <4>1. CASE w = a
        BY <1>4, <1>6, <1>7, <1>11, <1>12, <1>13, <1>14, <2>1, <4>1
      <4>2. CASE w = s
        BY <1>5, <1>6, <1>7, <1>11, <1>12, <1>13, <1>14, <2>1, <4>2
      <4>3. QED
        BY <3>1, <4>1, <4>2
    <3>3. QED
      BY <3>1, <3>2
  <2>5. QED
    BY <2>2, <2>3, <2>4
<1>19. RowsFit'
  <2>1. \A v \in People!Ids : People!Exists(v)' => row'[v].status # "none"
    BY <1>1, <1>11, <1>12, <1>13, <1>14 DEF RowsFit
  <2>2. /\ People!Exists(People!Admin)' => row'[People!Admin].name = TheAdministrators
        /\ People!Exists(People!System)' => row'[People!System].name = TheServices
    BY <1>1, <1>7, <1>11, <1>12, <1>13, <1>14, AccountConstants DEF RowsFit
  <2>3. s \in People!Named(TheServices)'
    BY <1>12, <1>13, <1>14 DEF People!Named
  <2>4. QED
    BY <1>16, <1>17, <1>18, <2>1, <2>2, <2>3 DEF RowsFit
<1>20. ASSUME NEW q \in Call, CallFits(q)
       PROVE  CallFits(q)'
  BY <1>1, <1>14, <1>15, <1>16, <1>17, <1>20, Users, StillFits
<1>21. ASSUME ~excused'
       PROVE  People!ActiveAdministrators \subseteq People!ActiveAdministrators'
  <2>1. SUFFICES ASSUME NEW u \in People!ActiveAdministrators
                 PROVE  u \in People!ActiveAdministrators'
    OBVIOUS
  <2>2. u \in People!Ids /\ row[u].status = "active" /\ "ADMIN" \in row[u].roles /\ row'[u].status # "system"
    BY <1>21, <2>1 DEF People!CommitStart, People!ActiveAdministrators
  <2>3. People!Exists(u)
    BY <2>2, FirstAccounts DEF People!Exists
  <2>4. row'[u].status = "active" /\ row'[u].roles = row[u].roles
    BY <1>11, <1>12, <1>13, <2>2, <2>3
  <2>5. QED
    BY <2>2, <2>4 DEF People!ActiveAdministrators
<1>22. seeded' => seeded \/ People!ActiveAdministrators' # {}
  BY DEF People!CommitStart, People!ActiveAdministrators
<1>23. People!Idle \in Call /\ CallFits(People!Idle)' /\ People!Idle.kind # "change"
  BY DEF Call, CallFits, People!Idle
<1>24. call' = [call EXCEPT ![c] = People!Idle]
  BY DEF People!CommitStart, People!End
<1>25. QED
  BY <1>13, <1>16, <1>19, <1>20, <1>21, <1>22, <1>23, <1>24, <1>1, WriteGoesOn

LEMMA StartKeeps ==
  ASSUME AccountsInv, NEW c \in Requests, People!Start(c)
  PROVE  AccountsInv'
<1>1. ASSUME People!RollBack(c)
      PROVE  AccountsInv'
  BY <1>1, CallEnds DEF People!RollBack
<1>2. QED
  BY <1>1, BeginStartKeeps, EnsureAdminKeeps, EnsureSystemKeeps, CommitStartKeeps DEF People!Start

-----------------------------------------------------------------------------
(* Accounts: what administrators change                                    *)

\* A change that is allowed ends an administrator, and no other change under way would.
LEMMA AdministeredLosesOne ==
  ASSUME AccountsInv, ~excused, ~excused', NEW c \in Requests, call[c].kind = "change",
         People!EndsAnAdministrator(call[c]), Allowed(call[c]), ~People!Overlaps(c),
         People!ActiveAdministrators' = People!ActiveAdministrators \ {call[c].user},
         NEW q, call' = [call EXCEPT ![c] = q], q.kind = "change" => q.user = call[c].user
  PROVE  Administered'
<1>1. call \in [Requests -> Call]
  BY DEF AccountsInv, Books, AccountsTyped
<1>2. People!ActiveAdministrators' # {}
  BY DEF AccountsInv, Administered
<1>3. ASSUME NEW d \in Requests, People!EndsAnAdministrator(call[d])'
      PROVE  FALSE
  <2>1. call'[d].kind = "change" /\ call'[d].user \in People!ActiveAdministrators'
    BY <1>3 DEF People!EndsAnAdministrator
  <2>2. d # c
    BY <1>1, <2>1
  <2>3. call'[d] = call[d]
    BY <1>1, <2>2
  <2>4. People!EndsAnAdministrator(call[d])
    BY <1>3, <2>1, <2>3 DEF People!EndsAnAdministrator
  <2>5. QED
    BY <2>2, <2>4 DEF People!Overlaps
<1>4. QED
  BY <1>2, <1>3 DEF Administered, Allowed

LEMMA ChangeCalls ==
  ASSUME NEW q \in ChangeCall
  PROVE  /\ q \in Call /\ q.kind = "change" /\ (ChangeFits(q) <=> CallFits(q))
         /\ \A pc \in {"roles", "status", "again"} :
              /\ [q EXCEPT !.pc = pc] \in ChangeCall /\ [q EXCEPT !.pc = pc].pc = pc
              /\ [q EXCEPT !.pc = pc].user = q.user
              /\ [q EXCEPT !.pc = pc].roles = q.roles /\ [q EXCEPT !.pc = pc].status = q.status
<1>1. q.kind = "change"
  BY DEF ChangeCall
<1>2. CallFits(q) <=> ChangeFits(q)
  BY <1>1 DEF CallFits
<1>3. \A pc \in {"roles", "status", "again"} :
        /\ [q EXCEPT !.pc = pc] \in ChangeCall /\ [q EXCEPT !.pc = pc].pc = pc
        /\ [q EXCEPT !.pc = pc].user = q.user
        /\ [q EXCEPT !.pc = pc].roles = q.roles /\ [q EXCEPT !.pc = pc].status = q.status
  BY DEF ChangeCall
<1>4. QED
  BY <1>1, <1>2, <1>3 DEF Call

LEMMA BeginChangeKeeps ==
  ASSUME AccountsInv, NEW c \in Requests, NEW actor \in People!ActiveAdministrators, NEW u \in People!Ids,
         NEW roles \in Changes, NEW status \in {"", "active", "blocked"},
         People!BeginChange(c, actor, u, roles, status)
  PROVE  AccountsInv'
<1> DEFINE q == [kind |-> "change", pc |-> IF roles = {} THEN "status" ELSE "check",
                 actor |-> actor, user |-> u, roles |-> roles, status |-> status]
<1>1. roles \in SUBSET People!Roles /\ actor \in People!Ids
  BY AccountConstants DEF People!ActiveAdministrators
<1>2. /\ q \in ChangeCall /\ q.user = u /\ q.roles = roles /\ q.status = status
      /\ q.pc = IF roles = {} THEN "status" ELSE "check"
  BY <1>1 DEF ChangeCall
<1>3. /\ call' = [call EXCEPT ![c] = q] /\ UNCHANGED <<row, seeded, excused, opened>>
      /\ People!Exists(u) /\ (roles # {} \/ status # "") /\ ~(status = "blocked" /\ actor = u)
  BY DEF People!BeginChange, People!Begin
<1> HIDE DEF q
<1>4. q \in Call /\ CallFits(q) /\ q.kind = "change"
  BY <1>2, <1>3, ChangeCalls DEF ChangeFits
<1>5. Books /\ call \in [Requests -> Call] /\ excused \in BOOLEAN /\ call'[c] = q
  BY <1>3 DEF AccountsInv, Books, AccountsTyped
<1>6. Books'
  BY <1>3, <1>4, <1>5, CallMoves
<1>7. People!ActiveAdministrators' = People!ActiveAdministrators
  BY <1>3 DEF People!ActiveAdministrators
<1>8. People!EndsAnAdministrator(call[c])' /\ Allowed(call'[c]) => status = "blocked"
  BY <1>2, <1>5 DEF People!EndsAnAdministrator, Allowed
<1>9. status = "blocked" => actor \in People!ActiveAdministrators' \ {call'[c].user}
  BY <1>2, <1>3, <1>5, <1>7
<1>10. \A d \in Requests \ {c} : call'[d] = call[d]
  BY <1>3, <1>5
<1>11. ASSUME ~excused'
       PROVE  Administered'
  BY <1>3, <1>7, <1>8, <1>9, <1>10, <1>11, AdministeredGrows
<1>12. QED
  BY <1>6, <1>11, ExcusedAdministered DEF AccountsInv

LEMMA CheckChangeKeeps ==
  ASSUME AccountsInv, NEW c \in Requests, People!CheckChange(c)
  PROVE  AccountsInv'
<1>1. /\ Books /\ call \in [Requests -> Call] /\ excused \in BOOLEAN
      /\ call[c] \in ChangeCall /\ ChangeFits(call[c]) /\ call[c].pc = "check" /\ call[c].kind = "change"
  BY Users DEF People!CheckChange, AccountsInv, Books, AccountsTyped, CallFits
<1>2. UNCHANGED <<row, seeded, excused, opened>>
  BY DEF People!CheckChange
<1>3. CASE ~People!AdministratorKept(call[c].user, call[c].roles, call[c].actor)
  BY <1>2, <1>3, CallEnds DEF People!CheckChange
<1>4. CASE People!AdministratorKept(call[c].user, call[c].roles, call[c].actor)
  <2>1. call' = [call EXCEPT ![c].pc = "roles"]
    BY <1>4 DEF People!CheckChange
  <2>2. PICK q \in ChangeCall : q = [call[c] EXCEPT !.pc = "roles"]
    BY <1>1, ChangeCalls
  <2>3. /\ q.pc = "roles" /\ q.user = call[c].user /\ q.roles = call[c].roles /\ q.status = call[c].status
        /\ q \in Call /\ q.kind = "change" /\ (ChangeFits(q) => CallFits(q))
    BY <1>1, <2>2, ChangeCalls
  <2>4. ChangeFits(q)
    BY <1>1, <2>3 DEF ChangeFits
  <2>5. call' = [call EXCEPT ![c] = q] /\ call'[c] = q /\ \A d \in Requests \ {c} : call'[d] = call[d]
    BY <1>1, <2>1, <2>2
  <2>6. Books'
    BY <1>1, <1>2, <2>3, <2>4, <2>5, CallMoves
  <2>7. People!ActiveAdministrators' = People!ActiveAdministrators
    BY <1>2 DEF People!ActiveAdministrators
  <2>8. ASSUME ~excused'
        PROVE  Administered'
    <3>1. People!ActiveAdministrators # {} /\ Administered /\ ~excused
      BY <1>1, <1>2, <2>8 DEF AccountsInv, Administered
    <3>2. ASSUME People!EndsAnAdministrator(call[c])', Allowed(q)
          PROVE  People!ActiveAdministrators' \ {q.user} # {}
      <4>1. People!EndsAnAdministrator(call[c]) /\ call[c].user \in People!ActiveAdministrators
        BY <1>1, <2>3, <2>5, <2>7, <3>2 DEF People!EndsAnAdministrator
      <4>2. CASE call[c].status = "blocked"
        BY <2>3, <2>7, <3>1, <4>1, <4>2 DEF Administered, Allowed
      <4>3. CASE call[c].status # "blocked"
        <5>1. "ADMIN" \notin call[c].roles
          BY <4>1, <4>3 DEF People!EndsAnAdministrator
        <5>2. "ADMIN" \in People!RolesOf(call[c].user)
          BY <4>1 DEF People!RolesOf, People!ActiveAdministrators
        <5>3. QED
          BY <1>4, <2>3, <2>7, <5>1, <5>2 DEF People!AdministratorKept
      <4>4. QED
        BY <4>2, <4>3
    <3>3. QED
      BY <1>2, <2>5, <2>7, <2>8, <3>1, <3>2, AdministeredGrows
  <2>9. QED
    BY <2>6, <2>8, ExcusedAdministered DEF AccountsInv
<1>5. QED
  BY <1>3, <1>4

\* A change writes the roles or the state of its account, and goes on or ends.
LEMMA ChangeWrites ==
  ASSUME AccountsInv, NEW c \in Requests, call[c] \in ChangeCall, Allowed(call[c]),
         NEW new \in Account, new.name = row[call[c].user].name, new.subject = row[call[c].user].subject,
         new.status # "none", row' = [row EXCEPT ![call[c].user] = new],
         seeded' = seeded, opened' \in BOOLEAN, opened => opened',
         ~opened' /\ row[call[c].user].name = TheServices /\ new.status = "active"
           => row[call[c].user].status = "active",
         call[c].user \in People!ActiveAdministrators /\ ~(new.status = "active" /\ "ADMIN" \in new.roles)
           => People!EndsAnAdministrator(call[c]),
         excused' = (excused \/ People!Overlaps(c)),
         NEW q \in Call, call' = [call EXCEPT ![c] = q], CallFits(q),
         \/ q.kind # "change"
         \/ q.user = call[c].user /\ q.roles = call[c].roles /\ q.status = call[c].status
  PROVE  AccountsInv'
<1>1. /\ Books /\ call \in [Requests -> Call] /\ excused \in BOOLEAN /\ row \in [People!Ids -> Account]
      /\ CallFits(call[c])
  BY DEF AccountsInv, Books, AccountsTyped
<1>2. PICK u \in People!Ids : u = call[c].user
  BY DEF ChangeCall
<1>3. call[c].kind = "change" /\ People!Exists(u)
  BY <1>1, <1>2, ChangeCalls DEF ChangeFits
<1>4. /\ row' \in [People!Ids -> Account] /\ RowsFit'
      /\ \A p \in Call : CallFits(p) => CallFits(p)'
  BY <1>1, <1>2, <1>3, AccountUpdated
<1>5. Books'
  <2>1. seeded' \in BOOLEAN /\ excused' \in BOOLEAN
    BY <1>1 DEF Books, AccountsTyped
  <2>2. CallFits(q)'
    BY <1>4
  <2>3. QED
    BY <1>1, <1>4, <2>1, <2>2, BooksAfter
<1>6. \A v \in People!Ids : row'[v] = IF v = u THEN new ELSE row[v]
  BY <1>1, <1>2
<1>7. ASSUME ~excused'
      PROVE  Administered'
  <2>1. ~excused /\ ~People!Overlaps(c)
    BY <1>7
  <2>2. CASE u \in People!ActiveAdministrators /\ ~(new.status = "active" /\ "ADMIN" \in new.roles)
    <3>1. People!EndsAnAdministrator(call[c])
      BY <1>2, <2>2
    <3>2. People!ActiveAdministrators' = People!ActiveAdministrators \ {u}
      BY <1>6, <2>2 DEF People!ActiveAdministrators
    <3>3. QED
      BY <1>2, <1>3, <1>7, <2>1, <3>1, <3>2, AdministeredLosesOne
  <2>3. CASE ~(u \in People!ActiveAdministrators /\ ~(new.status = "active" /\ "ADMIN" \in new.roles))
    <3>1. People!ActiveAdministrators \subseteq People!ActiveAdministrators'
      BY <1>6, <2>3 DEF People!ActiveAdministrators
    <3>2. call'[c] = q /\ \A d \in Requests \ {c} : call'[d] = call[d]
      BY <1>1
    <3>3. \A d \in Requests :
            \/ call'[d].kind # "change"
            \/ /\ call[d].kind = "change" /\ call'[d].user = call[d].user
               /\ call'[d].roles = call[d].roles /\ call'[d].status = call[d].status
               /\ Allowed(call'[d]) => Allowed(call[d])
      BY <1>3, <3>2
    <3>4. QED
      BY <1>7, <2>1, <3>1, <3>3, AdministeredGrows
  <2>4. QED
    BY <2>2, <2>3
<1>8. QED
  BY <1>5, <1>7, ExcusedAdministered DEF AccountsInv

LEMMA IdleCall == People!Idle \in Call /\ People!Idle.kind = "idle" /\ CallFits(People!Idle)
BY DEF Call, CallFits, People!Idle

LEMMA SetRolesKeeps ==
  ASSUME AccountsInv, NEW c \in Requests, People!SetRoles(c)
  PROVE  AccountsInv'
<1>1. /\ Books /\ call \in [Requests -> Call] /\ row \in [People!Ids -> Account] /\ opened \in BOOLEAN
      /\ call[c] \in ChangeCall /\ ChangeFits(call[c]) /\ RowsFit
      /\ call[c].kind = "change" /\ call[c].pc \in {"roles", "again"}
  BY Users DEF People!SetRoles, AccountsInv, Books, AccountsTyped, CallFits
<1>2. /\ row' = [row EXCEPT ![call[c].user].roles = call[c].roles]
      /\ excused' = (excused \/ People!Overlaps(c)) /\ seeded' = seeded /\ opened' = opened
      /\ \/ /\ call[c].pc = "roles" /\ call[c].status # "" /\ call' = [call EXCEPT ![c].pc = "status"]
         \/ People!End(c)
  BY DEF People!SetRoles
<1>3. PICK u \in People!Ids : u = call[c].user
  BY <1>1 DEF ChangeCall
<1> DEFINE new == [row[u] EXCEPT !.roles = call[c].roles]
<1>4. call[c].roles \in SUBSET People!Roles /\ call[c].roles # {} /\ row[u] \in Account
  BY <1>1, <1>3 DEF ChangeCall, ChangeFits
<1>5. /\ new \in Account /\ new.name = row[u].name /\ new.subject = row[u].subject
      /\ new.status = row[u].status /\ new.roles = call[c].roles
  BY <1>4 DEF Account
<1>6. row' = [row EXCEPT ![u] = new]
  BY <1>1, <1>2, <1>3
<1> HIDE DEF new
<1>7. row[u].status # "none"
  BY <1>1, <1>3 DEF RowsFit, ChangeFits
<1>8. \E q \in Call : /\ call' = [call EXCEPT ![c] = q] /\ CallFits(q)
                      /\ \/ q.kind # "change"
                         \/ /\ q.user = call[c].user /\ q.roles = call[c].roles
                            /\ q.status = call[c].status
  <2>1. CASE People!End(c)
    BY <2>1, IdleCall DEF People!End
  <2>2. CASE call[c].pc = "roles" /\ call[c].status # "" /\ call' = [call EXCEPT ![c].pc = "status"]
    <3>1. PICK q \in ChangeCall : q = [call[c] EXCEPT !.pc = "status"]
      BY <1>1, ChangeCalls
    <3>2. /\ q.pc = "status" /\ q.user = call[c].user /\ q.roles = call[c].roles /\ q.status = call[c].status
          /\ q \in Call /\ (ChangeFits(q) => CallFits(q))
      BY <1>1, <3>1, ChangeCalls
    <3>3. ChangeFits(q)
      BY <1>1, <2>2, <3>2 DEF ChangeFits
    <3>4. call' = [call EXCEPT ![c] = q]
      BY <1>1, <2>2, <3>1
    <3>5. QED
      BY <3>2, <3>3, <3>4
  <2>3. QED
    BY <1>2, <2>1, <2>2
<1>9. u \in People!ActiveAdministrators /\ ~(new.status = "active" /\ "ADMIN" \in new.roles)
        => People!EndsAnAdministrator(call[c])
  BY <1>1, <1>3, <1>4, <1>5 DEF People!EndsAnAdministrator, People!ActiveAdministrators
<1>10. Allowed(call[c])
  BY <1>1 DEF Allowed
<1>11. PICK q \in Call : /\ call' = [call EXCEPT ![c] = q] /\ CallFits(q)
                        /\ \/ q.kind # "change"
                           \/ /\ q.user = call[c].user /\ q.roles = call[c].roles
                              /\ q.status = call[c].status
  BY <1>8
<1>12. /\ row' = [row EXCEPT ![call[c].user] = new] /\ new \in Account /\ new.status # "none"
       /\ new.name = row[call[c].user].name /\ new.subject = row[call[c].user].subject
       /\ new.status = row[call[c].user].status
  BY <1>3, <1>5, <1>6, <1>7
<1>13. /\ opened' \in BOOLEAN /\ (opened => opened') /\ seeded' = seeded
       /\ excused' = (excused \/ People!Overlaps(c)) /\ call[c] \in ChangeCall
  BY <1>1, <1>2
<1>14. call[c].user \in People!ActiveAdministrators /\ ~(new.status = "active" /\ "ADMIN" \in new.roles)
         => People!EndsAnAdministrator(call[c])
  BY <1>3, <1>9
<1>15. QED
  BY <1>10, <1>11, <1>12, <1>13, <1>14, ChangeWrites

LEMMA SetStatusKeeps ==
  ASSUME AccountsInv, NEW c \in Requests, People!SetStatus(c)
  PROVE  AccountsInv'
<1>1. /\ Books /\ call \in [Requests -> Call] /\ row \in [People!Ids -> Account] /\ opened \in BOOLEAN
      /\ call[c] \in ChangeCall /\ ChangeFits(call[c])
      /\ call[c].kind = "change" /\ call[c].pc = "status"
  BY Users DEF People!SetStatus, AccountsInv, Books, AccountsTyped, CallFits
<1>2. /\ row' = [row EXCEPT ![call[c].user].status = call[c].status]
      /\ opened' = (opened \/ (row[call[c].user].name = <<"system", 1>> /\ call[c].status = "active"))
      /\ excused' = (excused \/ People!Overlaps(c)) /\ seeded' = seeded
      /\ \/ People!End(c)
         \/ call[c].roles # {} /\ call' = [call EXCEPT ![c].pc = "again"]
  BY DEF People!SetStatus
<1>3. PICK u \in People!Ids : u = call[c].user
  BY <1>1 DEF ChangeCall
<1> DEFINE new == [row[u] EXCEPT !.status = call[c].status]
<1>4. call[c].status \in {"active", "blocked"} /\ row[u] \in Account
  BY <1>1, <1>3 DEF ChangeCall, ChangeFits
<1>5. /\ new \in Account /\ new.name = row[u].name /\ new.subject = row[u].subject
      /\ new.status = call[c].status /\ new.roles = row[u].roles
  BY <1>4 DEF Account
<1>6. row' = [row EXCEPT ![u] = new]
  BY <1>1, <1>2, <1>3
<1> HIDE DEF new
<1>7. /\ opened' \in BOOLEAN /\ (opened => opened')
      /\ ~opened' /\ row[u].name = TheServices => new.status # "active"
  BY <1>1, <1>2, <1>3, <1>5 DEF TheServices
<1>8. \E q \in Call : /\ call' = [call EXCEPT ![c] = q] /\ CallFits(q)
                      /\ \/ q.kind # "change"
                         \/ /\ q.user = call[c].user /\ q.roles = call[c].roles
                            /\ q.status = call[c].status
  <2>1. CASE People!End(c)
    BY <2>1, IdleCall DEF People!End
  <2>2. CASE call[c].roles # {} /\ call' = [call EXCEPT ![c].pc = "again"]
    <3>1. PICK q \in ChangeCall : q = [call[c] EXCEPT !.pc = "again"]
      BY <1>1, ChangeCalls
    <3>2. /\ q.pc = "again" /\ q.user = call[c].user /\ q.roles = call[c].roles /\ q.status = call[c].status
          /\ q \in Call /\ (ChangeFits(q) => CallFits(q))
      BY <1>1, <3>1, ChangeCalls
    <3>3. ChangeFits(q)
      BY <1>1, <2>2, <3>2 DEF ChangeFits
    <3>4. call' = [call EXCEPT ![c] = q]
      BY <1>1, <2>2, <3>1
    <3>5. QED
      BY <3>2, <3>3, <3>4
  <2>3. QED
    BY <1>2, <2>1, <2>2
<1>9. u \in People!ActiveAdministrators /\ ~(new.status = "active" /\ "ADMIN" \in new.roles)
        => People!EndsAnAdministrator(call[c])
  BY <1>1, <1>3, <1>4, <1>5 DEF People!EndsAnAdministrator, People!ActiveAdministrators
<1>10. Allowed(call[c]) /\ new.status # "none"
  BY <1>1, <1>4, <1>5 DEF Allowed
<1>11. PICK q \in Call : /\ call' = [call EXCEPT ![c] = q] /\ CallFits(q)
                        /\ \/ q.kind # "change"
                           \/ /\ q.user = call[c].user /\ q.roles = call[c].roles
                              /\ q.status = call[c].status
  BY <1>8
<1>12. /\ row' = [row EXCEPT ![call[c].user] = new]
       /\ new.name = row[call[c].user].name /\ new.subject = row[call[c].user].subject
  BY <1>3, <1>5, <1>6
<1>13. QED
  BY <1>1, <1>2, <1>3, <1>5, <1>7, <1>9, <1>10, <1>11, <1>12, ChangeWrites

\* Of those whose account is written otherwise, none was an active administrator and is none.
LEMMA SetPasswordKeeps ==
  ASSUME AccountsInv, NEW actor, NEW u \in People!Ids, People!SetPassword(actor, u)
  PROVE  AccountsInv'
<1>1. /\ Books /\ RowsFit /\ row \in [People!Ids -> Account] /\ row[u] \in Account
      /\ opened \in BOOLEAN /\ excused \in BOOLEAN /\ seeded \in BOOLEAN
  BY DEF AccountsInv, Books, AccountsTyped
<1>2. /\ People!Exists(u) /\ row' = [row EXCEPT ![u].password = "chosen"]
      /\ call' = call /\ UNCHANGED <<seeded, excused, opened>>
  BY DEF People!SetPassword
<1>3. PICK new : new = [row[u] EXCEPT !.password = "chosen"]
  OBVIOUS
<1>4. /\ new \in Account /\ new.name = row[u].name /\ new.subject = row[u].subject
      /\ new.status = row[u].status /\ new.roles = row[u].roles
  BY <1>1, <1>3 DEF Account
<1>5. row' = [row EXCEPT ![u] = new] /\ new.status # "none"
  BY <1>1, <1>2, <1>3, <1>4 DEF RowsFit
<1>6. /\ row' \in [People!Ids -> Account] /\ RowsFit'
      /\ \A q \in Call : CallFits(q) => CallFits(q)'
  BY <1>1, <1>2, <1>4, <1>5, AccountUpdated
<1>7. People!ActiveAdministrators' = People!ActiveAdministrators
  BY <1>1, <1>4, <1>5 DEF People!ActiveAdministrators
<1>8. QED
  BY <1>1, <1>2, <1>6, <1>7, WriteGoesOn

\* A set of numbers has a least one: the segments up to its members are well-founded.
LEMMA LeastOf ==
  ASSUME NEW N \in SUBSET Nat, N # {}
  PROVE  \E n \in N : \A m \in N : n <= m
<1> DEFINE UpTo == {0 .. n : n \in N}
<1>1. \A n \in N : 0 .. n \in FiniteSubsetsOf(Nat)
  BY FS_Interval DEF FiniteSubsetsOf
<1>2. UpTo \subseteq FiniteSubsetsOf(Nat) /\ UpTo # {}
  BY <1>1
<1>3. PICK s \in UpTo : \A t \in UpTo : <<t, s>> \notin StrictSubsetOrdering(Nat)
  <2> HIDE DEF UpTo
  <2>1. QED
    BY <1>2, FS_StrictSubsetOrderingWellFounded, WFMin
<1>4. PICK n \in N : s = 0 .. n
  BY <1>3
<1>5. ASSUME NEW m \in N, m < n
      PROVE  FALSE
  <2>1. 0 .. m \in UpTo /\ 0 .. m \subseteq 0 .. n /\ n \in 0 .. n /\ n \notin 0 .. m
    BY <1>5
  <2>2. 0 .. m \in SUBSET Nat /\ 0 .. n \in SUBSET Nat
    OBVIOUS
  <2>3. QED
    BY <1>3, <1>4, <2>1, <2>2 DEF StrictSubsetOrdering
<1>6. QED
  BY <1>4, <1>5

\* The first account that is not used is one.
LEMMA FirstUnused ==
  ASSUME People!Unused # {}
  PROVE  /\ People!Min(People!Unused) \in People!Ids \ {People!Admin, People!System}
         /\ ~People!Exists(People!Min(People!Unused))
<1>1. People!Unused \subseteq People!Ids /\ People!Unused \in SUBSET Nat
  BY AccountConstants DEF People!Unused
<1>2. \E n \in People!Unused : \A m \in People!Unused : n <= m
  BY <1>1, LeastOf
<1>3. QED
  BY <1>2 DEF People!Unused, People!Min

LEMMA RegisterKeeps ==
  ASSUME AccountsInv, NEW name \in Names, People!Register(name)
  PROVE  AccountsInv'
<1>1. /\ Books /\ RowsFit /\ row \in [People!Ids -> Account]
      /\ opened \in BOOLEAN /\ excused \in BOOLEAN /\ seeded \in BOOLEAN
  BY DEF AccountsInv, Books, AccountsTyped
<1>2. PICK u \in People!Ids :
        /\ u = People!Min(People!Unused) /\ u \notin {People!Admin, People!System} /\ ~People!Exists(u)
  BY FirstUnused DEF People!Register
<1>3. PICK roles \in {{}, {"CLIENT"}} :
        row' = [row EXCEPT ![u] = [People!Absent EXCEPT !.name = <<name, 1>>, !.status = "blocked",
                                                        !.password = "chosen", !.roles = roles]]
  BY <1>2 DEF People!Register
<1>4. PICK new : new = [People!Absent EXCEPT !.name = <<name, 1>>, !.status = "blocked",
                                             !.password = "chosen", !.roles = roles]
  OBVIOUS
<1>5. /\ new \in Account /\ new.name = <<name, 1>> /\ new.subject = "" /\ new.status = "blocked"
      /\ new.roles = roles
  BY <1>4 DEF Account, People!Absent, Name, People!Roles
<1>6. /\ People!Named(new.name) = {} /\ call' = call /\ UNCHANGED <<seeded, excused, opened>>
      /\ row' = [row EXCEPT ![u] = new]
  BY <1>3, <1>4, <1>5 DEF People!Register
<1>7. /\ row' \in [People!Ids -> Account] /\ RowsFit'
      /\ \A q \in Call : CallFits(q) => CallFits(q)'
  BY <1>1, <1>2, <1>5, <1>6, AccountInserted
<1>8. People!ActiveAdministrators \subseteq People!ActiveAdministrators'
  <2>1. u \notin People!ActiveAdministrators
    BY <1>2, FirstAccounts DEF People!ActiveAdministrators, People!Exists
  <2>2. QED
    BY <1>1, <1>6, <2>1 DEF People!ActiveAdministrators
<1>9. QED
  BY <1>1, <1>6, <1>7, <1>8, WriteGoesOn

-----------------------------------------------------------------------------
(* Accounts: those who come from the provider                              *)

LEMMA SignInCalls ==
  ASSUME NEW q \in SignInCall
  PROVE  q \in Call /\ q.kind = "signin" /\ (SignInFits(q) <=> CallFits(q))
<1>1. q.kind = "signin"
  BY DEF SignInCall
<1>2. CallFits(q) <=> SignInFits(q)
  BY <1>1 DEF CallFits
<1>3. QED
  BY <1>1, <1>2 DEF Call

LEMMA SignsIn ==
  ASSUME AccountsInv, NEW c \in Requests, call[c].kind = "signin"
  PROVE  /\ Books /\ RowsFit /\ row \in [People!Ids -> Account] /\ call \in [Requests -> Call]
         /\ opened \in BOOLEAN /\ excused \in BOOLEAN /\ seeded \in BOOLEAN
         /\ call[c] \in SignInCall /\ SignInFits(call[c])
BY Users DEF AccountsInv, Books, AccountsTyped, CallFits

\* free_username finds a name that is free, with a number: there are more of them than accounts.
LEMMA NameIsFree ==
  ASSUME Books, NEW proposed
  PROVE  \E k \in Nat : /\ People!FreeUsername(proposed) = <<proposed, k>>
                        /\ People!Named(<<proposed, k>>) = {}
<1> DEFINE numbers == 1 .. Cardinality(People!Ids) + 1
           free == {k \in numbers : People!Named(<<proposed, k>>) = {}}
<1>1. IsFiniteSet(People!Ids) /\ Cardinality(People!Ids) \in Nat
  <2>1. MaxAccounts \in Nat /\ People!Ids = 1 .. MaxAccounts + 2
    BY PeopleAssumption DEF People!AccountsAssumption, People!Ids
  <2>2. QED
    BY <2>1, FS_Interval, FS_CardinalityType
<1>2. IsFiniteSet(numbers) /\ Cardinality(numbers) = Cardinality(People!Ids) + 1
  <2>1. PICK n \in Nat : n = Cardinality(People!Ids) + 1
    BY <1>1
  <2>2. IsFiniteSet(1 .. n) /\ Cardinality(1 .. n) = n
    BY FS_Interval
  <2>3. QED
    BY <2>1, <2>2
<1>3. free # {}
  <2>1. SUFFICES ASSUME free = {}
                 PROVE  FALSE
    OBVIOUS
  <2> DEFINE f == [k \in numbers |-> CHOOSE u \in People!Named(<<proposed, k>>) : TRUE]
  <2>2. \A k \in numbers : f[k] \in People!Named(<<proposed, k>>)
    BY <2>1
  <2>3. f \in [numbers -> People!Ids]
    BY <2>2 DEF People!Named
  <2>4. \A j, k \in numbers : j # k => f[j] # f[k]
    BY <2>2 DEF People!Named
  <2> HIDE DEF f, numbers
  <2>5. PICK j, k \in numbers : j # k /\ f[j] = f[k]
    BY <1>1, <1>2, <2>3, FS_PigeonHole
  <2>6. QED
    BY <2>4, <2>5
<1>4. PICK least \in free : \A j \in free : least <= j
  <2>1. free \in SUBSET Nat
    BY <1>1
  <2>2. QED
    BY <1>3, <2>1, LeastOf
<1>5. least \in numbers /\ least \in Nat /\ People!Named(<<proposed, least>>) = {}
      /\ \A j \in 1 .. least - 1 : People!Named(<<proposed, j>>) # {}
  BY <1>1, <1>4
<1>6. QED
  <2> DEFINE variant == CHOOSE k \in 1 .. Cardinality(People!Ids) + 1 :
                          People!Named(<<proposed, k>>) = {}
                          /\ \A j \in 1 .. k - 1 : People!Named(<<proposed, j>>) # {}
  <2>1. variant \in 1 .. Cardinality(People!Ids) + 1 /\ People!Named(<<proposed, variant>>) = {}
    BY <1>5
  <2>2. People!FreeUsername(proposed) = <<proposed, variant>>
    <3>1. People!Cardinality(People!Ids) = Cardinality(People!Ids)
      BY DEF People!Cardinality, Cardinality
    <3>2. QED
      BY <3>1 DEF People!FreeUsername
  <2> HIDE DEF variant
  <2>3. variant \in Nat
    BY <1>1, <2>1
  <2>4. QED
    BY <2>1, <2>2, <2>3

LEMMA BeginSignInKeeps ==
  ASSUME AccountsInv, NEW c \in Requests, NEW subject \in Subjects, NEW claims \in SUBSET Permissions,
         People!BeginSignIn(c, subject, claims)
  PROVE  AccountsInv'
<1> DEFINE q == [kind |-> "signin", pc |-> "find", subject |-> subject, claims |-> claims,
                 user |-> 0, name |-> <<"", 0>>, tries |-> 0, left |-> claims, policy |-> People!Absent]
<1>1. q \in SignInCall /\ q.pc = "find" /\ q.user = 0
  BY DEF SignInCall, Name
<1>2. call' = [call EXCEPT ![c] = q] /\ UNCHANGED <<row, seeded, opened, excused>>
  BY DEF People!BeginSignIn, People!Begin
<1> HIDE DEF q
<1>3. SignInFits(q)
  BY <1>1 DEF SignInFits
<1>4. QED
  BY <1>1, <1>2, <1>3, SignInCalls, CallGoesOn

\* Whoever is found by their subject goes on with their own account.
LEMMA GoesOnKeeps ==
  ASSUME AccountsInv, NEW c \in Requests, call[c].kind = "signin",
         NEW u \in People!FindAccount(call[c].subject), People!GoesOn(c, u),
         UNCHANGED <<row, seeded, opened, excused>>
  PROVE  AccountsInv'
<1>1. CASE row[u].status = "active"
  <2>1. u \in People!Ids /\ People!Exists(u) /\ row[u].subject = call[c].subject
    BY DEF People!FindAccount
  <2>2. PICK q : q = [call[c] EXCEPT !.pc = "clear", !.user = u]
    OBVIOUS
  <2>3. q \in SignInCall /\ q.pc = "clear" /\ q.user = u /\ q.subject = call[c].subject
    BY <2>1, <2>2, SignsIn DEF SignInCall
  <2>4. call' = [call EXCEPT ![c] = q]
    BY <1>1, <2>2, SignsIn DEF People!GoesOn
  <2>5. SignInFits(q)
    BY <2>1, <2>3, AccountConstants DEF SignInFits
  <2>6. QED
    BY <2>3, <2>4, <2>5, SignInCalls, CallGoesOn
<1>2. CASE row[u].status # "active"
  BY <1>2, CallEnds DEF People!GoesOn
<1>3. QED
  BY <1>1, <1>2

LEMMA FindKeeps ==
  ASSUME AccountsInv, NEW c \in Requests, People!Find(c)
  PROVE  AccountsInv'
<1>1. UNCHANGED <<row, seeded, opened, excused>> /\ call[c].kind = "signin" /\ call[c].pc = "find"
  BY DEF People!Find
<1>2. CASE \E u \in People!FindAccount(call[c].subject) : People!GoesOn(c, u)
  BY <1>1, <1>2, GoesOnKeeps
<1>3. CASE People!End(c)
  BY <1>1, <1>3, CallEnds
<1>4. ASSUME NEW ruling \in Policy, call' = [call EXCEPT ![c].pc = "name", ![c].policy = ruling]
      PROVE  AccountsInv'
  <2>1. PICK q : q = [call[c] EXCEPT !.pc = "name", !.policy = ruling]
    OBVIOUS
  <2>2. /\ q \in SignInCall /\ q.pc = "name" /\ q.policy = ruling
        /\ q.user = call[c].user /\ q.subject = call[c].subject
    BY <1>1, <2>1, SignsIn DEF SignInCall
  <2>3. call' = [call EXCEPT ![c] = q]
    BY <1>1, <1>4, <2>1, SignsIn
  <2>4. SignInFits(q)
    BY <1>1, <2>2, SignsIn DEF SignInFits
  <2>5. QED
    BY <1>1, <2>2, <2>3, <2>4, SignInCalls, CallGoesOn
<1>5. QED
  BY <1>2, <1>3, <1>4 DEF People!Find

LEMMA ChooseNameKeeps ==
  ASSUME AccountsInv, NEW c \in Requests, People!ChooseName(c)
  PROVE  AccountsInv'
<1>1. UNCHANGED <<row, seeded, opened, excused>> /\ call[c].kind = "signin" /\ call[c].pc = "name"
  BY DEF People!ChooseName
<1>2. PICK name \in Name : name = People!FreeUsername(Proposed[call[c].subject])
  <2>1. Proposed[call[c].subject] \in Names
    BY <1>1, SignsIn, AccountConstants DEF SignInCall
  <2>2. QED
    BY <1>1, <2>1, SignsIn, NameIsFree DEF Name
<1>3. PICK tries \in Nat : tries = call[c].tries + 1
  <2>1. call[c].tries \in Nat
    BY <1>1, SignsIn DEF SignInCall
  <2>2. QED
    BY <2>1
<1>4. PICK q : q = [call[c] EXCEPT !.name = name, !.tries = tries, !.pc = "insert"]
  OBVIOUS
<1>5. /\ q \in SignInCall /\ q.pc = "insert" /\ q.policy = call[c].policy
      /\ q.user = call[c].user /\ q.subject = call[c].subject
  BY <1>1, <1>4, SignsIn DEF SignInCall
<1>6. call' = [call EXCEPT ![c] = q]
  BY <1>1, <1>2, <1>3, <1>4, SignsIn DEF People!ChooseName
<1>7. SignInFits(q)
  BY <1>1, <1>5, SignsIn DEF SignInFits
<1>8. QED
  BY <1>1, <1>5, <1>6, <1>7, SignInCalls, CallGoesOn

LEMMA InsertRefusedKeeps ==
  ASSUME AccountsInv, NEW c \in Requests, People!InsertRefused(c)
  PROVE  AccountsInv'
<1>1. UNCHANGED <<row, seeded, opened, excused>> /\ call[c].kind = "signin" /\ call[c].pc = "insert"
  BY DEF People!InsertRefused
<1>2. CASE \E u \in People!FindAccount(call[c].subject) : People!GoesOn(c, u)
  BY <1>1, <1>2, GoesOnKeeps
<1>3. CASE People!End(c)
  BY <1>1, <1>3, CallEnds
<1>4. ASSUME call' = [call EXCEPT ![c].pc = "name"]
      PROVE  AccountsInv'
  <2>1. PICK q : q = [call[c] EXCEPT !.pc = "name"]
    OBVIOUS
  <2>2. /\ q \in SignInCall /\ q.pc = "name" /\ q.policy = call[c].policy
        /\ q.user = call[c].user /\ q.subject = call[c].subject
    BY <1>1, <2>1, SignsIn DEF SignInCall
  <2>3. call' = [call EXCEPT ![c] = q]
    BY <1>1, <1>4, <2>1, SignsIn
  <2>4. SignInFits(q)
    BY <1>1, <2>2, SignsIn DEF SignInFits
  <2>5. QED
    BY <1>1, <2>2, <2>3, <2>4, SignInCalls, CallGoesOn
<1>5. QED
  BY <1>2, <1>3, <1>4 DEF People!InsertRefused, People!Existing

LEMMA InsertAccountKeeps ==
  ASSUME AccountsInv, NEW c \in Requests, People!InsertAccount(c)
  PROVE  AccountsInv'
<1>1. call[c].kind = "signin" /\ call[c].pc = "insert" /\ UNCHANGED <<seeded, opened, excused>>
  BY DEF People!InsertAccount
<1>2. PICK u \in People!Ids :
        /\ u = People!Min(People!Unused) /\ u \notin {People!Admin, People!System} /\ ~People!Exists(u)
  BY FirstUnused DEF People!InsertAccount
<1>3. /\ call[c].name \in Name /\ call[c].subject \in Subjects /\ call[c].policy \in Policy
  BY <1>1, SignsIn DEF SignInCall, SignInFits
<1>4. call[c].policy.status \in {"active", "blocked"}
  BY <1>3, AccountConstants
<1>5. PICK new : new = [People!Absent EXCEPT !.name = call[c].name, !.subject = call[c].subject,
                                             !.status = call[c].policy.status]
  OBVIOUS
<1>6. /\ new \in Account /\ new.name = call[c].name /\ new.subject = call[c].subject
      /\ new.status \in {"active", "blocked"}
  BY <1>3, <1>4, <1>5 DEF Account, People!Absent, Name
<1>7. /\ row' = [row EXCEPT ![u] = new] /\ call' = [call EXCEPT ![c].user = u, ![c].pc = "roles"]
      /\ People!Named(new.name) = {} /\ People!FindAccount(new.subject) = {}
  BY <1>2, <1>5, <1>6 DEF People!InsertAccount, People!Insertable
<1>8. /\ row' \in [People!Ids -> Account] /\ RowsFit'
      /\ \A q \in Call : CallFits(q) => CallFits(q)'
  BY <1>1, <1>2, <1>6, <1>7, SignsIn, AccountInserted
<1>9. PICK q : q = [call[c] EXCEPT !.user = u, !.pc = "roles"]
  OBVIOUS
<1>10. /\ q \in SignInCall /\ q.pc = "roles" /\ q.policy = call[c].policy
       /\ q.user = u /\ q.subject = call[c].subject
  BY <1>1, <1>9, SignsIn DEF SignInCall
<1>11. call' = [call EXCEPT ![c] = q]
  BY <1>1, <1>7, <1>9, SignsIn
<1>12. row'[u] = new /\ People!Exists(u)'
  BY <1>1, <1>6, <1>7, SignsIn, FirstAccounts DEF People!Exists
<1>13. u # 0
  BY <1>2, AccountConstants
<1>14. CallFits(q)'
  <2>1. SignInFits(q)'
    BY <1>3, <1>6, <1>10, <1>12, <1>13 DEF SignInFits
  <2>2. q.kind = "signin"
    BY <1>10, SignInCalls
  <2>3. QED
    BY <2>1, <2>2 DEF CallFits
<1>15. People!ActiveAdministrators \subseteq People!ActiveAdministrators'
  <2>1. u \notin People!ActiveAdministrators
    BY <1>2, FirstAccounts DEF People!ActiveAdministrators, People!Exists
  <2>2. QED
    BY <1>1, <1>7, <2>1, SignsIn DEF People!ActiveAdministrators
<1>16. q \in Call /\ q.kind # "change"
  BY <1>10, SignInCalls
<1>17. seeded' \in BOOLEAN /\ excused' \in BOOLEAN /\ opened' \in BOOLEAN
  BY <1>1, SignsIn
<1>18. QED
  BY <1>1, <1>8, <1>11, <1>14, <1>15, <1>16, <1>17, WriteGoesOn

\* A sign-in writes the roles of its own account, and takes none from an administrator unless
\* that is excused.
LEMMA SignInWrites ==
  ASSUME AccountsInv, NEW c \in Requests, call[c].kind = "signin", call[c].user # 0,
         NEW roles \in SUBSET People!Roles, row' = [row EXCEPT ![call[c].user].roles = roles],
         seeded' = seeded, opened' = opened,
         excused' = (excused \/ (call[c].user \in People!ActiveAdministrators /\ "ADMIN" \notin roles)),
         NEW q \in Call, call' = [call EXCEPT ![c] = q], CallFits(q), q.kind # "change"
  PROVE  AccountsInv'
<1>1. PICK u \in People!Ids : u = call[c].user /\ People!Exists(u)
  BY SignsIn DEF SignInCall, SignInFits
<1>2. PICK new : new = [row[u] EXCEPT !.roles = roles]
  OBVIOUS
<1>3. row[u] \in Account /\ row[u].status # "none"
  BY <1>1, SignsIn DEF RowsFit
<1>4. /\ new \in Account /\ new.name = row[u].name /\ new.subject = row[u].subject
      /\ new.status = row[u].status /\ new.roles = roles
  BY <1>2, <1>3 DEF Account
<1>5. row' = [row EXCEPT ![u] = new]
  BY <1>1, <1>2, SignsIn
<1>6. /\ row' \in [People!Ids -> Account] /\ RowsFit'
      /\ \A p \in Call : CallFits(p) => CallFits(p)'
  <2>1. /\ Books /\ opened' \in BOOLEAN /\ (opened => opened') /\ seeded' = seeded
        /\ new.status # "none" /\ People!Exists(u)
        /\ new.name = row[u].name /\ new.subject = row[u].subject /\ new \in Account
        /\ ~opened' /\ row[u].name = TheServices /\ new.status = "active"
             => row[u].status = "active"
    BY <1>1, <1>3, <1>4, SignsIn
  <2>2. QED
    BY <1>5, <2>1, AccountUpdated
<1>7. ~excused' => People!ActiveAdministrators \subseteq People!ActiveAdministrators'
  BY <1>1, <1>4, <1>5, SignsIn DEF People!ActiveAdministrators
<1>8. seeded' \in BOOLEAN /\ excused' \in BOOLEAN /\ opened' \in BOOLEAN /\ (excused => excused')
  BY SignsIn
<1>9. CallFits(q)'
  BY <1>6
<1>10. QED
  BY <1>6, <1>7, <1>8, <1>9, WriteGoesOn

\* A sign-in that goes on.
LEMMA NextStep ==
  ASSUME AccountsInv, NEW c \in Requests, call[c].kind = "signin",
         call[c].pc \in {"roles", "clear", "grant", "session"},
         NEW pc \in {"clear", "grant", "session"}, NEW left \in SUBSET call[c].left,
         \/ call' = [call EXCEPT ![c].pc = pc] /\ left = call[c].left
         \/ call' = [call EXCEPT ![c].left = left] /\ pc = call[c].pc
  PROVE  \E q \in Call : call' = [call EXCEPT ![c] = q] /\ CallFits(q) /\ q.kind = "signin"
<1>1. PICK q : q = [call[c] EXCEPT !.pc = pc, !.left = left]
  OBVIOUS
<1>2. /\ call \in [Requests -> Call] /\ call[c] \in SignInCall /\ SignInFits(call[c])
      /\ left \in SUBSET Permissions
  BY SignsIn DEF SignInCall
<1>3. q \in SignInCall /\ q.pc = pc /\ q.user = call[c].user /\ q.subject = call[c].subject
  BY <1>1, <1>2 DEF SignInCall
<1>4. SignInFits(q)
  BY <1>2, <1>3 DEF SignInFits
<1>5. call' = [call EXCEPT ![c] = q]
  <2>1. CASE call' = [call EXCEPT ![c].pc = pc] /\ left = call[c].left
    <3>1. q = [call[c] EXCEPT !.pc = pc]
      BY <1>1, <1>2, <2>1 DEF SignInCall
    <3>2. QED
      BY <1>2, <2>1, <3>1
  <2>2. CASE call' = [call EXCEPT ![c].left = left] /\ pc = call[c].pc
    <3>1. q = [call[c] EXCEPT !.left = left]
      BY <1>1, <1>2, <2>2 DEF SignInCall
    <3>2. QED
      BY <1>2, <2>2, <3>1
  <2>3. QED
    BY <2>1, <2>2
<1>6. QED
  BY <1>3, <1>4, <1>5, SignInCalls

LEMMA FirstRolesKeeps ==
  ASSUME AccountsInv, NEW c \in Requests, People!FirstRoles(c)
  PROVE  AccountsInv'
<1>1. /\ call[c].kind = "signin" /\ call[c].pc = "roles" /\ seeded' = seeded /\ opened' = opened
      /\ row' = [row EXCEPT ![call[c].user].roles = call[c].policy.roles]
      /\ excused' = (excused \/ (call[c].user \in People!ActiveAdministrators
                                 /\ "ADMIN" \notin call[c].policy.roles))
      /\ People!End(c) \/ call' = [call EXCEPT ![c].pc = "clear"]
  BY DEF People!FirstRoles
<1>2. call[c].policy.roles \in SUBSET People!Roles /\ call[c].user # 0
  <2>1. call[c].policy \in Policy /\ call[c].user # 0
    BY <1>1, SignsIn DEF SignInFits
  <2>2. QED
    BY <2>1, AccountConstants
<1>3. \E q \in Call : call' = [call EXCEPT ![c] = q] /\ CallFits(q) /\ q.kind # "change"
  <2>1. CASE People!End(c)
    BY <2>1, IdleCall DEF People!End
  <2>2. CASE call' = [call EXCEPT ![c].pc = "clear"]
    BY <1>1, <2>2, NextStep
  <2>3. QED
    BY <1>1, <2>1, <2>2
<1>4. QED
  BY <1>1, <1>2, <1>3, SignInWrites

LEMMA SyncRolesKeeps ==
  ASSUME AccountsInv, NEW c \in Requests, People!SyncRoles(c)
  PROVE  AccountsInv'
<1>1. /\ call[c].kind = "signin" /\ call[c].pc = "grant" /\ seeded' = seeded /\ opened' = opened
      /\ call' = [call EXCEPT ![c].pc = "session"]
      /\ excused' = (excused \/ (call[c].user \in People!ActiveAdministrators
                                 /\ "ADMIN" \notin People!RoleFrom(call[c].claims)))
      /\ row' = [row EXCEPT ![call[c].user].roles =
                   IF People!RolesOf(call[c].user) = People!RoleFrom(call[c].claims)
                   THEN row[call[c].user].roles ELSE People!RoleFrom(call[c].claims)]
  BY DEF People!SyncRoles
<1>2. /\ People!RoleFrom(call[c].claims) \in SUBSET People!Roles
      /\ People!RoleFrom(call[c].claims) \in {{"ADMIN"}, {"CLIENT"}}
  BY DEF People!RoleFrom, People!Roles
<1>3. PICK roles : roles = IF People!RolesOf(call[c].user) = People!RoleFrom(call[c].claims)
                           THEN row[call[c].user].roles ELSE People!RoleFrom(call[c].claims)
  OBVIOUS
<1>4. call[c].user # 0 /\ call[c].user \in People!Ids
  BY <1>1, SignsIn DEF SignInCall, SignInFits
<1>5. roles \in SUBSET People!Roles
  <2>1. row[call[c].user].roles \in SUBSET People!Roles
    BY <1>1, <1>4, SignsIn DEF Account
  <2>2. QED
    BY <1>2, <1>3, <2>1
<1>6. call[c].user \in People!ActiveAdministrators =>
        ("ADMIN" \notin roles <=> "ADMIN" \notin People!RoleFrom(call[c].claims))
  BY <1>2, <1>3 DEF People!RolesOf, People!ActiveAdministrators
<1>7. row' = [row EXCEPT ![call[c].user].roles = roles]
  BY <1>1, <1>3
<1>8. \E q \in Call : call' = [call EXCEPT ![c] = q] /\ CallFits(q) /\ q.kind # "change"
  BY <1>1, NextStep
<1>9. excused' = (excused \/ (call[c].user \in People!ActiveAdministrators /\ "ADMIN" \notin roles))
  BY <1>1, <1>6
<1>10. QED
  BY <1>1, <1>4, <1>5, <1>7, <1>8, <1>9, SignInWrites

\* The permissions and the session: no account is written.
LEMMA PermissionsKeep ==
  ASSUME AccountsInv, NEW c \in Requests,
         People!ClearPermissions(c) \/ People!Grant(c) \/ People!OpenSession(c)
  PROVE  AccountsInv'
<1>1. /\ UNCHANGED <<row, seeded, opened, excused>> /\ call[c].kind = "signin"
      /\ call[c].pc \in {"clear", "grant", "session"}
  BY DEF People!ClearPermissions, People!Grant, People!OpenSession
<1>2. CASE People!End(c)
  BY <1>1, <1>2, CallEnds
<1>3. CASE call' = [call EXCEPT ![c].pc = "grant"]
  <2>1. PICK q \in Call : call' = [call EXCEPT ![c] = q] /\ CallFits(q) /\ q.kind = "signin"
    BY <1>1, <1>3, NextStep
  <2>2. QED
    BY <1>1, <2>1, CallGoesOn
<1>4. ASSUME NEW p, call[c].pc = "grant", call' = [call EXCEPT ![c].left = call[c].left \ {p}]
      PROVE  AccountsInv'
  <2>1. PICK q \in Call : call' = [call EXCEPT ![c] = q] /\ CallFits(q) /\ q.kind = "signin"
    <3>1. PICK left \in SUBSET call[c].left : left = call[c].left \ {p}
      OBVIOUS
    <3>2. QED
      BY <1>1, <1>4, <3>1, NextStep
  <2>2. QED
    BY <1>1, <2>1, CallGoesOn
<1>5. QED
  BY <1>2, <1>3, <1>4 DEF People!ClearPermissions, People!Grant, People!OpenSession

-----------------------------------------------------------------------------
(* Accounts: what they promise                                             *)

LEMMA AccountsStep == AccountsInv /\ [People!Next]_accountVars => AccountsInv'
<1> SUFFICES ASSUME AccountsInv, [People!Next]_accountVars
             PROVE  AccountsInv'
  OBVIOUS
<1>1. CASE UNCHANGED accountVars
  BY <1>1 DEF accountVars, AccountsInv, Books, AccountsTyped, RowsFit, Apart, Closed, CallFits, StartFits,
     ChangeFits, SignInFits, Administered, Allowed, People!Exists, People!Named,
     People!ActiveAdministrators, People!EndsAnAdministrator
<1>2. ASSUME NEW c \in Requests, People!Change(c)
      PROVE  AccountsInv'
  BY <1>2, BeginChangeKeeps, CheckChangeKeeps, SetRolesKeeps, SetStatusKeeps DEF People!Change
<1>3. ASSUME NEW c \in Requests, People!SignIn(c)
      PROVE  AccountsInv'
  BY <1>3, BeginSignInKeeps, FindKeeps, ChooseNameKeeps, InsertAccountKeeps, InsertRefusedKeeps,
     FirstRolesKeeps, PermissionsKeep, SyncRolesKeeps DEF People!SignIn
<1>4. ASSUME NEW actor \in People!ActiveAdministrators, NEW u \in People!Ids, People!SetPassword(actor, u)
      PROVE  AccountsInv'
  BY <1>4, SetPasswordKeeps
<1>5. QED
  BY <1>1, <1>2, <1>3, <1>4, StartKeeps, RegisterKeeps DEF People!Next

LEMMA AccountsAreInvariant == PeopleSpec => [](which = "accounts" => AccountsInv)
<1>1. PeopleInit => (which = "accounts" => AccountsInv)
  BY AccountsInitially DEF PeopleInit
<1>2. (which = "accounts" => AccountsInv) /\ [PeopleNext]_<<which, vars, accountVars>>
      => (which = "accounts" => AccountsInv)'
  <2>1. SUFFICES ASSUME which = "accounts" => AccountsInv, [PeopleNext]_<<which, vars, accountVars>>,
                        which' = "accounts"
                 PROVE  AccountsInv'
    OBVIOUS
  <2>2. which = "accounts" /\ [People!Next]_accountVars
    BY <2>1 DEF PeopleNext
  <2>3. QED
    BY <2>1, <2>2, AccountsStep
<1>3. QED
  BY <1>1, <1>2, PTL DEF PeopleSpec

LEMMA AccountsPromise ==
  ASSUME AccountsInv
  PROVE  People!LetInAsThemselves /\ People!AnAdministratorRemains
<1>1. People!AnAdministratorRemains
  BY DEF AccountsInv, Administered, People!AnAdministratorRemains
<1>2. People!SystemIsNoWayIn
  BY DEF AccountsInv, Books, RowsFit, Closed, TheServices, People!SystemIsNoWayIn, People!MaySignIn
<1>3. People!EachTheirOwn
  BY SignsIn DEF AccountsInv, Books, RowsFit, Apart, SignInFits, People!EachTheirOwn
<1>4. QED
  BY <1>1, <1>2, <1>3 DEF People!LetInAsThemselves

\* Whoever is let in is let in as themselves: after a start of this release nobody as the
\* service account, whatever an earlier build left in its row (ensure_system_user), and
\* everybody who comes from outside as their own account, however many sign-ins, registrations
\* and starts overlap (create_account).
THEOREM PeopleAreThemselves == PeopleSpec => []LetInAsThemselves
<1>1. (which = "accounts" => AccountsInv) => LetInAsThemselves
  BY AccountsPromise DEF LetInAsThemselves
<1>2. QED
  BY <1>1, AccountsAreInvariant, PTL

\* Once a start has made an administrator one remains, for every number of accounts and of
\* administrators at work, through every change that does not overlap another that would end
\* one (ensure_an_administrator_remains).
THEOREM AnAdministratorIsKept == PeopleSpec => []AnAdministratorRemains
<1>1. (which = "accounts" => AccountsInv) => AnAdministratorRemains
  BY AccountsPromise DEF AnAdministratorRemains
<1>2. QED
  BY <1>1, AccountsAreInvariant, PTL

=============================================================================
