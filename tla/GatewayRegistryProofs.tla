------------------------ MODULE GatewayRegistryProofs ------------------------
(***************************************************************************)
(* Theorems about GatewayRegistry, for every set of applications, prefixes *)
(* and calls, all times, and whatever fails; and about GatewayForwarding,  *)
(* as MCGateway composes the two, for every table of routes that can be    *)
(* built, all requests, addresses and times.                               *)
(***************************************************************************)
EXTENDS MCGateway, FiniteSetTheorems, SequenceTheorems, TLAPS

-----------------------------------------------------------------------------
(* Type correctness                                                        *)

\* What a call in the table of calls looks like.
CallOK(r) ==
  /\ r \in CallRecord
  /\ r.pc # "withdraw" => r.plan # {}
  /\ r.pc \in {"check", "put"} => r.left # {} /\ r.left \subseteq r.plan

LEMMA InitTyped == Init => TypeOK
  BY TimesAssumption DEF Init, TypeOK

\* A call that arrives is one that the others leave alone.
LEMMA ArrivalTyped ==
  ASSUME TypeOK, NEW a \in Apps, NEW c \in Calls, NEW awaited \in BOOLEAN,
         plan[a] # {}, Arrives(a, c, "check", awaited)
  PROVE  DOMAIN call' \subseteq Calls /\ \A d \in DOMAIN call' : CallOK(call'[d])
  BY TimesAssumption DEF TypeOK, Arrives, CallOK, CallRecord

LEMMA UnawaitedTyped ==
  ASSUME TypeOK, NEW a \in Apps
  PROVE  /\ DOMAIN Unawaited(a) = DOMAIN call
         /\ \A d \in DOMAIN call :
              CallOK(Unawaited(a)[d]) /\ Unawaited(a)[d].app = call[d].app
<1> SUFFICES ASSUME NEW d \in DOMAIN call
             PROVE  CallOK(Unawaited(a)[d]) /\ Unawaited(a)[d].app = call[d].app
  BY DEF Unawaited
<1>1. CallOK(call[d])
  BY DEF TypeOK, CallOK
<1>2. CallOK([call[d] EXCEPT !.awaited = FALSE])
  BY <1>1 DEF CallOK, CallRecord
<1> QED
  BY <1>1, <1>2 DEF Unawaited

LEMMA NoticedTyped ==
  ASSUME TypeOK, NEW k \in Rows
  PROVE  /\ DOMAIN Noticed(k) = DOMAIN call
         /\ \A d \in DOMAIN call : CallOK(Noticed(k)[d])
<1> SUFFICES ASSUME NEW d \in DOMAIN call PROVE CallOK(Noticed(k)[d])
  BY DEF Noticed
<1>1. CallOK(call[d])
  BY DEF TypeOK, CallOK
<1> QED
  BY <1>1 DEF Noticed, CallOK, CallRecord

\* The parts of TypeOK that are about calls, and the rest.
CallsTyped == DOMAIN call \subseteq Calls /\ \A c \in DOMAIN call : CallOK(call[c])
AnnouncersTyped ==
  /\ app \in [Apps -> {"off", "due", "waiting", "asleep"}]
  /\ plan \in [Apps -> SUBSET Prefixes]
  /\ \A a \in Apps : plan[a] = {} =>
       app[a] = "off" /\ \A c \in DOMAIN call : call[c].app # a
  /\ timer \in [Apps -> 0..Interval]
RowsTyped ==
  /\ DOMAIN life \subseteq Rows
  /\ \A k \in DOMAIN life : life[k] \in -MaxHandling..TTL
BoundsTyped == boots \in Nat /\ errors \in Nat

LEMMA Parts == TypeOK <=> CallsTyped /\ AnnouncersTyped /\ RowsTyped /\ BoundsTyped
  BY DEF TypeOK, CallsTyped, CallOK, AnnouncersTyped, RowsTyped, BoundsTyped

\* The announcer's steps.
LEMMA AnnouncerTyped ==
  ASSUME TypeOK, NEW a \in Apps,
         \/ Boot(a) \/ Unreached(a) \/ Wake(a) \/ GiveUp(a) \/ Crash(a)
         \/ \E c \in Calls : Send(a, c) \/ Stop(a, c)
  PROVE  TypeOK'
<1> USE TimesAssumption, PlansAssumption
<1>0. CallsTyped /\ AnnouncersTyped /\ RowsTyped /\ BoundsTyped
  BY Parts
<1>1. CASE Boot(a)
  <2>1. \A P \in PlansOf[a] : P # {} /\ P \in SUBSET Prefixes
    OBVIOUS
  <2> QED
    BY <1>1, <2>1 DEF TypeOK, Boot
<1>2. CASE Unreached(a)
  BY <1>2 DEF TypeOK, Unreached
<1>3. CASE Wake(a)
  BY <1>3 DEF TypeOK, Wake
<1>4. CASE GiveUp(a)
  <2>1. CallsTyped'
    BY <1>4, <1>0, UnawaitedTyped DEF GiveUp, CallsTyped
  <2>2. (AnnouncersTyped /\ RowsTyped /\ BoundsTyped)'
    BY <1>4, <1>0, UnawaitedTyped DEF GiveUp, AnnouncersTyped, RowsTyped, BoundsTyped
  <2> QED
    BY <2>1, <2>2, Parts, PTL
<1>5. CASE Crash(a)
  <2>1. CallsTyped'
    BY <1>5, <1>0, UnawaitedTyped DEF Crash, CallsTyped
  <2>2. (AnnouncersTyped /\ RowsTyped /\ BoundsTyped)'
    BY <1>5, <1>0, UnawaitedTyped DEF Crash, AnnouncersTyped, RowsTyped, BoundsTyped
  <2> QED
    BY <2>1, <2>2, Parts, PTL
<1>6. ASSUME NEW c \in Calls, Send(a, c) PROVE TypeOK'
  <2>1. plan[a] # {}
    BY <1>6 DEF Send, TypeOK
  <2>2. CallsTyped'
    BY <1>6, <2>1, ArrivalTyped DEF Send, CallsTyped
  <2>3. (AnnouncersTyped /\ RowsTyped /\ BoundsTyped)'
    BY <1>6, <1>0, <2>1 DEF Send, Arrives, AnnouncersTyped, RowsTyped, BoundsTyped
  <2> QED
    BY <2>2, <2>3, Parts, PTL
<1>7. ASSUME NEW c \in Calls, Stop(a, c) PROVE TypeOK'
  <2>1. CallsTyped'
    <3> SUFFICES ASSUME NEW d \in DOMAIN call' PROVE d \in Calls /\ CallOK(call'[d])
      BY DEF CallsTyped
    <3>1. CASE d = c
      BY <1>7, <3>1, <1>0 DEF Stop, CallOK, CallRecord, AnnouncersTyped
    <3>2. CASE d # c
      BY <1>7, <3>2, <1>0, UnawaitedTyped DEF Stop, CallsTyped
    <3> QED
      BY <3>1, <3>2
  <2>2. (AnnouncersTyped /\ RowsTyped /\ BoundsTyped)'
    BY <1>7, <1>0, UnawaitedTyped DEF Stop, AnnouncersTyped, RowsTyped, BoundsTyped
  <2> QED
    BY <2>1, <2>2, Parts, PTL
<1> QED
  BY <1>1, <1>2, <1>3, <1>4, <1>5, <1>6, <1>7

\* What becomes of the calls in the gateway's steps.
LEMMA GoesTyped ==
  ASSUME TypeOK, NEW c \in DOMAIN call,
         NEW pc \in {"check", "list", "delete", "put"}, NEW left \in SUBSET Prefixes,
         call[c].pc # "withdraw",
         pc \in {"check", "put"} => left # {} /\ left \subseteq call[c].plan,
         Goes(c, pc, left)
  PROVE  /\ CallsTyped' /\ DOMAIN call' = DOMAIN call
         /\ \A d \in DOMAIN call : call'[d].app = call[d].app
<1>1. CallOK(call[c])
  BY DEF TypeOK, CallOK
<1>2. CallOK([call[c] EXCEPT !.pc = pc, !.left = left])
  BY <1>1 DEF CallOK, CallRecord
<1>3. call' = [call EXCEPT ![c] = [call[c] EXCEPT !.pc = pc, !.left = left]]
  BY <1>1 DEF Goes, CallOK, CallRecord
<1> QED
  BY <1>2, <1>3, Parts DEF CallsTyped

LEMMA AnswerTyped ==
  ASSUME TypeOK, NEW c \in DOMAIN call, Answer(c), UNCHANGED <<plan, timer>>
  PROVE  CallsTyped' /\ AnnouncersTyped'
<1>1. CallsTyped'
  BY Parts DEF Answer, Without, CallsTyped
<1>2. call[c].app \in Apps
  BY DEF TypeOK, CallRecord
<1>3. AnnouncersTyped'
  BY <1>2, Parts DEF Answer, Without, AnnouncersTyped
<1> QED
  BY <1>1, <1>3

\* A row that is written lives for TTL from the beginning of the call.
LEMMA WrittenTyped ==
  ASSUME TypeOK, NEW c \in DOMAIN call, NEW p \in Prefixes, life' = Written(c, p)
  PROVE  RowsTyped' /\ <<call[c].app, p>> \in Rows
<1>1. call[c].app \in Apps /\ call[c].age \in 0..MaxHandling
  BY DEF TypeOK, CallRecord
<1>2. TTL - call[c].age \in -MaxHandling..TTL
  BY <1>1, TimesAssumption
<1> QED
  BY <1>1, <1>2, Parts DEF Written, RowsTyped, Rows

LEMMA WithoutRowsTyped ==
  ASSUME TypeOK, NEW S, life' = Without(life, S)
  PROVE  RowsTyped'
  BY Parts DEF Without, RowsTyped

LEMMA GatewayTyped ==
  ASSUME TypeOK, NEW c \in DOMAIN call, Serve(c) \/ Fails(c)
  PROVE  TypeOK'
<1> USE TimesAssumption
<1>0. CallsTyped /\ AnnouncersTyped /\ RowsTyped /\ BoundsTyped
  BY Parts
<1>00. CallOK(call[c])
  BY <1>0 DEF CallsTyped
<1>1. ASSUME NEW p \in Prefixes, Check(c, p) PROVE TypeOK'
  <2>1. (RowsTyped /\ BoundsTyped)'
    BY <1>1, <1>0 DEF Check, RowsTyped, BoundsTyped
  <2>2. CASE Taken(c, p)
    <3>1. CallsTyped' /\ AnnouncersTyped'
      BY <1>1, <2>2, AnswerTyped DEF Check
    <3> QED
      BY <2>1, <3>1, Parts, PTL
  <2>3. CASE ~Taken(c, p)
    <3>1. call[c].left \ {p} \in SUBSET Prefixes /\ call[c].left \ {p} \subseteq call[c].plan
      BY <1>00, <1>1 DEF CallOK, CallRecord, Check
    <3>2. /\ CallsTyped' /\ DOMAIN call' = DOMAIN call
          /\ \A d \in DOMAIN call : call'[d].app = call[d].app
      <4>1. CASE call[c].left = {p}
        BY <1>1, <2>3, <3>1, <4>1, GoesTyped DEF Check
      <4>2. CASE call[c].left # {p}
        BY <1>1, <2>3, <3>1, <4>2, GoesTyped DEF Check
      <4> QED
        BY <4>1, <4>2
    <3>3. AnnouncersTyped'
      BY <1>0, <1>1, <2>3, <3>2 DEF Check, AnnouncersTyped
    <3> QED
      BY <2>1, <3>2, <3>3, Parts, PTL
  <2> QED
    BY <2>2, <2>3
<1>2. CASE List(c)
  <2>1. (RowsTyped /\ BoundsTyped)'
    BY <1>2, <1>0 DEF List, RowsTyped, BoundsTyped
  <2>2. /\ CallsTyped' /\ DOMAIN call' = DOMAIN call
        /\ \A d \in DOMAIN call : call'[d].app = call[d].app
    <3>1. CASE Dropped(c) = {}
      <4>1. call[c].plan # {} /\ call[c].plan \in SUBSET Prefixes
        BY <1>00, <1>2 DEF List, CallOK, CallRecord
      <4>2. Goes(c, "put", call[c].plan) /\ call[c].pc # "withdraw"
        BY <1>2, <3>1 DEF List
      <4> QED
        BY <4>1, <4>2, GoesTyped
    <3>2. CASE Dropped(c) # {}
      <4>1. Dropped(c) \in SUBSET Prefixes
        BY DEF Dropped
      <4>2. Goes(c, "delete", Dropped(c)) /\ call[c].pc # "withdraw"
        BY <1>2, <3>2 DEF List
      <4> QED
        BY <4>1, <4>2, GoesTyped
    <3> QED
      BY <3>1, <3>2
  <2>3. AnnouncersTyped'
    BY <1>0, <1>2, <2>2 DEF List, AnnouncersTyped
  <2> QED
    BY <2>1, <2>2, <2>3, Parts, PTL
<1>3. ASSUME NEW p \in Prefixes, Delete(c, p) PROVE TypeOK'
  <2>1. RowsTyped' /\ BoundsTyped'
    BY <1>3, <1>0, WithoutRowsTyped DEF Delete, BoundsTyped
  <2>2. /\ CallsTyped' /\ DOMAIN call' = DOMAIN call
        /\ \A d \in DOMAIN call : call'[d].app = call[d].app
    <3>1. call[c].plan # {} /\ call[c].plan \in SUBSET Prefixes
          /\ call[c].left \ {p} \in SUBSET Prefixes /\ call[c].pc # "withdraw"
      BY <1>00, <1>3 DEF Delete, CallOK, CallRecord
    <3>2. CASE call[c].left = {p}
      BY <1>3, <3>1, <3>2, GoesTyped DEF Delete
    <3>3. CASE call[c].left # {p}
      BY <1>3, <3>1, <3>3, GoesTyped DEF Delete
    <3> QED
      BY <3>2, <3>3
  <2>3. AnnouncersTyped'
    BY <1>0, <1>3, <2>2 DEF Delete, AnnouncersTyped
  <2> QED
    BY <2>1, <2>2, <2>3, Parts, PTL
<1>4. ASSUME NEW p \in Prefixes, Put(c, p) PROVE TypeOK'
  <2> DEFINE told == Noticed(<<call[c].app, p>>)
  <2>1. RowsTyped' /\ BoundsTyped' /\ <<call[c].app, p>> \in Rows
    BY <1>4, <1>0, WrittenTyped DEF Put, BoundsTyped
  <2>2. /\ DOMAIN told = DOMAIN call
        /\ \A d \in DOMAIN call : CallOK(told[d]) /\ told[d].app = call[d].app
    <3>1. \A d \in DOMAIN call : told[d].app = call[d].app
      BY <1>0 DEF Noticed, CallsTyped, CallOK, CallRecord
    <3> QED
      BY <2>1, <3>1, NoticedTyped
  <2> HIDE DEF told
  <2>3. CASE call[c].left = {p}
    <3>1. call' = Without(told, {c})
      BY <1>4, <2>3 DEF Put, told
    <3>2. CallsTyped'
      BY <1>0, <2>2, <3>1 DEF CallsTyped, Without
    <3>3. AnnouncersTyped'
      BY <1>0, <1>00, <1>4, <2>2, <2>3, <3>1
         DEF Put, AnnouncersTyped, Without, CallOK, CallRecord
    <3> QED
      BY <2>1, <3>2, <3>3, Parts, PTL
  <2>4. CASE call[c].left # {p}
    <3>1. call' = [told EXCEPT ![c].left = @ \ {p}]
      BY <1>4, <2>4 DEF Put, told
    <3>2. CallOK([told[c] EXCEPT !.left = told[c].left \ {p}])
      <4>1. told[c].left = call[c].left /\ told[c].pc = call[c].pc
        BY <1>00 DEF told, Noticed, CallOK, CallRecord
      <4>2. call[c].left \ {p} # {} /\ call[c].pc = "put"
        BY <1>4, <1>00, <2>4 DEF Put, CallOK
      <4> QED
        BY <2>2, <4>1, <4>2 DEF CallOK, CallRecord
    <3>3. /\ DOMAIN call' = DOMAIN call
          /\ \A d \in DOMAIN call : CallOK(call'[d]) /\ call'[d].app = call[d].app
      BY <2>2, <3>1, <3>2 DEF CallOK, CallRecord
    <3>4. CallsTyped'
      BY <1>0, <3>3 DEF CallsTyped
    <3>5. AnnouncersTyped'
      BY <1>0, <1>4, <2>4, <3>3 DEF Put, AnnouncersTyped
    <3> QED
      BY <2>1, <3>4, <3>5, Parts, PTL
  <2> QED
    BY <2>3, <2>4
<1>5. CASE Withdraw(c)
  <2>1. RowsTyped' /\ BoundsTyped'
    BY <1>5, <1>0, WithoutRowsTyped DEF Withdraw, BoundsTyped
  <2>2. CallsTyped' /\ AnnouncersTyped'
    BY <1>5, AnswerTyped DEF Withdraw
  <2> QED
    BY <2>1, <2>2, Parts, PTL
<1>6. CASE Fails(c)
  <2>1. RowsTyped' /\ BoundsTyped'
    BY <1>6, <1>0 DEF Fails, RowsTyped, BoundsTyped
  <2>2. CallsTyped' /\ AnnouncersTyped'
    BY <1>6, AnswerTyped DEF Fails
  <2> QED
    BY <2>1, <2>2, Parts, PTL
<1> QED
  BY <1>1, <1>2, <1>3, <1>4, <1>5, <1>6 DEF Serve

LEMMA TickTyped == TypeOK /\ Tick => TypeOK'
<1> SUFFICES ASSUME TypeOK, Tick PROVE TypeOK'
  OBVIOUS
<1> USE TimesAssumption
<1>0. CallsTyped /\ AnnouncersTyped /\ RowsTyped /\ BoundsTyped
  BY Parts
<1>1. CallsTyped'
  <2> SUFFICES ASSUME NEW c \in DOMAIN call PROVE CallOK([call[c] EXCEPT !.age = @ + 1])
    BY <1>0 DEF Tick, CallsTyped
  <2>1. CallOK(call[c]) /\ call[c].age < MaxHandling
    BY <1>0 DEF Tick, CallsTyped
  <2> QED
    BY <2>1 DEF CallOK, CallRecord
<1>2. AnnouncersTyped'
  <2>1. \A d \in DOMAIN call : DOMAIN call' = DOMAIN call /\ call'[d].app = call[d].app
    BY <1>0 DEF Tick, CallsTyped, CallOK, CallRecord
  <2> QED
    BY <1>0, <2>1 DEF Tick, AnnouncersTyped
<1>3. (RowsTyped /\ BoundsTyped)'
  BY <1>0 DEF Tick, RowsTyped, BoundsTyped
<1> QED
  BY <1>1, <1>2, <1>3, Parts, PTL

LEMMA StepTyped == TypeOK /\ [Next]_vars => TypeOK'
<1> SUFFICES ASSUME TypeOK, [Next]_vars PROVE TypeOK'
  OBVIOUS
<1>1. CASE UNCHANGED vars
  BY <1>1 DEF vars, TypeOK
<1>2. CASE Next
  BY <1>2, AnnouncerTyped, GatewayTyped, TickTyped DEF Next
<1> QED
  BY <1>1, <1>2

\* The type invariant: rows live for TTL at most, calls write what they name.
THEOREM TypeCorrect == Spec => []TypeOK
<1> QED
  BY InitTyped, StepTyped, PTL DEF Spec

-----------------------------------------------------------------------------
(* Nobody is robbed                                                        *)

\* FreeSinceTheCheck for one record of a call and one table of rows.
Clear(r) == IF r.pc = "check" THEN r.plan \ r.left
            ELSE IF r.pc = "withdraw" THEN {} ELSE r.plan
Free(r, listed) ==
  \A p \in Clear(r) : \A k \in DOMAIN listed :
    k[2] = p /\ NameOf[k[1]] # NameOf[r.app] /\ listed[k] + r.age > 0 => k \in r.news

LEMMA FreeForm == FreeSinceTheCheck <=> \A c \in DOMAIN call : Free(call[c], life)
  BY DEF FreeSinceTheCheck, Free, Clear, Cleared, Rivals

LEMMA AnnouncerKeepsFree ==
  ASSUME TypeOK, \A c \in DOMAIN call : Free(call[c], life), NEW a \in Apps,
         \/ Boot(a) \/ Unreached(a) \/ Wake(a) \/ GiveUp(a) \/ Crash(a)
         \/ \E c \in Calls : Send(a, c) \/ Stop(a, c)
  PROVE  \A c \in DOMAIN call' : Free(call'[c], life')
<1>1. DOMAIN Unawaited(a) = DOMAIN call /\ \A d \in DOMAIN call : Free(Unawaited(a)[d], life)
  <2> SUFFICES ASSUME NEW d \in DOMAIN call PROVE Free(Unawaited(a)[d], life)
    BY DEF Unawaited
  <2>1. call[d] \in CallRecord
    BY DEF TypeOK
  <2>2. Free([call[d] EXCEPT !.awaited = FALSE], life)
    BY <2>1 DEF Free, Clear, CallRecord
  <2> QED
    BY <2>2 DEF Unawaited
<1>2. CASE Boot(a) \/ Unreached(a) \/ Wake(a)
  <2>1. call' = call /\ life' = life
    BY <1>2 DEF Boot, Unreached, Wake
  <2> QED
    BY <2>1
<1>3. CASE GiveUp(a) \/ Crash(a)
  <2>1. call' = Unawaited(a) /\ life' = life
    BY <1>3 DEF GiveUp, Crash
  <2> QED
    BY <1>1, <2>1
<1>4. ASSUME NEW c \in Calls, Send(a, c) PROVE \A d \in DOMAIN call' : Free(call'[d], life')
  BY <1>4 DEF Send, Arrives, Free, Clear
<1>5. ASSUME NEW c \in Calls, Stop(a, c) PROVE \A d \in DOMAIN call' : Free(call'[d], life')
  <2> SUFFICES ASSUME NEW d \in DOMAIN call' PROVE Free(call'[d], life')
    OBVIOUS
  <2>1. CASE d = c
    BY <1>5, <2>1 DEF Stop, Free, Clear
  <2>2. CASE d # c
    BY <1>1, <1>5, <2>2 DEF Stop
  <2> QED
    BY <2>1, <2>2
<1> QED
  BY <1>2, <1>3, <1>4, <1>5
\* Rows that are gone, and calls that are over, are no concern.
LEMMA FewerRows ==
  ASSUME NEW r, NEW S, Free(r, life)
  PROVE  Free(r, Without(life, S))
  BY DEF Free, Without

LEMMA AnswerKeepsFree ==
  ASSUME \A d \in DOMAIN call : Free(call[d], life), NEW c \in DOMAIN call, Answer(c)
  PROVE  \A d \in DOMAIN call' : Free(call'[d], life)
  BY DEF Answer, Without

LEMMA GoesKeepsFree ==
  ASSUME TypeOK, \A d \in DOMAIN call : Free(call[d], life), NEW c \in DOMAIN call,
         NEW pc, NEW left, Goes(c, pc, left),
         Free([call[c] EXCEPT !.pc = pc, !.left = left], life)
  PROVE  \A d \in DOMAIN call' : Free(call'[d], life)
<1>1. call[c] \in CallRecord
  BY DEF TypeOK
<1>2. call' = [call EXCEPT ![c] = [call[c] EXCEPT !.pc = pc, !.left = left]]
  BY <1>1 DEF Goes, CallRecord
<1> QED
  BY <1>2

\* The call notices the row that is written; the other rows are as they were.
LEMMA PutKeepsFree ==
  ASSUME TypeOK, NEW c \in DOMAIN call, NEW p \in Prefixes, NEW d \in DOMAIN call,
         Free(call[d], life)
  PROVE  Free(Noticed(<<call[c].app, p>>)[d], Written(c, p))
<1> DEFINE k0 == <<call[c].app, p>>
<1>1. call[d] \in CallRecord
  BY DEF TypeOK
<1>2. Noticed(k0)[d] = [call[d] EXCEPT !.news = call[d].news \cup {k0}]
  BY <1>1 DEF Noticed, CallRecord
<1>3. Free([call[d] EXCEPT !.news = call[d].news \cup {k0}], Written(c, p))
  BY <1>1 DEF Free, Clear, Written, CallRecord
<1> QED
  BY <1>2, <1>3

LEMMA GatewayKeepsFree ==
  ASSUME TypeOK, \A d \in DOMAIN call : Free(call[d], life), NEW c \in DOMAIN call,
         Serve(c) \/ Fails(c)
  PROVE  \A d \in DOMAIN call' : Free(call'[d], life')
<1>0. call[c] \in CallRecord /\ Free(call[c], life)
  BY DEF TypeOK
<1>1. ASSUME NEW p \in Prefixes, Check(c, p)
      PROVE  \A d \in DOMAIN call' : Free(call'[d], life')
  <2>1. life' = life
    BY <1>1 DEF Check
  <2>2. CASE Taken(c, p)
    BY <1>1, <2>1, <2>2, AnswerKeepsFree DEF Check
  <2>3. CASE ~Taken(c, p)
    <3> DEFINE pc == IF call[c].left = {p} THEN "list" ELSE "check"
               left == call[c].left \ {p}
    <3>1. Goes(c, pc, left)
      BY <1>1, <2>3 DEF Check
    <3>2. Free([call[c] EXCEPT !.pc = pc, !.left = left], life)
      BY <1>0, <1>1, <2>3 DEF Check, Taken, Rivals, Free, Clear, CallRecord
    <3> HIDE DEF pc, left
    <3> QED
      BY <2>1, <3>1, <3>2, GoesKeepsFree
  <2> QED
    BY <2>2, <2>3
<1>2. CASE List(c)
  <2>1. \A left : Free([call[c] EXCEPT !.pc = "put", !.left = left], life)
    BY <1>0, <1>2 DEF List, Free, Clear, CallRecord
  <2>2. \A left : Free([call[c] EXCEPT !.pc = "delete", !.left = left], life)
    BY <1>0, <1>2 DEF List, Free, Clear, CallRecord
  <2>3. life' = life /\ (Goes(c, "put", call[c].plan) \/ Goes(c, "delete", Dropped(c)))
    BY <1>2 DEF List
  <2> QED
    BY <2>1, <2>2, <2>3, GoesKeepsFree
<1>3. ASSUME NEW p \in Prefixes, Delete(c, p)
      PROVE  \A d \in DOMAIN call' : Free(call'[d], life')
  <2>1. \A left : Free([call[c] EXCEPT !.pc = "put", !.left = left], life)
    BY <1>0, <1>3 DEF Delete, Free, Clear, CallRecord
  <2>2. \A left : Free([call[c] EXCEPT !.pc = "delete", !.left = left], life)
    BY <1>0, <1>3 DEF Delete, Free, Clear, CallRecord
  <2>3. Goes(c, "put", call[c].plan) \/ Goes(c, "delete", call[c].left \ {p})
    BY <1>3 DEF Delete
  <2>4. \A d \in DOMAIN call' : Free(call'[d], life)
    BY <2>1, <2>2, <2>3, GoesKeepsFree
  <2> QED
    BY <1>3, <2>4, FewerRows DEF Delete
<1>4. ASSUME NEW p \in Prefixes, Put(c, p)
      PROVE  \A d \in DOMAIN call' : Free(call'[d], life')
  <2> DEFINE told == Noticed(<<call[c].app, p>>)
  <2>1. DOMAIN told = DOMAIN call /\ \A d \in DOMAIN told : Free(told[d], life')
    BY <1>4, PutKeepsFree DEF Put, Noticed
  <2>2. told[c] \in CallRecord /\ told[c].pc = "put"
    <3>1. <<call[c].app, p>> \in Rows
      BY <1>0 DEF CallRecord, Rows
    <3> QED
      BY <1>0, <1>4, <3>1 DEF Noticed, CallRecord, Put
  <2>3. call' = Without(told, {c}) \/ call' = [told EXCEPT ![c].left = @ \ {p}]
    BY <1>4 DEF Put
  <2> HIDE DEF told
  <2>4. CASE call' = Without(told, {c})
    BY <2>1, <2>4 DEF Without
  <2>5. CASE call' = [told EXCEPT ![c].left = @ \ {p}]
    <3>1. Free([told[c] EXCEPT !.left = @ \ {p}], life')
      BY <2>1, <2>2 DEF Free, Clear, CallRecord, Noticed
    <3> QED
      BY <2>1, <2>5, <3>1
  <2> QED
    BY <2>3, <2>4, <2>5
<1>5. CASE Withdraw(c)
  BY <1>5, AnswerKeepsFree, FewerRows DEF Withdraw
<1>6. CASE Fails(c)
  BY <1>6, AnswerKeepsFree DEF Fails
<1> QED
  BY <1>1, <1>2, <1>3, <1>4, <1>5, <1>6 DEF Serve
\* A row's life and a call's age move against each other.
LEMMA TickKeepsFree ==
  ASSUME TypeOK, \A d \in DOMAIN call : Free(call[d], life), Tick
  PROVE  \A d \in DOMAIN call' : Free(call'[d], life')
<1> SUFFICES ASSUME NEW d \in DOMAIN call PROVE Free(call'[d], life')
  BY DEF Tick
<1> USE TimesAssumption
<1>1. call[d] \in CallRecord /\ call[d].age < MaxHandling /\ Free(call[d], life)
  BY DEF TypeOK, Tick
<1>2. call'[d] = [call[d] EXCEPT !.age = call[d].age + 1]
  BY DEF Tick
<1>3. /\ DOMAIN life' = DOMAIN life
      /\ \A k \in DOMAIN life : life'[k] + (call[d].age + 1) > 0 => life[k] + call[d].age > 0
  BY <1>1 DEF Tick, TypeOK, CallRecord
<1>4. Free([call[d] EXCEPT !.age = call[d].age + 1], life')
  BY <1>1, <1>3 DEF Free, Clear, CallRecord
<1> QED
  BY <1>2, <1>4

LEMMA StepKeepsFree ==
  TypeOK /\ FreeSinceTheCheck /\ [Next]_vars => FreeSinceTheCheck'
<1> SUFFICES ASSUME TypeOK, \A d \in DOMAIN call : Free(call[d], life), [Next]_vars
             PROVE  \A d \in DOMAIN call' : Free(call'[d], life')
  BY FreeForm DEF FreeSinceTheCheck, Free, Clear, Cleared, Rivals
<1>1. CASE UNCHANGED vars
  BY <1>1 DEF vars
<1>2. CASE Next
  BY <1>2, AnnouncerKeepsFree, GatewayKeepsFree, TickKeepsFree DEF Next
<1> QED
  BY <1>1, <1>2

LEMMA InvariantAlways == Spec => []IInv
<1>1. Init => FreeSinceTheCheck
  BY DEF Init, FreeSinceTheCheck
<1> QED
  BY <1>1, InitTyped, StepTyped, StepKeepsFree, PTL DEF Spec, IInv

\* Whoever is about to write a prefix, every rival with a live row for it wrote
\* that row while the call was under way.
THEOREM NobodyRobbed == Spec => []NobodyIsRobbed
<1>1. IInv => NobodyIsRobbed
  <2> SUFFICES ASSUME IInv, NEW c \in DOMAIN call, call[c].pc = "put",
                      NEW p \in call[c].left, NEW k \in Rivals(call[c].app, p),
                      life[k] > 0
               PROVE  k \in call[c].news
    BY DEF NobodyIsRobbed
  <2>1. p \in Cleared(c)
    BY DEF IInv, TypeOK, Cleared
  <2>2. life[k] + call[c].age > 0
    BY TimesAssumption DEF IInv, TypeOK, CallRecord, Rivals
  <2> QED
    BY <2>1, <2>2 DEF IInv, FreeSinceTheCheck
<1> QED
  BY <1>1, InvariantAlways, PTL

-----------------------------------------------------------------------------
(* One call at a time                                                      *)

\* With a single call under way, the rows it has seen written are its own.
OwnNews == \A c \in DOMAIN call : \A k \in call[c].news : k[1] = call[c].app

LEMMA OwnNewsKept ==
  ASSUME NEW only, Calls = {only}, TypeOK, OwnNews, [Next]_vars
  PROVE  OwnNews'
<1>0. /\ DOMAIN call \subseteq {only}
      /\ \A c \in DOMAIN call : call[c] \in CallRecord
  BY DEF TypeOK
<1>1. CASE UNCHANGED vars
  BY <1>1 DEF vars, OwnNews
<1>2. ASSUME NEW a \in Apps,
             \/ Boot(a) \/ Unreached(a) \/ Wake(a) \/ GiveUp(a) \/ Crash(a)
             \/ \E c \in Calls : Send(a, c) \/ Stop(a, c)
      PROVE  OwnNews'
  <2>1. CASE Boot(a) \/ Unreached(a) \/ Wake(a)
    <3>1. call' = call
      BY <2>1 DEF Boot, Unreached, Wake
    <3> QED
      BY <3>1 DEF OwnNews
  <2>2. CASE GiveUp(a) \/ Crash(a)
    <3>1. call' = Unawaited(a)
      BY <2>2 DEF GiveUp, Crash
    <3> QED
      BY <1>0, <3>1 DEF OwnNews, Unawaited, CallRecord
  <2>3. ASSUME NEW c \in Calls, Send(a, c) PROVE OwnNews'
    BY <2>3 DEF Send, Arrives, OwnNews
  <2>4. ASSUME NEW c \in Calls, Stop(a, c) PROVE OwnNews'
    BY <2>4, <1>0 DEF Stop, Unawaited, OwnNews, CallRecord
  <2> QED
    BY <1>2, <2>1, <2>2, <2>3, <2>4
<1>3. ASSUME NEW c \in DOMAIN call, Serve(c) \/ Fails(c) PROVE OwnNews'
  <2>1. c = only /\ DOMAIN call = {c} /\ call[c] \in CallRecord
    BY <1>0
  <2>2. ASSUME Answer(c) PROVE OwnNews'
    BY <2>2, <2>1 DEF Answer, Without, OwnNews
  <2>3. ASSUME NEW pc, NEW left, Goes(c, pc, left) PROVE OwnNews'
    BY <2>3, <2>1 DEF Goes, OwnNews, CallRecord
  <2>4. ASSUME NEW p \in Prefixes, Put(c, p) PROVE OwnNews'
    <3> DEFINE told == Noticed(<<call[c].app, p>>)
    <3>1. /\ DOMAIN told = {c}
          /\ told[c].app = call[c].app
          /\ told[c].news = call[c].news \cup {<<call[c].app, p>>}
          /\ told[c] \in CallRecord
      BY <2>1, <2>4 DEF Noticed, CallRecord, Rows
    <3>2. call' = Without(told, {c}) \/ call' = [told EXCEPT ![c].left = @ \ {p}]
      BY <2>4 DEF Put
    <3> HIDE DEF told
    <3> QED
      BY <2>1, <3>1, <3>2 DEF OwnNews, Without, CallRecord
  <2>5. \/ Answer(c) \/ (\E pc, left : Goes(c, pc, left))
        \/ \E p \in Prefixes : Put(c, p)
    BY <1>3 DEF Serve, Fails, Check, List, Delete, Withdraw
  <2> QED
    BY <2>2, <2>3, <2>4, <2>5
<1>4. ASSUME Tick PROVE OwnNews'
  BY <1>0, <1>4 DEF Tick, OwnNews, CallRecord
<1> QED
  BY <1>1, <1>2, <1>3, <1>4 DEF Next

\* Rows that only get older or fewer do not come into conflict.
LEMMA NoNewConflict ==
  ASSUME TypeOK, OneServicePerPrefix, DOMAIN life' \subseteq DOMAIN life,
         \A k \in DOMAIN life' : life'[k] > 0 => life[k] > 0
  PROVE  OneServicePerPrefix'
  BY DEF OneServicePerPrefix, Contested

LEMMA ConflictFree ==
  ASSUME NEW only, Calls = {only}, IInv, OwnNews, OneServicePerPrefix, [Next]_vars
  PROVE  OneServicePerPrefix'
<1> USE TimesAssumption
<1>0. TypeOK
  BY DEF IInv
<1>1. CASE life' = life
  BY <1>0, <1>1, NoNewConflict
<1>2. ASSUME NEW c \in DOMAIN call, NEW p \in Prefixes, Put(c, p)
      PROVE  OneServicePerPrefix'
  <2> DEFINE k0 == <<call[c].app, p>>
  <2>1. \A k \in Rivals(call[c].app, p) : ~(life[k] > 0)
    <3> SUFFICES ASSUME NEW k \in Rivals(call[c].app, p), life[k] > 0 PROVE FALSE
      OBVIOUS
    <3>1. p \in Cleared(c)
      BY <1>0, <1>2 DEF TypeOK, Put, Cleared
    <3>2. life[k] + call[c].age > 0
      BY <1>0 DEF TypeOK, CallRecord, Rivals
    <3>3. k \in call[c].news
      BY <3>1, <3>2 DEF IInv, FreeSinceTheCheck
    <3>4. k[1] = call[c].app
      BY <3>3 DEF OwnNews
    <3> QED
      BY <3>4 DEF Rivals
  <2>2. life' = Written(c, p)
    BY <1>2 DEF Put
  <2>3. /\ DOMAIN life' = DOMAIN life \cup {k0}
        /\ \A k \in DOMAIN life : k # k0 => life'[k] = life[k]
    BY <2>2 DEF Written
  <2>4. k0[1] = call[c].app /\ k0[2] = p
    OBVIOUS
  <2> HIDE DEF k0
  <2> SUFFICES ASSUME NEW k \in DOMAIN life', NEW l \in DOMAIN life', k[2] = l[2],
                      NameOf[k[1]] # NameOf[l[1]], life'[k] > 0, life'[l] > 0,
                      k[2] \in Prefixes
               PROVE  FALSE
    BY DEF OneServicePerPrefix, Contested
  <2>5. CASE k = k0
    BY <2>1, <2>3, <2>4, <2>5 DEF Rivals
  <2>6. CASE l = k0
    BY <2>1, <2>3, <2>4, <2>6 DEF Rivals
  <2>7. CASE k # k0 /\ l # k0
    BY <2>3, <2>7 DEF OneServicePerPrefix, Contested
  <2> QED
    BY <2>5, <2>6, <2>7
<1>3. ASSUME NEW S, life' = Without(life, S) PROVE OneServicePerPrefix'
  BY <1>0, <1>3, NoNewConflict DEF Without
<1>4. ASSUME Tick PROVE OneServicePerPrefix'
  <2>1. DOMAIN life' = DOMAIN life /\ \A k \in DOMAIN life : life'[k] > 0 => life[k] > 0
    BY <1>0, <1>4 DEF Tick, TypeOK
  <2> QED
    BY <1>0, <2>1, NoNewConflict
<1>5. \/ life' = life \/ Tick \/ (\E S : life' = Without(life, S))
      \/ \E c \in DOMAIN call, p \in Prefixes : Put(c, p)
  BY DEF Next, vars, Boot, Unreached, Wake, GiveUp, Crash, Send, Stop, Serve, Fails,
         Check, List, Delete, Withdraw
<1> QED
  BY <1>1, <1>2, <1>3, <1>4, <1>5

\* Registrations that are handled one after the other give a prefix to one service
\* only: the conflicts of GatewayRace come from their overlap, and from nothing else.
THEOREM OneAtATime ==
  ASSUME NEW only, Calls = {only}
  PROVE  Spec => []OneServicePerPrefix
<1>1. Init => OwnNews /\ OneServicePerPrefix
  BY DEF Init, OwnNews, OneServicePerPrefix, Contested
<1>2. IInv /\ OwnNews /\ OneServicePerPrefix /\ [Next]_vars
        => OwnNews' /\ OneServicePerPrefix'
  BY OwnNewsKept, ConflictFree DEF IInv
<1> QED
  BY <1>1, <1>2, InvariantAlways, PTL DEF Spec

-----------------------------------------------------------------------------
(* Forwarding: what a request remembers                                    *)

Asked == {"pc", "ask", "began", "saw", "routes", "identity", "left", "to", "sent", "taken",
          "overlooked"}
Steps == {"reading", "read", "asking", "body", "sending", "carrying"}

\* The routes a request may be given: none of them adds an identity of its own, unless it is
\* answered here.
OfTheTable(route) == route.source # "local" => "identity" \notin route.adds

\* A request that waits for the table has nobody's identity yet; one that has its route has
\* that of its caller if the route asks for it; and what is sent is made of both.
KnowsItsRoute(r) ==
  /\ r.pc \in {"reading", "read"} => r.identity = {}
  /\ r.pc \in {"asking", "body", "sending"} => \E route \in r.routes :
       /\ r.routes = {route} /\ OfTheTable(route)
       /\ r.pc = "asking" => r.identity = {} /\ Forwarding!SignedIn(route)
       /\ r.pc # "asking" =>
            IF Forwarding!SignedIn(route)
            THEN \E who \in Callers, at \in Nat : at <= now /\ r.identity = {[who |-> who, at |-> at]}
            ELSE r.identity = {}
       /\ r.pc = "sending" => /\ route.source # "local"
                              /\ r.sent = Forwarding!ToUpstream(r.ask.headers, route, r.identity)

\* What was carried out once may be carried out again.
TakenIsSafe(r) == r.taken => r.ask.socket \/ r.ask.method \in Forwarding!Idempotent

\* The moments of what is known of the registry: what it says otherwise now was changed
\* after the reading began.
ReadingIsRecent(r) ==
  /\ r.pc \in {"reading", "read"} => r.began \in Nat /\ r.began <= now /\ r.saw \subseteq Addresses
  /\ r.pc = "read" => \A x \in Addresses : (x \in r.saw <=> x \notin rows) => since[x] >= r.began
  /\ r.overlooked = {}

Remembered(r) ==
  /\ DOMAIN r = Asked /\ r.pc \in Steps
  /\ KnowsItsRoute(r) /\ TakenIsSafe(r) /\ ReadingIsRecent(r)

CopyIsRecent ==
  /\ now \in Nat /\ readAt \in Int /\ Forwarding!Never <= readAt /\ readAt <= now
  /\ rows \subseteq Addresses /\ copy \subseteq Addresses
  /\ since \in [Addresses -> Int]
  /\ \A x \in Addresses :
       /\ since[x] >= Forwarding!Never
       /\ (x \in copy <=> x \notin rows) => since[x] >= readAt

Forwarded ==
  /\ CopyIsRecent
  /\ DOMAIN req = Requests
  /\ \A x \in Requests : req[x] = Forwarding!Idle \/ Remembered(req[x])

-----------------------------------------------------------------------------
(* The table of routes                                                     *)

InTable(route) == route.prefix \in Seq(STRING) /\ OfTheTable(route)

\* What the registry lists is one route, that of its service.
LEMMA RegisteredIsInTable ==
  ASSUME NEW addresses \in SUBSET Addresses
  PROVE  \E routes : /\ Forwarding!RegisteredRoutes(addresses) \in Seq(routes)
                     /\ \A route \in routes : InTable(route)
<1>1. CASE addresses = {}
  <2>1. Forwarding!RegisteredRoutes(addresses) \in Seq({})
    BY <1>1 DEF Forwarding!RegisteredRoutes
  <2> QED
    BY <2>1
<1>2. ASSUME addresses # {}
      PROVE  \E route : InTable(route) /\ Forwarding!RegisteredRoutes(addresses) = <<route>>
  <2>1. PICK a \in Addresses : a \in addresses
    BY <1>2
  <2>2. Forwarding!Servable([Registered EXCEPT !.upstreams = <<a>>])
    BY ForwardingIsWellFormed DEF Forwarding!ForwardingAssumption, Forwarding!Registrable
  <2>3. Registered \in Forwarding!GatewayRoutes
    BY ForwardingIsWellFormed DEF Forwarding!ForwardingAssumption
  <2>4. \A s : /\ [Registered EXCEPT !.upstreams = s].adds = Registered.adds
               /\ [Registered EXCEPT !.upstreams = s].prefix = Registered.prefix
    BY <2>3 DEF Forwarding!GatewayRoutes
  <2>5. "identity" \notin Registered.adds
    BY <2>2, <2>4 DEF Forwarding!Servable
  <2>6. Registered.prefix \in Seq(STRING)
    BY <2>3 DEF Forwarding!GatewayRoutes
  <2>7. \A s : InTable([Registered EXCEPT !.upstreams = s])
    BY <2>4, <2>5, <2>6 DEF InTable, OfTheTable
  <2> QED
    BY <1>2, <2>7 DEF Forwarding!RegisteredRoutes
<1>3. CASE addresses # {}
  <2>1. PICK route : InTable(route) /\ Forwarding!RegisteredRoutes(addresses) = <<route>>
    BY <1>2, <1>3
  <2>2. Forwarding!RegisteredRoutes(addresses) \in Seq({route})
    BY <2>1
  <2> QED
    <3>1. \A x \in {route} : InTable(x)
      BY <2>1
    <3> WITNESS {route}
    <3> QED
      BY <2>2, <3>1
<1> QED
  BY <1>1, <1>3

LEMMA TheTable ==
  ASSUME NEW addresses \in SUBSET Addresses
  PROVE  \E n \in Nat : /\ DOMAIN Forwarding!Table(addresses) = 1 .. n
                        /\ \A i \in 1 .. n : InTable(Forwarding!Table(addresses)[i])
<1> DEFINE own == Config.routes  local == Local  listed == Forwarding!RegisteredRoutes(addresses)
<1>1. own \in Seq(Forwarding!GatewayRoutes) /\ local \in Seq(Forwarding!GatewayRoutes)
  BY ForwardingIsWellFormed DEF Forwarding!ForwardingAssumption
<1>2. \A route \in Forwarding!GatewayRoutes : route.prefix \in Seq(STRING)
  BY DEF Forwarding!GatewayRoutes
<1>3. \A i \in DOMAIN own : InTable(own[i])
  <2> SUFFICES ASSUME NEW i \in DOMAIN own PROVE InTable(own[i])
    OBVIOUS
  <2>1. own[i] \in Forwarding!GatewayRoutes
    BY <1>1
  <2>2. Forwarding!Servable(own[i])
    BY ForwardingIsWellFormed
    DEF Forwarding!ForwardingAssumption, Forwarding!Buildable, Forwarding!Parsed
  <2> QED
    BY <1>2, <2>1, <2>2 DEF InTable, OfTheTable, Forwarding!Servable
<1>4. \A i \in DOMAIN local : InTable(local[i])
  <2> SUFFICES ASSUME NEW i \in DOMAIN local PROVE InTable(local[i])
    OBVIOUS
  <2>1. local[i] \in Forwarding!GatewayRoutes
    BY <1>1
  <2>2. Forwarding!Servable([local[i] EXCEPT !.upstreams = <<"http://in-process">>])
    BY ForwardingIsWellFormed
    DEF Forwarding!ForwardingAssumption, Forwarding!Addable
  <2>3. [local[i] EXCEPT !.upstreams = <<"http://in-process">>].adds = local[i].adds
    BY <2>1 DEF Forwarding!GatewayRoutes
  <2> QED
    BY <1>2, <2>1, <2>2, <2>3 DEF InTable, OfTheTable, Forwarding!Servable
<1>5. PICK T : listed \in Seq(T) /\ \A route \in T : InTable(route)
  BY RegisteredIsInTable
<1> DEFINE R == Forwarding!GatewayRoutes \cup T
<1>6. own \in Seq(R) /\ local \in Seq(R) /\ listed \in Seq(R)
  BY <1>1, <1>5
<1>7. own \o local \in Seq(R)
  BY <1>6, ConcatProperties
<1>8. /\ (own \o local) \o listed \in Seq(R)
      /\ Len((own \o local) \o listed) = Len(own) + Len(local) + Len(listed)
      /\ Len(own) \in Nat /\ Len(local) \in Nat /\ Len(listed) \in Nat
  BY <1>6, <1>7, ConcatProperties
<1>9. Forwarding!Table(addresses) = (own \o local) \o listed
  BY DEF Forwarding!Table, Forwarding!Fixed
<1>10. \A i \in DOMAIN listed : InTable(listed[i])
  BY <1>5
<1> HIDE DEF own, local, listed, R
<1>11. ASSUME NEW i \in 1 .. Len(own) + Len(local) + Len(listed)
       PROVE  InTable(((own \o local) \o listed)[i])
  <2>1. CASE i <= Len(own)
    BY <2>1, <1>3, <1>6, <1>7, <1>8
  <2>2. CASE i > Len(own) /\ i <= Len(own) + Len(local)
    <3>1. i - Len(own) \in DOMAIN local
      BY <2>2, <1>6, <1>8
    <3>2. ((own \o local) \o listed)[i] = local[i - Len(own)]
      BY <2>2, <1>6, <1>7, <1>8
    <3> QED
      BY <3>1, <3>2, <1>4
  <2>3. CASE i > Len(own) + Len(local)
    <3>1. i - (Len(own) + Len(local)) \in DOMAIN listed
      BY <2>3, <1>6, <1>8
    <3>2. ((own \o local) \o listed)[i] = listed[i - (Len(own) + Len(local))]
      BY <2>3, <1>6, <1>7, <1>8
    <3> QED
      BY <3>1, <3>2, <1>10
  <2> QED
    BY <2>1, <2>2, <2>3, <1>8
<1> QED
  BY <1>6, <1>7, <1>8, <1>9, <1>11

\* At most one route is matched, and it is one of the table's.
LEMMA OneIsMatched ==
  ASSUME NEW addresses \in SUBSET Addresses, NEW places \in SUBSET DOMAIN Forwarding!Table(addresses),
         NEW path, Forwarding!Match(Forwarding!Table(addresses), places, path) # {}
  PROVE  \E route : /\ Forwarding!Match(Forwarding!Table(addresses), places, path) = {route}
                    /\ InTable(route)
<1>1. PICK n \in Nat : /\ DOMAIN Forwarding!Table(addresses) = 1 .. n
                       /\ \A i \in 1 .. n : InTable(Forwarding!Table(addresses)[i])
  BY TheTable
<1> DEFINE table == Forwarding!Table(addresses)
           length == [i \in 1 .. n |-> Len(table[i].prefix)]
           covering == {i \in places : Forwarding!Covers(table[i], path)}
           precedes(i, j) == \/ Len(table[i].prefix) > Len(table[j].prefix)
                             \/ Len(table[i].prefix) = Len(table[j].prefix) /\ i <= j
           first == {k \in covering : \A j \in covering : precedes(k, j)}
<1>2. Forwarding!Match(table, places, path) = {table[i] : i \in first}
  BY DEF Forwarding!Match
<1>3. PICK k : k \in first
  BY <1>2
<1>4. ASSUME NEW j \in first PROVE j = k
  <2>1. j \in 1 .. n /\ k \in 1 .. n /\ precedes(j, k) /\ precedes(k, j)
    BY <1>1, <1>3
  <2>2. Len(table[j].prefix) \in Nat /\ Len(table[k].prefix) \in Nat
    BY <1>1, <2>1 DEF InTable
  <2> QED
    BY <2>1, <2>2
<1>5. Forwarding!Match(table, places, path) = {table[k]}
  BY <1>2, <1>3, <1>4
<1>6. k \in 1 .. n
  BY <1>1, <1>3
<1> QED
  BY <1>1, <1>5, <1>6

-----------------------------------------------------------------------------
(* One request                                                             *)

\* Whatever the gateway does not answer at once once it has the table, it remembers well.
LEMMA MatchedIsRemembered ==
  ASSUME NEW r, NEW addresses \in SUBSET Addresses, NEW readable \in BOOLEAN,
         DOMAIN r = Asked, r.identity = {}, TakenIsSafe(r),
         \/ ~readable
         \/ \A x \in Addresses : (x \in addresses <=> x \notin rows) =>
              ~(since[x] < r.began /\ since[x] <= now - Refresh)
  PROVE  LET m == Forwarding!Matched(r, addresses, readable) IN m = Forwarding!Idle \/ Remembered(m)
<1> DEFINE m == Forwarding!Matched(r, addresses, readable)
           table == Forwarding!Table(addresses)
           found == Forwarding!Match(table, Forwarding!Open(r, table), r.ask.path)
           missed == {a \in Addresses : /\ readable /\ (a \in addresses <=> a \notin rows)
                                        /\ since[a] < r.began /\ since[a] <= now - Refresh}
           known == [r EXCEPT !.routes = found, !.saw = {}, !.began = 0, !.overlooked = missed]
           step(route) == IF Forwarding!SignedIn(route) THEN "asking" ELSE "body"
<1>1. ASSUME m # Forwarding!Idle
      PROVE  \E route : /\ found = {route} /\ InTable(route)
                        /\ m = [known EXCEPT !.pc = step(route)]
  <2>1. found # {}
    BY <1>1 DEF Forwarding!Matched, Forwarding!Elsewhere, Forwarding!Done
  <2>2. Forwarding!Open(r, table) \in SUBSET DOMAIN table
    BY DEF Forwarding!Open
  <2>3. PICK route : found = {route} /\ InTable(route)
    BY <2>1, <2>2, OneIsMatched
  <2>4. (CHOOSE x \in found : TRUE) = route
    BY <2>3
  <2>5. m = IF ~r.ask.socket /\ r.ask.method \notin route.methods THEN Forwarding!Done
            ELSE [known EXCEPT !.pc = step(route)]
    BY <2>1, <2>4 DEF Forwarding!Matched
  <2> QED
    BY <1>1, <2>3, <2>5 DEF Forwarding!Done
<1>2. ASSUME m # Forwarding!Idle PROVE Remembered(m)
  <2>1. PICK route : found = {route} /\ InTable(route) /\ m = [known EXCEPT !.pc = step(route)]
    BY <1>1, <1>2
  <2> HIDE DEF m, table, found, missed
  <2>2. /\ DOMAIN m = Asked /\ m.pc = step(route) /\ m.routes = {route}
        /\ m.identity = r.identity /\ m.taken = r.taken /\ m.ask = r.ask
        /\ m.overlooked = missed
    BY <2>1 DEF Asked
  <2>3. m.pc \in {"asking", "body"} /\ (m.pc = "asking" <=> Forwarding!SignedIn(route))
    BY <2>2
  <2>4. KnowsItsRoute(m)
    BY <2>1, <2>2, <2>3 DEF KnowsItsRoute, InTable
  <2>5. TakenIsSafe(m)
    BY <2>2 DEF TakenIsSafe
  <2>6. ReadingIsRecent(m)
    <3>1. missed = {}
      BY DEF missed
    <3> QED
      BY <2>2, <2>3, <3>1 DEF ReadingIsRecent
  <2> QED
    BY <2>2, <2>3, <2>4, <2>5, <2>6 DEF Remembered, Steps
<1> QED
  BY <1>2

\* What is done about the other requests' concerns none of them: only the registry, its copy
\* and the clock matter to a request, and how they move is given here.
Moves ==
  /\ now \in Nat /\ now' \in Nat /\ now <= now'
  /\ since \in [Addresses -> Int] /\ since' \in [Addresses -> Int]
  /\ \A x \in Addresses : \/ since'[x] = since[x] /\ (x \in rows' <=> x \in rows)
                          \/ since'[x] = now

LEMMA StaysRemembered ==
  ASSUME Moves, NEW r, Remembered(r)
  PROVE  Remembered(r)'
<1>1. KnowsItsRoute(r)'
  BY DEF Remembered, KnowsItsRoute, Moves
<1>2. TakenIsSafe(r)'
  BY DEF Remembered, TakenIsSafe
<1>3. ReadingIsRecent(r)'
  BY DEF Remembered, ReadingIsRecent, Moves
<1> QED
  BY <1>1, <1>2, <1>3 DEF Remembered

\* A step of one request that leaves the others, the registry and the clock alone.
Still == UNCHANGED <<now, rows, since>>

LEMMA OneSteps ==
  ASSUME Forwarded, Still, CopyIsRecent', NEW q \in Requests,
         NEW m, m = Forwarding!Idle \/ Remembered(m), req' = [req EXCEPT ![q] = m]
  PROVE  Forwarded'
<1>1. Moves
  BY DEF Forwarded, CopyIsRecent, Moves, Still
<1>2. DOMAIN req' = Requests
  BY DEF Forwarded
<1>3. ASSUME NEW x \in Requests
      PROVE  (req[x] = Forwarding!Idle \/ Remembered(req[x]))'
  <2>1. PICK r : r = req'[x]
    OBVIOUS
  <2>2. r = Forwarding!Idle \/ Remembered(r)
    BY <2>1 DEF Forwarded
  <2>3. r = Forwarding!Idle \/ Remembered(r)'
    BY <1>1, <2>2, StaysRemembered
  <2> QED
    BY <2>1, <2>3 DEF Remembered, KnowsItsRoute, TakenIsSafe, ReadingIsRecent
<1> QED
  BY <1>2, <1>3 DEF Forwarded

\* A request arrives: what a fresh copy leaves out was changed after it was read.
LEMMA ArriveForwards ==
  ASSUME Forwarded, NEW q \in Requests, Forwarding!Arrive(q)
  PROVE  Forwarded'
<1>1. Still /\ CopyIsRecent'
  BY DEF Forwarding!Arrive, Forwarded, CopyIsRecent, Still
<1>2. PICK ask : req' = [req EXCEPT ![q] =
        IF Forwarding!Traverses(ask.path) THEN Forwarding!Done
        ELSE IF Forwarding!Fresh THEN Forwarding!Matched(Forwarding!Blank(ask), copy, TRUE)
             ELSE Forwarding!Blank(ask)]
  BY DEF Forwarding!Arrive
<1>3. PICK blank : blank = Forwarding!Blank(ask)
  OBVIOUS
<1>4. /\ DOMAIN blank = Asked /\ blank.pc = "reading" /\ blank.began = now /\ blank.saw = {}
      /\ blank.identity = {} /\ ~blank.taken /\ blank.overlooked = {}
  BY <1>3 DEF Forwarding!Blank, Asked
<1>5. TakenIsSafe(blank) /\ CopyIsRecent /\ now \in Nat
  BY <1>4 DEF TakenIsSafe, Forwarded, CopyIsRecent
<1>6. Remembered(blank)
  BY <1>4, <1>5 DEF Remembered, Steps, KnowsItsRoute, ReadingIsRecent
<1>7. ASSUME Forwarding!Fresh
      PROVE  LET m == Forwarding!Matched(blank, copy, TRUE) IN m = Forwarding!Idle \/ Remembered(m)
  <2>1. Refresh \in Nat
    BY ForwardingIsWellFormed DEF Forwarding!ForwardingAssumption
  <2>2. now - readAt < Refresh
    BY <1>7 DEF Forwarding!Fresh
  <2>3. \A x \in Addresses : (x \in copy <=> x \notin rows) => ~(since[x] <= now - Refresh)
    BY <1>5, <2>1, <2>2 DEF CopyIsRecent
  <2>4. copy \in SUBSET Addresses
    BY <1>5 DEF CopyIsRecent
  <2> QED
    BY <1>4, <1>5, <2>3, <2>4, MatchedIsRemembered
<1>8. CASE Forwarding!Traverses(ask.path)
  BY <1>1, <1>2, <1>8, OneSteps DEF Forwarding!Done
<1>9. CASE ~Forwarding!Traverses(ask.path) /\ Forwarding!Fresh
  <2>1. PICK m : m = Forwarding!Matched(blank, copy, TRUE)
    OBVIOUS
  <2>2. m = Forwarding!Idle \/ Remembered(m)
    BY <1>7, <1>9, <2>1
  <2>3. req' = [req EXCEPT ![q] = m]
    BY <1>2, <1>3, <1>9, <2>1
  <2> QED
    BY <1>1, <2>2, <2>3, OneSteps
<1>10. CASE ~Forwarding!Traverses(ask.path) /\ ~Forwarding!Fresh
  <2>1. req' = [req EXCEPT ![q] = blank]
    BY <1>2, <1>3, <1>10
  <2> QED
    BY <1>1, <1>6, <2>1, OneSteps
<1> QED
  BY <1>8, <1>9, <1>10

\* The registry is read, or cannot be.
LEMMA ReadForwards ==
  ASSUME Forwarded, NEW q \in Requests,
         Forwarding!ReadRows(q) \/ Forwarding!ReadDone(q) \/ Forwarding!ReadFails(q)
  PROVE  Forwarded'
<1>1. PICK r : r = req[q]
  OBVIOUS
<1>2. r.pc \in {"reading", "read"}
  BY <1>1 DEF Forwarding!ReadRows, Forwarding!ReadDone, Forwarding!ReadFails
<1>3. Remembered(r) /\ CopyIsRecent
  BY <1>1, <1>2 DEF Forwarded, Forwarding!Idle
<1>4. /\ DOMAIN r = Asked /\ r.identity = {} /\ TakenIsSafe(r)
      /\ r.began \in Nat /\ r.began <= now /\ r.saw \subseteq Addresses
  BY <1>2, <1>3 DEF Remembered, KnowsItsRoute, ReadingIsRecent
<1>5. CASE Forwarding!ReadRows(q)
  <2>1. PICK m : m = [r EXCEPT !.pc = "read", !.saw = rows]
    OBVIOUS
  <2>2. req' = [req EXCEPT ![q] = m]
    BY <1>1, <1>5, <2>1 DEF Forwarding!ReadRows
  <2>3. Still /\ CopyIsRecent'
    BY <1>3, <1>5 DEF Forwarding!ReadRows, Still, CopyIsRecent
  <2>4. /\ DOMAIN m = Asked /\ m.pc = "read" /\ m.saw = rows /\ m.identity = {}
        /\ m.ask = r.ask /\ m.taken = r.taken /\ m.began = r.began
        /\ m.overlooked = r.overlooked
    BY <1>4, <2>1 DEF Asked
  <2>5. KnowsItsRoute(m) /\ TakenIsSafe(m)
    BY <1>4, <2>4 DEF KnowsItsRoute, TakenIsSafe
  <2>6. ReadingIsRecent(m)
    BY <1>3, <1>4, <2>4 DEF ReadingIsRecent, Remembered, CopyIsRecent
  <2> QED
    BY <2>2, <2>3, <2>4, <2>5, <2>6, OneSteps DEF Remembered, Steps
<1>6. CASE Forwarding!ReadDone(q)
  <2>1. PICK m : m = Forwarding!Matched(r, r.saw, TRUE)
    OBVIOUS
  <2>2. /\ r.pc = "read" /\ req' = [req EXCEPT ![q] = m] /\ copy' = r.saw /\ readAt' = r.began
        /\ UNCHANGED <<now, rows, since>>
    BY <1>1, <1>6, <2>1 DEF Forwarding!ReadDone, Forwarding!Stamp
  <2>3. \A x \in Addresses : (x \in r.saw <=> x \notin rows) => since[x] >= r.began
    BY <1>3, <2>2 DEF Remembered, ReadingIsRecent
  <2>4. Still /\ CopyIsRecent'
    <3>1. {Refresh, MaxTime} \subseteq Nat
      BY ForwardingIsWellFormed DEF Forwarding!ForwardingAssumption
    <3> QED
      BY <1>3, <1>4, <2>2, <2>3, <3>1 DEF Still, CopyIsRecent, Forwarding!Never
  <2>5. \A x \in Addresses : (x \in r.saw <=> x \notin rows) => ~(since[x] < r.began)
    BY <1>3, <1>4, <2>3 DEF CopyIsRecent
  <2>6. m = Forwarding!Idle \/ Remembered(m)
    BY <1>4, <2>1, <2>5, MatchedIsRemembered
  <2> QED
    BY <2>2, <2>4, <2>6, OneSteps
<1>7. CASE Forwarding!ReadFails(q)
  <2>1. PICK m : m = Forwarding!Matched(r, copy, FALSE)
    OBVIOUS
  <2>2. req' = [req EXCEPT ![q] = m]
    BY <1>1, <1>7, <2>1 DEF Forwarding!ReadFails
  <2>3. Still /\ CopyIsRecent'
    BY <1>3, <1>7 DEF Forwarding!ReadFails, Still, CopyIsRecent
  <2>4. copy \in SUBSET Addresses
    BY <1>3 DEF CopyIsRecent
  <2>5. m = Forwarding!Idle \/ Remembered(m)
    BY <1>4, <2>1, <2>4, MatchedIsRemembered
  <2> QED
    BY <2>2, <2>3, <2>5, OneSteps
<1> QED
  BY <1>5, <1>6, <1>7

\* A step that ends the request.
LEMMA EndForwards ==
  ASSUME Forwarded, NEW q \in Requests, req' = [req EXCEPT ![q] = Forwarding!Idle],
         UNCHANGED <<now, rows, copy, readAt, since>>
  PROVE  Forwarded'
<1>1. Still /\ CopyIsRecent'
  BY DEF Forwarded, CopyIsRecent, Still
<1> QED
  BY <1>1, OneSteps

\* A step of a request that goes on with what it knows.
LEMMA GoesOn ==
  ASSUME Forwarded, NEW q \in Requests, NEW m, Remembered(m), req' = [req EXCEPT ![q] = m],
         UNCHANGED <<now, rows, copy, readAt, since>>
  PROVE  Forwarded'
<1>1. Still /\ CopyIsRecent'
  BY DEF Forwarded, CopyIsRecent, Still
<1> QED
  BY <1>1, OneSteps

\* A request past the table has one route, and the choice of a route is that one.
LEMMA HasItsRoute ==
  ASSUME Forwarded, NEW q \in Requests, req[q].pc \in {"asking", "body", "sending"}
  PROVE  /\ Remembered(req[q]) /\ req[q].routes = {Forwarding!RouteOf(q)}
         /\ OfTheTable(Forwarding!RouteOf(q))
<1>1. Remembered(req[q])
  BY DEF Forwarded, Forwarding!Idle
<1> QED
  BY <1>1 DEF Remembered, KnowsItsRoute, Forwarding!RouteOf

LEMMA RecogniseForwards ==
  ASSUME Forwarded, NEW q \in Requests, Forwarding!Recognise(q)
  PROVE  Forwarded'
<1>1. PICK r, route : r = req[q] /\ route = Forwarding!RouteOf(q)
  OBVIOUS
<1>2. PICK who \in {Forwarding!Nobody} \cup Callers, allowed \in BOOLEAN : req' = [req EXCEPT ![q] =
        IF who = Forwarding!Nobody \/ (route.permission /\ ~allowed) THEN Forwarding!Done
        ELSE [r EXCEPT !.pc = "body", !.identity = Forwarding!Signed(who, now)]]
  BY <1>1 DEF Forwarding!Recognise
<1>3. r.pc = "asking" /\ UNCHANGED <<now, rows, copy, readAt, since>>
  BY <1>1 DEF Forwarding!Recognise
<1>4. Remembered(r) /\ r.routes = {route} /\ OfTheTable(route)
  BY <1>1, <1>3, HasItsRoute
<1>5. CASE who = Forwarding!Nobody \/ (route.permission /\ ~allowed)
  BY <1>2, <1>3, <1>5, EndForwards DEF Forwarding!Done
<1>6. CASE ~(who = Forwarding!Nobody \/ (route.permission /\ ~allowed))
  <2>1. PICK m : m = [r EXCEPT !.pc = "body", !.identity = Forwarding!Signed(who, now)]
    OBVIOUS
  <2>2. /\ DOMAIN m = Asked /\ m.pc = "body" /\ m.routes = r.routes
        /\ m.identity = {[who |-> who, at |-> now]}
        /\ m.ask = r.ask /\ m.taken = r.taken /\ m.overlooked = r.overlooked
    BY <1>4, <2>1 DEF Remembered, Asked, Forwarding!Signed
  <2>3. who \in Callers /\ now \in Nat
    BY <1>6 DEF Forwarded, CopyIsRecent
  <2>4. Forwarding!SignedIn(route)
    BY <1>3, <1>4 DEF Remembered, KnowsItsRoute
  <2>5. KnowsItsRoute(m)
    BY <1>4, <2>2, <2>3, <2>4 DEF KnowsItsRoute
  <2>6. TakenIsSafe(m) /\ ReadingIsRecent(m)
    BY <1>4, <2>2 DEF Remembered, TakenIsSafe, ReadingIsRecent
  <2>7. Remembered(m)
    BY <2>2, <2>5, <2>6 DEF Remembered, Steps
  <2>8. req' = [req EXCEPT ![q] = m]
    BY <1>2, <1>6, <2>1
  <2> QED
    BY <1>3, <2>7, <2>8, GoesOn
<1> QED
  BY <1>5, <1>6

LEMMA SendForwards ==
  ASSUME Forwarded, NEW q \in Requests, Forwarding!Send(q)
  PROVE  Forwarded'
<1>1. PICK r, route, order : r = req[q] /\ route = Forwarding!RouteOf(q) /\ order = Forwarding!Order(route)
  OBVIOUS
<1>2. /\ r.pc = "body" /\ route.source # "local" /\ UNCHANGED <<now, rows, copy, readAt, since>>
      /\ \/ req' = [req EXCEPT ![q] = Forwarding!Idle]
         \/ req' = [req EXCEPT ![q] =
              [r EXCEPT !.pc = "sending", !.left = Tail(order), !.to = Head(order),
                        !.sent = Forwarding!ToUpstream(r.ask.headers, route, r.identity)]]
  BY <1>1 DEF Forwarding!Send, Forwarding!Done
<1>3. Remembered(r) /\ r.routes = {route} /\ OfTheTable(route)
  BY <1>1, <1>2, HasItsRoute
<1>4. PICK m : m = [r EXCEPT !.pc = "sending", !.left = Tail(order), !.to = Head(order),
                             !.sent = Forwarding!ToUpstream(r.ask.headers, route, r.identity)]
  OBVIOUS
<1>5. /\ DOMAIN m = Asked /\ m.pc = "sending" /\ m.routes = r.routes /\ m.identity = r.identity
      /\ m.ask = r.ask /\ m.taken = r.taken /\ m.overlooked = r.overlooked
      /\ m.sent = Forwarding!ToUpstream(m.ask.headers, route, m.identity)
  BY <1>3, <1>4 DEF Remembered, Asked
<1>6. KnowsItsRoute(m)
  BY <1>2, <1>3, <1>5 DEF Remembered, KnowsItsRoute
<1>7. Remembered(m)
  BY <1>3, <1>5, <1>6 DEF Remembered, TakenIsSafe, ReadingIsRecent, Steps
<1> QED
  BY <1>2, <1>4, <1>7, EndForwards, GoesOn

\* Another address is asked of the same, or none is.
LEMMA AnotherIsRemembered ==
  ASSUME NEW r, Remembered(r)
  PROVE  LET m == Forwarding!Another(r) IN m = Forwarding!Idle \/ Remembered(m)
<1>1. PICK m : m = [r EXCEPT !.to = Head(r.left), !.left = Tail(r.left)]
  OBVIOUS
<1>2. /\ DOMAIN m = Asked /\ m.pc = r.pc /\ m.routes = r.routes /\ m.identity = r.identity
      /\ m.ask = r.ask /\ m.taken = r.taken /\ m.overlooked = r.overlooked
      /\ m.sent = r.sent /\ m.began = r.began /\ m.saw = r.saw
  BY <1>1 DEF Remembered, Asked
<1>3. Remembered(m)
  BY <1>2 DEF Remembered, KnowsItsRoute, TakenIsSafe, ReadingIsRecent
<1> QED
  BY <1>1, <1>3 DEF Forwarding!Another, Forwarding!Done

\* An address fails a request or answers it, and a carried socket is closed.
LEMMA AnswerForwards ==
  ASSUME Forwarded, NEW q \in Requests,
         \/ Forwarding!Refuses(q) \/ Forwarding!Disappoints(q) \/ Forwarding!Answers(q)
         \/ Forwarding!Closes(q)
  PROVE  Forwarded'
<1>1. PICK r : r = req[q]
  OBVIOUS
<1>2. r.pc \in {"sending", "carrying"} /\ UNCHANGED <<now, rows, copy, readAt, since>>
  BY <1>1 DEF Forwarding!Refuses, Forwarding!Disappoints, Forwarding!Answers, Forwarding!Closes
<1>3. Remembered(r)
  BY <1>1, <1>2 DEF Forwarded, Forwarding!Idle
<1>4. CASE Forwarding!Refuses(q)
  <2>1. PICK m : m = Forwarding!Another(r)
    OBVIOUS
  <2>2. req' = [req EXCEPT ![q] = m]
    BY <1>1, <1>4, <2>1 DEF Forwarding!Refuses
  <2>3. m = Forwarding!Idle \/ Remembered(m)
    BY <1>3, <2>1, AnotherIsRemembered
  <2> QED
    BY <1>2, <2>2, <2>3, EndForwards, GoesOn
<1>5. CASE Forwarding!Disappoints(q)
  <2>1. PICK u : u = [r EXCEPT !.taken = TRUE]
    OBVIOUS
  <2>2. PICK m : m = Forwarding!Again(u)
    OBVIOUS
  <2>3. req' = [req EXCEPT ![q] = m]
    BY <1>1, <1>5, <2>1, <2>2 DEF Forwarding!Disappoints
  <2>4. /\ DOMAIN u = Asked /\ u.pc = r.pc /\ u.routes = r.routes /\ u.identity = r.identity
        /\ u.ask = r.ask /\ u.overlooked = r.overlooked
        /\ u.sent = r.sent /\ u.began = r.began /\ u.saw = r.saw
    BY <1>3, <2>1 DEF Remembered, Asked
  <2>5. CASE u.ask.method \in Forwarding!Idempotent
    <3>1. Remembered(u)
      BY <1>3, <2>4, <2>5 DEF Remembered, KnowsItsRoute, TakenIsSafe, ReadingIsRecent
    <3>2. m = Forwarding!Idle \/ Remembered(m)
      BY <2>2, <2>5, <3>1, AnotherIsRemembered DEF Forwarding!Again
    <3> QED
      BY <1>2, <2>3, <3>2, EndForwards, GoesOn
  <2>6. CASE u.ask.method \notin Forwarding!Idempotent
    BY <1>2, <2>2, <2>3, <2>6, EndForwards DEF Forwarding!Again, Forwarding!Done
  <2> QED
    BY <2>5, <2>6
<1>6. CASE Forwarding!Answers(q)
  <2>1. PICK m : m = [r EXCEPT !.pc = "carrying"]
    OBVIOUS
  <2>2. req' = [req EXCEPT ![q] = IF r.ask.socket THEN m ELSE Forwarding!Idle]
    BY <1>1, <1>6, <2>1 DEF Forwarding!Answers, Forwarding!Taken, Forwarding!Done
  <2>3. /\ DOMAIN m = Asked /\ m.pc = "carrying" /\ m.ask = r.ask /\ m.taken = r.taken
        /\ m.overlooked = r.overlooked
    BY <1>3, <2>1 DEF Remembered, Asked
  <2>4. Remembered(m)
    BY <1>3, <2>3 DEF Remembered, KnowsItsRoute, TakenIsSafe, ReadingIsRecent, Steps
  <2>5. CASE r.ask.socket
    BY <1>2, <2>2, <2>4, <2>5, GoesOn
  <2>6. CASE ~r.ask.socket
    BY <1>2, <2>2, <2>6, EndForwards
  <2> QED
    BY <2>5, <2>6
<1>7. CASE Forwarding!Closes(q)
  BY <1>2, <1>7, EndForwards DEF Forwarding!Closes, Forwarding!Done
<1> QED
  BY <1>4, <1>5, <1>6, <1>7

\* The registry changes, or time passes, under every request.
LEMMA UnderForwards ==
  ASSUME Forwarded, Forwarding!Change \/ Forwarding!Tick
  PROVE  Forwarded'
<1>1. req' = req /\ CopyIsRecent
  BY DEF Forwarded, Forwarding!Change, Forwarding!Tick
<1>2. Moves /\ CopyIsRecent'
  <2>1. CASE Forwarding!Tick
    BY <1>1, <2>1 DEF Forwarding!Tick, CopyIsRecent, Moves
  <2>2. CASE Forwarding!Change
    <3>1. PICK a \in Addresses, here \in BOOLEAN :
            /\ rows' = IF a \in rows THEN rows \ {a} ELSE rows \cup {a}
            /\ readAt' = IF here THEN Forwarding!Never ELSE readAt
            /\ since' = [since EXCEPT ![a] = now]
      BY <2>2 DEF Forwarding!Change
    <3>2. now' = now /\ copy' = copy
      BY <2>2 DEF Forwarding!Change
    <3>3. Forwarding!Never \in Int
      BY ForwardingIsWellFormed DEF Forwarding!ForwardingAssumption, Forwarding!Never
    <3>4. Moves
      BY <1>1, <3>1, <3>2 DEF CopyIsRecent, Moves
    <3>5. CopyIsRecent'
      BY <1>1, <3>1, <3>2, <3>3 DEF CopyIsRecent, Forwarding!Never
    <3> QED
      BY <3>4, <3>5
  <2> QED
    BY <2>1, <2>2
<1>3. ASSUME NEW x \in Requests
      PROVE  (req[x] = Forwarding!Idle \/ Remembered(req[x]))'
  <2>1. PICK r : r = req[x]
    OBVIOUS
  <2>2. r = Forwarding!Idle \/ Remembered(r)
    BY <2>1 DEF Forwarded
  <2>3. r = Forwarding!Idle \/ Remembered(r)'
    BY <1>2, <2>2, StaysRemembered
  <2> QED
    BY <1>1, <2>1, <2>3 DEF Remembered, KnowsItsRoute, TakenIsSafe, ReadingIsRecent
<1> QED
  BY <1>1, <1>2, <1>3 DEF Forwarded

LEMMA ForwardedAtStart == Forwarding!Init => Forwarded
<1> SUFFICES ASSUME Forwarding!Init PROVE Forwarded
  OBVIOUS
<1>1. {MaxTime, Refresh} \subseteq Nat
  BY ForwardingIsWellFormed DEF Forwarding!ForwardingAssumption
<1>2. CopyIsRecent
  BY <1>1 DEF Forwarding!Init, CopyIsRecent, Forwarding!Never
<1> QED
  BY <1>2 DEF Forwarding!Init, Forwarded

LEMMA ForwardedIsKept == Forwarded /\ [Forwarding!Next]_forwardingVars => Forwarded'
<1> SUFFICES ASSUME Forwarded, [Forwarding!Next]_forwardingVars PROVE Forwarded'
  OBVIOUS
<1>1. CASE UNCHANGED forwardingVars
  BY <1>1 DEF forwardingVars, Forwarded, CopyIsRecent, Remembered, KnowsItsRoute, TakenIsSafe,
     ReadingIsRecent
<1>2. CASE Forwarding!Change \/ Forwarding!Tick
  BY <1>2, UnderForwards
<1>3. ASSUME NEW q \in Requests, Forwarding!Arrive(q) \/ Forwarding!Step(q)
      PROVE  Forwarded'
  BY <1>3, ArriveForwards, ReadForwards, RecogniseForwards, EndForwards, SendForwards, AnswerForwards
  DEF Forwarding!Step, Forwarding!CallLocal, Forwarding!Done
<1> QED
  BY <1>1, <1>2, <1>3 DEF Forwarding!Next

\* While the behaviour is one of forwarding, its invariant holds.
LEMMA WhileForwarding == GatewaySpec => [](which = "forwarding" => Forwarded)
<1>1. GatewayInit => (which = "forwarding" => Forwarded)
  BY ForwardedAtStart DEF GatewayInit
<1>2. (which = "forwarding" => Forwarded) /\ [GatewayNext]_<<which, vars, forwardingVars>>
        => (which = "forwarding" => Forwarded)'
  <2> SUFFICES ASSUME which = "forwarding" => Forwarded, [GatewayNext]_<<which, vars, forwardingVars>>,
                      which' = "forwarding"
               PROVE  Forwarded'
    OBVIOUS
  <2>1. which = "forwarding" /\ [Forwarding!Next]_forwardingVars
    BY DEF GatewayNext
  <2> QED
    BY <2>1, ForwardedIsKept
<1> QED
  BY <1>1, <1>2, PTL DEF GatewaySpec

-----------------------------------------------------------------------------
(* What forwarding promises                                                *)

\* A request that may not be done twice is never under way after an address may have carried
\* it out (proxy.py asks the next address only for an idempotent method).
THEOREM UnsafeGoesOnce == GatewaySpec => []UnsafeIsSentOnce
<1>1. (which = "forwarding" => Forwarded) => UnsafeIsSentOnce
  BY DEF UnsafeIsSentOnce, Forwarding!UnsafeIsSentOnce, Forwarding!UnderWay, Forwarded, Remembered,
     TakenIsSafe
<1> QED
  BY <1>1, WhileForwarding, PTL

\* A request is routed by what the registry said Refresh before it began, unless the registry
\* could not be read: a copy is stamped with the moment its reading began, so that readings
\* that overtake one another never make it look younger than it is (Registry.routes).
THEOREM OldIsNotOverlooked == GatewaySpec => []NothingOldIsOverlooked
<1>1. (which = "forwarding" => Forwarded) => NothingOldIsOverlooked
  BY DEF NothingOldIsOverlooked, Forwarding!NothingOldIsOverlooked, Forwarding!UnderWay, Forwarded,
     Remembered, ReadingIsRecent
<1> QED
  BY <1>1, WhileForwarding, PTL

\* What a service reads of the caller's identity is the gateway's word alone.
LEMMA WhoIsClaimed ==
  ASSUME NEW route, OfTheTable(route), route.source # "local", NEW headers, NEW identity
  PROVE  LET sent == Forwarding!ToUpstream(headers, route, identity) IN
           /\ Forwarding!Claimed(sent) = IF identity = {} THEN {} ELSE {"gateway"}
           /\ identity # {} => [kind |-> "identity", by |-> "gateway"] \in sent
<1> DEFINE sent == Forwarding!ToUpstream(headers, route, identity)
           word == [kind |-> "identity", by |-> "gateway"]
<1>1. \A h \in sent : h.kind = "identity" => identity # {} /\ h = word
  BY DEF Forwarding!ToUpstream, Forwarding!Kept, OfTheTable
<1>2. identity # {} => word \in sent
  BY DEF Forwarding!ToUpstream
<1> HIDE DEF sent
<1>3. Forwarding!Claimed(sent) = IF identity = {} THEN {} ELSE {"gateway"}
  BY <1>1, <1>2 DEF Forwarding!Claimed
<1> QED
  BY <1>2, <1>3 DEF sent

\* A service is told an identity exactly where its route asks for sign-in, it is the gateway's
\* and never the client's, and while it is recent the service believes it to be the caller's
\* (to_upstream, sign_identity, verify_identity).
THEOREM ServicesKnowTheirCallers == GatewaySpec => []ServiceKnowsTheCaller
<1>1. (which = "forwarding" => Forwarded) => ServiceKnowsTheCaller
  <2> SUFFICES ASSUME Forwarded, NEW q \in Requests, req[q] # Forwarding!Idle, req[q].pc = "sending"
               PROVE  /\ Forwarding!Claimed(req[q].sent) =
                           IF Forwarding!SignedIn(Forwarding!RouteOf(q)) THEN {"gateway"} ELSE {}
                      /\ \A s \in req[q].identity : now - s.at <= MaxAge =>
                           Forwarding!Verified(req[q].sent, req[q].identity, now) = {s.who}
    BY DEF ServiceKnowsTheCaller, Forwarding!ServiceKnowsTheCaller, Forwarding!UnderWay
  <2>1. PICK r, route : r = req[q] /\ route = Forwarding!RouteOf(q)
    OBVIOUS
  <2>2. Remembered(r) /\ r.routes = {route} /\ OfTheTable(route)
    BY <2>1, HasItsRoute
  <2>3. /\ route.source # "local"
        /\ r.sent = Forwarding!ToUpstream(r.ask.headers, route, r.identity)
        /\ IF Forwarding!SignedIn(route)
           THEN \E who \in Callers, at \in Nat : at <= now /\ r.identity = {[who |-> who, at |-> at]}
           ELSE r.identity = {}
    BY <2>1, <2>2 DEF Remembered, KnowsItsRoute
  <2>4. /\ Forwarding!Claimed(r.sent) = IF r.identity = {} THEN {} ELSE {"gateway"}
        /\ r.identity # {} => [kind |-> "identity", by |-> "gateway"] \in r.sent
    BY <2>2, <2>3, WhoIsClaimed
  <2>5. ASSUME NEW s \in r.identity, now - s.at <= MaxAge
        PROVE  Forwarding!Verified(r.sent, r.identity, now) = {s.who}
    <3>1. PICK who \in Callers, at \in Nat : at <= now /\ r.identity = {[who |-> who, at |-> at]}
      BY <2>3
    <3>2. s = [who |-> who, at |-> at] /\ \A t \in r.identity : t = s
      BY <3>1
    <3>3. now \in Nat /\ MaxAge \in Nat
      BY ForwardingIsWellFormed DEF Forwarded, CopyIsRecent, Forwarding!ForwardingAssumption
    <3>4. now - s.at <= MaxAge /\ s.at - now <= MaxAge
      BY <2>5, <3>1, <3>2, <3>3
    <3>5. [kind |-> "identity", by |-> "gateway"] \in r.sent
      BY <2>4
    <3> QED
      BY <3>2, <3>4, <3>5 DEF Forwarding!Verified
  <2> QED
    BY <2>1, <2>3, <2>4, <2>5
<1> QED
  BY <1>1, WhileForwarding, PTL

=============================================================================
