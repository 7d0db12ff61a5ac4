----------------------------- MODULE StoredProofs -----------------------------
(***************************************************************************)
(* Theorems about what the tables hold (MCStored): the connections that     *)
(* rows are written over (ConnectionPool), the sweeps of the journal        *)
(* (Journal) and those of the measurements (Snapshots).                     *)
(***************************************************************************)
EXTENDS MCStored, FiniteSetTheorems, TLAPS

-----------------------------------------------------------------------------
(* ConnectionPool: the inductive invariant                                 *)

Owner == Threads \cup {Pool!Nobody}
Row == [by : Threads, id : Nat]

Connection == [open : BOOLEAN, gone : BOOLEAN, lately : BOOLEAN, last : Nat, rows : SUBSET Row]
Block == [open : BOOLEAN, on : SUBSET Connections]
Call == [what : {"read", "write", "insert", "session"}, of : Owner, on : SUBSET Connections,
         row : Nat, told : Nat, done : BOOLEAN]
Scope == [wrote : SUBSET Nat, kept : SUBSET Nat, ended : {"not", "well", "ill"}]

PoolTyped ==
  /\ pool \in [Connections -> Connection]
  /\ context \in [Threads -> Owner]
  /\ block \in [Threads -> Block]
  /\ call \in [Threads -> Call \cup {Pool!NoCall}]
  /\ scope \in [Threads -> Scope]
  /\ inserted \in Nat

\* The connections of the session a thread has, its block's or its call's.
Holds(t) == block[t].on \cup IF call[t] # Pool!NoCall THEN call[t].on ELSE {}

\* A thread runs on a block exactly while it is its own.
BlockIsOwn(t) ==
  /\ block[t].open <=> context[t] = t
  /\ ~block[t].open => block[t].on = {}
  /\ call[t] # Pool!NoCall =>
       IF block[t].open THEN call[t].of = t /\ call[t].on = {} ELSE call[t].of = Pool!Nobody

\* A session has one connection, and no other session has it.
HeldAlone(t) ==
  /\ \A c, d \in Holds(t) : c = d
  /\ \A u \in Threads \ {t} : Holds(t) \cap Holds(u) = {}

\* A row that is not committed is on the connection of the thread that wrote it, which is
\* not gone.
RowsAreTheHolders == \A c \in Connections : \A row \in pool[c].rows : c \in Holds(row.by) /\ ~pool[c].gone

\* While a thread's block or call lasts, what it wrote is on its connection, and not kept.
ScopeLasts(t) ==
  /\ scope[t].ended = "not" /\ scope[t].kept = {}
  /\ Holds(t) = {} => scope[t].wrote = {}
  /\ \A c \in Holds(t) : ~pool[c].gone =>
       \A i \in Nat : i \in scope[t].wrote <=> [by |-> t, id |-> i] \in pool[c].rows
  /\ ~block[t].open /\ call[t].what = "read" => scope[t].wrote = {}

ScopeHasEnded(t) ==
  /\ scope[t].ended = "well" => scope[t].kept = scope[t].wrote
  /\ scope[t].ended = "ill" => scope[t].kept = {}

\* An insert that is done finds its row's id on its connection, and is told nothing else.
RowIsTold(t) ==
  /\ call[t] # Pool!NoCall => IF call[t].done THEN Holds(t) # {} ELSE call[t].told = 0
  /\ call[t].what = "insert" /\ call[t].done =>
       /\ \A c \in Holds(t) : ~pool[c].gone => pool[c].last = call[t].row
       /\ call[t].told \in {0, call[t].row}

Whole(t) ==
  /\ BlockIsOwn(t) /\ RowIsTold(t)
  /\ IF Pool!Busy(t) THEN ScopeLasts(t) ELSE ScopeHasEnded(t)

PoolInv ==
  /\ PoolTyped /\ RowsAreTheHolders
  /\ \A t \in Threads : HeldAlone(t) /\ Whole(t)

\* What a thread's part of the invariant rests on: its own block, call and scope, and the
\* connections it holds, which may be dropped.
LEMMA WholeKept ==
  ASSUME PoolTyped, NEW t \in Threads, Whole(t),
         block'[t] = block[t], call'[t] = call[t], scope'[t] = scope[t],
         context'[t] = t <=> context[t] = t,
         \A c \in Holds(t) :
           pool'[c].gone \/ (~pool[c].gone /\ pool'[c].last = pool[c].last /\ pool'[c].rows = pool[c].rows)
  PROVE  Whole(t)' /\ Holds(t)' = Holds(t)
<1>1. Holds(t)' = Holds(t) /\ Pool!Busy(t)' = Pool!Busy(t)
  BY DEF Holds, Pool!Busy
<1>2. BlockIsOwn(t)' /\ RowIsTold(t)'
  BY <1>1 DEF Whole, BlockIsOwn, RowIsTold
<1>3. ScopeHasEnded(t) => ScopeHasEnded(t)'
  BY DEF ScopeHasEnded
<1>4. ScopeLasts(t) => ScopeLasts(t)'
  BY <1>1 DEF ScopeLasts
<1> QED
  BY <1>1, <1>2, <1>3, <1>4 DEF Whole

LEMMA NobodyIsNoThread == Pool!Nobody \notin Threads
  BY StoredAssumption DEF Pool!ConnectionPoolAssumption

LEMMA PoolInitInv == Pool!Init => PoolInv
  BY NobodyIsNoThread DEF Pool!Init, PoolInv, PoolTyped, Connection, Block, Call, Scope, Row, Owner, RowsAreTheHolders, Holds,
     HeldAlone, Whole, BlockIsOwn, RowIsTold, ScopeHasEnded, Pool!Busy, Pool!New, Pool!Closed, Pool!NoCall,
     Pool!Apart, Pool!Nobody

\* A connection that is free is in nobody's session, and has no row on it.
LEMMA FreeIsFree ==
  ASSUME PoolInv, NEW c \in Pool!Free
  PROVE  c \in Connections /\ pool[c].rows = {} /\ \A t \in Threads : c \notin Holds(t)
<1>1. c \in Connections /\ c \notin Pool!Held
  BY DEF Pool!Free
<1>2. ASSUME NEW t \in Threads PROVE c \notin Holds(t)
  BY <1>1 DEF Pool!Held, Holds
<1>3. pool[c].rows = {}
  BY <1>1, <1>2 DEF PoolInv, RowsAreTheHolders, PoolTyped, Connection, Row
<1> QED
  BY <1>1, <1>2, <1>3

\* A statement runs on the connection its thread holds.
LEMMA OnIsHeld ==
  ASSUME PoolInv, NEW t \in Threads, call[t] # Pool!NoCall
  PROVE  Pool!On(t) = Holds(t) /\ Holds(t) \subseteq Connections /\ pool \in [Connections -> Connection]
<1>1. BlockIsOwn(t) /\ PoolTyped
  BY DEF PoolInv, Whole
<1>2. CASE block[t].open
  BY <1>1, <1>2, NobodyIsNoThread DEF BlockIsOwn, Pool!On, Holds, PoolTyped, Block, Call
<1>3. CASE ~block[t].open
  BY <1>1, <1>3 DEF BlockIsOwn, Pool!On, Holds, PoolTyped, Block, Call
<1> QED
  BY <1>2, <1>3

\* While who holds what stays as it is.
LEMMA NobodyTakes ==
  ASSUME PoolInv, \A t \in Threads : Holds(t)' = Holds(t)
  PROVE  \A t \in Threads : HeldAlone(t)'
  BY DEF PoolInv, HeldAlone

LEMMA PoolTypes == PoolInv => PoolTyped
  BY DEF PoolInv

\* A connection somebody holds is one, and is gone or not.
LEMMA HeldIsOpen ==
  ASSUME PoolInv, NEW t \in Threads, NEW c \in Holds(t)
  PROVE  c \in Connections /\ pool[c].gone \in BOOLEAN /\ (pool[c].gone \/ ~pool[c].gone)
<1>1. c \in Connections
  BY PoolTypes DEF Holds, PoolTyped, Block, Call
<1> QED
  BY <1>1, PoolTypes DEF PoolTyped, Connection

LEMMA DropKeeps ==
  ASSUME PoolInv, NEW c \in Connections, Pool!Drop(c)
  PROVE  PoolInv'
<1>1. /\ pool' = [pool EXCEPT ![c].gone = TRUE, ![c].rows = {}]
      /\ UNCHANGED <<context, block, call, scope, inserted>>
  BY DEF Pool!Drop
<1>2. PoolTyped'
  BY <1>1, PoolTypes DEF PoolTyped, Connection
<1>3. ASSUME NEW t \in Threads PROVE Whole(t)' /\ Holds(t)' = Holds(t)
<2>1. \A d \in Connections : pool'[d].gone \/ pool'[d] = pool[d]
  BY <1>1, PoolTypes DEF PoolTyped, Connection
<2>2. \A d \in Holds(t) : d \in Connections
  BY PoolTypes DEF Holds, PoolTyped, Block, Call
<2> QED
  BY <1>1, <2>1, <2>2, WholeKept DEF PoolInv
<1>4. RowsAreTheHolders'
  BY <1>1, <1>3, PoolTypes DEF PoolInv, PoolTyped, RowsAreTheHolders, Connection, Row
<1> QED
  BY <1>2, <1>3, <1>4, NobodyTakes DEF PoolInv

LEMMA LieKeeps ==
  ASSUME PoolInv, NEW c \in Connections, Pool!Lie(c)
  PROVE  PoolInv'
<1>1. /\ pool' = [pool EXCEPT ![c].lately = FALSE]
      /\ UNCHANGED <<context, block, call, scope, inserted>>
  BY DEF Pool!Lie
<1>2. PoolTyped'
  BY <1>1, PoolTypes DEF PoolTyped, Connection
<1>3. \A d \in Connections : pool'[d].gone = pool[d].gone /\ pool'[d].last = pool[d].last /\ pool'[d].rows = pool[d].rows
  BY <1>1, PoolTypes DEF PoolTyped, Connection
<1>4. ASSUME NEW t \in Threads PROVE Whole(t)' /\ Holds(t)' = Holds(t)
<2>1. \A d \in Holds(t) : d \in Connections
  BY PoolTypes DEF Holds, PoolTyped, Block, Call
<2>2. \A d \in Holds(t) : pool[d].gone \in BOOLEAN
  BY <2>1, PoolTypes DEF PoolTyped, Connection
<2> QED
  BY <1>1, <1>3, <2>1, <2>2, WholeKept DEF PoolInv
<1>5. RowsAreTheHolders'
  BY <1>3, <1>4, PoolTypes DEF PoolInv, PoolTyped, RowsAreTheHolders, Connection, Row
<1> QED
  BY <1>2, <1>4, <1>5, NobodyTakes DEF PoolInv

LEMMA OpenBlockKeeps ==
  ASSUME PoolInv, NEW t \in Threads, Pool!OpenBlock(t)
  PROVE  PoolInv'
<1>1. /\ ~block[t].open /\ call[t] = Pool!NoCall
      /\ block' = [block EXCEPT ![t] = [open |-> TRUE, on |-> {}]]
      /\ context' = [context EXCEPT ![t] = t] /\ scope' = [scope EXCEPT ![t] = Pool!Apart]
      /\ UNCHANGED <<pool, call, inserted>>
  BY DEF Pool!OpenBlock, Pool!Busy
<1>2. PoolTyped'
  BY <1>1, PoolTypes DEF PoolTyped, Block, Scope, Owner, Pool!Apart
<1>3. Holds(t) = {} /\ Holds(t)' = {}
  BY <1>1, PoolTypes DEF PoolInv, Whole, BlockIsOwn, Holds, PoolTyped
<1>4. Whole(t)'
  BY <1>1, <1>3, PoolTypes DEF Whole, BlockIsOwn, RowIsTold, ScopeLasts, Pool!Busy, Pool!Apart, Pool!NoCall, PoolTyped
<1>5. ASSUME NEW u \in Threads, u # t PROVE Whole(u)' /\ Holds(u)' = Holds(u)
  BY <1>1, <1>5, WholeKept, HeldIsOpen, PoolTypes DEF PoolInv, PoolTyped
<1>6. \A u \in Threads : Holds(u)' = Holds(u)
  BY <1>3, <1>5
<1>7. RowsAreTheHolders'
  BY <1>1, <1>6, PoolTypes DEF PoolInv, RowsAreTheHolders, PoolTyped, Connection, Row
<1> QED
  BY <1>2, <1>4, <1>5, <1>6, <1>7, NobodyTakes DEF PoolInv

LEMMA HandOverKeeps ==
  ASSUME PoolInv, NEW t \in Threads, NEW u \in Threads, Pool!HandOver(t, u)
  PROVE  PoolInv'
<1>1. /\ t # u /\ context[u] = Pool!Nobody /\ context' = [context EXCEPT ![u] = t]
      /\ UNCHANGED <<pool, block, call, scope, inserted>>
  BY DEF Pool!HandOver
<1>2. PoolTyped'
  BY <1>1, PoolTypes DEF PoolTyped, Owner
<1>3. ASSUME NEW v \in Threads PROVE Whole(v)' /\ Holds(v)' = Holds(v)
<2>1. context'[v] = v <=> context[v] = v
  BY <1>1, NobodyIsNoThread, PoolTypes DEF PoolTyped
<2> QED
  BY <1>1, <2>1, WholeKept, PoolTypes, HeldIsOpen DEF PoolInv
<1>4. RowsAreTheHolders'
  BY <1>1, <1>3, PoolTypes DEF PoolInv, RowsAreTheHolders, PoolTyped, Connection, Row
<1> QED
  BY <1>2, <1>3, <1>4, NobodyTakes DEF PoolInv

LEMMA CallKeeps ==
  ASSUME PoolInv, NEW t \in Threads, NEW what \in {"read", "write", "insert", "session"}, Pool!Call(t, what)
  PROVE  PoolInv'
<1> DEFINE begun == [what |-> what, of |-> IF Pool!Joins(t) THEN context[t] ELSE Pool!Nobody,
                     on |-> {}, row |-> 0, told |-> 0, done |-> FALSE]
<1>1. /\ call[t] = Pool!NoCall /\ call' = [call EXCEPT ![t] = begun]
      /\ scope' = IF block[t].open THEN scope ELSE [scope EXCEPT ![t] = Pool!Apart]
      /\ UNCHANGED <<pool, context, block, inserted>>
  BY DEF Pool!Call, Pool!JoinsFor
<1>2. begun \in Call /\ begun.on = {} /\ ~begun.done /\ begun.told = 0 /\ begun.of = (IF block[t].open THEN t ELSE Pool!Nobody)
  BY PoolTypes DEF PoolInv, Whole, BlockIsOwn, Pool!Joins, PoolTyped, Call, Owner
<1> HIDE DEF begun
<1>3. PoolTyped'
  BY <1>1, <1>2, PoolTypes DEF PoolTyped, Scope, Pool!Apart
<1>4. Holds(t)' = Holds(t) /\ call'[t] = begun /\ begun # Pool!NoCall
  BY <1>1, <1>2, PoolTypes DEF Holds, PoolTyped, Call, Pool!NoCall
<1>5. Whole(t)'
<2>1. BlockIsOwn(t)' /\ RowIsTold(t)'
  BY <1>1, <1>2, <1>4 DEF PoolInv, Whole, BlockIsOwn, RowIsTold
<2>2. CASE block[t].open
<3>1. ScopeLasts(t)
  BY <2>2 DEF PoolInv, Whole, Pool!Busy
<3>2. ScopeLasts(t)'
  BY <1>1, <1>4, <2>2, <3>1 DEF ScopeLasts
<3> QED
  BY <1>1, <2>1, <2>2, <3>2 DEF Whole, Pool!Busy
<2>3. CASE ~block[t].open
<3>1. Holds(t)' = {} /\ scope'[t] = Pool!Apart
  BY <1>1, <1>4, <2>3, PoolTypes DEF PoolInv, Whole, BlockIsOwn, Holds, PoolTyped
<3>2. ScopeLasts(t)'
  BY <3>1 DEF ScopeLasts, Pool!Apart
<3> QED
  BY <1>4, <2>1, <3>2 DEF Whole, Pool!Busy
<2> QED
  BY <2>2, <2>3
<1>6. ASSUME NEW u \in Threads, u # t PROVE Whole(u)' /\ Holds(u)' = Holds(u)
  BY <1>1, <1>6, WholeKept, HeldIsOpen, PoolTypes DEF PoolInv, PoolTyped
<1>7. RowsAreTheHolders'
  BY <1>1, <1>4, <1>6, PoolTypes DEF PoolInv, RowsAreTheHolders, PoolTyped, Connection, Row
<1> QED
  BY <1>3, <1>4, <1>5, <1>6, <1>7, NobodyTakes DEF PoolInv

\* What somebody else's part rests on, when a step changes no connection but those that
\* this thread holds or nobody does.
LEMMA OthersKeep ==
  ASSUME PoolInv, NEW t \in Threads, NEW u \in Threads, u # t,
         block'[u] = block[u], call'[u] = call[u], scope'[u] = scope[u], context'[u] = context[u],
         \A d \in Holds(u) : pool'[d] = pool[d]
  PROVE  Whole(u)' /\ Holds(u)' = Holds(u)
BY WholeKept, HeldIsOpen, PoolTypes DEF PoolInv

LEMMA TakeKeeps ==
  ASSUME PoolInv, NEW t \in Threads, Pool!Take(t)
  PROVE  PoolInv'
<1>1. PICK c \in Pool!Free :
        /\ call[t] # Pool!NoCall /\ Holds(t) = {}
        /\ pool' = [pool EXCEPT ![c] = Pool!HandedOut(pool[c])]
        /\ IF call[t].of = Pool!Nobody
           THEN call' = [call EXCEPT ![t].on = {c}] /\ block' = block
           ELSE block' = [block EXCEPT ![call[t].of].on = {c}] /\ call' = call
        /\ UNCHANGED <<context, scope, inserted>>
  BY OnIsHeld DEF Pool!Take
<1>2. c \in Connections /\ pool[c].rows = {} /\ \A u \in Threads : c \notin Holds(u)
  BY FreeIsFree
<1>3. call[t] \in Call /\ Whole(t) /\ PoolTyped
  BY <1>1, PoolTypes DEF PoolInv, PoolTyped
<1>4. pool'[c] \in Connection /\ pool'[c].rows = {} /\ \A d \in Connections : d # c => pool'[d] = pool[d]
<2>1. pool[c] \in Connection /\ pool'[c] = Pool!HandedOut(pool[c])
  BY <1>1, <1>2, <1>3 DEF PoolTyped
<2>2. Pool!New \in Connection /\ Pool!New.rows = {}
  BY DEF Pool!New, Connection
<2>3. Pool!HandedOut(pool[c]) \in Connection /\ Pool!HandedOut(pool[c]).rows = {}
  BY <1>2, <2>1, <2>2 DEF Pool!HandedOut, Connection
<2> QED
  BY <1>1, <1>3, <2>1, <2>3 DEF PoolTyped
<1>5. /\ Holds(t)' = {c} /\ call'[t] \in Call /\ call'[t].done = call[t].done
      /\ call'[t].what = call[t].what /\ call'[t].told = call[t].told /\ BlockIsOwn(t)'
      /\ block'[t].open = block[t].open
      /\ block' \in [Threads -> Block] /\ call' \in [Threads -> Call \cup {Pool!NoCall}]
      /\ \A u \in Threads \ {t} : block'[u] = block[u] /\ call'[u] = call[u]
<2>1. CASE ~block[t].open
<3>1. block[t].on = {} /\ call[t].of = Pool!Nobody /\ call' = [call EXCEPT ![t].on = {c}] /\ block' = block
  BY <1>1, <1>3, <2>1 DEF Whole, BlockIsOwn
<3>2. call'[t] = [call[t] EXCEPT !.on = {c}]
  BY <1>3, <3>1 DEF PoolTyped
<3> QED
  BY <1>1, <1>2, <1>3, <2>1, <3>1, <3>2 DEF Whole, BlockIsOwn, Holds, PoolTyped, Call, Pool!NoCall
<2>2. CASE block[t].open
<3>1. call[t].on = {} /\ call[t].of = t /\ block' = [block EXCEPT ![t].on = {c}] /\ call' = call
  BY <1>1, <1>3, <2>2, NobodyIsNoThread DEF Whole, BlockIsOwn
<3>2. block'[t] = [block[t] EXCEPT !.on = {c}]
  BY <1>3, <3>1 DEF PoolTyped
<3> QED
  BY <1>1, <1>2, <1>3, <2>2, <3>1, <3>2 DEF Whole, BlockIsOwn, Holds, PoolTyped, Block
<2> QED
  BY <2>1, <2>2
<1>6. PoolTyped'
  BY <1>1, <1>2, <1>3, <1>4, <1>5 DEF PoolTyped
<1>7. Whole(t)'
<2>1. ScopeLasts(t) /\ RowIsTold(t)
  BY <1>1, <1>3 DEF Whole, Pool!Busy
<2>2. ScopeLasts(t)'
  BY <1>1, <1>4, <1>5, <2>1 DEF ScopeLasts
<2>3. RowIsTold(t)'
  BY <1>1, <1>3, <1>5, <2>1 DEF RowIsTold
<2>4. Pool!Busy(t)'
  BY <1>5 DEF Pool!Busy, Call, Pool!NoCall
<2> QED
  BY <1>5, <2>2, <2>3, <2>4 DEF Whole
<1>8. ASSUME NEW u \in Threads, u # t PROVE Whole(u)' /\ Holds(u)' = Holds(u)
<2>1. \A d \in Holds(u) : pool'[d] = pool[d]
  BY <1>2, <1>4, HeldIsOpen
<2> QED
  BY <1>1, <1>5, <1>8, <2>1, OthersKeep
<1>9. \A u \in Threads : HeldAlone(u)'
  BY <1>1, <1>2, <1>5, <1>8 DEF PoolInv, HeldAlone
<1>10. RowsAreTheHolders'
<2>1. ASSUME NEW d \in Connections, NEW row \in pool'[d].rows
      PROVE  d \in Holds(row.by)' /\ ~pool'[d].gone
<3>1. d # c /\ pool'[d] = pool[d]
  BY <1>4, <2>1
<3>2. d \in Holds(row.by) /\ ~pool[d].gone /\ row.by \in Threads
  BY <1>3, <2>1, <3>1 DEF PoolInv, RowsAreTheHolders, PoolTyped, Connection, Row
<3> QED
  BY <1>1, <1>8, <3>1, <3>2
<2> QED
  BY <2>1 DEF RowsAreTheHolders
<1> QED
  BY <1>6, <1>7, <1>8, <1>9, <1>10 DEF PoolInv

LEMMA RunKeeps ==
  ASSUME PoolInv, NEW t \in Threads, Pool!Run(t)
  PROVE  PoolInv'
<1> DEFINE id == inserted + 1
<1>1. PICK c \in Holds(t) : ~pool[c].gone /\ Pool!Statement(t, c)
  BY OnIsHeld DEF Pool!Run
<1>2. /\ call[t] \in Call /\ ~call[t].done /\ c \in Connections /\ PoolTyped
      /\ Holds(t) = {c} /\ Whole(t) /\ ScopeLasts(t) /\ call[t].told = 0
  BY <1>1, HeldIsOpen, PoolTypes DEF Pool!Run, PoolInv, PoolTyped, HeldAlone, Whole, Pool!Busy, RowIsTold
<1>3. /\ call' = [call EXCEPT ![t].done = TRUE, ![t].row = IF call[t].what = "read" THEN 0 ELSE id]
      /\ UNCHANGED <<context, block>>
  BY <1>1 DEF Pool!Statement
<1>4. /\ call'[t] \in Call /\ call'[t].done /\ call'[t].what = call[t].what /\ call'[t].told = 0
      /\ call'[t].on = call[t].on /\ call'[t].of = call[t].of
      /\ call'[t].row = (IF call[t].what = "read" THEN 0 ELSE id)
      /\ \A u \in Threads \ {t} : call'[u] = call[u]
      /\ call' \in [Threads -> Call \cup {Pool!NoCall}]
<2> DEFINE ran == IF call[t].what = "read" THEN 0 ELSE id
<2>1. ran \in Nat
  BY <1>2 DEF PoolTyped
<2>2. call' = [call EXCEPT ![t].done = TRUE, ![t].row = ran]
  BY <1>3
<2> HIDE DEF ran
<2>3. call'[t] = [call[t] EXCEPT !.done = TRUE, !.row = ran]
  BY <1>2, <2>2 DEF PoolTyped
<2>4. call'[t] \in Call
  BY <1>2, <2>1, <2>3 DEF Call
<2>5. \A u \in Threads \ {t} : call'[u] = call[u]
  BY <2>2, <1>2 DEF PoolTyped
<2>6. /\ call'[t].done /\ call'[t].what = call[t].what /\ call'[t].told = 0
      /\ call'[t].on = call[t].on /\ call'[t].of = call[t].of /\ call'[t].row = ran
  BY <1>2, <2>3 DEF Call
<2> QED
  BY <1>2, <2>2, <2>4, <2>5, <2>6 DEF PoolTyped, ran
<1>5. /\ Holds(t)' = Holds(t) /\ BlockIsOwn(t)' /\ Pool!Busy(t)'
  BY <1>2, <1>3, <1>4 DEF Holds, Whole, BlockIsOwn, Pool!Busy, Call, Pool!NoCall
<1>6. CASE call[t].what = "read"
<2>1. UNCHANGED <<pool, scope, inserted>>
  BY <1>1, <1>6 DEF Pool!Statement
<2>2. ASSUME NEW u \in Threads, u # t PROVE Whole(u)' /\ Holds(u)' = Holds(u)
  BY <1>3, <1>4, <2>1, <2>2, OthersKeep
<2>3. PoolTyped'
  BY <1>2, <1>3, <1>4, <2>1 DEF PoolTyped
<2>4. ScopeLasts(t)'
  BY <1>2, <1>3, <1>4, <1>5, <2>1 DEF ScopeLasts
<2>5. RowIsTold(t)'
  BY <1>2, <1>4, <1>5, <1>6 DEF RowIsTold
<2>6. RowsAreTheHolders'
  BY <1>2, <1>5, <2>1, <2>2 DEF PoolInv, RowsAreTheHolders, PoolTyped, Connection, Row
<2> QED
  BY <1>5, <2>2, <2>3, <2>4, <2>5, <2>6, NobodyTakes DEF PoolInv, Whole
<1>7. CASE call[t].what # "read"
<2> DEFINE row == [by |-> t, id |-> id]
<2>1. /\ inserted' = id
      /\ pool' = [pool EXCEPT ![c].last = id, ![c].rows = @ \cup {row}]
      /\ scope' = [scope EXCEPT ![t].wrote = @ \cup {id}]
  BY <1>1, <1>7 DEF Pool!Statement
<2>2. pool[c] \in Connection /\ scope[t] \in Scope /\ id \in Nat /\ row \in Row
  BY <1>2 DEF PoolTyped, Row
<2> HIDE DEF id
<2>3. /\ pool'[c] = [pool[c] EXCEPT !.last = id, !.rows = @ \cup {row}]
      /\ \A d \in Connections : d # c => pool'[d] = pool[d]
      /\ scope'[t] = [scope[t] EXCEPT !.wrote = @ \cup {id}]
      /\ \A u \in Threads : u # t => scope'[u] = scope[u]
  BY <1>2, <2>1 DEF PoolTyped
<2>4. pool'[c] \in Connection /\ scope'[t] \in Scope
<3> HIDE DEF row
<3>1. pool'[c] \in Connection
<4>1. pool[c].rows \cup {row} \in SUBSET Row
  BY <2>2 DEF Connection
<4> QED
  BY <2>2, <2>3, <4>1 DEF Connection
<3>2. scope'[t] \in Scope
  BY <2>2, <2>3 DEF Scope
<3> QED
  BY <3>1, <3>2
<2>5. /\ pool'[c].gone = pool[c].gone /\ pool'[c].last = id /\ pool'[c].rows = pool[c].rows \cup {row}
      /\ scope'[t].ended = scope[t].ended /\ scope'[t].kept = scope[t].kept /\ scope'[t].wrote = scope[t].wrote \cup {id}
<3> HIDE DEF row
<3>1. pool'[c].gone = pool[c].gone /\ pool'[c].last = id /\ pool'[c].rows = pool[c].rows \cup {row}
  BY <2>2, <2>3 DEF Connection
<3>2. scope'[t].ended = scope[t].ended /\ scope'[t].kept = scope[t].kept /\ scope'[t].wrote = scope[t].wrote \cup {id}
  BY <2>2, <2>3 DEF Scope
<3> QED
  BY <3>1, <3>2
<2>6. PoolTyped'
  BY <1>2, <1>3, <1>4, <2>1, <2>2, <2>4 DEF PoolTyped
<2>7. ASSUME NEW u \in Threads, u # t PROVE Whole(u)' /\ Holds(u)' = Holds(u)
<3>1. \A d \in Holds(u) : d \in Connections /\ d # c
  BY <1>2, <2>7, HeldIsOpen DEF PoolInv, HeldAlone
<3> QED
  BY <1>3, <1>4, <2>3, <2>7, <3>1, OthersKeep
<2>8. ScopeLasts(t)'
<3>1. \A i \in Nat : i \in scope'[t].wrote <=> [by |-> t, id |-> i] \in pool'[c].rows
  BY <1>1, <1>2, <2>2, <2>5 DEF ScopeLasts
<3> QED
  BY <1>2, <1>4, <1>5, <1>7, <2>5, <3>1 DEF ScopeLasts
<2>9. RowIsTold(t)'
  BY <1>2, <1>4, <1>5, <1>7, <2>5 DEF RowIsTold
<2>10. RowsAreTheHolders'
<3>1. ASSUME NEW d \in Connections, NEW q \in pool'[d].rows
      PROVE  d \in Holds(q.by)' /\ ~pool'[d].gone
<4>1. CASE d = c /\ q = row
  BY <1>1, <1>2, <1>5, <2>5, <4>1
<4>2. CASE ~(d = c /\ q = row)
<5>1. q \in pool[d].rows /\ pool'[d].gone = pool[d].gone
  BY <2>3, <2>5, <3>1, <4>2
<5>2. d \in Holds(q.by) /\ ~pool[d].gone /\ q.by \in Threads
  BY <1>2, <3>1, <5>1 DEF PoolInv, RowsAreTheHolders, PoolTyped, Connection, Row
<5> QED
  BY <1>5, <2>7, <5>1, <5>2
<4> QED
  BY <4>1, <4>2
<3> QED
  BY <3>1 DEF RowsAreTheHolders
<2> QED
  BY <1>5, <2>6, <2>7, <2>8, <2>9, <2>10, NobodyTakes DEF PoolInv, Whole
<1> QED
  BY <1>6, <1>7

\* A call is told its row's id, and nothing else changes.
LEMMA TellKeeps ==
  ASSUME PoolInv, NEW t \in Threads, NEW id \in Nat,
         call[t] \in Call, call[t].done, call[t].what = "insert" => id = call[t].row,
         call' = [call EXCEPT ![t].told = id], UNCHANGED <<pool, context, block, scope, inserted>>
  PROVE  PoolInv'
<1>1. /\ call'[t] = [call[t] EXCEPT !.told = id] /\ Whole(t) /\ PoolTyped
      /\ \A u \in Threads \ {t} : call'[u] = call[u]
      /\ call' \in [Threads -> Call \cup {Pool!NoCall}]
<2>1. Whole(t) /\ PoolTyped
  BY PoolTypes DEF PoolInv
<2>2. call'[t] = [call[t] EXCEPT !.told = id] /\ \A u \in Threads \ {t} : call'[u] = call[u]
  BY <2>1 DEF PoolTyped
<2>3. call'[t] \in Call
  BY <2>2 DEF Call
<2> QED
  BY <2>1, <2>2, <2>3 DEF PoolTyped
<1>2. /\ call'[t] \in Call /\ call'[t].what = call[t].what /\ call'[t].of = call[t].of /\ call'[t].on = call[t].on
      /\ call'[t].row = call[t].row /\ call'[t].done /\ call'[t].told = id
      /\ call[t] # Pool!NoCall /\ call'[t] # Pool!NoCall
  BY <1>1 DEF Call, Pool!NoCall
<1>3. Holds(t)' = Holds(t) /\ Pool!Busy(t) /\ Pool!Busy(t)' /\ BlockIsOwn(t)'
  BY <1>1, <1>2 DEF Holds, Pool!Busy, Whole, BlockIsOwn
<1>4. PoolTyped'
  BY <1>1 DEF PoolTyped
<1>5. ScopeLasts(t)'
  BY <1>1, <1>2, <1>3 DEF Whole, ScopeLasts
<1>6. RowIsTold(t)'
  BY <1>1, <1>2, <1>3 DEF Whole, RowIsTold
<1>7. ASSUME NEW u \in Threads, u # t PROVE Whole(u)' /\ Holds(u)' = Holds(u)
  BY <1>1, <1>7, OthersKeep
<1>8. RowsAreTheHolders'
  BY <1>1, <1>3, <1>7 DEF PoolInv, RowsAreTheHolders, PoolTyped, Connection, Row
<1> QED
  BY <1>3, <1>4, <1>5, <1>6, <1>7, <1>8, NobodyTakes DEF PoolInv, Whole

\* What a connection answers when it is asked for the last id made on it
LEMMA IdIsANumber ==
  ASSUME PoolInv, NEW t \in Threads, call[t] # Pool!NoCall
  PROVE  /\ \A id \in Pool!IdFrom(t) : id \in Nat /\ \E c \in Holds(t) : ~pool[c].gone /\ id = pool[c].last
         /\ \A id \in Pool!IdFromAny(t) : id \in Nat
<1>1. \A c \in Connections : pool[c].last \in Nat
  BY PoolTypes DEF PoolTyped, Connection
<1>2. ASSUME NEW id \in Pool!IdFrom(t)
      PROVE  id \in Nat /\ \E c \in Holds(t) : ~pool[c].gone /\ id = pool[c].last
  BY <1>1, OnIsHeld DEF Pool!IdFrom
<1>3. ASSUME NEW id \in Pool!IdFromAny(t) PROVE id \in Nat
<2>1. PICK c \in Connections : id = Pool!HandedOut(pool[c]).last
  BY DEF Pool!IdFromAny, Pool!Free
<2>2. pool[c] \in Connection
  BY PoolTypes DEF PoolTyped
<2> QED
  BY <2>1, <2>2 DEF Pool!HandedOut, Pool!New, Connection
<1> QED
  BY <1>2, <1>3

LEMMA ReturnedKeeps ==
  ASSUME PoolInv, NEW t \in Threads, Pool!Returned(t)
  PROVE  PoolInv'
<1>1. /\ call[t].what = "insert" /\ call[t].done
      /\ UNCHANGED <<pool, context, block, scope, inserted>>
  BY DEF Pool!Returned
<1>2. call[t] # Pool!NoCall /\ call[t] \in Call /\ RowIsTold(t)
  BY <1>1, PoolTypes DEF PoolInv, PoolTyped, Whole, Pool!NoCall
<1>3. PICK id \in Pool!IdFrom(t) : call' = [call EXCEPT ![t].told = id]
  BY DEF Pool!Returned
<1>4. id \in Nat /\ id = call[t].row
  BY <1>1, <1>2, <1>3, IdIsANumber DEF RowIsTold
<1> QED
  BY <1>1, <1>2, <1>3, <1>4, TellKeeps

LEMMA LastRowidKeeps ==
  ASSUME PoolInv, NEW t \in Threads, Pool!LastRowid(t)
  PROVE  PoolInv'
<1>1. /\ call[t].what = "session" /\ call[t].done
      /\ UNCHANGED <<pool, context, block, scope, inserted>>
  BY DEF Pool!LastRowid
<1>2. call[t] # Pool!NoCall /\ call[t] \in Call
  BY <1>1, PoolTypes DEF PoolTyped, Pool!NoCall
<1>3. PICK id \in Pool!IdFrom(t) \cup Pool!IdFromAny(t) : call' = [call EXCEPT ![t].told = id]
  BY DEF Pool!LastRowid
<1>4. id \in Nat
  BY <1>2, <1>3, IdIsANumber
<1> QED
  BY <1>1, <1>2, <1>3, <1>4, TellKeeps

\* The ids of the rows that the connections the thread holds commit for it, and for others
LEMMA CommittedIds ==
  ASSUME PoolInv, NEW t \in Threads
  PROVE  \A row \in Pool!Committed(Holds(t)) : row \in Row /\ row.by = t
<1>1. ASSUME NEW row \in Pool!Committed(Holds(t)) PROVE row \in Row /\ row.by = t
<2>1. PICK c \in Holds(t) : row \in pool[c].rows
  BY DEF Pool!Committed
<2>2. c \in Connections /\ row \in Row
  BY <2>1, HeldIsOpen, PoolTypes DEF PoolTyped, Connection
<2>3. row.by \in Threads /\ c \in Holds(row.by)
  BY <2>1, <2>2 DEF PoolInv, RowsAreTheHolders, Row
<2> QED
  BY <2>2, <2>3 DEF PoolInv, HeldAlone
<1> QED
  BY <1>1

\* A block or a call ends: its session commits or rolls back and hands its connection back.
LEMMA EndKeeps ==
  ASSUME PoolInv, NEW t \in Threads, NEW ended \in {"well", "ill"}, NEW noticed \in BOOLEAN,
         Pool!Busy(t), ended = "well" => scope[t].wrote = {} \/ \A c \in Holds(t) : ~pool[c].gone,
         pool' = Pool!Back(Holds(t), noticed), scope' = Pool!Scopes(t, Holds(t), ended),
         block' = [block EXCEPT ![t] = Pool!Closed], call' = [call EXCEPT ![t] = Pool!NoCall],
         context' = Pool!Left(t), inserted' = inserted
  PROVE  PoolInv'
<1>1. PoolTyped /\ Whole(t) /\ ScopeLasts(t)
  BY PoolTypes DEF PoolInv, Whole
<1>2. /\ block'[t] = Pool!Closed /\ call'[t] = Pool!NoCall /\ context'[t] = Pool!Nobody
      /\ \A u \in Threads \ {t} : block'[u] = block[u] /\ call'[u] = call[u] /\ context'[u] = context[u]
      /\ block' \in [Threads -> Block] /\ call' \in [Threads -> Call \cup {Pool!NoCall}]
      /\ context' \in [Threads -> Owner]
  BY <1>1 DEF PoolTyped, Block, Owner, Pool!Closed, Pool!Left
<1>3. Holds(t)' = {} /\ ~Pool!Busy(t)'
  BY <1>2 DEF Holds, Pool!Closed, Pool!Busy
<1>4. ASSUME NEW c \in Connections
      PROVE  /\ c \notin Holds(t) => pool'[c] = pool[c]
             /\ c \in Holds(t) => pool'[c].rows = {}
             /\ pool'[c] \in Connection
<2>1. pool[c] \in Connection /\ Pool!New \in Connection /\ Pool!New.rows = {}
  BY <1>1 DEF PoolTyped, Connection, Pool!New
<2>2. [pool[c] EXCEPT !.rows = {}, !.lately = TRUE] \in Connection
  BY <2>1 DEF Connection
<2>3. [pool[c] EXCEPT !.rows = {}, !.lately = TRUE].rows = {}
  BY <2>1 DEF Connection
<2>4. pool'[c] = IF c \notin Holds(t) THEN pool[c]
                 ELSE IF pool[c].gone /\ noticed THEN Pool!New ELSE [pool[c] EXCEPT !.rows = {}, !.lately = TRUE]
  BY DEF Pool!Back
<2> HIDE DEF Pool!New
<2> QED
  BY <2>1, <2>2, <2>3, <2>4
<1>5. pool' \in [Connections -> Connection]
  BY <1>4 DEF Pool!Back
<1> DEFINE committed(u) == {row.id : row \in {q \in Pool!Committed(Holds(t)) : q.by = u}}
<1>6. ASSUME NEW u \in Threads PROVE committed(u) \subseteq Nat /\ (u # t => committed(u) = {})
  BY CommittedIds DEF Row
<1>7. ended = "well" => committed(t) = scope[t].wrote
<2> SUFFICES ASSUME ended = "well" PROVE committed(t) = scope[t].wrote
  OBVIOUS
<2>1. CASE Holds(t) = {}
<3>1. Pool!Committed(Holds(t)) = {}
  BY <2>1 DEF Pool!Committed
<3>2. scope[t].wrote = {}
  BY <1>1, <2>1 DEF ScopeLasts
<3> QED
  BY <3>1, <3>2
<2>2. CASE Holds(t) # {}
<3>1. PICK c \in Connections : Holds(t) = {c}
  BY <2>2, HeldIsOpen DEF PoolInv, HeldAlone
<3>2. Pool!Committed(Holds(t)) = pool[c].rows
  BY <3>1 DEF Pool!Committed
<3>3. scope[t].wrote \subseteq Nat /\ \A row \in pool[c].rows : row = [by |-> t, id |-> row.id] /\ row.id \in Nat
  BY <1>1, <3>2, CommittedIds DEF PoolTyped, Scope, Row
<3>4. CASE pool[c].gone
<4>1. pool[c].rows = {} /\ scope[t].wrote = {}
  BY <1>1, <3>1, <3>4 DEF PoolInv, RowsAreTheHolders
<4> QED
  BY <3>2, <4>1
<3>5. CASE ~pool[c].gone
<4>1. \A i \in Nat : i \in scope[t].wrote <=> [by |-> t, id |-> i] \in pool[c].rows
  BY <1>1, <3>1, <3>5 DEF ScopeLasts
<4>2. ASSUME NEW i \in scope[t].wrote PROVE i \in committed(t)
<5>1. [by |-> t, id |-> i] \in pool[c].rows
  BY <3>3, <4>1, <4>2
<5> QED
  BY <3>2, <5>1
<4>3. ASSUME NEW i \in committed(t) PROVE i \in scope[t].wrote
  BY <3>2, <3>3, <4>1
<4> QED
  BY <4>2, <4>3
<3> QED
  BY <3>4, <3>5
<2> QED
  BY <2>1, <2>2
<1> HIDE DEF committed
<1>8. ASSUME NEW u \in Threads
      PROVE  /\ u # t => scope'[u] = scope[u]
             /\ scope'[u] \in Scope
             /\ u = t => ScopeHasEnded(t)'
<2> DEFINE kept == [scope[u] EXCEPT !.kept = @ \cup committed(u)]
<2>1. scope[u] \in Scope /\ committed(u) \subseteq Nat
  BY <1>1, <1>6 DEF PoolTyped
<2>2. kept \in Scope /\ kept.wrote = scope[u].wrote /\ kept.kept = scope[u].kept \cup committed(u)
<3>1. scope[u].kept \cup committed(u) \in SUBSET Nat
  BY <2>1 DEF Scope
<3> QED
  BY <2>1, <3>1 DEF Scope
<2>3. u # t => kept = scope[u]
<3> SUFFICES ASSUME u # t PROVE kept = scope[u]
  OBVIOUS
<3>1. scope[u].kept \cup committed(u) = scope[u].kept
  BY <1>6
<3>2. kept = [scope[u] EXCEPT !.kept = scope[u].kept]
  BY <3>1
<3> QED
  BY <2>1, <3>2 DEF Scope
<2> DEFINE s == IF ended = "well" THEN kept ELSE scope[u]
<2>4. scope'[u] = IF u = t THEN [s EXCEPT !.ended = ended] ELSE s
  BY DEF Pool!Scopes, committed
<2> HIDE DEF kept
<2>5. s \in Scope /\ s.wrote = scope[u].wrote
  BY <2>1, <2>2
<2>6. u = t => s.kept = IF ended = "well" THEN s.wrote ELSE {}
  BY <1>1, <1>7, <2>2 DEF ScopeLasts
<2>7. u # t => s = scope[u]
  BY <2>3
<2> HIDE DEF s
<2>8. u = t => scope'[u].kept = s.kept /\ scope'[u].wrote = s.wrote /\ scope'[u].ended = ended /\ scope'[u] \in Scope
  BY <2>4, <2>5 DEF Scope
<2>9. u = t => ScopeHasEnded(t)'
  BY <2>6, <2>8 DEF ScopeHasEnded
<2> QED
  BY <2>4, <2>5, <2>7, <2>8, <2>9
<1>9. PoolTyped'
<2>1. scope' \in [Threads -> Scope]
  BY <1>8 DEF Pool!Scopes
<2> QED
  BY <1>1, <1>2, <1>5, <2>1 DEF PoolTyped
<1>10. Whole(t)'
<2>1. BlockIsOwn(t)' /\ RowIsTold(t)'
  BY <1>2, NobodyIsNoThread DEF BlockIsOwn, RowIsTold, Pool!Closed, Pool!NoCall
<2> QED
  BY <1>3, <1>8, <2>1 DEF Whole
<1>11. ASSUME NEW u \in Threads, u # t PROVE Whole(u)' /\ Holds(u)' = Holds(u)
<2>1. \A d \in Holds(u) : pool'[d] = pool[d]
  BY <1>4, <1>11, HeldIsOpen DEF PoolInv, HeldAlone
<2> QED
  BY <1>2, <1>8, <1>11, <2>1, OthersKeep
<1>12. \A u \in Threads : HeldAlone(u)'
  BY <1>3, <1>11 DEF PoolInv, HeldAlone
<1>13. RowsAreTheHolders'
<2>1. ASSUME NEW c \in Connections, NEW row \in pool'[c].rows
      PROVE  c \in Holds(row.by)' /\ ~pool'[c].gone
<3>1. c \notin Holds(t) /\ pool'[c] = pool[c]
  BY <1>4, <2>1
<3>2. c \in Holds(row.by) /\ ~pool[c].gone /\ row.by \in Threads
  BY <1>1, <2>1, <3>1 DEF PoolInv, RowsAreTheHolders, PoolTyped, Connection, Row
<3> QED
  BY <1>11, <3>1, <3>2
<2> QED
  BY <2>1 DEF RowsAreTheHolders
<1> QED
  BY <1>9, <1>10, <1>11, <1>12, <1>13 DEF PoolInv

LEMMA EndCallKeeps ==
  ASSUME PoolInv, NEW t \in Threads, Pool!EndCall(t)
  PROVE  PoolInv'
<1>1. /\ call[t] # Pool!NoCall /\ call[t].done /\ call' = [call EXCEPT ![t] = Pool!NoCall]
      /\ UNCHANGED <<block, inserted>>
  BY DEF Pool!EndCall
<1>2. PoolTyped /\ Whole(t) /\ ScopeLasts(t) /\ Pool!Busy(t)
  BY <1>1, PoolTypes DEF PoolInv, Whole, Pool!Busy
<1>3. CASE block[t].open
<2>1. call[t].of = t /\ call[t].of # Pool!Nobody
  BY <1>1, <1>2, <1>3, NobodyIsNoThread DEF Whole, BlockIsOwn
<2>2. UNCHANGED <<pool, context, block, scope, inserted>>
  BY <1>1, <1>3, <2>1 DEF Pool!EndCall
<2>3. call'[t] = Pool!NoCall /\ \A u \in Threads \ {t} : call'[u] = call[u]
  BY <1>1, <1>2 DEF PoolTyped
<2>4. Holds(t)' = Holds(t) /\ Pool!Busy(t)'
  BY <1>1, <1>2, <1>3, <2>2, <2>3 DEF Holds, Whole, BlockIsOwn, Pool!Busy
<2>5. Whole(t)'
<3>1. BlockIsOwn(t)' /\ RowIsTold(t)'
  BY <1>2, <2>2, <2>3 DEF Whole, BlockIsOwn, RowIsTold, Pool!NoCall
<3>2. ScopeLasts(t)'
  BY <1>2, <1>3, <2>2, <2>4 DEF ScopeLasts
<3> QED
  BY <2>4, <3>1, <3>2 DEF Whole
<2>6. ASSUME NEW u \in Threads, u # t PROVE Whole(u)' /\ Holds(u)' = Holds(u)
  BY <2>2, <2>3, <2>6, OthersKeep
<2>7. PoolTyped'
  BY <1>1, <1>2, <2>2 DEF PoolTyped
<2>8. RowsAreTheHolders'
  BY <1>2, <2>2, <2>4, <2>6 DEF PoolInv, RowsAreTheHolders, PoolTyped, Connection, Row
<2> QED
  BY <2>4, <2>5, <2>6, <2>7, <2>8, NobodyTakes DEF PoolInv
<1>4. CASE ~block[t].open
<2>1. /\ call[t].of = Pool!Nobody /\ block[t].on = {} /\ Holds(t) = call[t].on
      /\ call[t].what = "read" => scope[t].wrote = {}
  BY <1>1, <1>2, <1>4 DEF Whole, BlockIsOwn, ScopeLasts, Holds
<2> DEFINE noticed == call[t].what # "read"
<2>2. /\ pool' = Pool!Back(Holds(t), noticed) /\ scope' = Pool!Scopes(t, Holds(t), "well")
      /\ context' = Pool!Left(t) /\ (noticed => \A c \in Holds(t) : ~pool[c].gone)
  BY <1>1, <1>4, <2>1 DEF Pool!EndCall
<2>3. block' = [block EXCEPT ![t] = Pool!Closed]
<3>1. block[t] = Pool!Closed
  BY <1>2, <1>4, <2>1 DEF PoolTyped, Block, Pool!Closed
<3> QED
  BY <1>1, <1>2, <3>1 DEF PoolTyped
<2>4. noticed \in BOOLEAN /\ (scope[t].wrote = {} \/ \A c \in Holds(t) : ~pool[c].gone)
  BY <2>1, <2>2
<2> HIDE DEF noticed
<2> QED
  BY <1>1, <1>2, <2>2, <2>3, <2>4, EndKeeps
<1> QED
  BY <1>3, <1>4

LEMMA EndBlockKeeps ==
  ASSUME PoolInv, NEW t \in Threads, Pool!EndBlock(t)
  PROVE  PoolInv'
<1>1. /\ block[t].open /\ call[t] = Pool!NoCall /\ Holds(t) = block[t].on
      /\ \A c \in Holds(t) : ~pool[c].gone
      /\ pool' = Pool!Back(Holds(t), TRUE) /\ scope' = Pool!Scopes(t, Holds(t), "well")
      /\ block' = [block EXCEPT ![t] = Pool!Closed] /\ context' = Pool!Left(t)
      /\ UNCHANGED <<call, inserted>>
  BY DEF Pool!EndBlock, Holds
<1>2. call' = [call EXCEPT ![t] = Pool!NoCall] /\ Pool!Busy(t)
  BY <1>1, PoolTypes DEF PoolTyped, Pool!Busy
<1> QED
  BY <1>1, <1>2, EndKeeps

LEMMA RaiseKeeps ==
  ASSUME PoolInv, NEW t \in Threads, Pool!Raise(t)
  PROVE  PoolInv'
<1>1. /\ Pool!Busy(t) /\ pool' = Pool!Back(Holds(t), TRUE) /\ scope' = Pool!Scopes(t, Holds(t), "ill")
      /\ block' = [block EXCEPT ![t] = Pool!Closed] /\ call' = [call EXCEPT ![t] = Pool!NoCall]
      /\ context' = Pool!Left(t) /\ inserted' = inserted
  BY DEF Pool!Raise, Holds
<1> QED
  BY <1>1, EndKeeps

\* Every step of the pool keeps its invariant.
LEMMA PoolStepInv == PoolInv /\ [Pool!Next]_poolVars => PoolInv'
<1> SUFFICES ASSUME PoolInv, [Pool!Next]_poolVars PROVE PoolInv'
  OBVIOUS
<1>1. CASE UNCHANGED poolVars
  BY <1>1 DEF poolVars, PoolInv, PoolTyped, RowsAreTheHolders, HeldAlone, Whole, BlockIsOwn, RowIsTold, Holds,
     ScopeLasts, ScopeHasEnded, Pool!Busy
<1>2. ASSUME NEW c \in Connections, Pool!Drop(c) \/ Pool!Lie(c) PROVE PoolInv'
  BY <1>2, DropKeeps, LieKeeps
<1>3. ASSUME NEW t \in Threads, Pool!Thread(t) PROVE PoolInv'
<2>1. CASE Pool!OpenBlock(t)
  BY <2>1, OpenBlockKeeps
<2>2. CASE \E u \in Threads : Pool!HandOver(t, u)
  BY <2>2, HandOverKeeps
<2>3. CASE \E what \in {"read", "write", "insert", "session"} : Pool!Call(t, what)
  BY <2>3, CallKeeps
<2>4. CASE Pool!Take(t)
  BY <2>4, TakeKeeps
<2>5. CASE Pool!Run(t)
  BY <2>5, RunKeeps
<2>6. CASE Pool!Returned(t)
  BY <2>6, ReturnedKeeps
<2>7. CASE Pool!LastRowid(t)
  BY <2>7, LastRowidKeeps
<2>8. CASE Pool!EndCall(t)
  BY <2>8, EndCallKeeps
<2>9. CASE Pool!EndBlock(t)
  BY <2>9, EndBlockKeeps
<2>10. CASE Pool!Raise(t)
  BY <2>10, RaiseKeeps
<2> QED
  BY <1>3, <2>1, <2>2, <2>3, <2>4, <2>5, <2>6, <2>7, <2>8, <2>9, <2>10 DEF Pool!Thread
<1> QED
  BY <1>1, <1>2, <1>3 DEF Pool!Next

LEMMA PoolInvHolds == StoredSpec => [](which = "pool" => PoolInv)
<1>1. StoredInit => (which = "pool" => PoolInv)
  BY PoolInitInv DEF StoredInit
<1>2. (which = "pool" => PoolInv) /\ [StoredNext]_<<which, vars, journalVars, poolVars>> => (which = "pool" => PoolInv)'
<2> SUFFICES ASSUME which = "pool" => PoolInv, [StoredNext]_<<which, vars, journalVars, poolVars>>, which' = "pool"
             PROVE  PoolInv'
  OBVIOUS
<2>1. which = "pool" /\ [Pool!Next]_poolVars
  BY DEF StoredNext
<2> QED
  BY <2>1, PoolStepInv
<1> QED
  BY <1>1, <1>2, PTL DEF StoredSpec

\* A thread that waits for a connection holds none, so threads at the pool's limit never wait
\* for each other, however many there are (shared_session).
THEOREM NoneWaitsHolding == StoredSpec => []WaitsEmptyHanded
<1>1. (which = "pool" => PoolInv) => WaitsEmptyHanded
<2> SUFFICES ASSUME PoolInv, NEW t \in Threads, call[t] # Pool!NoCall, Pool!On(t) = {}
             PROVE  block[t].on = {}
  BY DEF WaitsEmptyHanded, Pool!WaitsEmptyHanded
<2> QED
  BY OnIsHeld DEF Holds
<1> QED
  BY <1>1, PoolInvHolds, PTL

\* A block or a call that ended well has kept every row it wrote and one that failed none, and
\* an insert is answered with its row's id, whatever other threads do on the pool meanwhile
\* and whichever connections are dropped (shared_session, execute_commit_returning).
THEOREM BlocksAndCallsAreWhole == StoredSpec => []CallsAreWhole
<1>1. (which = "pool" => PoolInv) => CallsAreWhole
<2> SUFFICES ASSUME PoolInv PROVE Pool!CallsAreWhole
  BY DEF CallsAreWhole
<2>1. ASSUME NEW t \in Threads
      PROVE  /\ scope[t].ended = "well" => scope[t].kept = scope[t].wrote
             /\ scope[t].ended = "ill" => scope[t].kept = {}
  BY DEF PoolInv, Whole, ScopeLasts, ScopeHasEnded
<2>2. ASSUME NEW t \in Threads, call[t].what = "insert", call[t].told # 0 PROVE call[t].told = call[t].row
<3>1. call[t] # Pool!NoCall /\ call[t] \in Call /\ RowIsTold(t)
  BY <2>2, PoolTypes DEF PoolInv, Whole, PoolTyped, Pool!NoCall
<3>2. call[t].done
  BY <2>2, <3>1 DEF RowIsTold
<3> QED
  BY <2>2, <3>1, <3>2 DEF RowIsTold
<2> QED
  BY <2>1, <2>2 DEF Pool!CallsAreWhole, Pool!ScopeIsWhole, Pool!IdIsTheRows
<1> QED
  BY <1>1, PoolInvHolds, PTL

-----------------------------------------------------------------------------
(* Journal: the inductive invariant                                        *)

Entry == [id : Nat, at : Nat]
Pass == [pc : {"idle"}] \cup [pc : {"read", "delete"}, before : Int, left : Int, ids : SUBSET Nat]

EntriesTyped ==
  /\ hour \in Nat /\ written \in Nat /\ journal \subseteq Entry
  /\ pass \in [Replicas -> Pass]
  /\ purge.pc = "delete" => purge.days \in Nat

\* Ids are given once, and moments are past ones.
EntriesAreTold ==
  /\ \A row \in journal : row.id <= written /\ row.at <= hour
  /\ \A a, b \in journal : a.id = b.id => a = b

\* What a sweep has read to delete is still the oldest when it does: what is written
\* meanwhile is newer, and what others delete only makes the table smaller.
ChunkIsTheOldest(r) ==
  pass[r].pc = "delete" =>
    /\ \A id \in pass[r].ids : id <= written
    /\ \A a, b \in journal : a.id \in pass[r].ids /\ b.id \notin pass[r].ids => a.at <= b.at

EntriesInv == EntriesTyped /\ EntriesAreTold /\ \A r \in Replicas : ChunkIsTheOldest(r)

LEMMA EntriesInitInv == Entries!Init => EntriesInv
  BY DEF Entries!Init, Entries!Idle, EntriesInv, EntriesTyped, Pass, EntriesAreTold, ChunkIsTheOldest

\* A step that writes no row and reads no chunk
LEMMA EntriesShrink ==
  ASSUME EntriesInv, journal' \subseteq journal, hour' \in Nat, hour <= hour', written' = written,
         pass' \in [Replicas -> Pass], \A r \in Replicas : pass'[r] = pass[r] \/ pass'[r].pc # "delete",
         purge'.pc = "delete" => purge'.days \in Nat
  PROVE  EntriesInv'
<1>1. EntriesTyped'
  BY DEF EntriesInv, EntriesTyped
<1>2. EntriesAreTold'
  BY DEF EntriesInv, EntriesTyped, EntriesAreTold, Entry
<1>3. ASSUME NEW r \in Replicas PROVE ChunkIsTheOldest(r)'
  BY DEF EntriesInv, ChunkIsTheOldest
<1> QED
  BY <1>1, <1>2, <1>3 DEF EntriesInv

LEMMA EntriesGrow ==
  ASSUME EntriesInv, Entries!Write, UNCHANGED <<hour, pass>>, purge'.pc = "delete" => purge'.days \in Nat
  PROVE  EntriesInv'
<1> DEFINE new == [id |-> written + 1, at |-> hour]
<1>1. written' = written + 1 /\ journal' = journal \cup {new}
  BY DEF Entries!Write
<1>2. new \in Entry /\ new.id = written + 1 /\ new.at = hour /\ EntriesTyped /\ EntriesAreTold
  BY DEF EntriesInv, EntriesTyped, Entry
<1> HIDE DEF new
<1>3. \A row \in journal : row.id \in Nat /\ row.at \in Nat /\ row.id <= written /\ row.at <= hour
  BY <1>2 DEF EntriesTyped, EntriesAreTold, Entry
<1>4. EntriesTyped'
  BY <1>1, <1>2 DEF EntriesTyped
<1>5. EntriesAreTold'
  BY <1>1, <1>2, <1>3 DEF EntriesTyped, EntriesAreTold
<1>6. ASSUME NEW r \in Replicas PROVE ChunkIsTheOldest(r)'
<2> SUFFICES ASSUME pass[r].pc = "delete" PROVE ChunkIsTheOldest(r)'
  BY DEF ChunkIsTheOldest
<2>1. ChunkIsTheOldest(r) /\ pass[r].ids \subseteq Nat
  BY <1>2 DEF EntriesInv, EntriesTyped, Pass
<2>2. new.id \notin pass[r].ids
  BY <1>2, <2>1 DEF ChunkIsTheOldest, EntriesTyped
<2>3. \A id \in pass[r].ids : id <= written'
  BY <1>1, <1>2, <2>1 DEF ChunkIsTheOldest, EntriesTyped
<2>4. ASSUME NEW a \in journal', NEW b \in journal', a.id \in pass[r].ids, b.id \notin pass[r].ids PROVE a.at <= b.at
<3>1. a \in journal
  BY <1>1, <2>2, <2>4
<3> QED
  BY <1>1, <1>2, <1>3, <2>1, <2>4, <3>1 DEF ChunkIsTheOldest
<2> QED
  BY <2>3, <2>4 DEF ChunkIsTheOldest
<1> QED
  BY <1>4, <1>5, <1>6 DEF EntriesInv

LEMMA ReadChunkKeeps ==
  ASSUME EntriesInv, NEW r \in Replicas, Entries!ReadChunk(r)
  PROVE  EntriesInv'
<1> DEFINE Ids(S) == {row.id : row \in S}
<1> DEFINE Chosen(S) ==
      IF S = {} THEN Entries!Idle ELSE [pass[r] EXCEPT !.pc = "delete", !.left = @ - 1, !.ids = Ids(S)]
<1>1. PICK chunk \in Entries!OldestOf(Entries!Older(pass[r].before)) : pass' = [pass EXCEPT ![r] = Chosen(chunk)]
  BY DEF Entries!ReadChunk
<1> HIDE DEF Chosen
<1>2. pass[r].pc = "read" /\ UNCHANGED <<hour, journal, written, purge>>
  BY DEF Entries!ReadChunk
<1>3. EntriesTyped /\ EntriesAreTold /\ pass[r].before \in Int /\ pass[r].left \in Int
  BY <1>2 DEF EntriesInv, EntriesTyped, Pass
<1>4. CASE chunk = {}
<2>1. pass'[r] = Entries!Idle /\ pass' \in [Replicas -> Pass] /\ \A u \in Replicas \ {r} : pass'[u] = pass[u]
  BY <1>1, <1>3, <1>4 DEF EntriesTyped, Pass, Entries!Idle, Chosen
<2> QED
  BY <1>2, <1>3, <2>1, EntriesShrink DEF EntriesTyped, Entries!Idle
<1>5. CASE chunk # {}
<2> DEFINE ids == Ids(chunk)
<2>1. /\ chunk \subseteq journal /\ \A a \in chunk : a.at < pass[r].before
      /\ \A a \in chunk, b \in Entries!Older(pass[r].before) \ chunk : a.at <= b.at
  BY DEF Entries!OldestOf, Entries!Older
<2>2. ids \subseteq Nat /\ \A id \in ids : id <= written
  BY <1>3, <2>1 DEF EntriesTyped, EntriesAreTold, Entry
<2>3. pass'[r] = [pass[r] EXCEPT !.pc = "delete", !.left = @ - 1, !.ids = ids]
      /\ \A u \in Replicas \ {r} : pass'[u] = pass[u]
<3> DEFINE chosen == [pass[r] EXCEPT !.pc = "delete", !.left = @ - 1, !.ids = ids]
<3>1. pass'[r] = Chosen(chunk) /\ \A u \in Replicas \ {r} : pass'[u] = pass[u]
  BY <1>1, <1>3 DEF EntriesTyped
<3> HIDE DEF Ids
<3> QED
  BY <1>5, <3>1 DEF Chosen
<2>4. ASSUME NEW a \in journal, NEW b \in journal, a.id \in ids, b.id \notin ids PROVE a.at <= b.at
<3>1. a \in chunk /\ b \notin chunk
  BY <1>3, <2>1, <2>4 DEF EntriesAreTold
<3>2. CASE b \in Entries!Older(pass[r].before)
  BY <2>1, <3>1, <3>2
<3>3. CASE b \notin Entries!Older(pass[r].before)
<4>1. ~(b.at < pass[r].before)
  BY <3>3 DEF Entries!Older
<4>2. a.at < pass[r].before
  BY <2>1, <3>1
<4>3. a.at \in Nat /\ b.at \in Nat
  BY <1>3 DEF EntriesTyped, Entry
<4> QED
  BY <1>3, <4>1, <4>2, <4>3
<3> QED
  BY <3>2, <3>3
<2> HIDE DEF ids
<2>5. pass'[r] \in Pass /\ pass'[r].ids = ids
<3>1. pass[r] \in [pc : {"read", "delete"}, before : Int, left : Int, ids : SUBSET Nat]
  BY <1>2, <1>3 DEF EntriesTyped, Pass
<3>2. pass[r].left - 1 \in Int
  BY <1>3
<3> QED
  BY <2>2, <2>3, <3>1, <3>2 DEF Pass
<2>6. EntriesTyped'
  BY <1>1, <1>2, <1>3, <2>5 DEF EntriesTyped
<2>7. ASSUME NEW u \in Replicas PROVE ChunkIsTheOldest(u)'
<3>1. CASE u = r
  BY <1>2, <2>2, <2>4, <2>5, <3>1 DEF ChunkIsTheOldest
<3>2. CASE u # r
  BY <1>2, <2>3, <3>2 DEF EntriesInv, ChunkIsTheOldest
<3> QED
  BY <3>1, <3>2
<2> QED
  BY <1>2, <1>3, <2>6, <2>7 DEF EntriesInv, EntriesAreTold
<1> QED
  BY <1>4, <1>5

\* Every step of a table keeps its invariant.
LEMMA EntriesStepInv == EntriesInv /\ [Entries!Next]_journalVars => EntriesInv'
<1> SUFFICES ASSUME EntriesInv, [Entries!Next]_journalVars PROVE EntriesInv'
  OBVIOUS
<1>1. EntriesTyped
  BY DEF EntriesInv
<1>2. CASE UNCHANGED journalVars
  BY <1>1, <1>2, EntriesShrink DEF journalVars, EntriesTyped
<1>3. CASE Entries!Tick \/ Entries!Open \/ Entries!Count \/ Entries!ReadPage
<2>1. UNCHANGED <<journal, written, pass, purge>> /\ (hour' = hour \/ hour' = hour + 1)
  BY <1>3 DEF Entries!Tick, Entries!Open, Entries!Count, Entries!ReadPage
<2> QED
  BY <1>1, <2>1, EntriesShrink DEF EntriesTyped
<1>4. CASE Entries!RecordEvent \/ Entries!RecordCall \/ Entries!ExternalCallEnds \/ Entries!Flush
<2>1. Entries!Write /\ UNCHANGED <<hour, pass, purge>>
  BY <1>4 DEF Entries!RecordEvent, Entries!RecordCall, Entries!ExternalCallEnds, Entries!Flush
<2> QED
  BY <1>1, <2>1, EntriesGrow DEF EntriesTyped
<1>5. CASE Entries!RecordPurge
<2>1. purge'.pc # "delete" /\ UNCHANGED <<hour, pass>> /\ (Entries!Write \/ UNCHANGED <<journal, written>>)
  BY <1>5 DEF Entries!RecordPurge, Entries!Idle
<2> QED
  BY <1>1, <2>1, EntriesGrow, EntriesShrink DEF EntriesTyped
<1>6. CASE Entries!DeleteCounted \/ \E days \in Asked : Entries!PurgeEvents(days)
<2>1. purge'.pc # "delete" /\ UNCHANGED <<hour, written, pass>> /\ journal' \subseteq journal
  BY <1>6 DEF Entries!DeleteCounted, Entries!PurgeEvents, Entries!DeleteOlder, Entries!Idle
<2> QED
  BY <1>1, <2>1, EntriesShrink DEF EntriesTyped
<1>7. CASE \E days \in Asked : Entries!CountOld(days)
<2>1. purge'.days \in Nat /\ UNCHANGED <<hour, journal, written, pass>>
  BY <1>7, StoredAssumption DEF Entries!CountOld, Entries!JournalAssumption
<2> QED
  BY <1>1, <2>1, EntriesShrink DEF EntriesTyped
<1>8. ASSUME NEW r \in Replicas, Entries!ReadChunk(r) PROVE EntriesInv'
  BY <1>8, ReadChunkKeeps
<1>9. ASSUME NEW r \in Replicas, Entries!BeginSweep(r) \/ Entries!DeleteChunk(r) \/ Entries!SweepEnds(r)
      PROVE  EntriesInv'
<2>1. /\ UNCHANGED <<hour, written, purge>> /\ journal' \subseteq journal
      /\ \E next \in Pass : next.pc # "delete" /\ pass' = [pass EXCEPT ![r] = next]
<3>1. Entries!Idle \in Pass /\ Entries!Idle.pc # "delete"
  BY DEF Pass, Entries!Idle
<3>2. CASE Entries!BeginSweep(r)
<4> DEFINE next == [pc |-> "read", before |-> Entries!Cutoff, left |-> Chunks, ids |-> {}]
<4>1. next \in Pass
  BY <1>1, StoredAssumption DEF Pass, EntriesTyped, Entries!Cutoff, Entries!JournalAssumption
<4> QED
  BY <3>2, <4>1 DEF Entries!BeginSweep
<3>3. CASE Entries!SweepEnds(r)
  BY <3>1, <3>3 DEF Entries!SweepEnds
<3>4. CASE Entries!DeleteChunk(r)
<4> DEFINE next == [pass[r] EXCEPT !.pc = "read", !.ids = {}]
<4>1. pass[r] \in [pc : {"read", "delete"}, before : Int, left : Int, ids : SUBSET Nat]
  BY <1>1, <3>4 DEF Entries!DeleteChunk, EntriesTyped, Pass
<4>2. next \in Pass /\ next.pc = "read"
  BY <4>1 DEF Pass
<4>3. UNCHANGED <<hour, written, purge>> /\ journal' \subseteq journal
  BY <3>4 DEF Entries!DeleteChunk
<4>4. pass' = [pass EXCEPT ![r] = Entries!Idle] \/ pass' = [pass EXCEPT ![r] = next]
  BY <3>4 DEF Entries!DeleteChunk
<4> QED
  BY <3>1, <4>2, <4>3, <4>4
<3> QED
  BY <1>9, <3>2, <3>3, <3>4 DEF Entries!BeginSweep, Entries!SweepEnds
<2> QED
  BY <1>1, <2>1, EntriesShrink DEF EntriesTyped
<1> QED
  BY <1>2, <1>3, <1>4, <1>5, <1>6, <1>7, <1>8, <1>9 DEF Entries!Next

LEMMA EntriesInvHolds == StoredSpec => [](which = "journal" => EntriesInv)
<1>1. StoredInit => (which = "journal" => EntriesInv)
  BY EntriesInitInv DEF StoredInit
<1>2. (which = "journal" => EntriesInv) /\ [StoredNext]_<<which, vars, journalVars, poolVars>>
        => (which = "journal" => EntriesInv)'
<2> SUFFICES ASSUME which = "journal" => EntriesInv, [StoredNext]_<<which, vars, journalVars, poolVars>>,
                    which' = "journal"
             PROVE  EntriesInv'
  OBVIOUS
<2>1. which = "journal" /\ [Entries!Next]_journalVars
  BY DEF StoredNext
<2> QED
  BY <2>1, EntriesStepInv
<1> QED
  BY <1>1, <1>2, PTL DEF StoredSpec

\* What a statement that deletes the rows older than a moment leaves
LEMMA OlderGoes ==
  ASSUME EntriesInv, NEW before \in Int, journal' = journal \ Entries!Older(before)
  PROVE  \A gone \in journal \ journal', kept \in journal' : gone.at <= kept.at
<1>1. \A row \in journal : row.at \in Nat
  BY DEF EntriesInv, EntriesTyped, Entry
<1>2. ASSUME NEW gone \in journal \ journal', NEW kept \in journal' PROVE gone.at <= kept.at
<2>1. gone.at < before /\ ~(kept.at < before) /\ kept \in journal
  BY DEF Entries!Older
<2> QED
  BY <1>1, <2>1
<1> QED
  BY <1>2

\* Whatever removes rows leaves none that is older than one that went.
LEMMA OldestGo ==
  ASSUME EntriesInv, [Entries!Next]_journalVars
  PROVE  \A gone \in journal \ journal', kept \in journal' : gone.at <= kept.at
<1> DEFINE Newest == \A gone \in journal \ journal', kept \in journal' : gone.at <= kept.at
<1> SUFFICES ASSUME Entries!Next, ~(journal \subseteq journal') PROVE Newest
  BY DEF journalVars
<1>1. hour \in Nat /\ (purge.pc = "delete" => purge.days \in Nat)
  BY DEF EntriesInv, EntriesTyped
<1>2. PICK before \in Int :
        journal' = journal \ Entries!Older(before) \/ \E r \in Replicas : Entries!DeleteChunk(r)
<2>1. CASE Entries!DeleteCounted
<3>1. journal' = journal \ Entries!Older(hour - purge.days) /\ hour - purge.days \in Int
  BY <1>1, <2>1 DEF Entries!DeleteCounted, Entries!DeleteOlder
<3> QED
  BY <3>1
<2>2. CASE \E days \in Asked : Entries!PurgeEvents(days)
<3>1. PICK days \in Nat : journal' = journal \ Entries!Older(hour - days)
  BY <2>2, StoredAssumption DEF Entries!PurgeEvents, Entries!DeleteOlder, Entries!JournalAssumption
<3> QED
  BY <1>1, <3>1
<2>3. CASE \E r \in Replicas : Entries!DeleteChunk(r)
  BY <2>3
<2>4. CASE Entries!RecordPurge
  BY <2>4 DEF Entries!RecordPurge, Entries!Write
<2> QED
  BY <2>1, <2>2, <2>3, <2>4 DEF Entries!Next, Entries!Tick, Entries!RecordEvent, Entries!RecordCall,
     Entries!ExternalCallEnds, Entries!Flush, Entries!Write, Entries!Open, Entries!Count, Entries!ReadPage,
     Entries!BeginSweep, Entries!ReadChunk, Entries!SweepEnds, Entries!CountOld
<1>3. CASE journal' = journal \ Entries!Older(before)
  BY <1>3, OlderGoes
<1>4. ASSUME NEW r \in Replicas, Entries!DeleteChunk(r) PROVE Newest
<2>1. pass[r].pc = "delete" /\ journal' = {row \in journal : row.id \notin pass[r].ids}
  BY <1>4 DEF Entries!DeleteChunk
<2> QED
  BY <2>1 DEF EntriesInv, ChunkIsTheOldest
<1> QED
  BY <1>2, <1>3, <1>4

\* Whatever removes rows of the event log, the audit or the log of outgoing calls, and
\* however sweeps overlap, are cut short or are overtaken by a purge, no row is left that is
\* older than one that went (purge_older_than, delete_old_events).
THEOREM OldestGoFirst == StoredSpec => WhatIsLeftIsTheNewest
<1> DEFINE Newest == \A gone \in journal \ journal', kept \in journal' : gone.at <= kept.at
<1>1. ASSUME which = "journal" => EntriesInv, [StoredNext]_<<which, vars, journalVars, poolVars>>
      PROVE  [Newest]_<<table, hour, journal, written, shared, pass, purge, reader>>
  BY <1>1, OldestGo DEF StoredNext, journalVars
<1> QED
  BY <1>1, EntriesInvHolds, PTL DEF StoredSpec, WhatIsLeftIsTheNewest, Entries!WhatIsLeftIsTheNewest, Entries!vars

-----------------------------------------------------------------------------
(* Journal: turning the pages                                              *)

Newer(w) == {v \in journal : v.at > w.at}

Listed == [pc : {"count", "read", "done"}, page : Nat \ {0}, total : Nat, seen : SUBSET Nat,
           there : SUBSET Nat, raced : BOOLEAN]

\* Two rows of one moment were there together when the later was written.
SharedAreTold == \A v, w \in journal : v # w /\ v.at = w.at => w.at \in shared

ReaderTyped ==
  /\ IsFiniteSet(journal)
  /\ reader.pc = "new" \/ reader \in Listed
  /\ reader \in Listed => \A id \in reader.there : id <= written

\* The rows a reader has still to see, and the pages it has read.
Missing == {w \in journal : w.id \in reader.there /\ w.id \notin reader.seen /\ w.at \notin shared}
Turned == IF reader.pc = "count" /\ table # "app_events" THEN reader.page ELSE reader.page - 1

\* A row that is not seen yet lies behind the pages that were read.
MissingAreBehind ==
  reader \in Listed => \A w \in Missing :
    /\ reader.pc # "done" => Cardinality(Newer(w)) >= Turned * PageSize
    /\ reader.pc = "done" => reader.raced

CountStands ==
  reader.pc = "read" /\ table = "app_events" /\ ~reader.raced => Cardinality(journal) <= reader.total

ReaderInv == ReaderTyped /\ SharedAreTold /\ MissingAreBehind /\ CountStands

LEMMA PageSizeIsPositive == PageSize \in Nat \ {0}
  BY StoredAssumption DEF Entries!JournalAssumption

LEMMA SameCardinality == \A S : Entries!Cardinality(S) = Cardinality(S)
  BY DEF Entries!Cardinality, Cardinality

LEMMA NewerAreFewer ==
  ASSUME EntriesInv, IsFiniteSet(journal), NEW w \in journal
  PROVE  /\ IsFiniteSet(Newer(w)) /\ Cardinality(Newer(w)) \in Nat
         /\ Cardinality(journal) \in Nat /\ Cardinality(Newer(w)) + 1 <= Cardinality(journal)
<1>1. Newer(w) \in SUBSET journal
  BY DEF Newer
<1>2. IsFiniteSet(Newer(w)) /\ Cardinality(Newer(w)) \in Nat /\ Cardinality(journal) \in Nat
  BY <1>1, FS_Subset, FS_CardinalityType
<1>3. w \notin Newer(w)
  BY DEF Newer, EntriesInv, EntriesTyped, Entry
<1>4. Cardinality(Newer(w) \cup {w}) = Cardinality(Newer(w)) + 1
  BY <1>2, <1>3, FS_AddElement
<1>5. Newer(w) \cup {w} \in SUBSET journal
  BY <1>1
<1>6. Cardinality(Newer(w) \cup {w}) <= Cardinality(journal)
  BY <1>5, FS_Subset
<1> QED
  BY <1>2, <1>4, <1>6

\* A listing has every row in it.
LEMMA ListingHasAll ==
  ASSUME IsFiniteSet(journal), NEW listing \in Entries!Listings(journal), NEW v \in journal
  PROVE  \E i \in 1 .. Cardinality(journal) : listing[i] = v
<1> DEFINE n == Cardinality(journal)
<1>1. n \in Nat
  BY FS_CardinalityType
<1>2. /\ listing \in [1 .. n -> journal]
      /\ \A i, j \in 1 .. n : i # j => listing[i] # listing[j]
  BY SameCardinality DEF Entries!Listings, Entries!SetToSeqs
<1> SUFFICES ASSUME \A i \in 1 .. n : listing[i] # v
             PROVE  FALSE
  OBVIOUS
<1>3. listing \in [1 .. n -> journal \ {v}]
  BY <1>2
<1>4. IsFiniteSet(journal \ {v}) /\ Cardinality(journal \ {v}) = n - 1
  BY FS_RemoveElement
<1>5. IsFiniteSet(1 .. n) /\ Cardinality(1 .. n) = n
  BY <1>1, FS_Interval
<1> HIDE DEF n
<1>6. Cardinality(journal \ {v}) < Cardinality(1 .. n)
  BY <1>1, <1>4, <1>5
<1>7. \E x, y \in 1 .. n : x # y /\ listing[x] = listing[y]
  <2> DEFINE S == 1 .. n
             T == journal \ {v}
  <2>1. /\ IsFiniteSet(S) /\ IsFiniteSet(T) /\ Cardinality(T) < Cardinality(S)
        /\ listing \in [S -> T]
    BY <1>3, <1>4, <1>5, <1>6
  <2> HIDE DEF S, T
  <2>2. \E x, y \in S : x # y /\ listing[x] = listing[y]
    BY ONLY <2>1, FS_PigeonHole
  <2>3. QED
    BY <2>2 DEF S
<1> QED
  BY <1>2, <1>7

\* What comes before a row in a listing is what is newer, if nothing shares its moment.
LEMMA PlaceOf ==
  ASSUME EntriesInv, IsFiniteSet(journal), SharedAreTold,
         NEW listing \in Entries!Listings(journal), NEW w \in journal, w.at \notin shared,
         NEW i \in 1 .. Cardinality(journal), listing[i] = w
  PROVE  Cardinality(Newer(w)) = i - 1
<1> DEFINE n == Cardinality(journal)
           before == [j \in 1 .. (i - 1) |-> listing[j]]
<1>1. n \in Nat
  BY FS_CardinalityType
<1>2. /\ listing \in [1 .. n -> journal]
      /\ \A j, k \in 1 .. n : j # k => listing[j] # listing[k]
      /\ \A j, k \in 1 .. n : j < k => listing[j].at >= listing[k].at
  BY SameCardinality DEF Entries!Listings, Entries!SetToSeqs
<1>3. \A v \in journal : v.at \in Nat
  BY DEF EntriesInv, EntriesTyped, Entry
<1>4. ASSUME NEW j \in 1 .. (i - 1)
      PROVE  listing[j] \in Newer(w)
  <2>1. j \in 1 .. n /\ j # i /\ j < i
    BY <1>1
  <2>2. listing[j] \in journal /\ listing[j] # w /\ listing[j].at >= w.at
    BY <1>2, <2>1
  <2>3. listing[j].at # w.at
    BY <2>2 DEF SharedAreTold
  <2>4. QED
    BY <1>3, <2>2, <2>3 DEF Newer
<1>5. ASSUME NEW v \in Newer(w)
      PROVE  \E j \in 1 .. (i - 1) : listing[j] = v
  <2>1. v \in journal /\ v.at > w.at
    BY DEF Newer
  <2>2. PICK j \in 1 .. n : listing[j] = v
    BY <2>1, ListingHasAll
  <2>3. j < i
    BY <1>1, <1>2, <1>3, <2>1, <2>2
  <2>4. QED
    BY <1>1, <2>2, <2>3
<1>6. before \in [1 .. (i - 1) -> Newer(w)]
  BY <1>4
<1>7. \A j, k \in 1 .. (i - 1) : before[j] = before[k] => j = k
  BY <1>1, <1>2
<1>8. \A v \in Newer(w) : \E j \in 1 .. (i - 1) : before[j] = v
  BY <1>5
<1>9. before \in Bijection(1 .. (i - 1), Newer(w))
  BY <1>6, <1>7, <1>8, Zenon DEF Bijection, Injection, Surjection, IsInjective
<1>10. i - 1 \in Nat
  BY <1>1
<1> QED
  BY <1>9, <1>10, FS_CountingElements DEF ExistsBijection

\* A page shows a row that lies behind the pages before it, or the row lies behind it too.
LEMMA PageShows ==
  ASSUME EntriesInv, IsFiniteSet(journal), SharedAreTold,
         NEW listing \in Entries!Listings(journal), NEW w \in journal, w.at \notin shared,
         NEW p \in Nat \ {0}, Cardinality(Newer(w)) >= (p - 1) * PageSize
  PROVE  w \in Entries!PageOf(listing, p) \/ Cardinality(Newer(w)) >= p * PageSize
<1>1. PICK i \in 1 .. Cardinality(journal) : listing[i] = w
  BY ListingHasAll
<1>2. Cardinality(Newer(w)) = i - 1
  BY <1>1, PlaceOf
<1>3. i \in DOMAIN listing /\ i \in Int
  BY SameCardinality, FS_CardinalityType DEF Entries!Listings, Entries!SetToSeqs
<1>4. (p - 1) * PageSize \in Int /\ p * PageSize \in Int
  BY PageSizeIsPositive
<1>5. i > (p - 1) * PageSize
  BY <1>2, <1>3, <1>4
<1>6. CASE i <= p * PageSize
  BY <1>1, <1>3, <1>5, <1>6 DEF Entries!PageOf
<1>7. CASE i > p * PageSize
  BY <1>2, <1>3, <1>4, <1>7
<1> QED
  BY <1>3, <1>4, <1>6, <1>7

\* What a step does to the table and its reader.
LEMMA JournalMoves ==
  ASSUME [Entries!Next]_journalVars
  PROVE  /\ table' = table
         /\ \/ Entries!Open \/ Entries!Count \/ Entries!ReadPage
            \/ Entries!Write
            \/ journal' \subseteq journal /\ UNCHANGED <<written, shared, reader>>
<1>1. CASE UNCHANGED journalVars
  BY <1>1 DEF journalVars
<1>2. CASE Entries!Open \/ Entries!Count \/ Entries!ReadPage
  BY <1>2 DEF Entries!Open, Entries!Count, Entries!ReadPage
<1>3. CASE Entries!RecordEvent \/ Entries!RecordCall \/ Entries!ExternalCallEnds \/ Entries!Flush
  BY <1>3 DEF Entries!RecordEvent, Entries!RecordCall, Entries!ExternalCallEnds, Entries!Flush
<1>4. CASE Entries!Tick \/ Entries!RecordPurge \/ Entries!DeleteCounted
  BY <1>4 DEF Entries!Tick, Entries!RecordPurge, Entries!DeleteCounted, Entries!DeleteOlder
<1>5. ASSUME NEW r \in Replicas,
             Entries!BeginSweep(r) \/ Entries!ReadChunk(r) \/ Entries!DeleteChunk(r) \/ Entries!SweepEnds(r)
      PROVE  journal' \subseteq journal /\ UNCHANGED <<table, written, shared, reader>>
  BY <1>5 DEF Entries!BeginSweep, Entries!ReadChunk, Entries!DeleteChunk, Entries!SweepEnds
<1>6. ASSUME NEW days \in Asked, Entries!PurgeEvents(days) \/ Entries!CountOld(days)
      PROVE  journal' \subseteq journal /\ UNCHANGED <<table, written, shared, reader>>
  BY <1>6 DEF Entries!PurgeEvents, Entries!CountOld, Entries!DeleteOlder
<1> QED
  BY <1>1, <1>2, <1>3, <1>4, <1>5, <1>6 DEF Entries!Next

\* A row that stays does not come nearer to the first page.
LEMMA NewerGrow ==
  ASSUME EntriesInv, IsFiniteSet(journal), IsFiniteSet(journal'), [Entries!Next]_journalVars,
         NEW w \in journal, w \in journal'
  PROVE  Cardinality(Newer(w)) <= Cardinality(Newer(w)') /\ Cardinality(Newer(w)') \in Nat
<1>1. ASSUME NEW v \in Newer(w)
      PROVE  v \in Newer(w)'
  <2>1. v \in journal /\ v.at > w.at /\ v.at \in Nat /\ w.at \in Nat
    BY DEF Newer, EntriesInv, EntriesTyped, Entry
  <2>2. v \in journal'
    BY <2>1, OldestGo
  <2>3. QED
    BY <2>1, <2>2 DEF Newer
<1>2. Newer(w)' \in SUBSET journal'
  BY DEF Newer
<1>3. IsFiniteSet(Newer(w)')
  BY <1>2, FS_Subset
<1>4. Newer(w) \in SUBSET (Newer(w)')
  BY <1>1
<1> QED
  BY <1>3, <1>4, FS_Subset, FS_CardinalityType

\* What does not turn a page, and writes nothing unless it says so.
LEMMA ReaderRests ==
  ASSUME EntriesInv, ReaderInv, [Entries!Next]_journalVars, table' = table,
         \/ journal' \subseteq journal /\ UNCHANGED <<written, shared, reader>>
         \/ Entries!Write
  PROVE  ReaderInv'
<1> DEFINE new == [id |-> written + 1, at |-> hour]
<1>1. /\ reader' = reader \/ (reader \in Listed /\ reader' = [reader EXCEPT !.raced = TRUE])
      /\ reader'.pc = "read" /\ table = "app_events" /\ ~reader'.raced => journal' \subseteq journal
  BY DEF Entries!Write, Entries!Counted, ReaderInv, ReaderTyped, Listed
<1>2. /\ journal' \subseteq journal \cup {new} /\ shared \subseteq shared'
      /\ written' \in {written, written + 1} /\ written \in Nat
  BY DEF Entries!Write, EntriesInv, EntriesTyped
<1>3. IsFiniteSet(journal')
  <2>1. IsFiniteSet(journal \cup {new})
    BY FS_AddElement DEF ReaderInv, ReaderTyped
  <2>2. journal' \in SUBSET (journal \cup {new})
    BY <1>2
  <2>3. QED
    BY <2>1, <2>2, FS_Subset
<1>4. /\ reader'.pc = "new" \/ reader' \in Listed
      /\ reader' \in Listed => reader \in Listed /\ reader'.pc = reader.pc /\ reader'.page = reader.page
                             /\ reader'.there = reader.there /\ reader'.seen = reader.seen
                             /\ reader'.total = reader.total
                             /\ (reader.raced => reader'.raced)
  BY <1>1 DEF ReaderInv, ReaderTyped, Listed
<1>5. ReaderTyped'
  BY <1>2, <1>3, <1>4 DEF ReaderTyped, ReaderInv, Listed
<1>6. SharedAreTold'
  <2> SUFFICES ASSUME NEW v \in journal', NEW w \in journal', v # w, v.at = w.at
               PROVE  w.at \in shared'
    BY DEF SharedAreTold
  <2>1. CASE v \in journal /\ w \in journal
    BY <1>2, <2>1 DEF ReaderInv, SharedAreTold
  <2>2. CASE ~(v \in journal /\ w \in journal)
    <3>1. Entries!Write /\ w.at = hour /\ \E row \in journal : row.at = hour
      BY <1>2, <2>2
    <3>2. QED
      BY <3>1 DEF Entries!Write
  <2>3. QED
    BY <2>1, <2>2
<1>7. ASSUME reader' \in Listed, NEW w \in Missing'
      PROVE  w \in Missing /\ Cardinality(Newer(w)) <= Cardinality(Newer(w)')
             /\ Cardinality(Newer(w)) \in Nat /\ Cardinality(Newer(w)') \in Nat
  <2>1. w \in journal' /\ w.id \in reader.there /\ w.id \notin reader.seen /\ w.at \notin shared
    BY <1>2, <1>4, <1>7 DEF Missing
  <2>2. w.id <= written /\ w.id \in Nat
    BY <1>4, <1>7, <2>1 DEF ReaderInv, ReaderTyped, Listed
  <2>3. w # new
    BY <1>2, <2>2
  <2>4. w \in journal
    BY <1>2, <2>1, <2>3
  <2>5. QED
    BY <1>3, <2>1, <2>4, NewerGrow, NewerAreFewer DEF Missing, ReaderInv, ReaderTyped
<1>8. MissingAreBehind'
  <2> SUFFICES ASSUME reader' \in Listed, NEW w \in Missing'
               PROVE  /\ reader'.pc # "done" => Cardinality(Newer(w)') >= Turned' * PageSize
                      /\ reader'.pc = "done" => reader'.raced
    BY DEF MissingAreBehind
  <2>1. Turned' = Turned /\ Turned \in Int /\ Turned * PageSize \in Int
    BY <1>4, PageSizeIsPositive DEF Turned, Listed
  <2>2. /\ reader.pc # "done" => Cardinality(Newer(w)) >= Turned * PageSize
        /\ reader.pc = "done" => reader.raced
    BY <1>4, <1>7 DEF ReaderInv, MissingAreBehind
  <2>3. QED
    BY <1>4, <1>7, <2>1, <2>2
<1>9. CountStands'
  <2> SUFFICES ASSUME reader'.pc = "read", table = "app_events", ~reader'.raced
               PROVE  Cardinality(journal') <= reader'.total
    BY DEF CountStands
  <2>1. reader' \in Listed /\ reader.pc = "read" /\ ~reader.raced /\ reader'.total = reader.total
        /\ reader.total \in Nat
    BY <1>4 DEF Listed
  <2>2. Cardinality(journal) <= reader.total
    BY <2>1 DEF ReaderInv, CountStands
  <2>3. journal' \in SUBSET journal
    BY <1>1
  <2>4. /\ Cardinality(journal') <= Cardinality(journal)
        /\ Cardinality(journal) \in Nat /\ Cardinality(journal') \in Nat
    BY <1>3, <2>3, FS_Subset, FS_CardinalityType DEF ReaderInv, ReaderTyped
  <2>5. QED
    BY <2>1, <2>2, <2>4
<1> QED
  BY <1>5, <1>6, <1>8, <1>9 DEF ReaderInv

\* What leaves the table and its past alone.
LEMMA ReaderTurns ==
  ASSUME EntriesInv, ReaderInv, UNCHANGED <<table, journal, written, shared>>,
         reader' \in Listed, \A id \in reader'.there : id <= written,
         MissingAreBehind', CountStands'
  PROVE  ReaderInv'
  BY DEF ReaderInv, ReaderTyped, SharedAreTold

LEMMA OpenKeeps == EntriesInv /\ ReaderInv /\ Entries!Open => ReaderInv'
<1> SUFFICES ASSUME EntriesInv, ReaderInv, Entries!Open
             PROVE  ReaderInv'
  OBVIOUS
<1> DEFINE there == {row.id : row \in journal}
<1>1. /\ UNCHANGED <<table, journal, written, shared>>
      /\ reader' = [pc |-> IF table = "app_events" THEN "count" ELSE "read", page |-> 1,
                    total |-> 0, seen |-> {}, there |-> there, raced |-> FALSE]
  BY DEF Entries!Open
<1>2. there \in SUBSET Nat /\ \A id \in there : id <= written
  BY DEF EntriesInv, EntriesTyped, EntriesAreTold, Entry
<1> HIDE DEF there
<1>3. reader' \in Listed /\ reader'.there = there /\ reader'.page = 1
      /\ (reader'.pc = IF table = "app_events" THEN "count" ELSE "read")
  BY <1>1, <1>2 DEF Listed
<1>4. Turned' = 0
  BY <1>1, <1>3 DEF Turned
<1>5. MissingAreBehind'
  <2> SUFFICES ASSUME NEW w \in Missing'
               PROVE  Cardinality(Newer(w)') >= 0 * PageSize
    BY <1>3, <1>4 DEF MissingAreBehind
  <2>1. w \in journal /\ Newer(w)' = Newer(w)
    BY <1>1 DEF Missing, Newer
  <2>2. Cardinality(Newer(w)) \in Nat
    BY <2>1, NewerAreFewer DEF ReaderInv, ReaderTyped
  <2>3. QED
    BY <2>1, <2>2, PageSizeIsPositive
<1>6. CountStands'
  BY <1>1, <1>3 DEF CountStands
<1> QED
  BY <1>1, <1>2, <1>3, <1>5, <1>6, ReaderTurns

\* With as many rows as there are on the pages that were read, none is behind them.
LEMMA NoneIsBehindAll ==
  ASSUME EntriesInv, IsFiniteSet(journal), NEW w \in journal, NEW p \in Nat, NEW total \in Nat,
         Cardinality(Newer(w)) >= p * PageSize, Cardinality(journal) <= total
  PROVE  p * PageSize < total
<1>1. /\ Cardinality(Newer(w)) \in Nat /\ Cardinality(journal) \in Nat
      /\ Cardinality(Newer(w)) + 1 <= Cardinality(journal)
  BY NewerAreFewer
<1>2. p * PageSize \in Int
  BY PageSizeIsPositive
<1> QED
  BY <1>1, <1>2

LEMMA CountKeeps == EntriesInv /\ ReaderInv /\ Entries!Count => ReaderInv'
<1> SUFFICES ASSUME EntriesInv, ReaderInv, Entries!Count
             PROVE  ReaderInv'
  OBVIOUS
<1> DEFINE total == Cardinality(journal)
           counted == [reader EXCEPT !.total = total]
           p == reader.page
<1>1. /\ UNCHANGED <<table, journal, written, shared>> /\ reader.pc = "count" /\ reader \in Listed
      /\ IsFiniteSet(journal)
  BY DEF Entries!Count, ReaderInv, ReaderTyped
<1>2. total \in Nat /\ p \in Nat \ {0} /\ reader.there \subseteq Nat /\ reader.seen \subseteq Nat
  BY <1>1, FS_CardinalityType DEF Listed
<1>3. reader' = IF table = "app_events" THEN [counted EXCEPT !.pc = "read"] ELSE Entries!Turned(counted)
  BY SameCardinality DEF Entries!Count
<1>4. /\ counted \in Listed /\ counted.total = total /\ counted.page = p /\ counted.pc = "count"
      /\ counted.there = reader.there /\ counted.seen = reader.seen /\ counted.raced = reader.raced
  BY <1>1, <1>2 DEF Listed
<1> HIDE DEF counted, total
<1>5. ASSUME NEW w \in Missing
      PROVE  w \in journal /\ Cardinality(Newer(w)) >= Turned * PageSize
  BY <1>1, <1>5 DEF Missing, ReaderInv, MissingAreBehind
<1>6. \A w : Newer(w)' = Newer(w)
  BY <1>1 DEF Newer
<1>7. CASE table = "app_events"
  <2>1. /\ reader' \in Listed /\ reader'.pc = "read" /\ reader'.page = p /\ reader'.total = total
        /\ reader'.there = reader.there /\ reader'.seen = reader.seen
    BY <1>3, <1>4, <1>7 DEF Listed
  <2>2. Missing' = Missing /\ Turned' = Turned
    BY <1>1, <1>7, <2>1 DEF Missing, Turned
  <2>3. MissingAreBehind'
    BY <1>5, <1>6, <2>1, <2>2 DEF MissingAreBehind
  <2>4. CountStands'
    BY <1>1, <1>2, <2>1 DEF CountStands, total
  <2>5. QED
    BY <1>1, <2>1, <2>3, <2>4, ReaderTurns DEF ReaderInv, ReaderTyped
<1>8. CASE table # "app_events"
  <2>1. Turned = p
    BY <1>1, <1>8 DEF Turned
  <2>2. reader' = IF p * PageSize < total
                  THEN [counted EXCEPT !.page = p + 1, !.pc = "read"]
                  ELSE [counted EXCEPT !.pc = "done"]
    BY <1>3, <1>4, <1>8 DEF Entries!Turned
  <2>3. p + 1 \in Nat \ {0} /\ p + 1 - 1 = p
    BY <1>2
  <2> HIDE DEF p
  <2>4. /\ reader' \in Listed /\ reader'.there = reader.there /\ reader'.seen = reader.seen
        /\ \/ reader'.pc = "read" /\ reader'.page = p + 1
           \/ reader'.pc = "done" /\ ~(p * PageSize < total)
    BY <1>4, <2>2, <2>3 DEF Listed
  <2>5. Missing' = Missing
    BY <1>1, <2>4 DEF Missing
  <2>6. CASE reader'.pc = "read"
    <3>1. Turned' = p
      BY <1>2, <2>3, <2>4, <2>6 DEF Turned
    <3>2. MissingAreBehind' /\ CountStands'
      BY <1>1, <1>5, <1>6, <1>8, <2>1, <2>5, <2>6, <3>1 DEF MissingAreBehind, CountStands
    <3>3. QED
      BY <1>1, <2>4, <3>2, ReaderTurns DEF ReaderInv, ReaderTyped
  <2>7. CASE reader'.pc = "done"
    <3>1. Missing = {}
      <4> SUFFICES ASSUME NEW w \in Missing
                   PROVE  FALSE
        OBVIOUS
      <4>1. p * PageSize < total
        BY <1>1, <1>2, <1>5, <2>1, NoneIsBehindAll DEF total, p
      <4>2. QED
        BY <2>4, <2>7, <4>1
    <3>2. MissingAreBehind' /\ CountStands'
      BY <2>5, <2>7, <3>1 DEF MissingAreBehind, CountStands
    <3>3. QED
      BY <1>1, <2>4, <3>2, ReaderTurns DEF ReaderInv, ReaderTyped
  <2>8. QED
    BY <2>4, <2>6, <2>7
<1> QED
  BY <1>7, <1>8

LEMMA ReadPageKeeps == EntriesInv /\ ReaderInv /\ Entries!ReadPage => ReaderInv'
<1> SUFFICES ASSUME EntriesInv, ReaderInv, Entries!ReadPage
             PROVE  ReaderInv'
  OBVIOUS
<1>1. /\ UNCHANGED <<table, journal, written, shared>> /\ reader.pc = "read" /\ reader \in Listed
      /\ IsFiniteSet(journal) /\ SharedAreTold
  BY DEF Entries!ReadPage, ReaderInv, ReaderTyped
<1> DEFINE p == reader.page
<1>2. p \in Nat \ {0} /\ reader.there \subseteq Nat /\ reader.seen \subseteq Nat /\ reader.total \in Nat
  BY <1>1 DEF Listed
<1>3. PICK listing \in Entries!Listings(journal) :
        LET read == [reader EXCEPT !.seen = @ \cup {row.id : row \in Entries!PageOf(listing, p)}]
        IN reader' = IF table = "app_events" THEN Entries!Turned(read) ELSE [read EXCEPT !.pc = "count"]
  BY DEF Entries!ReadPage
<1> DEFINE shown == {row.id : row \in Entries!PageOf(listing, p)}
           read == [reader EXCEPT !.seen = reader.seen \cup shown]
<1>4. reader' = IF table = "app_events" THEN Entries!Turned(read) ELSE [read EXCEPT !.pc = "count"]
  BY <1>3
<1>5. shown \subseteq Nat
  <2>1. Entries!PageOf(listing, p) \subseteq journal
    <3>1. listing \in [1 .. Cardinality(journal) -> journal]
      BY SameCardinality DEF Entries!Listings, Entries!SetToSeqs
    <3>2. QED
      BY <3>1 DEF Entries!PageOf
  <2>2. QED
    BY <2>1 DEF EntriesInv, EntriesTyped, Entry
<1>6. \A row \in Entries!PageOf(listing, p) : row.id \in shown
  OBVIOUS
<1> HIDE DEF shown
<1>7. /\ read \in Listed /\ read.total = reader.total /\ read.page = p /\ read.pc = "read"
      /\ read.there = reader.there /\ read.seen = reader.seen \cup shown /\ read.raced = reader.raced
  BY <1>1, <1>2, <1>5 DEF Listed
<1> HIDE DEF read
\* What the page did not show lies behind it.
<1>8. ASSUME NEW w \in Missing, w.id \notin shown
      PROVE  w \in journal /\ Cardinality(Newer(w)) >= p * PageSize
  <2>1. w \in journal /\ w.at \notin shared /\ Cardinality(Newer(w)) >= (p - 1) * PageSize
    BY <1>1, <1>8 DEF Missing, ReaderInv, MissingAreBehind, Turned
  <2>2. w \notin Entries!PageOf(listing, p)
    BY <1>6, <1>8
  <2>3. QED
    BY <1>1, <1>2, <2>1, <2>2, PageShows
<1>9. \A w : Newer(w)' = Newer(w)
  BY <1>1 DEF Newer
<1> HIDE DEF p
<1>10. p + 1 \in Nat \ {0} /\ p + 1 - 1 = p
  BY <1>2
<1>11. /\ reader' \in Listed /\ reader'.there = reader.there /\ reader'.seen = reader.seen \cup shown
       /\ reader'.raced = reader.raced
       /\ \/ table = "app_events" /\ reader'.pc = "count" /\ reader'.page = p + 1
          \/ table = "app_events" /\ reader'.pc = "done" /\ ~(p * PageSize < reader.total)
          \/ table # "app_events" /\ reader'.pc = "count" /\ reader'.page = p
  BY <1>4, <1>7, <1>10 DEF Listed, Entries!Turned
<1>12. \A w \in Missing' : w \in Missing /\ w.id \notin shown
  BY <1>1, <1>11 DEF Missing
<1>13. CountStands'
  BY <1>11 DEF CountStands
<1>14. MissingAreBehind'
  <2> SUFFICES ASSUME NEW w \in Missing'
               PROVE  /\ reader'.pc # "done" => Cardinality(Newer(w)) >= Turned' * PageSize
                      /\ reader'.pc = "done" => reader'.raced
    BY <1>9 DEF MissingAreBehind
  <2>1. w \in journal /\ Cardinality(Newer(w)) >= p * PageSize
    BY <1>8, <1>12
  <2>2. CASE reader'.pc = "count"
    <3>1. Turned' = p
      BY <1>1, <1>2, <1>10, <1>11, <2>2 DEF Turned
    <3>2. QED
      BY <2>1, <2>2, <3>1
  <2>3. CASE reader'.pc = "done"
    <3> SUFFICES ASSUME ~reader.raced
                 PROVE  FALSE
      BY <1>11, <2>3
    <3>1. table = "app_events" /\ ~(p * PageSize < reader.total)
      BY <1>11, <2>3
    <3>2. Cardinality(journal) <= reader.total
      BY <1>1, <3>1 DEF ReaderInv, CountStands
    <3>3. QED
      BY <1>1, <1>2, <2>1, <3>1, <3>2, NoneIsBehindAll DEF p
  <2>4. QED
    BY <1>11, <2>2, <2>3
<1> QED
  BY <1>1, <1>11, <1>13, <1>14, ReaderTurns DEF ReaderInv, ReaderTyped

LEMMA ReaderInitially == Entries!Init => ReaderInv
<1> SUFFICES ASSUME Entries!Init
             PROVE  ReaderInv
  OBVIOUS
<1>1. journal = {} /\ reader = [pc |-> "new"]
  BY DEF Entries!Init
<1>2. reader \notin Listed /\ reader.pc = "new"
  BY <1>1 DEF Listed
<1> QED
  BY <1>1, <1>2, FS_EmptySet DEF ReaderInv, ReaderTyped, SharedAreTold, MissingAreBehind, CountStands

LEMMA ReaderStep == EntriesInv /\ ReaderInv /\ [Entries!Next]_journalVars => ReaderInv'
<1> SUFFICES ASSUME EntriesInv, ReaderInv, [Entries!Next]_journalVars
             PROVE  ReaderInv'
  OBVIOUS
<1> QED
  BY JournalMoves, ReaderRests, OpenKeeps, CountKeeps, ReadPageKeeps

\* A reader who turns the pages to the end has seen every row that was there when it began and
\* still is, whatever was written and purged meanwhile, but for rows that share their moment
\* and for rows that came between a page's count and the page (get_events, cleanup).
THEOREM PagesMissNothing == StoredSpec => []PagingMissesNothing
<1> DEFINE Inv == which = "journal" => ReaderInv
<1>1. StoredInit => Inv
  BY ReaderInitially DEF StoredInit
<1>2. (which = "journal" => EntriesInv) /\ Inv /\ [StoredNext]_<<which, vars, journalVars, poolVars>> => Inv'
  <2> SUFFICES ASSUME which = "journal" => EntriesInv, Inv,
                      [StoredNext]_<<which, vars, journalVars, poolVars>>, which' = "journal"
               PROVE  ReaderInv'
    OBVIOUS
  <2>1. which = "journal" /\ [Entries!Next]_journalVars
    BY DEF StoredNext
  <2> QED
    BY <2>1, ReaderStep
<1>3. Inv => PagingMissesNothing
  <2> SUFFICES ASSUME ReaderInv, reader.pc = "done", ~reader.raced, NEW row \in journal,
                      row.id \in reader.there, row.at \notin shared, row.id \notin reader.seen
               PROVE  FALSE
    BY DEF PagingMissesNothing, Entries!PagingMissesNothing
  <2>1. reader \in Listed /\ row \in Missing
    BY DEF ReaderInv, ReaderTyped, Missing
  <2> QED
    BY <2>1 DEF ReaderInv, MissingAreBehind
<1> QED
  BY <1>1, <1>2, <1>3, EntriesInvHolds, PTL DEF StoredSpec

-----------------------------------------------------------------------------
(* Snapshots: the inductive invariant                                      *)

Snapshot == [id : Nat, name : Names \cup Others, of : Replicas \cup {""}, at : Nat]
Sweeping == [pc : {"idle"}] \cup
  [pc : {"read", "delete"}, stage : {"purge", "thin"}, from : Int, before : Int, left : Int,
   doomed : SUBSET Nat, last : BOOLEAN]

SnapshotsTyped ==
  /\ now \in Nat /\ made \in Nat /\ rows \subseteq Snapshot
  /\ sweep \in [Replicas -> Sweeping]

\* Ids are given once; a replica's rows are of what is collected.
SnapshotsAreTold ==
  /\ \A row \in rows : row.id <= made /\ (row.of \in Replicas => row.name \in Collected)
  /\ \A a, b \in rows : a.id = b.id => a = b

\* What a replica saved while the panel still draws it is there with all its names.
SavesAreWhole ==
  \A row \in rows : row.of \in Replicas /\ row.at >= now - Panel =>
    \A name \in Collected : \E other \in rows : other.name = name /\ other.of = row.of /\ other.at = row.at

\* There is an earlier measurement of the row's interval, or the interval has begun to expire.
OneOfSeveral(row) ==
  \/ \E other \in rows : SamePoint(row, other) /\ Earlier(other, row)
  \/ (row.at \div Interval) * Interval < ExpiredBefore

\* What a sweep has read to delete may still go when it does: the panel no longer draws
\* it, and it is one of several or too old.
DoomedMayGo(s) ==
  s.pc # "idle" =>
    /\ s.from <= now - Panel /\ s.before <= ExpiredBefore
    /\ \A id \in s.doomed : id <= made
    /\ \A row \in rows : row.id \in s.doomed => row.name \in Names /\ row.at < now - Panel /\ OneOfSeveral(row)

SnapshotsInv == SnapshotsTyped /\ SnapshotsAreTold /\ SavesAreWhole /\ \A r \in Replicas : DoomedMayGo(sweep[r])

\* Some number of a set is the least: its initial segment is smallest.
LEMMA LeastOf ==
  ASSUME NEW N \in SUBSET Nat, N # {}
  PROVE  \E n \in N : \A m \in N : n <= m
<1> DEFINE Segments == {0 .. n : n \in N}
<1>1. ASSUME NEW n \in N PROVE 0 .. n \in FiniteSubsetsOf(Nat)
  BY <1>1, FS_Interval DEF FiniteSubsetsOf
<1>2. Segments \subseteq FiniteSubsetsOf(Nat) /\ Segments # {}
  BY <1>1
<1>3. PICK s \in Segments : \A u \in Segments : <<u, s>> \notin StrictSubsetOrdering(Nat)
<2> HIDE DEF Segments
<2> QED
  BY <1>2, FS_StrictSubsetOrderingWellFounded, WFMin
<1>4. PICK n \in N : s = 0 .. n
  BY <1>3
<1>5. ASSUME NEW m \in N, m < n PROVE FALSE
<2>1. 0 .. m \in Segments /\ 0 .. m \subseteq 0 .. n /\ n \in 0 .. n /\ n \notin 0 .. m
  BY <1>5
<2>2. 0 .. m \in SUBSET Nat /\ 0 .. n \in SUBSET Nat
  OBVIOUS
<2> QED
  BY <1>3, <1>4, <2>1, <2>2 DEF StrictSubsetOrdering
<1> QED
  BY <1>4, <1>5

\* Rows that are told apart by their ids are in one order, and some row is the earliest.
LEMMA AnEarliest ==
  ASSUME NEW S \in SUBSET rows, S # {}, SnapshotsTyped, SnapshotsAreTold
  PROVE  \E first \in S : \A row \in S : row = first \/ Earlier(first, row)
<1>1. \A row \in S : row.at \in Nat /\ row.id \in Nat
  BY DEF SnapshotsTyped, Snapshot
<1>2. PICK at \in {row.at : row \in S} : \A other \in {row.at : row \in S} : at <= other
  BY <1>1, LeastOf
<1> DEFINE T == {row \in S : row.at = at}
<1>3. PICK id \in {row.id : row \in T} : \A other \in {row.id : row \in T} : id <= other
<2>1. T # {}
  BY <1>2
<2>2. {row.id : row \in T} \in SUBSET Nat /\ {row.id : row \in T} # {}
  BY <1>1, <2>1
<2> HIDE DEF T
<2> QED
  BY <2>2, LeastOf
<1>4. PICK first \in T : first.id = id
  BY <1>3
<1>5. ASSUME NEW row \in S, row # first PROVE Earlier(first, row)
<2>1. at <= row.at /\ row.id # first.id
  BY <1>2, <1>4, <1>5 DEF SnapshotsAreTold
<2>2. CASE row.at = at
<3>1. row \in T /\ id <= row.id
  BY <1>3, <2>2
<3>2. first.at = at /\ first \in S /\ first.id < row.id
  BY <1>1, <1>4, <2>1, <3>1
<3> QED
  BY <2>2, <3>2 DEF Earlier
<2>3. CASE row.at # at
  BY <1>1, <1>4, <2>1, <2>3 DEF Earlier
<2> QED
  BY <2>2, <2>3
<1> QED
  BY <1>4, <1>5

LEMMA SnapshotsInitInv == Init => SnapshotsInv
BY DEF Init, Idle, SnapshotsInv, SnapshotsTyped, Sweeping, SnapshotsAreTold, SavesAreWhole, DoomedMayGo

\* What the horizons are made of
LEMMA WindowTypes ==
  /\ Panel \in Nat /\ Fresh \in Nat /\ Retention \in Nat /\ Interval \in Nat \ {0} /\ Fresh <= Panel /\ Panel <= Retention
  /\ Detailed \in Nat /\ Panel <= Detailed /\ Batches \in Int
<1>1. Panel \in Nat /\ Fresh \in Nat /\ Given \in Nat
  BY SnapshotsAssumption
<1>2. Retention \in Nat /\ Interval \in Nat \ {0} /\ Batches \in Nat
  BY SnapshotsAssumption
<1>3. Fresh <= Panel /\ Panel <= Retention
  BY SnapshotsAssumption
<1> QED
  BY <1>1, <1>2, <1>3 DEF Detailed

\* Differences of numbers, for steps that compare a horizon with the next one
LEMMA DifferencesRise == \A a, b, c \in Int : a <= b => a - c <= b - c /\ a - c \in Int /\ b - c \in Int
OBVIOUS

\* Where an interval starts
LEMMA StartsBefore == \A a \in Nat, b \in Nat \ {0} : (a \div b) * b \in Int /\ (a \div b) * b <= a
<1>1. ASSUME NEW a \in Nat, NEW b \in Nat \ {0} PROVE (a \div b) \in Nat /\ (a \div b) * b <= a
  OBVIOUS
<1>2. ASSUME NEW a \in Nat, NEW b \in Nat PROVE a * b \in Int
  OBVIOUS
<1> QED
  BY <1>1, <1>2

\* The horizons move with the clock.
LEMMA HorizonsRise ==
  ASSUME now \in Nat, now' \in Nat, now <= now'
  PROVE  /\ now - Panel \in Int /\ now' - Panel \in Int /\ now - Panel <= now' - Panel
         /\ ExpiredBefore \in Int /\ ExpiredBefore' \in Int /\ ExpiredBefore <= ExpiredBefore'
<1>1. now \in Int /\ now' \in Int /\ Panel \in Int /\ Retention \in Int
  BY WindowTypes
<1>2. /\ now - Panel <= now' - Panel /\ now - Panel \in Int /\ now' - Panel \in Int
      /\ now - Retention <= now' - Retention /\ now - Retention \in Int /\ now' - Retention \in Int
  BY <1>1, DifferencesRise, Zenon
<1> QED
  BY <1>2 DEF ExpiredBefore

\* An interval that has begun to expire goes on doing so.
LEMMA SeveralKept ==
  ASSUME now \in Nat, now' \in Nat, now <= now', rows \subseteq rows', NEW row \in Snapshot, OneOfSeveral(row)
  PROVE  OneOfSeveral(row)'
<1>1. CASE \E other \in rows : SamePoint(row, other) /\ Earlier(other, row)
  BY <1>1 DEF OneOfSeveral
<1>2. CASE (row.at \div Interval) * Interval < ExpiredBefore
<2>1. (row.at \div Interval) * Interval \in Int
  BY WindowTypes, StartsBefore DEF Snapshot
<2>2. (row.at \div Interval) * Interval < ExpiredBefore'
<3> DEFINE start == (row.at \div Interval) * Interval
<3> HIDE DEF start
<3> SUFFICES start \in Int /\ start < ExpiredBefore => start < ExpiredBefore'
  BY <1>2, <2>1 DEF start
<3> QED
  BY HorizonsRise
<2> QED
  BY <2>2 DEF OneOfSeveral
<1> QED
  BY <1>1, <1>2 DEF OneOfSeveral

\* Time passes, or rows with new ids are written, a replica's with all its names.
LEMMA GrowKeeps ==
  ASSUME SnapshotsInv, now' \in Nat, now <= now', made' \in Nat, made <= made', sweep' = sweep,
         rows \subseteq rows', rows' \subseteq Snapshot,
         \A a, b \in rows' \ rows : a.id = b.id => a = b,
         \A row \in rows' \ rows :
           /\ ~(row.id <= made) /\ row.id <= made'
           /\ row.of \in Replicas =>
                /\ row.name \in Collected
                /\ \A name \in Collected : \E other \in rows' : other.name = name /\ other.of = row.of /\ other.at = row.at
  PROVE  SnapshotsInv'
<1>1. SnapshotsTyped /\ SnapshotsAreTold /\ SavesAreWhole
  BY DEF SnapshotsInv
<1>2. SnapshotsTyped'
  BY <1>1 DEF SnapshotsTyped
<1>3. \A row \in rows' : row.id \in Nat /\ row.at \in Nat
  BY DEF Snapshot
<1>4. now \in Nat /\ made \in Nat /\ Collected' = Collected
  BY <1>1 DEF SnapshotsTyped, Collected
<1>5. SnapshotsAreTold'
<2>1. \A row \in rows' : row.id <= made' /\ (row.of \in Replicas => row.name \in Collected)
  BY <1>1, <1>3, <1>4 DEF SnapshotsAreTold
<2>2. \A a, b \in rows' : a.id = b.id => a = b
  BY <1>1 DEF SnapshotsAreTold
<2> QED
  BY <1>4, <2>1, <2>2 DEF SnapshotsAreTold
<1>6. /\ now - Panel \in Int /\ now' - Panel \in Int /\ now - Panel <= now' - Panel
      /\ ExpiredBefore \in Int /\ ExpiredBefore' \in Int /\ ExpiredBefore <= ExpiredBefore'
  BY <1>4, HorizonsRise
<1>7. SavesAreWhole'
<2>1. ASSUME NEW row \in rows', row.of \in Replicas, row.at >= now' - Panel, NEW name \in Collected
      PROVE  \E other \in rows' : other.name = name /\ other.of = row.of /\ other.at = row.at
<3>1. CASE row \in rows
<4>1. row.at >= now - Panel
  BY <1>3, <1>6, <2>1
<4> QED
  BY <1>1, <2>1, <3>1, <4>1 DEF SavesAreWhole
<3>2. CASE row \notin rows
  BY <2>1, <3>2
<3> QED
  BY <3>1, <3>2
<2> QED
  BY <1>4, <2>1 DEF SavesAreWhole
<1>8. ASSUME NEW r \in Replicas PROVE DoomedMayGo(sweep[r])'
<2> SUFFICES ASSUME sweep[r].pc # "idle" PROVE DoomedMayGo(sweep[r])'
  BY DEF DoomedMayGo
<2>1. DoomedMayGo(sweep[r]) /\ sweep[r].from \in Int /\ sweep[r].before \in Int /\ sweep[r].doomed \in SUBSET Nat
  BY <1>1 DEF SnapshotsInv, SnapshotsTyped, Sweeping
<2>2. sweep[r].from <= now' - Panel /\ sweep[r].before <= ExpiredBefore'
  BY <1>6, <2>1 DEF DoomedMayGo
<2>3. \A id \in sweep[r].doomed : id <= made /\ id <= made'
  BY <1>4, <2>1 DEF DoomedMayGo
<2>4. ASSUME NEW row \in rows', row.id \in sweep[r].doomed
      PROVE  row.name \in Names /\ row.at < now' - Panel /\ OneOfSeveral(row)'
<3>1. row \in rows
  BY <2>3, <2>4
<3>2. row.name \in Names /\ row.at < now - Panel /\ OneOfSeveral(row)
  BY <2>1, <2>4, <3>1 DEF DoomedMayGo
<3> QED
  BY <1>3, <1>4, <1>6, <3>2, SeveralKept
<2> QED
  BY <2>2, <2>3, <2>4 DEF DoomedMayGo
<1> QED
  BY <1>2, <1>5, <1>7, <1>8 DEF SnapshotsInv

LEMMA WriteOtherKeeps ==
  ASSUME SnapshotsInv, WriteOther
  PROVE  SnapshotsInv'
<1>1. PICK name \in Others : rows' = rows \cup {[id |-> made + 1, name |-> name, of |-> "", at |-> now]}
  BY DEF WriteOther
<1> DEFINE new == [id |-> made + 1, name |-> name, of |-> "", at |-> now]
<1>2. made' = made + 1 /\ now' = now /\ sweep' = sweep /\ now \in Nat /\ made \in Nat /\ rows \subseteq Snapshot
  BY DEF WriteOther, SnapshotsInv, SnapshotsTyped
<1>3. new \in Snapshot /\ new.id = made + 1 /\ new.of \notin Replicas
<2>1. "" \notin Replicas
  BY SnapshotsAssumption
<2>2. made + 1 \in Nat
  BY <1>2
<2> QED
  BY <1>2, <2>1, <2>2 DEF Snapshot
<1> HIDE DEF new
<1>4. rows' = rows \cup {new}
  BY <1>1 DEF new
<1> QED
  BY <1>2, <1>3, <1>4, GrowKeeps

LEMMA SaveKeeps ==
  ASSUME SnapshotsInv, NEW r \in Replicas, NEW at \in Int, Save(r, at)
  PROVE  SnapshotsInv'
<1> DEFINE n == Cardinality(Collected)
<1>1. PICK ids \in Bijection(Collected, made + 1 .. made + n) :
        rows' = rows \cup {[id |-> ids[name], name |-> name, of |-> r, at |-> at] : name \in Collected}
  BY DEF Save
<1> DEFINE Saved(name) == [id |-> ids[name], name |-> name, of |-> r, at |-> at]
<1>2. at \in Nat /\ now' = now /\ sweep' = sweep /\ now \in Nat /\ made \in Nat /\ rows \subseteq Snapshot
  BY DEF Save, SnapshotsInv, SnapshotsTyped
<1>3. n \in Nat
  BY SnapshotsAssumption, FS_Subset, FS_CardinalityType DEF Collected
<1>4. made' = made + n
  BY DEF Save
<1> HIDE DEF n
<1>5. /\ \A name \in Collected : ids[name] \in Nat /\ ~(ids[name] <= made) /\ ids[name] <= made'
      /\ \A a, b \in Collected : ids[a] = ids[b] => a = b
<2>1. ids \in [Collected -> made + 1 .. made + n] /\ \A a, b \in Collected : ids[a] = ids[b] => a = b
  BY DEF Bijection, Injection, IsInjective
<2>2. \A id \in made + 1 .. made + n : id \in Nat /\ ~(id <= made) /\ id <= made + n
  BY <1>2, <1>3
<2> QED
  BY <1>4, <2>1, <2>2
<1>6. \A name \in Collected :
        /\ Saved(name) \in Snapshot /\ Saved(name).id = ids[name] /\ Saved(name).name = name
        /\ Saved(name).of = r /\ Saved(name).at = at
  BY <1>2, <1>5 DEF Snapshot, Collected
<1> HIDE DEF Saved
<1>7. rows' = rows \cup {Saved(name) : name \in Collected}
  BY <1>1 DEF Saved
<1>8. \A row \in rows' \ rows : \E name \in Collected : row = Saved(name)
  BY <1>7
<1>9. rows \subseteq rows' /\ rows' \subseteq Snapshot
  BY <1>2, <1>6, <1>7
<1>10. \A a, b \in rows' \ rows : a.id = b.id => a = b
  BY <1>5, <1>6, <1>8
<1>11. ASSUME NEW row \in rows' \ rows
       PROVE  /\ ~(row.id <= made) /\ row.id <= made'
              /\ row.of \in Replicas =>
                   /\ row.name \in Collected
                   /\ \A name \in Collected : \E other \in rows' : other.name = name /\ other.of = row.of /\ other.at = row.at
<2>1. PICK mine \in Collected : row = Saved(mine)
  BY <1>8
<2>2. ASSUME NEW name \in Collected
      PROVE  \E other \in rows' : other.name = name /\ other.of = row.of /\ other.at = row.at
<3>1. Saved(name) \in rows' /\ Saved(name).name = name /\ Saved(name).of = row.of /\ Saved(name).at = row.at
  BY <1>6, <1>7, <2>1
<3> QED
  BY <3>1
<2> QED
  BY <1>5, <1>6, <2>1, <2>2
<1> QED
  BY <1>2, <1>3, <1>4, <1>9, <1>10, <1>11, GrowKeeps

\* A sweep goes on to something that it may do, and no row changes.
LEMMA SweepKeeps ==
  ASSUME SnapshotsInv, NEW r \in Replicas, NEW next \in Sweeping, DoomedMayGo(next),
         sweep' = [sweep EXCEPT ![r] = next], UNCHANGED <<now, rows, made>>
  PROVE  SnapshotsInv'
<1>1. SnapshotsTyped' /\ \A u \in Replicas : sweep'[u] = IF u = r THEN next ELSE sweep[u]
  BY DEF SnapshotsInv, SnapshotsTyped
<1>2. SnapshotsAreTold' /\ SavesAreWhole'
  BY DEF SnapshotsInv, SnapshotsAreTold, SavesAreWhole, Collected
<1>3. \A row : OneOfSeveral(row) => OneOfSeveral(row)'
  BY DEF OneOfSeveral, ExpiredBefore
<1>4. ASSUME NEW u \in Replicas PROVE DoomedMayGo(sweep[u])'
<2>1. DoomedMayGo(sweep'[u])
  BY <1>1 DEF SnapshotsInv
<2> QED
  BY <1>3, <2>1 DEF DoomedMayGo, ExpiredBefore
<1> QED
  BY <1>1, <1>2, <1>4 DEF SnapshotsInv

\* A stage that begins has read nothing.
LEMMA BeginKeeps ==
  ASSUME SnapshotsInv, NEW r \in Replicas, NEW stage \in {"purge", "thin"}, Begin(r, stage),
         UNCHANGED <<now, rows, made>>
  PROVE  SnapshotsInv'
<1> DEFINE next == [pc |-> "read", stage |-> stage, from |-> DetailedFrom, before |-> ExpiredBefore,
                    left |-> Batches, doomed |-> {}, last |-> FALSE]
<1>1. sweep' = [sweep EXCEPT ![r] = next]
  BY DEF Begin
<1>2. DetailedFrom \in Int /\ ExpiredBefore \in Int /\ DetailedFrom <= now - Panel
<2>1. now \in Nat /\ Retention \in Nat /\ Detailed \in Nat /\ Panel \in Nat /\ Panel <= Detailed
  BY WindowTypes DEF SnapshotsInv, SnapshotsTyped
<2> QED
  BY <2>1 DEF DetailedFrom, ExpiredBefore
<1>3. next \in Sweeping
  BY <1>2, WindowTypes DEF Sweeping
<1>4. DoomedMayGo(next)
  BY <1>2 DEF DoomedMayGo
<1> HIDE DEF next
<1> QED
  BY <1>1, <1>3, <1>4, SweepKeeps

LEMMA IdleKeeps ==
  ASSUME SnapshotsInv, NEW r \in Replicas, sweep' = [sweep EXCEPT ![r] = Idle], UNCHANGED <<now, rows, made>>
  PROVE  SnapshotsInv'
<1>1. Idle \in Sweeping /\ DoomedMayGo(Idle)
  BY DEF Idle, Sweeping, DoomedMayGo
<1> QED
  BY <1>1, SweepKeeps

LEMMA EndStageKeeps ==
  ASSUME SnapshotsInv, NEW r \in Replicas, EndStage(r), UNCHANGED <<now, rows, made>>
  PROVE  SnapshotsInv'
BY BeginKeeps, IdleKeeps DEF EndStage

\* What a page is a part of, and what is taken of it
LEMMA ExpiredMayGo ==
  ASSUME SnapshotsInv, NEW before \in Int, before <= ExpiredBefore, NEW row \in ExpiredPage(before)
  PROVE  row \in rows /\ row.name \in Names /\ row.at < now - Panel /\ OneOfSeveral(row)
<1>1. row \in rows /\ row.name \in Names /\ row.at < before
  BY DEF ExpiredPage, Page, Expired
<1>2. row.at \in Nat /\ now \in Nat
  BY <1>1 DEF SnapshotsInv, SnapshotsTyped, Snapshot
<1>3. row.at < ExpiredBefore /\ row.at < now - Panel /\ ExpiredBefore \in Int
<2>1. Retention \in Nat /\ Panel \in Nat /\ Panel <= Retention
  BY WindowTypes
<2> QED
  BY <1>1, <1>2, <2>1 DEF ExpiredBefore
<1>4. (row.at \div Interval) * Interval < ExpiredBefore
<2> DEFINE start == (row.at \div Interval) * Interval
<2>1. start \in Int /\ start <= row.at
  BY <1>2, WindowTypes, StartsBefore
<2> HIDE DEF start
<2>2. start < ExpiredBefore
  BY <1>2, <1>3, <2>1
<2> QED
  BY <2>2 DEF start
<1> QED
  BY <1>1, <1>3, <1>4 DEF OneOfSeveral

LEMMA DoomedMayBeThinned ==
  ASSUME SnapshotsInv, NEW from \in Int, NEW before \in Int, from <= now - Panel,
         NEW row \in Doomed(ThinPage(from, before))
  PROVE  row \in rows /\ row.name \in Names /\ row.at < now - Panel /\ OneOfSeveral(row)
<1>1. ThinPage(from, before) \subseteq Thinnable(from, before)
  BY DEF ThinPage, Page
<1>2. row \in ThinPage(from, before) /\ \E other \in ThinPage(from, before) : Bucket(other) = Bucket(row) /\ Earlier(other, row)
  BY DEF Doomed
<1>3. row \in rows /\ row.name \in Names /\ row.at < from
  BY <1>1, <1>2 DEF Thinnable
<1>4. row.at < now - Panel
<2>1. row.at \in Nat /\ now \in Nat /\ Panel \in Nat
  BY <1>3, WindowTypes DEF SnapshotsInv, SnapshotsTyped, Snapshot
<2> QED
  BY <1>3, <2>1
<1>5. \E other \in rows : SamePoint(row, other) /\ Earlier(other, row)
  BY <1>1, <1>2 DEF Thinnable, Bucket, SamePoint
<1> QED
  BY <1>3, <1>4, <1>5 DEF OneOfSeveral

LEMMA ReadKeeps ==
  ASSUME SnapshotsInv, NEW r \in Replicas, Read(r)
  PROVE  SnapshotsInv'
<1> DEFINE page == IF sweep[r].stage = "purge" THEN ExpiredPage(sweep[r].before)
                   ELSE ThinPage(sweep[r].from, sweep[r].before)
           doomed == IF sweep[r].stage = "purge" THEN page ELSE Doomed(page)
           ids == {row.id : row \in doomed}
           short == Cardinality(page) < Batch
<1>1. /\ sweep[r].pc = "read" /\ UNCHANGED <<now, rows, made>>
      /\ sweep' = [sweep EXCEPT ![r].pc = "delete", ![r].left = @ - 1, ![r].last = short, ![r].doomed = ids]
  BY DEF Read
<1>2. /\ sweep \in [Replicas -> Sweeping] /\ sweep[r].from \in Int /\ sweep[r].before \in Int
      /\ sweep[r].from <= now - Panel /\ sweep[r].before <= ExpiredBefore
      /\ SnapshotsAreTold /\ rows \subseteq Snapshot
      /\ sweep[r] \in [pc : {"read", "delete"}, stage : {"purge", "thin"}, from : Int, before : Int, left : Int,
                       doomed : SUBSET Nat, last : BOOLEAN]
  BY <1>1 DEF SnapshotsInv, SnapshotsTyped, Sweeping, DoomedMayGo
<1>3. ASSUME NEW row \in doomed
      PROVE  row \in rows /\ row.name \in Names /\ row.at < now - Panel /\ OneOfSeveral(row)
<2>1. CASE sweep[r].stage = "purge"
  BY <1>2, <1>3, <2>1, ExpiredMayGo
<2>2. CASE sweep[r].stage # "purge"
  BY <1>2, <1>3, <2>2, DoomedMayBeThinned
<2> QED
  BY <2>1, <2>2
<1> HIDE DEF doomed, short
<1>4. ids \in SUBSET Nat /\ \A id \in ids : id <= made
<2>1. \A row \in doomed : row.id \in Nat /\ row.id <= made
  BY <1>2, <1>3 DEF SnapshotsAreTold, Snapshot
<2> QED
  BY <2>1
<1>5. ASSUME NEW row \in rows, row.id \in ids
      PROVE  row.name \in Names /\ row.at < now - Panel /\ OneOfSeveral(row)
<2>1. PICK other \in doomed : other.id = row.id
  BY <1>5
<2>2. other = row
  BY <1>2, <1>3, <1>5, <2>1 DEF SnapshotsAreTold
<2> QED
  BY <1>3, <2>1, <2>2
<1> HIDE DEF ids
<1> DEFINE next == [sweep[r] EXCEPT !.pc = "delete", !.left = @ - 1, !.last = short, !.doomed = ids]
<1>6. sweep' = [sweep EXCEPT ![r] = next]
  BY <1>1, <1>2
<1>7. next \in Sweeping /\ next.doomed = ids /\ next.from = sweep[r].from /\ next.before = sweep[r].before
<2>1. sweep[r].left - 1 \in Int /\ short \in BOOLEAN
  BY <1>2 DEF short
<2> QED
  BY <1>2, <1>4, <2>1 DEF Sweeping
<1> HIDE DEF next
<1>8. DoomedMayGo(next)
  BY <1>2, <1>4, <1>5, <1>7 DEF DoomedMayGo
<1> QED
  BY <1>1, <1>6, <1>7, <1>8, SweepKeeps

\* What one sweep takes leaves the earliest row of an interval, and so whatever another
\* has read to delete is one of several still.
LEMMA EarliestIsKept ==
  ASSUME SnapshotsInv, NEW r \in Replicas, sweep[r].pc # "idle", NEW ids \in SUBSET sweep[r].doomed,
         rows' = {row \in rows : row.id \notin ids}, now' = now, NEW row \in rows, OneOfSeveral(row)
  PROVE  OneOfSeveral(row)'
<1>1. ExpiredBefore' = ExpiredBefore
  BY DEF ExpiredBefore
<1> SUFFICES ASSUME ~((row.at \div Interval) * Interval < ExpiredBefore) PROVE OneOfSeveral(row)'
  BY <1>1 DEF OneOfSeveral
<1> DEFINE S == {other \in rows : SamePoint(row, other)}
<1>2. PICK earlier \in S : Earlier(earlier, row)
  BY DEF OneOfSeveral
<1>3. PICK first \in S : \A other \in S : other = first \/ Earlier(first, other)
<2>1. S \in SUBSET rows /\ S # {} /\ SnapshotsTyped /\ SnapshotsAreTold
  BY <1>2 DEF SnapshotsInv
<2> HIDE DEF S
<2> QED
  BY <2>1, AnEarliest
<1>4. \A a, b \in rows : Earlier(a, b) => ~Earlier(b, a) /\ a # b
<2>1. \A a \in rows : a.at \in Nat /\ a.id \in Nat
  BY DEF SnapshotsInv, SnapshotsTyped, Snapshot
<2> QED
  BY <2>1 DEF Earlier
<1>5. row \in S /\ first # row /\ Earlier(first, row)
  BY <1>2, <1>3, <1>4 DEF SamePoint
<1>6. ~OneOfSeveral(first)
<2>1. SamePoint(row, first) /\ first.at \div Interval = row.at \div Interval
  BY <1>3 DEF SamePoint
<2>2. ~((first.at \div Interval) * Interval < ExpiredBefore)
  BY <2>1
<2>3. ASSUME NEW other \in rows, SamePoint(first, other), Earlier(other, first) PROVE FALSE
<3>1. other \in S
  BY <2>1, <2>3 DEF SamePoint
<3> QED
  BY <1>3, <1>4, <2>3, <3>1
<2> QED
  BY <2>2, <2>3 DEF OneOfSeveral
<1>7. first \in rows'
  BY <1>6 DEF SnapshotsInv, DoomedMayGo
<1>8. SamePoint(row, first)' /\ Earlier(first, row)'
  BY <1>3, <1>5 DEF SamePoint, Earlier
<1> QED
  BY <1>7, <1>8 DEF OneOfSeveral

LEMMA DeleteChunkKeeps ==
  ASSUME SnapshotsInv, NEW r \in Replicas, DeleteChunk(r)
  PROVE  SnapshotsInv'
<1>1. PICK ids \in SUBSET sweep[r].doomed :
        rows' = {row \in rows : row.id \notin ids} /\ sweep' = [sweep EXCEPT ![r].doomed = @ \ ids]
  BY DEF DeleteChunk, kSubset
<1>2. /\ sweep[r].pc = "delete" /\ UNCHANGED <<now, made>> /\ rows' \subseteq rows
      /\ SnapshotsTyped /\ DoomedMayGo(sweep[r])
      /\ sweep[r] \in [pc : {"read", "delete"}, stage : {"purge", "thin"}, from : Int, before : Int, left : Int,
                       doomed : SUBSET Nat, last : BOOLEAN]
  BY <1>1 DEF DeleteChunk, SnapshotsInv, SnapshotsTyped, Sweeping
<1> DEFINE next == [sweep[r] EXCEPT !.doomed = @ \ ids]
<1>3. next \in Sweeping /\ next.doomed = sweep[r].doomed \ ids /\ next.from = sweep[r].from /\ next.before = sweep[r].before
      /\ next.pc = "delete"
<2>1. sweep[r].doomed \ ids \in SUBSET Nat
  BY <1>2
<2> QED
  BY <1>2, <2>1 DEF Sweeping
<1>4. \A u \in Replicas : sweep'[u] = IF u = r THEN next ELSE sweep[u]
  BY <1>1, <1>2 DEF SnapshotsTyped
<1>5. sweep' \in [Replicas -> Sweeping]
  BY <1>1, <1>2, <1>3 DEF SnapshotsTyped
<1> HIDE DEF next
<1>6. SnapshotsTyped'
  BY <1>2, <1>5 DEF SnapshotsTyped
<1>7. SnapshotsAreTold'
  BY <1>2 DEF SnapshotsInv, SnapshotsAreTold, Collected
<1>8. \A row \in rows \ rows' : row.at < now - Panel
  BY <1>1, <1>2 DEF DoomedMayGo
<1>9. SavesAreWhole'
<2>1. ASSUME NEW row \in rows', row.of \in Replicas, row.at >= now - Panel, NEW name \in Collected
      PROVE  \E other \in rows' : other.name = name /\ other.of = row.of /\ other.at = row.at
<3>1. PICK other \in rows : other.name = name /\ other.of = row.of /\ other.at = row.at
  BY <1>2, <2>1 DEF SnapshotsInv, SavesAreWhole
<3>2. ~(other.at < now - Panel)
<4>1. row.at \in Nat /\ now - Panel \in Int
<5>1. row \in Snapshot /\ now \in Nat /\ Panel \in Nat
  BY <1>2, <2>1, WindowTypes DEF SnapshotsTyped
<5>2. row.at \in Nat
  BY <5>1 DEF Snapshot
<5>3. now - Panel \in Int
  BY <5>1
<5> QED
  BY <5>2, <5>3
<4> QED
  BY <2>1, <3>1, <4>1
<3> QED
  BY <1>8, <3>1, <3>2
<2> QED
  BY <1>2, <2>1 DEF SavesAreWhole, Collected
<1>10. ASSUME NEW u \in Replicas PROVE DoomedMayGo(sweep[u])'
<2> SUFFICES ASSUME sweep'[u].pc # "idle" PROVE DoomedMayGo(sweep[u])'
  BY DEF DoomedMayGo
<2>1. /\ DoomedMayGo(sweep[u]) /\ sweep[u].pc # "idle" /\ sweep'[u].doomed \subseteq sweep[u].doomed
      /\ sweep'[u].from = sweep[u].from /\ sweep'[u].before = sweep[u].before
  BY <1>2, <1>3, <1>4 DEF SnapshotsInv
<2>2. ExpiredBefore' = ExpiredBefore
  BY <1>2 DEF ExpiredBefore
<2>3. ASSUME NEW row \in rows', row.id \in sweep'[u].doomed
      PROVE  row.name \in Names /\ row.at < now' - Panel /\ OneOfSeveral(row)'
<3>1. row \in rows /\ row.name \in Names /\ row.at < now - Panel /\ OneOfSeveral(row)
  BY <1>2, <2>1, <2>3 DEF DoomedMayGo
<3>2. OneOfSeveral(row)'
  BY <1>1, <1>2, <3>1, EarliestIsKept
<3> QED
  BY <1>2, <3>1, <3>2
<2> QED
  BY <1>2, <2>1, <2>2, <2>3 DEF DoomedMayGo
<1> QED
  BY <1>6, <1>7, <1>9, <1>10 DEF SnapshotsInv

LEMMA PageDoneKeeps ==
  ASSUME SnapshotsInv, NEW r \in Replicas, PageDone(r)
  PROVE  SnapshotsInv'
<1>1. CASE EndStage(r)
  BY <1>1, EndStageKeeps DEF PageDone
<1>2. CASE ~EndStage(r)
<2> DEFINE next == [sweep[r] EXCEPT !.pc = "read"]
<2>1. sweep' = [sweep EXCEPT ![r] = next] /\ sweep[r].pc = "delete" /\ UNCHANGED <<now, rows, made>>
  BY <1>2 DEF PageDone, SnapshotsInv, SnapshotsTyped
<2>2. /\ DoomedMayGo(sweep[r])
      /\ sweep[r] \in [pc : {"read", "delete"}, stage : {"purge", "thin"}, from : Int, before : Int, left : Int,
                       doomed : SUBSET Nat, last : BOOLEAN]
  BY <2>1 DEF SnapshotsInv, SnapshotsTyped, Sweeping
<2>3. next \in Sweeping /\ next.doomed = sweep[r].doomed /\ next.from = sweep[r].from /\ next.before = sweep[r].before
  BY <2>2 DEF Sweeping
<2> HIDE DEF next
<2>4. DoomedMayGo(next)
  BY <2>1, <2>2, <2>3 DEF DoomedMayGo
<2> QED
  BY <2>1, <2>3, <2>4, SweepKeeps
<1> QED
  BY <1>1, <1>2

\* Every step of the collectors and their sweeps keeps the invariant.
LEMMA SnapshotsStepInv == SnapshotsInv /\ [Next]_vars => SnapshotsInv'
<1> SUFFICES ASSUME SnapshotsInv, [Next]_vars PROVE SnapshotsInv'
  OBVIOUS
<1>1. now \in Nat /\ made \in Nat /\ rows \subseteq Snapshot
  BY DEF SnapshotsInv, SnapshotsTyped
<1>2. CASE UNCHANGED vars
  BY <1>1, <1>2, GrowKeeps DEF vars
<1>3. CASE Tick
<2>1. now' = now + 1 /\ UNCHANGED <<rows, made, sweep>>
  BY <1>3 DEF Tick
<2> QED
  BY <1>1, <2>1, GrowKeeps
<1>4. CASE WriteOther
  BY <1>4, WriteOtherKeeps
<1>5. ASSUME NEW r \in Replicas, NEW at \in 0 .. MaxTime, Save(r, at) PROVE SnapshotsInv'
  BY <1>5, SaveKeeps
<1>6. ASSUME NEW r \in Replicas, Sweep(r) PROVE SnapshotsInv'
<2>1. CASE BeginSweep(r)
  BY <2>1, BeginKeeps DEF BeginSweep
<2> QED
  BY <1>6, <2>1, ReadKeeps, DeleteChunkKeeps, PageDoneKeeps DEF Sweep
<1>7. ASSUME NEW r \in Replicas, StageFails(r) PROVE SnapshotsInv'
  BY <1>7, EndStageKeeps DEF StageFails
<1>8. ASSUME NEW r \in Replicas, Stop(r) PROVE SnapshotsInv'
  BY <1>8, IdleKeeps DEF Stop
<1> QED
  BY <1>2, <1>3, <1>4, <1>5, <1>6, <1>7, <1>8 DEF Next

LEMMA SnapshotsInvHolds == StoredSpec => [](which = "snapshots" => SnapshotsInv)
<1>1. StoredInit => (which = "snapshots" => SnapshotsInv)
  BY SnapshotsInitInv DEF StoredInit
<1>2. (which = "snapshots" => SnapshotsInv) /\ [StoredNext]_<<which, vars, journalVars, poolVars>>
        => (which = "snapshots" => SnapshotsInv)'
<2> SUFFICES ASSUME which = "snapshots" => SnapshotsInv, [StoredNext]_<<which, vars, journalVars, poolVars>>,
                    which' = "snapshots"
             PROVE  SnapshotsInv'
  OBVIOUS
<2>1. which = "snapshots" /\ [Next]_vars
  BY DEF StoredNext
<2> QED
  BY <2>1, SnapshotsStepInv
<1> QED
  BY <1>1, <1>2, PTL DEF StoredSpec

\* What a chunk of a sweep deletes, and what it leaves
LEMMA ChunkTakes ==
  ASSUME SnapshotsInv, NEW r \in Replicas, DeleteChunk(r)
  PROVE  /\ rows' \subseteq rows /\ now' = now
         /\ \A row \in rows \ rows' : row.name \in Names /\ row.at < now - Panel /\ OneOfSeveral(row)
<1>1. PICK ids \in SUBSET sweep[r].doomed : rows' = {row \in rows : row.id \notin ids}
  BY DEF DeleteChunk, kSubset
<1>2. DoomedMayGo(sweep[r]) /\ sweep[r].pc # "idle" /\ now' = now
  BY DEF DeleteChunk, SnapshotsInv
<1> QED
  BY <1>1, <1>2 DEF DoomedMayGo

\* Only a chunk of a sweep takes rows.
LEMMA OnlyChunksTake ==
  ASSUME SnapshotsInv, Next
  PROVE  \/ \E r \in Replicas : DeleteChunk(r)
         \/ rows \subseteq rows' /\ (sweep' # sweep => rows' = rows /\ now' = now)
BY DEF Next, Tick, WriteOther, Save, Sweep, BeginSweep, Read, PageDone, StageFails, Stop

\* The summary's latest values are of rows that a sweep does not take: a replica that is
\* online has saved them all a moment ago.
LEMMA SummaryIsLeft ==
  ASSUME SnapshotsInv, NEW r \in Replicas, DeleteChunk(r)
  PROVE  Summary' = Summary
<1>1. /\ rows' \subseteq rows /\ now' = now
      /\ \A row \in rows \ rows' : row.name \in Names /\ row.at < now - Panel
  BY ChunkTakes
<1>2. /\ now \in Nat /\ Panel \in Nat /\ Fresh \in Nat /\ Fresh <= Panel /\ SavesAreWhole /\ SnapshotsAreTold
      /\ \A row \in rows : row.at \in Nat /\ row.id \in Nat
  BY WindowTypes DEF SnapshotsInv, SnapshotsTyped, Snapshot
<1>3. \A row \in rows : row.at >= now - Fresh => row.at >= now - Panel /\ row \in rows'
  BY <1>1, <1>2
<1>4. Online' = Online
  BY <1>1, <1>3 DEF Online
<1>5. ASSUME NEW of \in Online, NEW name \in Names PROVE LatestValue(of, name)' = LatestValue(of, name)
<2> DEFINE Mine == {row \in rows : row.of = of /\ row.name = name}
<2>1. CASE Mine = {}
  BY <1>1, <2>1 DEF LatestValue
<2>2. CASE Mine # {}
<3>1. PICK mine \in Mine : TRUE
  BY <2>2
<3>2. PICK seen \in rows : seen.of = of /\ seen.at >= now - Fresh /\ of \in Replicas
  BY DEF Online
<3>3. name \in Collected
  BY <1>2, <3>1, <3>2 DEF SnapshotsAreTold
<3>4. PICK fresh \in rows : fresh.name = name /\ fresh.of = of /\ fresh.at = seen.at
  BY <1>2, <1>3, <3>2, <3>3 DEF SavesAreWhole
<3>5. fresh \in rows' /\ fresh.at >= now - Panel
  BY <1>3, <3>2, <3>4
<3>6. \A row \in rows \ rows' : Earlier(row, fresh)
  BY <1>1, <1>2, <3>5 DEF Earlier
<3>7. \A a, b, c \in rows : Earlier(a, b) /\ Earlier(b, c) => Earlier(a, c)
  BY <1>2 DEF Earlier
<3>8. ASSUME NEW row \in LatestValue(of, name) PROVE row \in LatestValue(of, name)'
<4>1. row \in rows'
  BY <3>4, <3>6, <3>8 DEF LatestValue
<4> QED
  BY <1>1, <3>8, <4>1 DEF LatestValue, Earlier
<3>9. ASSUME NEW row \in LatestValue(of, name)' PROVE row \in LatestValue(of, name)
<4>1. row \in rows' /\ row.of = of /\ row.name = name /\ \A other \in rows' : other.of = of /\ other.name = name => ~Earlier(row, other)
  BY <3>9 DEF LatestValue, Earlier
<4>2. ASSUME NEW other \in rows, other.of = of, other.name = name, Earlier(row, other) PROVE FALSE
<5>1. other \in rows \ rows'
  BY <4>1, <4>2
<5>2. Earlier(row, fresh)
  BY <1>1, <3>5, <3>6, <3>7, <4>1, <4>2, <5>1
<5> QED
  BY <3>4, <3>5, <4>1, <5>2
<4> QED
  BY <1>1, <4>1, <4>2 DEF LatestValue
<3> QED
  BY <3>8, <3>9
<2> QED
  BY <2>1, <2>2
<1> QED
  BY <1>4, <1>5 DEF Summary

\* However sweeps overlap, fail midway or are stopped, and whatever the given window is: they
\* take nothing the panel draws or the summary shows and no row of another module, and an
\* interval's earliest row only when the interval has begun to expire (retention.py).
THEOREM OnlyTheRestIsSwept == StoredSpec => SweepsTakeOnlyTheRest
<1> DEFINE Unread == sweep' # sweep =>
             /\ History(Names, Panel)' = History(Names, Panel) /\ Summary' = Summary
             /\ \A row \in rows : row.name \in Others => row \in rows'
<1> DEFINE Spared == \A row \in Deleted :
             (\A other \in rows : SamePoint(row, other) => ~Earlier(other, row)) =>
               (row.at \div Interval) * Interval < ExpiredBefore
<1>1. ASSUME SnapshotsInv, Next PROVE Unread /\ Spared
<2>1. ASSUME NEW r \in Replicas, DeleteChunk(r) PROVE Unread /\ Spared
<3>1. /\ rows' \subseteq rows /\ now' = now
      /\ \A row \in rows \ rows' : row.name \in Names /\ row.at < now - Panel /\ OneOfSeveral(row)
  BY <1>1, <2>1, ChunkTakes
<3>2. \A row \in rows : ~(row.at >= now - Panel /\ row.at < now - Panel)
<4>1. \A row \in rows : row.at \in Nat
  BY <1>1 DEF SnapshotsInv, SnapshotsTyped, Snapshot
<4>2. now \in Nat /\ Panel \in Nat
  BY <1>1, WindowTypes DEF SnapshotsInv, SnapshotsTyped
<4> QED
  BY <4>1, <4>2
<3>3. History(Names, Panel)' = History(Names, Panel)
  BY <3>1, <3>2 DEF History
<3>4. \A row \in rows : row.name \in Others => row \in rows'
  BY <3>1, SnapshotsAssumption
<3>5. Spared
  BY <3>1 DEF Deleted, OneOfSeveral
<3> QED
  BY <1>1, <2>1, <3>3, <3>4, <3>5, SummaryIsLeft
<2>2. CASE rows \subseteq rows' /\ (sweep' # sweep => rows' = rows /\ now' = now)
<3>1. Deleted = {}
  BY <2>2 DEF Deleted
<3>2. ASSUME rows' = rows, now' = now PROVE History(Names, Panel)' = History(Names, Panel) /\ Summary' = Summary
  BY <3>2 DEF History, Summary, Online, LatestValue, Earlier
<3> QED
  BY <2>2, <3>1, <3>2
<2> QED
  BY <1>1, <2>1, <2>2, OnlyChunksTake
<1>2. ASSUME which = "snapshots" => SnapshotsInv, [StoredNext]_<<which, vars, journalVars, poolVars>>
      PROVE  [Unread]_vars /\ [Spared]_vars
<2> HIDE DEF Unread, Spared
<2> QED
  BY <1>1, <1>2 DEF StoredNext
<1> QED
  BY <1>2, SnapshotsInvHolds, PTL DEF StoredSpec, SweepsTakeOnlyTheRest, NothingReadIsSwept, EarliestStays
==============================================================================
