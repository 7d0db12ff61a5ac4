--------------------------- MODULE ConnectionPool ---------------------------
(***************************************************************************)
(* Database access (keepup_db/manager.py): the threads of a process run    *)
(* their statements on the connections of one pool. A statement is a call  *)
(* of one of the helpers; a shared_session() block runs the calls made in  *)
(* it on its own session, which has its connection from the first          *)
(* statement on. Work handed to another thread from inside a block carries *)
(* the block's context with it.                                            *)
(*                                                                         *)
(* What SQLAlchemy's pool and the database do is external: taken from how  *)
(* manager.py uses them.                                                   *)
(***************************************************************************)
EXTENDS Integers, FiniteSets

CONSTANTS
  Threads, Connections,  \* as many connections as pool_size and max_overflow add up to
  Engine,                \* DB_TYPE
  MaxRows                \* bound on the rows inserted

Nobody == "nobody"

ConnectionPoolAssumption ==
  /\ Engine \in {"postgres", "sqlite"} /\ IsFiniteSet(Connections) /\ MaxRows \in Nat
  /\ Nobody \notin Threads

VARIABLES
  pool,     \* the connections
  context,  \* whose shared block a thread's context names (_SHARED_SESSION)
  block,    \* the shared block a thread is in
  call,     \* the call a thread is in
  scope,    \* what the thread's outermost block or call has written and kept, and how it ended
  made      \* rows inserted so far

vars == <<pool, context, block, call, scope, made>>

Closed == [open |-> FALSE, on |-> {}]
NoCall == [what |-> "none"]
New == [open |-> FALSE, gone |-> FALSE, lately |-> TRUE, last |-> 0, rows |-> {}]
Apart == [wrote |-> {}, kept |-> {}, ended |-> "not"]

\* A connection: whether it is made, whether the database has dropped it, whether it was
\* handed back less than pool_ping_after_idle ago, the last id made on it, and the rows of
\* its transaction.
Init ==
  /\ pool = [c \in Connections |-> New]
  /\ context = [t \in Threads |-> Nobody]
  /\ block = [t \in Threads |-> Closed] /\ call = [t \in Threads |-> NoCall]
  /\ scope = [t \in Threads |-> Apart] /\ made = 0

-----------------------------------------------------------------------------
(* The pool                                                                *)

Held == (UNION {block[t].on : t \in Threads}) \cup (UNION {call[t].on : t \in {u \in Threads : call[u] # NoCall}})
Free == Connections \ Held

\* A connection as it is handed out: one that lay long is pinged, and one that does not
\* answer is replaced.
HandedOut(conn) == IF conn.gone /\ ~conn.lately THEN [New EXCEPT !.open = TRUE] ELSE [conn EXCEPT !.open = TRUE]

\* A connection is dropped, by the database or the network; what it had begun is undone.
Drop(c) ==
  /\ pool[c].open /\ ~pool[c].gone
  /\ pool' = [pool EXCEPT ![c].gone = TRUE, ![c].rows = {}]
  /\ UNCHANGED <<context, block, call, scope, made>>

Lie(c) ==
  /\ c \in Free /\ pool[c].open /\ pool[c].lately
  /\ pool' = [pool EXCEPT ![c].lately = FALSE]
  /\ UNCHANGED <<context, block, call, scope, made>>

-----------------------------------------------------------------------------
(* Blocks and calls                                                        *)

\* Mutant: whatever thread the block belongs to.
Joins_AnyThread(t) == context[t] # Nobody

\* Whether a call, or a block, of this thread runs on the block its context names.
Joins(t) == context[t] = t

\* Mutant: a read goes its own way.
JoinsFor_NotReads(t, what) == what # "read" /\ Joins(t)

\* A plain read outside a block needs no transaction; inside one it is a statement of it.
JoinsFor(t, what) == Joins(t)

Busy(t) == block[t].open \/ call[t] # NoCall

\* Nested blocks join the outer one: only the first is modelled.
OpenBlock(t) ==
  /\ ~Busy(t)
  /\ block' = [block EXCEPT ![t] = [open |-> TRUE, on |-> {}]]
  /\ context' = [context EXCEPT ![t] = t]
  /\ scope' = [scope EXCEPT ![t] = Apart]
  /\ UNCHANGED <<pool, call, made>>

\* to_thread from inside a block, by whatever the coroutine calls: the context goes along.
HandOver(t, u) ==
  /\ block[t].open /\ t # u /\ ~Busy(u) /\ context[u] = Nobody
  /\ context' = [context EXCEPT ![u] = t]
  /\ UNCHANGED <<pool, block, call, scope, made>>

\* read: execute, execute_one of a plain SELECT; write: execute_commit, execute_many;
\* insert: execute_commit_returning; session: get_session, by a caller who inserts and
\* then asks for the id with the session.
Call(t, what) ==
  /\ call[t] = NoCall
  /\ call' = [call EXCEPT ![t] =
       [what |-> what, of |-> IF JoinsFor(t, what) THEN context[t] ELSE Nobody, on |-> {}, row |-> 0, told |-> 0, done |-> FALSE]]
  /\ scope' = IF block[t].open THEN scope ELSE [scope EXCEPT ![t] = Apart]
  /\ UNCHANGED <<pool, context, block, made>>

\* The connection of the session the call runs on, once it has one.
On(t) == IF call[t].of = Nobody THEN call[t].on ELSE block[call[t].of].on

\* The first statement of a session takes its connection, or waits for one.
Take(t) ==
  /\ call[t] # NoCall /\ On(t) = {}
  /\ \E c \in Free :
       /\ pool' = [pool EXCEPT ![c] = HandedOut(@)]
       /\ IF call[t].of = Nobody
          THEN call' = [call EXCEPT ![t].on = {c}] /\ UNCHANGED block
          ELSE block' = [block EXCEPT ![call[t].of].on = {c}] /\ UNCHANGED call
  /\ UNCHANGED <<context, scope, made>>

Statement(t, c) ==
  /\ IF call[t].what = "read" THEN UNCHANGED <<pool, scope, made>>
     ELSE /\ made < MaxRows /\ made' = made + 1
          /\ pool' = [pool EXCEPT ![c].last = made + 1, ![c].rows = @ \cup {[by |-> t, id |-> made + 1]}]
          /\ scope' = [scope EXCEPT ![t].wrote = @ \cup {made + 1}]
  /\ call' = [call EXCEPT ![t].done = TRUE, ![t].row = IF call[t].what = "read" THEN 0 ELSE made + 1]
  /\ UNCHANGED <<context, block>>

Run(t) ==
  /\ call[t] # NoCall /\ ~call[t].done
  /\ \E c \in On(t) : ~pool[c].gone /\ Statement(t, c)

\* What a statement of its own is told, on whatever connection it gets.
IdFromAny(t) == {HandedOut(pool[c]).last : c \in Free}

\* RETURNING, or last_insert_rowid on the same session
IdFrom(t) == {pool[c].last : c \in {d \in On(t) : ~pool[d].gone}}

\* execute_commit_returning has the id.
Returned(t) ==
  /\ call[t].what = "insert" /\ call[t].done /\ call[t].told = 0
  /\ \E id \in IdFrom(t) : call' = [call EXCEPT ![t].told = id]
  /\ UNCHANGED <<pool, context, block, scope, made>>

\* get_last_insert_rowid with the session: SQLite is asked on it, PostgreSQL by a statement
\* of its own, on the block's session or on any connection.
LastRowid(t) ==
  /\ call[t].what = "session" /\ call[t].done /\ call[t].told = 0
  /\ \E id \in IF Engine = "postgres" /\ ~Joins(t) THEN IdFromAny(t) ELSE IdFrom(t) :
       call' = [call EXCEPT ![t].told = id]
  /\ UNCHANGED <<pool, context, block, scope, made>>

\* What the connections hold once these have committed, or not, and are handed back. One
\* that turned out to be dropped is not kept; after a plain read nobody notices.
Back(on, noticed) ==
  [c \in Connections |->
     IF c \notin on THEN pool[c]
     ELSE IF pool[c].gone /\ noticed THEN New ELSE [pool[c] EXCEPT !.rows = {}, !.lately = TRUE]]

Committed(on) == UNION {pool[c].rows : c \in on}

\* The end of the thread's outermost block or call, by its session's commit or rollback.
Scopes(t, on, ended) ==
  [u \in Threads |->
     LET s == IF ended = "well" THEN [scope[u] EXCEPT !.kept = @ \cup {r.id : r \in {q \in Committed(on) : q.by = u}}]
              ELSE scope[u]
     IN  IF u = t THEN [s EXCEPT !.ended = ended] ELSE s]

\* Where a thread's context points when its work is over
Left(t) == [context EXCEPT ![t] = Nobody]

\* A call that is done commits, unless it ran on a block's session.
EndCall(t) ==
  /\ call[t] # NoCall /\ call[t].done
  /\ call[t].what \in {"insert", "session"} => call[t].told # 0
  /\ (call[t].of = Nobody /\ call[t].what # "read") => \A c \in call[t].on : ~pool[c].gone
  /\ call' = [call EXCEPT ![t] = NoCall]
  /\ IF call[t].of # Nobody
     THEN /\ UNCHANGED pool
          /\ scope' = IF block[t].open THEN scope ELSE [scope EXCEPT ![t].ended = "well"]
     ELSE /\ pool' = Back(call[t].on, call[t].what # "read")
          /\ scope' = Scopes(t, call[t].on, IF block[t].open THEN "not" ELSE "well")
  /\ context' = IF block[t].open THEN context ELSE Left(t)
  /\ UNCHANGED <<block, made>>

EndBlock(t) ==
  /\ block[t].open /\ call[t] = NoCall /\ \A c \in block[t].on : ~pool[c].gone
  /\ pool' = Back(block[t].on, TRUE)
  /\ scope' = Scopes(t, block[t].on, "well")
  /\ block' = [block EXCEPT ![t] = Closed]
  /\ context' = Left(t)
  /\ UNCHANGED <<call, made>>

\* A statement or a commit fails: on a dropped connection, for its own reasons, or because
\* no connection came in pool_timeout. Nobody catches it inside the block.
Raise(t) ==
  /\ Busy(t)
  /\ LET on == block[t].on \cup IF call[t] # NoCall THEN call[t].on ELSE {} IN
     /\ pool' = Back(on, TRUE)
     /\ scope' = Scopes(t, on, "ill")
  /\ block' = [block EXCEPT ![t] = Closed] /\ call' = [call EXCEPT ![t] = NoCall]
  /\ context' = Left(t)
  /\ UNCHANGED made

Thread(t) ==
  \/ OpenBlock(t) \/ (\E u \in Threads : HandOver(t, u))
  \/ (\E what \in {"read", "write", "insert", "session"} : Call(t, what))
  \/ Take(t) \/ Run(t) \/ Returned(t) \/ LastRowid(t) \/ EndCall(t) \/ EndBlock(t) \/ Raise(t)

Next == (\E c \in Connections : Drop(c) \/ Lie(c)) \/ (\E t \in Threads : Thread(t))

Spec == Init /\ [][Next]_vars

-----------------------------------------------------------------------------

\* A block or a call that ended well has committed every row it wrote, one that failed
\* none, whatever was handed to other threads and whatever they did meanwhile.
ScopeIsWhole ==
  \A t \in Threads :
    /\ scope[t].ended = "well" => scope[t].kept = scope[t].wrote
    /\ scope[t].ended = "ill" => scope[t].kept = {}

\* A thread that waits for a connection holds none: threads at the pool's limit never
\* wait for each other (shared_session).
WaitsEmptyHanded ==
  \A t \in Threads : (call[t] # NoCall /\ On(t) = {}) => block[t].on = {}

\* The id an insert is answered with is its row's, whoever else inserts meanwhile
\* (execute_commit_returning).
IdIsTheRows ==
  \A t \in Threads : call[t].what = "insert" /\ call[t].told # 0 => call[t].told = call[t].row

\* A call has done all it says, and answers with its own row.
CallsAreWhole == ScopeIsWhole /\ IdIsTheRows

=============================================================================
