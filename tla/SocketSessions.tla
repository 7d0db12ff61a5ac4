--------------------------- MODULE SocketSessions ---------------------------
(***************************************************************************)
(* The sockets signed in with a session, and what ends them when it is     *)
(* revoked: keepup_auth/socket_sessions.py, websocket.py and the end of    *)
(* panel_session.revoke, over the NotificationBus.                         *)
(*                                                                         *)
(* Each replica has one sweeper.  It waits to be woken, or for its period  *)
(* to pass (which may be at any moment here), takes the sockets held,      *)
(* reads their sessions in a thread, and closes those that are over.       *)
(***************************************************************************)
EXTENDS NotificationBus

CONSTANTS
  Sockets, Sessions,
  MaxFaults  \* bound: statements and publications that fail, deaths and breaks

ASSUME FaultsAssumption == MaxFaults \in Nat

VARIABLES
  revoked,     \* the sessions whose row has revoked_at
  socket,      \* a socket: where it is connected and how far it has come
  due,         \* wake() has asked the loop for _set_and_publish
  publishing,  \* the task that tells the others
  woken,       \* the event of run_forever
  sweeper,     \* where run_forever is
  faults

vars == <<busVars, revoked, socket, due, publishing, woken, sweeper, faults>>
replicaVars == <<due, publishing, woken, sweeper>>

Kind == "keepup.sessions.revoked"
Away == [at |-> "away"]
Gone == [at |-> "gone"]
Waiting == [at |-> "waiting"]
Held(r) == {w \in Sockets : socket[w].at = "held" /\ socket[w].replica = r}

\* `untold` notes, for the properties, the sockets whose session is over and of
\* whose end their replica misses the news: only the period is left to them.
Untold(R) ==
  [w \in Sockets |->
    IF socket[w].at = "held" /\ socket[w].replica \in R /\ socket[w].sid \in revoked
    THEN [socket[w] EXCEPT !.untold = TRUE] ELSE socket[w]]

Init ==
  /\ BusInit
  /\ revoked = {}
  /\ socket = [w \in Sockets |-> Away]
  /\ due = [r \in Replicas |-> FALSE]
  /\ publishing = [r \in Replicas |-> FALSE]
  /\ woken = [r \in Replicas |-> FALSE]
  /\ sweeper = [r \in Replicas |-> Waiting]
  /\ faults = 0

-----------------------------------------------------------------------------
(* A socket: get_current_user reads its session in a thread, then the loop *)
(* holds it                                                                *)

Connect(w, r, s) ==
  /\ socket[w] = Away
  /\ s \notin revoked
  /\ socket' = [socket EXCEPT ![w] = [at |-> "admitted", replica |-> r, sid |-> s]]
  /\ UNCHANGED <<busVars, revoked, replicaVars, faults>>

\* The session may have ended by the time its socket is held.
Hold(w) ==
  /\ socket[w].at = "admitted"
  /\ socket' = [socket EXCEPT ![w] =
       [at |-> "held", replica |-> @.replica, sid |-> @.sid, untold |-> @.sid \in revoked]]
  /\ UNCHANGED <<busVars, revoked, replicaVars, faults>>

\* The peer goes away; the weak dictionary forgets the socket.
Disconnect(w) ==
  /\ socket[w].at = "held"
  /\ socket' = [socket EXCEPT ![w] = Gone]
  /\ UNCHANGED <<busVars, revoked, replicaVars, faults>>

-----------------------------------------------------------------------------
(* A revocation at some replica, and who hears of it                       *)

\* revoke or revoke_all, then wake() when a row was changed.
Revoke(r, S) ==
  /\ S # {} /\ S \cap revoked = {}
  /\ revoked' = revoked \cup S
  /\ due' = [due EXCEPT ![r] = TRUE]
  /\ UNCHANGED <<busVars, socket, publishing, woken, sweeper, faults>>

SetAndPublish(r) ==
  /\ due[r]
  /\ due' = [due EXCEPT ![r] = FALSE]
  /\ woken' = [woken EXCEPT ![r] = TRUE]
  /\ publishing' = [publishing EXCEPT ![r] = TRUE]
  /\ UNCHANGED <<busVars, revoked, socket, sweeper, faults>>

Tell(r) ==
  /\ publishing[r]
  /\ publishing' = [publishing EXCEPT ![r] = FALSE]
  /\ Publish(r, Kind)
  /\ socket' = Untold({q \in Replicas \ {r} : ~listening[q]})
  /\ UNCHANGED <<listening, breaks, revoked, due, woken, sweeper, faults>>

\* Publishing never raises: the envelope is logged and gone.
TellFails(r) ==
  /\ publishing[r] /\ faults + breaks < MaxFaults
  /\ publishing' = [publishing EXCEPT ![r] = FALSE]
  /\ faults' = faults + 1
  /\ socket' = Untold(Replicas \ {r})
  /\ UNCHANGED <<busVars, revoked, due, woken, sweeper>>

OnEnvelope(r, e) ==
  /\ Taken(r, e)
  /\ woken' = [woken EXCEPT ![r] = TRUE]
  /\ UNCHANGED <<listening, breaks, revoked, socket, due, publishing, sweeper, faults>>

-----------------------------------------------------------------------------
(* The sweeper: run_forever and sweep                                      *)

\* Mutant: a period that passes without a word is not used to look.
Begin_OnlyWoken(r) ==
  /\ sweeper[r] = Waiting
  /\ woken' = [woken EXCEPT ![r] = FALSE]
  /\ sweeper' = [sweeper EXCEPT ![r] =
       IF Held(r) = {} \/ ~woken[r] THEN Waiting ELSE [at |-> "reading", held |-> Held(r)]]
  /\ UNCHANGED <<busVars, revoked, socket, due, publishing, faults>>

\* The wait ends, by the event or by its period; the event is cleared before
\* the sockets are looked at, and nothing is read when there are none.
Begin(r) ==
  /\ sweeper[r] = Waiting
  /\ woken' = [woken EXCEPT ![r] = FALSE]
  /\ sweeper' = [sweeper EXCEPT ![r] =
       IF Held(r) = {} THEN Waiting ELSE [at |-> "reading", held |-> Held(r)]]
  /\ UNCHANGED <<busVars, revoked, socket, due, publishing, faults>>

\* Mutant: the event is cleared after the reading it may have come during.
Read_ClearsTheEvent(r) ==
  /\ sweeper[r].at = "reading"
  /\ LET over == {w \in sweeper[r].held : socket[w].at = "held" /\ socket[w].sid \in revoked}
     IN  sweeper' = [sweeper EXCEPT ![r] =
           IF over = {} THEN Waiting ELSE [at |-> "closing", held |-> over]]
  /\ woken' = [woken EXCEPT ![r] = FALSE]
  /\ UNCHANGED <<busVars, revoked, socket, due, publishing, faults>>

\* _live, and which of the sockets taken are to be closed.
Read(r) ==
  /\ sweeper[r].at = "reading"
  /\ LET over == {w \in sweeper[r].held : socket[w].at = "held" /\ socket[w].sid \in revoked}
     IN  sweeper' = [sweeper EXCEPT ![r] =
           IF over = {} THEN Waiting ELSE [at |-> "closing", held |-> over]]
  /\ UNCHANGED <<busVars, revoked, socket, due, publishing, woken, faults>>

\* The statement fails: logged, and the sockets wait for the next period.
ReadFails(r) ==
  /\ sweeper[r].at = "reading" /\ faults + breaks < MaxFaults
  /\ sweeper' = [sweeper EXCEPT ![r] = Waiting]
  /\ faults' = faults + 1
  /\ socket' = Untold({r})
  /\ UNCHANGED <<busVars, revoked, due, publishing, woken>>

\* One socket is forgotten and closed, with an await before the next one.
Close(r, w) ==
  /\ sweeper[r].at = "closing" /\ w \in sweeper[r].held
  /\ socket' = IF socket[w].at = "held" THEN [socket EXCEPT ![w] = Gone] ELSE socket
  /\ LET left == sweeper[r].held \ {w}
     IN  sweeper' = [sweeper EXCEPT ![r] =
           IF left = {} THEN Waiting ELSE [at |-> "closing", held |-> left]]
  /\ UNCHANGED <<busVars, revoked, due, publishing, woken, faults>>

-----------------------------------------------------------------------------
(* The listening connection, and the replica itself                        *)

Hear(r) ==
  /\ Listen(r)
  /\ UNCHANGED <<revoked, socket, replicaVars, faults>>

LoseTheBus(r) ==
  /\ faults < MaxFaults
  /\ BreakOff(r)
  /\ socket' = IF inbox[r] # {} THEN Untold({r}) ELSE socket
  /\ UNCHANGED <<revoked, replicaVars, faults>>

\* The replica dies, with its sockets and all that was only in its memory, and
\* starts again.

Crash(r) ==
  /\ faults + breaks < MaxFaults
  /\ faults' = faults + 1
  /\ LET others == IF due[r] \/ publishing[r] THEN Replicas \ {r} ELSE {}
     IN  socket' = [w \in Sockets |->
           IF socket[w].at \in {"admitted", "held"} /\ socket[w].replica = r
           THEN Gone ELSE Untold(others)[w]]
  /\ due' = [due EXCEPT ![r] = FALSE]
  /\ publishing' = [publishing EXCEPT ![r] = FALSE]
  /\ woken' = [woken EXCEPT ![r] = FALSE]
  /\ sweeper' = [sweeper EXCEPT ![r] = Waiting]
  /\ Silence(r)
  /\ UNCHANGED revoked

Sweep(r) == Begin(r) \/ Read(r) \/ \E w \in Sockets : Close(r, w)

Next ==
  \/ \E w \in Sockets :
       \/ Hold(w) \/ Disconnect(w)
       \/ \E r \in Replicas, s \in Sessions : Connect(w, r, s)
  \/ \E r \in Replicas :
       \/ \E S \in SUBSET Sessions : Revoke(r, S)
       \/ SetAndPublish(r) \/ Tell(r) \/ TellFails(r)
       \/ \E e \in inbox[r] : OnEnvelope(r, e)
       \/ Sweep(r) \/ ReadFails(r)
       \/ Hear(r) \/ LoseTheBus(r) \/ Crash(r)

Spec == Init /\ [][Next]_vars

\* The sweeper is a task of its own whose wait always ends, by its period at
\* the latest, and whose statement is answered.
Fairness == \A r \in Replicas : WF_vars(Sweep(r))
FairSpec == Spec /\ Fairness

-----------------------------------------------------------------------------
(* Properties                                                              *)

\* Something on replica r will look at socket w without waiting for a period.
Underway(r, w) ==
  \/ due[r] \/ woken[r]
  \/ sweeper[r] # Waiting /\ w \in sweeper[r].held

\* The news of a revocation is still on its way to replica r.
OnItsWay(r) ==
  \/ \E q \in Replicas \ {r} : due[q] \/ publishing[q]
  \/ inbox[r] # {}

\* A socket whose session was revoked waits for the period only if the news was
\* missed on its way (a connection down, a publication or a reading that failed,
\* a death) or the session ended between its check and its hold; else the
\* sweeper has it in hand, is woken, or is about to hear.  A wake that comes
\* while the sweeper reads is not lost with the one it answers (run_forever).
RevocationIsNotOverlooked ==
  \A r \in Replicas, w \in Sockets :
    w \in Held(r) /\ socket[w].sid \in revoked
      => socket[w].untold \/ Underway(r, w) \/ OnItsWay(r)

\* Whatever is lost on the way (an envelope, a publication, a reading, a
\* session that ended between the check and the hold), no socket outlives its
\* session for ever (the period of run_forever, keepup-65).
RevokedSocketsClose ==
  \A w \in Sockets :
    socket[w].at = "held" /\ socket[w].sid \in revoked ~> socket[w].at # "held"

=============================================================================
