------------------------------- MODULE Cluster -------------------------------
(***************************************************************************)
(* The replicas of one deployment, seen and steered from the panel:        *)
(* src/packages/keepup-cluster/keepup_cluster/cluster.py.                  *)
(*                                                                         *)
(* Every replica publishes its row in cluster_members and collects the     *)
(* commands addressed to it from cluster_commands; a panel request reads   *)
(* both tables and records a command.  Each statement is a step of its     *)
(* own, so the ticks of the replicas and the requests interleave.          *)
(*                                                                         *)
(* There is no clock.  The module's three limits -- thirty seconds without *)
(* a heartbeat, five minutes of a command, a day of silence -- are passed  *)
(* by steps of the environment, in any order a slow or a fast database     *)
(* allows.                                                                 *)
(***************************************************************************)
EXTENDS Integers, FiniteSets

CONSTANTS
  Replicas,      \* the instance identifiers
  Panels,        \* the requests that may be under way at once
  Forces,        \* whether a stop is asked for with force: a set of booleans
  CanRestart,    \* the replicas no supervising parent runs
  Mortal,        \* the replicas whose process may end
  MaxCommands,   \* bound: commands a behaviour records
  MaxEnds,       \* bound: how often a process dies or is shut down
  MaxErrors,     \* bound: statements that fail
  Faults         \* which statements may fail

ASSUME ReplicasAssumption == CanRestart \subseteq Replicas /\ Mortal \subseteq Replicas
                             /\ Forces \subseteq BOOLEAN /\ "nobody" \notin Replicas
ASSUME BoundsAssumption ==
  /\ MaxCommands \in Nat /\ MaxEnds \in Nat /\ MaxErrors \in Nat
  /\ Faults \subseteq {"tick", "write_state", "read_member"}

Actions == {"stop", "start", "restart"}
States == {"serving", "stopped"}
OpenStatuses == {"pending", "executing"}
ClosedStatuses == {"done", "failed", "expired"}
CommandIds == 1..MaxCommands

VARIABLES
  process,   \* "up", "exec" (on its way back) or "down"
  state,     \* ReplicaController.state
  paused,    \* the scheduler of the process is paused
  leaving,   \* restart_requested: SIGTERM is on its way
  pc,        \* where the tick stands
  queue,     \* the pending commands the tick has still to claim
  holding,   \* the command it has claimed
  row,       \* cluster_members.state, "none" without a row
  heard,     \* how old last_seen is: "fresh", "silent" (gone) or "old"
  command,   \* cluster_commands
  given,     \* how many commands were recorded
  request,   \* what each panel request asks for, and how far it is
  told,      \* history: what the last command to r reported, while it holds
  ends, errors

tickVars    == <<pc, queue, holding>>
memberVars  == <<row, heard>>
commandVars == <<command, given>>
boundVars   == <<ends, errors>>
vars == <<process, state, paused, leaving, pc, queue, holding, row, heard,
          command, given, request, told, ends, errors>>

Idle == [at |-> "idle", to |-> "nobody", action |-> "stop", force |-> FALSE]
Unused == [to |-> "nobody", action |-> "stop", forced |-> FALSE,
           status |-> "unused", late |-> FALSE]

Init ==
  /\ process = [r \in Replicas |-> "down"]
  /\ state = [r \in Replicas |-> "serving"]
  /\ paused = [r \in Replicas |-> FALSE]
  /\ leaving = [r \in Replicas |-> FALSE]
  /\ pc = [r \in Replicas |-> "asleep"]
  /\ queue = [r \in Replicas |-> {}]
  /\ holding = [r \in Replicas |-> 0]
  /\ row = [r \in Replicas |-> "none"]
  /\ heard = [r \in Replicas |-> "fresh"]
  /\ command = [c \in CommandIds |-> Unused]
  /\ given = 0
  /\ request = [p \in Panels |-> Idle]
  /\ told = [r \in Replicas |-> "nothing"]
  /\ ends = 0 /\ errors = 0

To(r, statuses) ==
  {c \in CommandIds : command[c].to = r /\ command[c].status \in statuses}

-----------------------------------------------------------------------------
(* A panel request: give_command() and check_command()                     *)

\* A row whose last_seen is at most three heartbeats old.
IsAlive(r) == row[r] # "none" /\ heard[r] = "fresh"

\* The refusals that follow from read_members().
RefusedByMembers(r, action, force) ==
  \/ ~IsAlive(r)
  \/ action = "restart" /\ r \notin CanRestart
  \/ /\ action = "stop" /\ row[r] = "serving" /\ ~force
     /\ ~\E q \in Replicas \ {r} : row[q] = "serving" /\ IsAlive(q)

\* The request arrives and the members are read; force matters to a stop.
Ask(p) ==
  /\ request[p].at = "idle" /\ given < MaxCommands
  /\ \E r \in Replicas, action \in Actions, force \in BOOLEAN :
       /\ IF action = "stop" THEN force \in Forces ELSE ~force
       /\ ~RefusedByMembers(r, action, force)
       /\ request' = [request EXCEPT ![p] =
            [at |-> "open", to |-> r, action |-> action, force |-> force]]
  /\ UNCHANGED <<process, state, paused, leaving, tickVars, memberVars,
                 commandVars, told, boundVars>>

\* Mutant: a command somebody is carrying out does not count as unfinished.
OpenCommandsFor_Pending(r) == To(r, {"pending"})

OpenCommandsFor(r) == To(r, OpenStatuses)

\* open_command_for(): one unfinished command at a time.
ReadOpen(p) ==
  LET q == request[p] IN
  /\ q.at = "open"
  /\ request' = [request EXCEPT ![p] =
       IF OpenCommandsFor(q.to) # {} THEN Idle ELSE [q EXCEPT !.at = "record"]]
  /\ UNCHANGED <<process, state, paused, leaving, tickVars, memberVars,
                 commandVars, told, boundVars>>

\* record_command().  The nudge is a tick like any other.
Record(p) ==
  LET q == request[p] IN
  /\ q.at = "record" /\ given < MaxCommands
  /\ command' = [command EXCEPT ![given + 1] =
       [to |-> q.to, action |-> q.action, forced |-> q.force,
        status |-> "pending", late |-> FALSE]]
  /\ given' = given + 1
  /\ request' = [request EXCEPT ![p] = Idle]
  /\ UNCHANGED <<process, state, paused, leaving, tickVars, memberVars, told,
                 boundVars>>

-----------------------------------------------------------------------------
(* The tick of one replica                                                 *)

Up(r) == process[r] = "up"

Goto(r, where) == pc' = [pc EXCEPT ![r] = where]

\* A pass begins.  publish_member(): only the replica itself writes its row, and
\* only the pass, under its lock, changes the state it publishes.
Publish(r) ==
  /\ Up(r) /\ pc[r] = "asleep"
  /\ row' = [row EXCEPT ![r] = state[r]]
  /\ heard' = [heard EXCEPT ![r] = "fresh"]
  /\ Goto(r, "expire")
  /\ UNCHANGED <<process, state, paused, leaving, queue, holding, commandVars,
                 request, told, boundVars>>

\* Mutant: only what nobody picked up is closed.
Expirable_Pending == {c \in CommandIds : command[c].status = "pending"}

\* A closed command; how late it was is of no interest any more.
Closed(c, status) == [command[c] EXCEPT !.status = status, !.late = FALSE]

Expirable == {c \in CommandIds : command[c].status \in OpenStatuses}

\* expire_commands(): whoever's they are.
Expire(r) ==
  /\ Up(r) /\ pc[r] = "expire"
  /\ command' = [c \in CommandIds |->
       IF c \in Expirable /\ command[c].late
         THEN Closed(c, "expired") ELSE command[c]]
  /\ Goto(r, "read")
  /\ UNCHANGED <<process, state, paused, leaving, queue, holding, memberVars, given,
                 request, told, boundVars>>

\* pending_commands_for().
Read(r) ==
  /\ Up(r) /\ pc[r] = "read"
  /\ queue' = [queue EXCEPT ![r] = To(r, {"pending"})]
  /\ Goto(r, "claim")
  /\ UNCHANGED <<process, state, paused, leaving, holding, memberVars, commandVars,
                 request, told, boundVars>>

\* Mutant: an UPDATE by the id alone.
Claimable_AsRead(c) == command[c].status # "unused"

Claimable(c) == command[c].status = "pending"

Claimed(c) ==
  command' = [command EXCEPT ![c].status = "executing", ![c].late = FALSE]

\* The pass takes its commands in the order they were recorded in.
IsNext(r, c) == c \in queue[r] /\ \A d \in queue[r] : c <= d

\* claim_command(): a conditional UPDATE; what it does not find is passed over.
Claim(r) ==
  /\ Up(r) /\ pc[r] = "claim"
  /\ \E c \in queue[r] :
       /\ IsNext(r, c)
       /\ queue' = [queue EXCEPT ![r] = @ \ {c}]
       /\ IF Claimable(c)
            THEN /\ Claimed(c)
                 /\ holding' = [holding EXCEPT ![r] = c]
                 /\ Goto(r, "execute")
            ELSE UNCHANGED <<command, holding, pc>>
  /\ UNCHANGED <<process, state, paused, leaving, memberVars, given, request, told,
                 boundVars>>

\* ReplicaController.stop() and start(): the state, then the row, then the
\* scheduler -- which a write that raises leaves as it was.
Becomes(r, s) ==
  /\ state' = [state EXCEPT ![r] = s]
  /\ \/ /\ row' = [row EXCEPT ![r] = IF @ = "none" THEN @ ELSE s]
        /\ paused' = [paused EXCEPT ![r] = (s = "stopped")]
        /\ Goto(r, "finish")
        /\ UNCHANGED <<queue, holding, errors>>
     \/ /\ "write_state" \in Faults /\ errors < MaxErrors
        /\ errors' = errors + 1
        /\ queue' = [queue EXCEPT ![r] = {}]
        /\ holding' = [holding EXCEPT ![r] = 0]
        /\ Goto(r, "asleep")
        /\ UNCHANGED <<row, paused>>

\* execute() of a stop or a start; one that is already so is only reported.
Execute(r) ==
  LET c == command[holding[r]]
      s == IF c.action = "stop" THEN "stopped" ELSE "serving" IN
  /\ Up(r) /\ pc[r] = "execute" /\ c.action \in {"stop", "start"}
  /\ IF state[r] = s
       THEN Goto(r, "finish")
            /\ UNCHANGED <<state, paused, row, queue, holding, errors>>
       ELSE Becomes(r, s)
  /\ told' = [told EXCEPT ![r] = "nothing"]
  /\ UNCHANGED <<process, leaving, heard, commandVars, request, ends>>

\* execute() of a restart: the command stays executing, the tick goes on.
ExecuteRestart(r) ==
  /\ Up(r) /\ pc[r] = "execute" /\ command[holding[r]].action = "restart"
  /\ IF r \in CanRestart
       THEN /\ leaving' = [leaving EXCEPT ![r] = TRUE]
            /\ holding' = [holding EXCEPT ![r] = 0]
            /\ Goto(r, "claim")
       ELSE Goto(r, "finish") /\ UNCHANGED <<leaving, holding>>
  /\ UNCHANGED <<process, state, paused, queue, memberVars, commandVars, request,
                 told, boundVars>>

\* finish_command(): whatever the status is by now.
Finish(r) ==
  LET c == holding[r] IN
  /\ Up(r) /\ pc[r] = "finish"
  /\ command' = [command EXCEPT ![c] =
       Closed(c, IF command[c].action = "restart" THEN "failed" ELSE "done")]
  /\ told' = [told EXCEPT ![r] = IF command[c].action = "restart" THEN @
                                                                 ELSE state[r]]
  /\ holding' = [holding EXCEPT ![r] = 0]
  /\ Goto(r, "claim")
  /\ UNCHANGED <<process, state, paused, leaving, queue, memberVars, given, request,
                 boundVars>>

\* prune_members() ends the pass: a row a day old is forgotten.
Prune(r) ==
  LET kept(q) == heard[q] # "old" IN
  /\ Up(r) /\ pc[r] = "claim" /\ queue[r] = {}
  /\ row' = [q \in Replicas |-> IF kept(q) THEN row[q] ELSE "none"]
  /\ told' = [q \in Replicas |-> IF kept(q) THEN told[q] ELSE "nothing"]
  /\ heard' = [q \in Replicas |-> IF kept(q) THEN heard[q] ELSE "fresh"]
  /\ Goto(r, "asleep")
  /\ UNCHANGED <<process, state, paused, leaving, queue, holding, commandVars,
                 request, boundVars>>

\* A statement fails: the pass is over, the next heartbeat retries.
TickError(r) ==
  /\ "tick" \in Faults /\ errors < MaxErrors
  /\ Up(r) /\ pc[r] \in {"expire", "read", "claim", "finish"}
  /\ errors' = errors + 1
  /\ queue' = [queue EXCEPT ![r] = {}]
  /\ holding' = [holding EXCEPT ![r] = 0]
  /\ Goto(r, "asleep")
  /\ UNCHANGED <<process, state, paused, leaving, memberVars, commandVars, request,
                 told, ends>>

-----------------------------------------------------------------------------
(* The process of one replica                                              *)

\* Mutant: every process starts serving.
Restored_Serving(r) == "serving"

\* The state the row remembers; a replica without a row serves.
Restored(r) == IF row[r] = "stopped" THEN "stopped" ELSE "serving"

\* launch(): restore() and _close_restarts(), before the first pass.
RestoredAndClosed(r) ==
  /\ state' = [state EXCEPT ![r] = Restored(r)]
  /\ paused' = [paused EXCEPT ![r] = (Restored(r) = "stopped")]
  /\ command' = [c \in CommandIds |->
       IF c \in To(r, {"executing"}) /\ command[c].action = "restart"
         THEN Closed(c, "done") ELSE command[c]]
  /\ UNCHANGED <<told, errors>>

\* A statement of it fails: stop() cannot write the row and gets no further, or
\* the row cannot be read and the replica serves.
RestoreFails(r) ==
  /\ errors < MaxErrors /\ errors' = errors + 1
  /\ \/ /\ "write_state" \in Faults /\ Restored(r) = "stopped"
        /\ state' = [state EXCEPT ![r] = "stopped"]
        /\ UNCHANGED told
     \/ /\ "read_member" \in Faults
        /\ state' = [state EXCEPT ![r] = "serving"]
        /\ told' = [told EXCEPT ![r] = "nothing"]
  /\ UNCHANGED <<paused, command>>

Boot(r) ==
  /\ ~Up(r)
  /\ process' = [process EXCEPT ![r] = "up"]
  /\ RestoredAndClosed(r) \/ RestoreFails(r)
  /\ UNCHANGED <<leaving, tickVars, memberVars, given, request, ends>>

\* What a process leaves behind: nothing of its memory.
Ended(r, how) ==
  /\ process' = [process EXCEPT ![r] = how]
  /\ state' = [state EXCEPT ![r] = "serving"]
  /\ paused' = [paused EXCEPT ![r] = FALSE]
  /\ leaving' = [leaving EXCEPT ![r] = FALSE]
  /\ queue' = [queue EXCEPT ![r] = {}]
  /\ holding' = [holding EXCEPT ![r] = 0]
  /\ Goto(r, "asleep")

\* The server shuts down and shutdown() cancels the pass where it waits.  The
\* thread that claims a command may still do so; nobody will execute it.
Leaves(r, how) ==
  /\ Up(r) /\ pc[r] # "finish"
  /\ Ended(r, how)
  /\ \/ UNCHANGED command
     \/ /\ pc[r] = "claim"
        /\ \E c \in queue[r] : IsNext(r, c) /\ Claimable(c) /\ Claimed(c)

\* The restart the replica asked for: exec_again() brings it back.
Restart(r) ==
  /\ leaving[r] /\ Leaves(r, "exec")
  /\ UNCHANGED <<memberVars, given, request, told, boundVars>>

\* The host ends the process, in the normal way or at once.
End(r) ==
  /\ r \in Mortal /\ ends < MaxEnds /\ Up(r)
  /\ ends' = ends + 1
  /\ \/ ~leaving[r] /\ Leaves(r, "down")
     \/ Ended(r, "down") /\ UNCHANGED command
  /\ UNCHANGED <<memberVars, given, request, told, errors>>

-----------------------------------------------------------------------------
(* Time                                                                    *)

\* Thirty seconds without a heartbeat.  (A replica that is merely slow reads as
\* gone too: requests that would be made of it are refused, which is what a
\* request that is not made amounts to.)
GoesSilent(r) ==
  /\ ~Up(r) /\ row[r] # "none" /\ heard[r] = "fresh"
  /\ heard' = [heard EXCEPT ![r] = "silent"]
  /\ UNCHANGED <<process, state, paused, leaving, tickVars, row, commandVars,
                 request, told, boundVars>>

\* A day of it: only a replica that is not there is silent for so long.
GoesOld(r) ==
  /\ ~Up(r) /\ heard[r] = "silent"
  /\ heard' = [heard EXCEPT ![r] = "old"]
  /\ UNCHANGED <<process, state, paused, leaving, tickVars, row, commandVars,
                 request, told, boundVars>>

\* Five minutes since requested_at, or since claimed_at.
GoesLate(c) ==
  /\ command[c].status \in OpenStatuses /\ ~command[c].late
  /\ command' = [command EXCEPT ![c].late = TRUE]
  /\ UNCHANGED <<process, state, paused, leaving, tickVars, memberVars, given,
                 request, told, boundVars>>

Pass(r) ==
  \/ Publish(r) \/ Expire(r) \/ Read(r) \/ Claim(r)
  \/ Execute(r) \/ ExecuteRestart(r) \/ Finish(r) \/ Prune(r)

Give(p) == Ask(p) \/ ReadOpen(p) \/ Record(p)

Next ==
  \/ \E p \in Panels : Give(p)
  \/ \E r \in Replicas : Pass(r) \/ TickError(r) \/ Boot(r) \/ Restart(r) \/ End(r)
  \/ \E r \in Replicas : GoesSilent(r) \/ GoesOld(r)
  \/ \E c \in CommandIds : GoesLate(c)

Spec == Init /\ [][Next]_vars

\* The loop of a live replica goes on, an open command grows late, a shutdown
\* and the exec after it complete.  A process the host ended need not return,
\* one that no host ends is started once.
Fairness ==
  /\ \A r \in Replicas :
       /\ WF_vars(Pass(r)) /\ WF_vars(Restart(r))
       /\ WF_vars((process[r] = "exec" \/ r \notin Mortal) /\ Boot(r))
  /\ \A c \in CommandIds : WF_vars(GoesLate(c))

FairSpec == Spec /\ Fairness

-----------------------------------------------------------------------------
(* Properties                                                              *)

PCs == {"asleep", "expire", "read", "claim", "execute", "finish"}
CommandRow ==
  [to : Replicas \cup {"nobody"}, action : Actions, forced : BOOLEAN,
   status : OpenStatuses \cup ClosedStatuses \cup {"unused"}, late : BOOLEAN]
PanelRequest ==
  [at : {"idle", "open", "record"}, to : Replicas \cup {"nobody"},
   action : Actions, force : BOOLEAN]

\* Every variable in its range; a command is held exactly where it is carried out.
TypeOK ==
  /\ process \in [Replicas -> {"up", "exec", "down"}]
  /\ state \in [Replicas -> States]
  /\ paused \in [Replicas -> BOOLEAN] /\ leaving \in [Replicas -> BOOLEAN]
  /\ pc \in [Replicas -> PCs]
  /\ queue \in [Replicas -> SUBSET CommandIds]
  /\ holding \in [Replicas -> {0} \cup CommandIds]
  /\ \A r \in Replicas : holding[r] # 0 <=> pc[r] \in {"execute", "finish"}
  /\ row \in [Replicas -> States \cup {"none"}]
  /\ heard \in [Replicas -> {"fresh", "silent", "old"}]
  /\ command \in [CommandIds -> CommandRow]
  /\ given \in 0..MaxCommands
  /\ request \in [Panels -> PanelRequest]
  /\ told \in [Replicas -> States \cup {"nothing"}]
  /\ ends \in 0..MaxEnds /\ errors \in 0..MaxErrors

\* "One unfinished command at a time": a second command to a replica is not
\* recorded before the first is closed, through restarts, lost passes and
\* expiry, as long as administrators ask one after another.
OneOpenCommand ==
  \A r \in Replicas : \A c, d \in To(r, OpenStatuses) : c = d

\* "A stopped one stays stopped" (and one that was started serves): what the
\* last command reported of a replica's state holds whenever its process is
\* there, across restarts, crashes and failed passes -- while its row is kept and
\* was readable when the process started.
StateSurvives ==
  \A r \in Replicas : Up(r) /\ told[r] # "nothing" => state[r] = told[r]

\* A stopped replica runs no background jobs, and a serving one does: whatever
\* restarts and crashes come between, the scheduler is paused exactly while the
\* replica is stopped -- as long as no statement failed.
StoppedIsPaused == \A r \in Replicas : Up(r) => (paused[r] <=> state[r] = "stopped")
SchedulerFollows == errors = 0 => StoppedIsPaused

\* A replica that is there does as its last command reported, and so do its jobs.
ReplicaIsAsReported == StateSurvives /\ SchedulerFollows

\* What was closed -- reported, or given up as expired -- is not taken up
\* again: a replica that read a command before it expired does not claim it.
ClosedStaysClosed ==
  [][\A c \in CommandIds : command[c].status \in ClosedStatuses
       => command'[c].status \in ClosedStatuses]_vars

\* No command blocks the next ones for ever, whoever of the replicas dies,
\* is shut down between claim and execute, or loses a statement.
EveryCommandCloses ==
  \A c \in CommandIds :
    (command[c].status \in OpenStatuses) ~> (command[c].status \in ClosedStatuses)

\* A replica that shuts down on an administrator's command is back, unless the
\* host ended it.
RestartedComesBack ==
  \A r \in Replicas :
    leaving[r] ~> (Up(r) /\ ~leaving[r]) \/ process[r] = "down"

\* No command is left half done, nor the replica that it was for.
CommandsComeToAnEnd == EveryCommandCloses /\ RestartedComesBack

\* "Take a command for execution; False when somebody already has": a command is
\* carried out at most once and by the replica it was given to, one at a time,
\* though passes end between claim and report and others expire what they had read.
Addressee == [c \in CommandIds |-> command[c].to]
Spent == {c \in CommandIds : command[c].status \notin {"unused", "pending"}}
ABS == INSTANCE Assignments
  WITH Workers <- Replicas, Commands <- CommandIds, Nobody <- "nobody", Nothing <- 0,
       addressee <- Addressee, spent <- Spent, work <- holding
CarriedOutOnce == ABS!Spec

-----------------------------------------------------------------------------
(* The inductive invariant behind OneOpenCommand and StateSurvives         *)

\* The commands recorded are the first `given`; one that is held is recorded.
CommandsAreRecorded ==
  /\ \A c \in CommandIds : c <= given <=> command[c].status # "unused"
  /\ \A r \in Replicas : holding[r] # 0 => command[holding[r]].status # "unused"

\* While a pass is under way its process is there, and the row it published
\* is fresh and says what the replica's state is.
PassHasPublished ==
  \A r \in Replicas :
    pc[r] # "asleep" => Up(r) /\ row[r] = state[r] /\ heard[r] = "fresh"

\* What was reported is what the row remembers while the process is away.
RowRemembersReport ==
  \A r \in Replicas : told[r] # "nothing" => row[r] = told[r]

\* With one request at a time, what open_command_for() found still holds when
\* the command is recorded.
OneAdministrator == \A p, q \in Panels : p = q
ReadStillHolds ==
  \A p \in Panels :
    request[p].at = "record" => OpenCommandsFor(request[p].to) = {}

IInv ==
  /\ TypeOK /\ CommandsAreRecorded /\ PassHasPublished /\ RowRemembersReport
  /\ StateSurvives
  /\ OneAdministrator => OneOpenCommand /\ ReadStillHolds
=============================================================================
