----------------------------- MODULE ClusterProofs -----------------------------
(***************************************************************************)
(* Theorems about Cluster, for every set of replicas, whichever of them    *)
(* die or restart and whichever statements fail.                           *)
(***************************************************************************)
EXTENDS Cluster, TLAPS

-----------------------------------------------------------------------------
(* Type correctness                                                        *)

\* A row keeps its shape when its status and its lateness change.
LEMMA RowKeepsShape ==
  ASSUME NEW row0 \in CommandRow,
         NEW s \in OpenStatuses \cup ClosedStatuses \cup {"unused"}, NEW b \in BOOLEAN
  PROVE  /\ [row0 EXCEPT !.status = s, !.late = b] \in CommandRow
         /\ [row0 EXCEPT !.late = b] \in CommandRow
  BY DEF CommandRow

\* The two conditional updates of the command table are typed.
LEMMA ClosedTyped ==
  ASSUME TypeOK, NEW c \in CommandIds, NEW s \in ClosedStatuses
  PROVE  Closed(c, s) \in CommandRow
<1>1. command[c] \in CommandRow
  BY DEF TypeOK
<1> QED
  BY <1>1, RowKeepsShape DEF Closed

LEMMA ClaimedTyped ==
  ASSUME TypeOK, NEW c \in CommandIds, Claimed(c)
  PROVE  command' \in [CommandIds -> CommandRow]
<1>1. command[c] \in CommandRow
  BY DEF TypeOK
<1>2. [command[c] EXCEPT !.status = "executing", !.late = FALSE] \in CommandRow
  BY <1>1, RowKeepsShape DEF OpenStatuses
<1>3. command' = [command EXCEPT ![c] =
                    [command[c] EXCEPT !.status = "executing", !.late = FALSE]]
  BY <1>1 DEF Claimed, TypeOK, CommandRow
<1> QED
  BY <1>2, <1>3 DEF TypeOK

LEMMA InitTyped == Init => TypeOK
<1> SUFFICES ASSUME Init PROVE TypeOK
  OBVIOUS
<1>1. Unused \in CommandRow
  BY DEF Unused, CommandRow, Actions
<1>2. Idle \in PanelRequest
  BY DEF Idle, PanelRequest, Actions
<1> QED
  BY <1>1, <1>2, BoundsAssumption DEF Init, TypeOK, States, PCs

LEMMA StepTyped == TypeOK /\ [Next]_vars => TypeOK'
<1> SUFFICES ASSUME TypeOK, [Next]_vars PROVE TypeOK'
  OBVIOUS
<1> USE BoundsAssumption
<1> USE DEF TypeOK, tickVars, memberVars, commandVars, boundVars
<1>0. Idle \in PanelRequest
  BY DEF Idle, PanelRequest, Actions
<1>1. ASSUME NEW p \in Panels, Ask(p) PROVE TypeOK'
  BY <1>1 DEF Ask, PanelRequest
<1>2. ASSUME NEW p \in Panels, ReadOpen(p) PROVE TypeOK'
<2>1. [request[p] EXCEPT !.at = "record"] \in PanelRequest
  BY DEF PanelRequest
<2> QED
  BY <1>0, <1>2, <2>1 DEF ReadOpen
<1>3. ASSUME NEW p \in Panels, Record(p) PROVE TypeOK'
<2>1. [to |-> request[p].to, action |-> request[p].action,
       forced |-> request[p].force, status |-> "pending", late |-> FALSE]
      \in CommandRow
  BY DEF PanelRequest, CommandRow, OpenStatuses
<2>2. command' \in [CommandIds -> CommandRow]
  BY <1>3, <2>1 DEF Record
<2> QED
  BY <1>0, <1>3, <2>2 DEF Record
<1>4. ASSUME NEW r \in Replicas, Publish(r) PROVE TypeOK'
  BY <1>4 DEF Publish, Goto, PCs
<1>5. ASSUME NEW r \in Replicas, Expire(r) PROVE TypeOK'
<2>1. command' \in [CommandIds -> CommandRow]
  BY <1>5, ClosedTyped DEF Expire, ClosedStatuses
<2> QED
  BY <1>5, <2>1 DEF Expire, Goto, PCs
<1>6. ASSUME NEW r \in Replicas, Read(r) PROVE TypeOK'
  BY <1>6 DEF Read, Goto, PCs, To
<1>7. ASSUME NEW r \in Replicas, Claim(r) PROVE TypeOK'
<2>1. PICK c \in queue[r] :
        /\ queue' = [queue EXCEPT ![r] = @ \ {c}]
        /\ IF Claimable(c)
             THEN Claimed(c) /\ holding' = [holding EXCEPT ![r] = c]
                  /\ Goto(r, "execute")
             ELSE UNCHANGED <<command, holding, pc>>
  BY <1>7 DEF Claim
<2>2. c \in CommandIds /\ c # 0
  BY <2>1 DEF CommandIds
<2>3. command' \in [CommandIds -> CommandRow]
  BY <2>1, <2>2, ClaimedTyped
<2>4. queue' \in [Replicas -> SUBSET CommandIds]
  BY <2>1
<2>5. holding' \in [Replicas -> {0} \cup CommandIds] /\ pc' \in [Replicas -> PCs]
      /\ \A q \in Replicas : holding'[q] # 0 <=> pc'[q] \in {"execute", "finish"}
  BY <2>1, <2>2 DEF Goto, PCs
<2> QED
  BY <1>7, <2>3, <2>4, <2>5 DEF Claim
<1>8. ASSUME NEW r \in Replicas, Execute(r) PROVE TypeOK'
<2> DEFINE s == IF command[holding[r]].action = "stop" THEN "stopped" ELSE "serving"
<2>1. s \in States
  BY DEF States
<2> HIDE DEF s
<2>2. CASE UNCHANGED <<state, paused, row, queue, holding, errors>> /\ Goto(r, "finish")
  BY <1>8, <2>2 DEF Execute, Goto, PCs
<2>3. CASE Becomes(r, s)
<3>0. state' \in [Replicas -> States] /\ row' \in [Replicas -> States \cup {"none"}]
  BY <2>1, <2>3 DEF Becomes
<3>1. paused' \in [Replicas -> BOOLEAN] /\ pc' \in [Replicas -> PCs]
<4>1. (s = "stopped") \in BOOLEAN
  OBVIOUS
<4> QED
  BY <2>3, <4>1 DEF Becomes, Goto, PCs
<3>2. queue' \in [Replicas -> SUBSET CommandIds]
      /\ holding' \in [Replicas -> {0} \cup CommandIds] /\ errors' \in 0..MaxErrors
  BY <2>3 DEF Becomes
<3>3. \A q \in Replicas : holding'[q] # 0 <=> pc'[q] \in {"execute", "finish"}
  BY <1>8, <2>3 DEF Execute, Becomes, Goto
<3> QED
  BY <1>8, <3>0, <3>1, <3>2, <3>3 DEF Execute
<2> QED
  BY <1>8, <2>2, <2>3 DEF Execute, s
<1>9. ASSUME NEW r \in Replicas, ExecuteRestart(r) PROVE TypeOK'
<2>1. leaving' \in [Replicas -> BOOLEAN] /\ pc' \in [Replicas -> PCs]
      /\ holding' \in [Replicas -> {0} \cup CommandIds]
  BY <1>9 DEF ExecuteRestart, Goto, PCs
<2>2. \A q \in Replicas : holding'[q] # 0 <=> pc'[q] \in {"execute", "finish"}
  BY <1>9 DEF ExecuteRestart, Goto
<2> QED
  BY <1>9, <2>1, <2>2 DEF ExecuteRestart
<1>10. ASSUME NEW r \in Replicas, Finish(r) PROVE TypeOK'
<2>1. holding[r] \in CommandIds
  BY <1>10 DEF Finish
<2>2. command' \in [CommandIds -> CommandRow]
  BY <1>10, <2>1, ClosedTyped DEF Finish, ClosedStatuses
<2> QED
  BY <1>10, <2>2 DEF Finish, Goto, PCs
<1>11. ASSUME NEW r \in Replicas, Prune(r) PROVE TypeOK'
  BY <1>11 DEF Prune, Goto, PCs
<1>12. ASSUME NEW r \in Replicas, TickError(r) PROVE TypeOK'
  BY <1>12 DEF TickError, Goto, PCs
<1>13. ASSUME NEW r \in Replicas, Boot(r) PROVE TypeOK'
<2>1. command' \in [CommandIds -> CommandRow]
  BY <1>13, ClosedTyped DEF Boot, RestoredAndClosed, RestoreFails, ClosedStatuses
<2>2. CASE RestoredAndClosed(r)
  BY <1>13, <2>1, <2>2 DEF Boot, RestoredAndClosed, Restored, States
<2>3. CASE RestoreFails(r)
  BY <1>13, <2>1, <2>3 DEF Boot, RestoreFails, States
<2> QED
  BY <1>13, <2>2, <2>3 DEF Boot
<1>14. ASSUME NEW r \in Replicas, NEW how \in {"exec", "down"}, Ended(r, how)
       PROVE  /\ process' \in [Replicas -> {"up", "exec", "down"}]
              /\ state' \in [Replicas -> States] /\ paused' \in [Replicas -> BOOLEAN]
              /\ leaving' \in [Replicas -> BOOLEAN] /\ pc' \in [Replicas -> PCs]
              /\ queue' \in [Replicas -> SUBSET CommandIds]
              /\ holding' \in [Replicas -> {0} \cup CommandIds]
              /\ \A q \in Replicas : holding'[q] # 0 <=> pc'[q] \in {"execute", "finish"}
  BY <1>14 DEF Ended, Goto, PCs, States
<1>15. ASSUME NEW r \in Replicas, NEW how \in {"exec", "down"}, Leaves(r, how)
       PROVE  command' \in [CommandIds -> CommandRow]
  BY <1>15, ClaimedTyped DEF Leaves
<1>16. ASSUME NEW r \in Replicas, Restart(r) PROVE TypeOK'
<2>1. Leaves(r, "exec") /\ Ended(r, "exec")
  BY <1>16 DEF Restart, Leaves
<2> QED
  BY <1>14, <1>15, <1>16, <2>1 DEF Restart
<1>17. ASSUME NEW r \in Replicas, End(r) PROVE TypeOK'
<2>1. Ended(r, "down")
  BY <1>17 DEF End, Leaves
<2>2. command' \in [CommandIds -> CommandRow]
  BY <1>15, <1>17 DEF End
<2> QED
  BY <1>14, <1>17, <2>1, <2>2 DEF End
<1>18. ASSUME NEW r \in Replicas, GoesSilent(r) \/ GoesOld(r) PROVE TypeOK'
  BY <1>18 DEF GoesSilent, GoesOld
<1>19. ASSUME NEW c \in CommandIds, GoesLate(c) PROVE TypeOK'
<2>1. command[c] \in CommandRow
  OBVIOUS
<2>2. [command[c] EXCEPT !.late = TRUE] \in CommandRow
  BY <2>1 DEF CommandRow
<2>3. command' = [command EXCEPT ![c] = [command[c] EXCEPT !.late = TRUE]]
  BY <1>19, <2>1 DEF GoesLate, CommandRow
<2> QED
  BY <1>19, <2>2, <2>3 DEF GoesLate
<1>20. CASE UNCHANGED vars
  BY <1>20 DEF vars
<1> QED
  BY <1>1, <1>2, <1>3, <1>4, <1>5, <1>6, <1>7, <1>8, <1>9, <1>10, <1>11, <1>12,
     <1>13, <1>16, <1>17, <1>18, <1>19, <1>20 DEF Next, Give, Pass

\* Every variable stays in its range through restarts, deaths and lost passes,
\* and a replica holds a command exactly where it carries one out.
THEOREM TypeCorrect == Spec => []TypeOK
<1> QED
  BY InitTyped, StepTyped, PTL DEF Spec

-----------------------------------------------------------------------------
(* What a step does to a command                                           *)

\* A step other than Record opens nothing, reopens nothing, forgets nothing,
\* and leaves whom a command is for.
Settles(c) ==
  /\ command'[c].to = command[c].to
  /\ command'[c].status \in OpenStatuses => command[c].status \in OpenStatuses
  /\ command[c].status \in ClosedStatuses => command'[c].status \in ClosedStatuses
  /\ command'[c].status = "unused" <=> command[c].status = "unused"

\* Closing a command that is not unused settles it.
LEMMA ClosingSettles ==
  ASSUME TypeOK, NEW c \in CommandIds, NEW s \in ClosedStatuses,
         command[c].status # "unused", command'[c] = Closed(c, s)
  PROVE  Settles(c)
<1>1. command[c] \in CommandRow
  BY DEF TypeOK
<1>2. command'[c].to = command[c].to /\ command'[c].status = s
  BY <1>1 DEF Closed, CommandRow
<1> QED
  BY <1>2 DEF Settles, ClosedStatuses, OpenStatuses

\* The conditional UPDATE of claim_command() settles every command.
LEMMA ClaimingSettles ==
  ASSUME TypeOK, NEW c \in CommandIds, Claimable(c), Claimed(c)
  PROVE  \A d \in CommandIds : Settles(d)
<1> SUFFICES ASSUME NEW d \in CommandIds PROVE Settles(d)
  OBVIOUS
<1>1. command[c] \in CommandRow /\ command[d] \in CommandRow
  BY DEF TypeOK
<1>2. CASE d = c
<2>1. command'[c].to = command[c].to /\ command'[c].status = "executing"
  BY <1>1 DEF Claimed, TypeOK, CommandRow
<2> QED
  BY <1>2, <2>1 DEF Settles, Claimable, OpenStatuses, ClosedStatuses
<1>3. CASE d # c
<2>1. command'[d] = command[d]
  BY <1>3 DEF Claimed, TypeOK
<2> QED
  BY <2>1 DEF Settles
<1> QED
  BY <1>2, <1>3

\* Only record_command() makes work for a replica.
LEMMA OnlyRecordOpens ==
  TypeOK /\ CommandsAreRecorded /\ [Next]_vars
    => (\E p \in Panels : Record(p)) \/ (\A c \in CommandIds : Settles(c))
<1> SUFFICES ASSUME TypeOK, CommandsAreRecorded, [Next]_vars,
                    ~\E p \in Panels : Record(p)
             PROVE  \A c \in CommandIds : Settles(c)
  OBVIOUS
<1> USE DEF commandVars
<1>1. CASE UNCHANGED command
  BY <1>1 DEF Settles
<1>2. ASSUME NEW r \in Replicas, Expire(r) PROVE \A c \in CommandIds : Settles(c)
<2> SUFFICES ASSUME NEW c \in CommandIds PROVE Settles(c)
  OBVIOUS
<2>1. CASE c \in Expirable /\ command[c].late
<3>1. command'[c] = Closed(c, "expired")
  BY <1>2, <2>1 DEF Expire
<3> QED
  BY <2>1, <3>1, ClosingSettles DEF Expirable, OpenStatuses, ClosedStatuses
<2>2. CASE ~(c \in Expirable /\ command[c].late)
<3>1. command'[c] = command[c]
  BY <1>2, <2>2 DEF Expire
<3> QED
  BY <3>1 DEF Settles
<2> QED
  BY <2>1, <2>2
<1>3. ASSUME NEW r \in Replicas, Claim(r) PROVE \A c \in CommandIds : Settles(c)
<2>1. PICK c \in queue[r] :
        IF Claimable(c) THEN Claimed(c) ELSE UNCHANGED <<command, holding, pc>>
  BY <1>3 DEF Claim
<2>2. c \in CommandIds
  BY DEF TypeOK
<2> QED
  BY <1>1, <2>1, <2>2, ClaimingSettles
<1>4. ASSUME NEW r \in Replicas, Finish(r) PROVE \A c \in CommandIds : Settles(c)
<2> SUFFICES ASSUME NEW c \in CommandIds PROVE Settles(c)
  OBVIOUS
<2>1. PICK s \in ClosedStatuses :
        command' = [command EXCEPT ![holding[r]] = Closed(holding[r], s)]
  BY <1>4 DEF Finish, ClosedStatuses
<2>2. holding[r] \in CommandIds /\ command[holding[r]].status # "unused"
  BY <1>4 DEF Finish, TypeOK, CommandsAreRecorded
<2>3. CASE c = holding[r]
<3>1. command'[c] = Closed(c, s)
  BY <2>1, <2>3 DEF TypeOK
<3> QED
  BY <2>2, <2>3, <3>1, ClosingSettles
<2>4. CASE c # holding[r]
<3>1. command'[c] = command[c]
  BY <2>1, <2>4 DEF TypeOK
<3> QED
  BY <3>1 DEF Settles
<2> QED
  BY <2>3, <2>4
<1>5. ASSUME NEW r \in Replicas, Boot(r) PROVE \A c \in CommandIds : Settles(c)
<2>1. CASE RestoreFails(r)
  BY <1>1, <2>1 DEF RestoreFails
<2>2. CASE RestoredAndClosed(r)
<3> SUFFICES ASSUME NEW c \in CommandIds PROVE Settles(c)
  OBVIOUS
<3>1. CASE c \in To(r, {"executing"}) /\ command[c].action = "restart"
<4>1. command'[c] = Closed(c, "done") /\ command[c].status = "executing"
  BY <2>2, <3>1 DEF RestoredAndClosed, To
<4> QED
  BY <4>1, ClosingSettles DEF ClosedStatuses
<3>2. CASE ~(c \in To(r, {"executing"}) /\ command[c].action = "restart")
<4>1. command'[c] = command[c]
  BY <2>2, <3>2 DEF RestoredAndClosed
<4> QED
  BY <4>1 DEF Settles
<3> QED
  BY <3>1, <3>2
<2> QED
  BY <1>5, <2>1, <2>2 DEF Boot
<1>6. ASSUME NEW r \in Replicas, NEW how, Leaves(r, how)
      PROVE  \A c \in CommandIds : Settles(c)
<2>1. CASE \E c \in queue[r] : Claimable(c) /\ Claimed(c)
<3>1. PICK c \in queue[r] : Claimable(c) /\ Claimed(c)
  BY <2>1
<3>2. c \in CommandIds
  BY DEF TypeOK
<3> QED
  BY <3>1, <3>2, ClaimingSettles
<2> QED
  BY <1>1, <1>6, <2>1 DEF Leaves
<1>7. ASSUME NEW r \in Replicas, Restart(r) \/ End(r)
      PROVE  \A c \in CommandIds : Settles(c)
  BY <1>1, <1>6, <1>7 DEF Restart, End
<1>8. ASSUME NEW d \in CommandIds, GoesLate(d) PROVE \A c \in CommandIds : Settles(c)
<2> SUFFICES ASSUME NEW c \in CommandIds PROVE Settles(c)
  OBVIOUS
<2>1. command[c] \in CommandRow
  BY DEF TypeOK
<2>2. command'[c].to = command[c].to /\ command'[c].status = command[c].status
  BY <1>8, <2>1 DEF GoesLate, TypeOK, CommandRow
<2> QED
  BY <2>2 DEF Settles
<1>9. ASSUME NEW r \in Replicas,
             Publish(r) \/ Read(r) \/ Execute(r) \/ ExecuteRestart(r) \/ Prune(r)
               \/ TickError(r) \/ GoesSilent(r) \/ GoesOld(r)
      PROVE  UNCHANGED command
  BY <1>9 DEF Publish, Read, Execute, ExecuteRestart, Prune, TickError, GoesSilent,
              GoesOld
<1>10. ASSUME NEW p \in Panels, Ask(p) \/ ReadOpen(p) PROVE UNCHANGED command
  BY <1>10 DEF Ask, ReadOpen
<1>11. CASE UNCHANGED vars
  BY <1>1, <1>11 DEF vars
<1> QED
  BY <1>1, <1>2, <1>3, <1>4, <1>5, <1>7, <1>8, <1>9, <1>10, <1>11
  DEF Next, Give, Pass

\* Recording writes one new row, the next one, as pending.
LEMMA RecordOpensOne ==
  ASSUME TypeOK, CommandsAreRecorded, NEW p \in Panels, Record(p)
  PROVE  /\ given + 1 \in CommandIds /\ given' = given + 1
         /\ command[given + 1].status = "unused"
         /\ command'[given + 1].status = "pending"
         /\ command'[given + 1].to = request[p].to
         /\ \A c \in CommandIds \ {given + 1} : command'[c] = command[c]
<1>1. given + 1 \in CommandIds /\ given' = given + 1 /\ ~(given + 1 <= given)
  BY BoundsAssumption DEF Record, TypeOK, CommandIds
<1> QED
  BY <1>1 DEF Record, TypeOK, CommandsAreRecorded

-----------------------------------------------------------------------------
(* The inductive invariant                                                 *)

LEMMA InitInductive == Init => IInv
<1> SUFFICES ASSUME Init PROVE IInv
  OBVIOUS
<1>1. TypeOK
  BY InitTyped
<1>2. CommandsAreRecorded
  BY BoundsAssumption DEF Init, CommandsAreRecorded, CommandIds, Unused
<1>3. PassHasPublished /\ RowRemembersReport /\ StateSurvives
  BY DEF Init, PassHasPublished, RowRemembersReport, StateSurvives
<1>4. OneOpenCommand /\ ReadStillHolds
  BY DEF Init, OneOpenCommand, ReadStillHolds, To, Unused, Idle, OpenStatuses
<1> QED
  BY <1>1, <1>2, <1>3, <1>4 DEF IInv

\* A replica comes to hold only what was pending.
Holds(r) ==
  \/ holding'[r] = 0
  \/ holding'[r] = holding[r]
  \/ holding'[r] \in CommandIds /\ command[holding'[r]].status = "pending"

LEMMA HeldWasPending == TypeOK /\ [Next]_vars => \A r \in Replicas : Holds(r)
<1> SUFFICES ASSUME TypeOK, [Next]_vars PROVE \A r \in Replicas : Holds(r)
  OBVIOUS
<1>0. CASE UNCHANGED holding
  BY <1>0 DEF Holds
<1>1. ASSUME NEW q \in Replicas, Claim(q) PROVE \A r \in Replicas : Holds(r)
<2>1. PICK c \in queue[q] :
        \/ Claimable(c) /\ holding' = [holding EXCEPT ![q] = c]
        \/ UNCHANGED holding
  BY <1>1 DEF Claim
<2>2. c \in CommandIds
  BY DEF TypeOK
<2>3. CASE Claimable(c) /\ holding' = [holding EXCEPT ![q] = c]
<3>1. holding'[q] = c /\ \A r \in Replicas \ {q} : holding'[r] = holding[r]
  BY <2>3 DEF TypeOK
<3> QED
  BY <2>2, <2>3, <3>1 DEF Holds, Claimable
<2> QED
  BY <1>0, <2>1, <2>3
<1>2. ASSUME NEW q \in Replicas, holding' = [holding EXCEPT ![q] = 0]
      PROVE  \A r \in Replicas : Holds(r)
  BY <1>2 DEF Holds, TypeOK
<1>3. ASSUME NEW q \in Replicas, Restart(q) PROVE \A r \in Replicas : Holds(r)
  BY <1>2, <1>3 DEF Restart, Leaves, Ended
<1>4. ASSUME NEW q \in Replicas, End(q) PROVE \A r \in Replicas : Holds(r)
  BY <1>2, <1>4 DEF End, Leaves, Ended
<1>5. ASSUME NEW q \in Replicas,
             Execute(q) \/ ExecuteRestart(q) \/ Finish(q) \/ TickError(q)
      PROVE  \A r \in Replicas : Holds(r)
<2>1. UNCHANGED holding \/ holding' = [holding EXCEPT ![q] = 0]
  BY <1>5 DEF Execute, Becomes, ExecuteRestart, Finish, TickError
<2> QED
  BY <1>0, <1>2, <2>1
<1>6. ASSUME NEW q \in Replicas,
             Publish(q) \/ Expire(q) \/ Read(q) \/ Prune(q) \/ Boot(q) \/ GoesSilent(q)
               \/ GoesOld(q)
      PROVE  \A r \in Replicas : Holds(r)
<2>1. UNCHANGED holding
  BY <1>6 DEF Publish, Expire, Read, Prune, Boot, GoesSilent, GoesOld, tickVars
<2> QED
  BY <1>0, <2>1
<1>7. ASSUME NEW p \in Panels, Give(p) PROVE \A r \in Replicas : Holds(r)
<2>1. UNCHANGED holding
  BY <1>7 DEF Give, Ask, ReadOpen, Record, tickVars
<2> QED
  BY <1>0, <2>1
<1>8. ASSUME NEW c \in CommandIds, GoesLate(c) PROVE \A r \in Replicas : Holds(r)
  BY <1>0, <1>8 DEF GoesLate, tickVars
<1>9. CASE UNCHANGED vars
  BY <1>0, <1>9 DEF vars
<1> QED
  BY <1>1, <1>3, <1>4, <1>5, <1>6, <1>7, <1>8, <1>9 DEF Next, Pass

\* The commands recorded stay recorded, and a claimed one is recorded.
LEMMA StepRecorded == TypeOK /\ CommandsAreRecorded /\ [Next]_vars => CommandsAreRecorded'
<1> SUFFICES ASSUME TypeOK, CommandsAreRecorded, [Next]_vars PROVE CommandsAreRecorded'
  OBVIOUS
<1>1. TypeOK'
  BY StepTyped
<1>2. ASSUME NEW p \in Panels, Record(p) PROVE CommandsAreRecorded'
<2>1. UNCHANGED holding
  BY <1>2 DEF Record, tickVars
<2>2. \A c \in CommandIds : c <= given' <=> c <= given \/ c = given + 1
  BY <1>2, RecordOpensOne DEF CommandIds, TypeOK
<2>3. \A c \in CommandIds : command'[c].status # "unused"
                             <=> command[c].status # "unused" \/ c = given + 1
  BY <1>2, RecordOpensOne
<2>4. \A r \in Replicas : holding[r] # 0 => holding[r] \in CommandIds
  BY DEF TypeOK
<2> QED
  BY <2>1, <2>2, <2>3, <2>4 DEF CommandsAreRecorded
<1>3. CASE ~\E p \in Panels : Record(p)
<2>1. \A c \in CommandIds : Settles(c)
  BY <1>3, OnlyRecordOpens
<2>2. UNCHANGED given
  BY <1>3 DEF Next, Give, Pass, vars, commandVars, Ask, ReadOpen, Publish, Expire, Read,
       Claim, Execute, ExecuteRestart, Finish, Prune, TickError, Boot, Restart, End,
       GoesSilent, GoesOld, GoesLate
<2>3. \A r \in Replicas : Holds(r)
  BY HeldWasPending
<2>4. \A r \in Replicas : holding[r] # 0 => holding[r] \in CommandIds
  BY DEF TypeOK
<2> QED
  BY <2>1, <2>2, <2>3, <2>4 DEF CommandsAreRecorded, Settles, Holds, Claimable
<1> QED
  BY <1>2, <1>3

\* What a replica reported, what its row says and what its state is.
Reports == PassHasPublished /\ RowRemembersReport /\ StateSurvives

LEMMA StepReports == TypeOK /\ Reports /\ [Next]_vars => Reports'
<1> SUFFICES ASSUME TypeOK, Reports, [Next]_vars PROVE Reports'
  OBVIOUS
<1> USE DEF Reports, PassHasPublished, RowRemembersReport, StateSurvives, Up, Goto
<1> USE DEF TypeOK, tickVars, memberVars
<1>1. ASSUME NEW p \in Panels, Give(p) PROVE Reports'
  BY <1>1 DEF Give, Ask, ReadOpen, Record
<1>2. ASSUME NEW r \in Replicas, Publish(r) PROVE Reports'
  BY <1>2 DEF Publish
<1>3. ASSUME NEW r \in Replicas, Expire(r) PROVE Reports'
  BY <1>3 DEF Expire
<1>4. ASSUME NEW r \in Replicas, Read(r) PROVE Reports'
  BY <1>4 DEF Read
<1>5. ASSUME NEW r \in Replicas, Claim(r) PROVE Reports'
<2>1. /\ Up(r) /\ pc[r] = "claim" /\ pc' \in {pc, [pc EXCEPT ![r] = "execute"]}
      /\ UNCHANGED <<process, state, row, heard, told>>
  BY <1>5 DEF Claim
<2> QED
  BY <2>1
<1>6. ASSUME NEW r \in Replicas, Execute(r) PROVE Reports'
<2> DEFINE s == IF command[holding[r]].action = "stop" THEN "stopped" ELSE "serving"
<2>1. /\ Up(r) /\ row[r] = state[r] /\ row[r] # "none"
      /\ UNCHANGED <<process, heard>> /\ told' = [told EXCEPT ![r] = "nothing"]
  BY <1>6 DEF Execute, States
<2>2. CASE UNCHANGED <<state, row>> /\ pc' = [pc EXCEPT ![r] = "finish"]
  BY <1>6, <2>1, <2>2 DEF Execute
<2>3. CASE /\ state' = [state EXCEPT ![r] = s] /\ pc' = [pc EXCEPT ![r] = "finish"]
           /\ row' = [row EXCEPT ![r] = IF @ = "none" THEN @ ELSE s]
<3>1. row' = [row EXCEPT ![r] = s]
  BY <2>1, <2>3
<3> QED
  BY <1>6, <2>1, <2>3, <3>1 DEF Execute
<2>4. CASE /\ state' = [state EXCEPT ![r] = s] /\ pc' = [pc EXCEPT ![r] = "asleep"]
           /\ UNCHANGED row
  BY <1>6, <2>1, <2>4 DEF Execute
<2> QED
  BY <1>6, <2>2, <2>3, <2>4 DEF Execute, Becomes
<1>7. ASSUME NEW r \in Replicas, ExecuteRestart(r) PROVE Reports'
  BY <1>7 DEF ExecuteRestart
<1>8. ASSUME NEW r \in Replicas, Finish(r) PROVE Reports'
  BY <1>8 DEF Finish
<1>9. ASSUME NEW r \in Replicas, Prune(r) PROVE Reports'
  BY <1>9 DEF Prune
<1>10. ASSUME NEW r \in Replicas, TickError(r) PROVE Reports'
  BY <1>10 DEF TickError
<1>11. ASSUME NEW r \in Replicas, Boot(r) PROVE Reports'
<2>1. pc[r] = "asleep" /\ process' = [process EXCEPT ![r] = "up"]
      /\ UNCHANGED <<pc, row, heard>>
  BY <1>11 DEF Boot
<2>2. CASE state' = [state EXCEPT ![r] = Restored(r)] /\ UNCHANGED told
<3>1. told[r] # "nothing" => Restored(r) = told[r]
  BY DEF Restored, States
<3> QED
  BY <2>1, <2>2, <3>1
<2>3. CASE state' = [state EXCEPT ![r] = "serving"]
           /\ told' = [told EXCEPT ![r] = "nothing"]
  BY <2>1, <2>3
<2>4. RestoredAndClosed(r) => state' = [state EXCEPT ![r] = Restored(r)] /\ UNCHANGED told
  BY DEF RestoredAndClosed
<2>5. RestoreFails(r) =>
        \/ state' = [state EXCEPT ![r] = Restored(r)] /\ UNCHANGED told
        \/ state' = [state EXCEPT ![r] = "serving"]
           /\ told' = [told EXCEPT ![r] = "nothing"]
  BY DEF RestoreFails
<2> QED
  BY <1>11, <2>2, <2>3, <2>4, <2>5 DEF Boot
<1>12. ASSUME NEW r \in Replicas, NEW how \in {"exec", "down"}, Ended(r, how),
              UNCHANGED <<row, heard, told>>
       PROVE  Reports'
  BY <1>12 DEF Ended
<1>13. ASSUME NEW r \in Replicas, Restart(r) \/ End(r) PROVE Reports'
<2>1. UNCHANGED <<row, heard, told>>
  BY <1>13 DEF Restart, End
<2>2. CASE Restart(r)
<3>1. Ended(r, "exec")
  BY <2>2 DEF Restart, Leaves
<3> QED
  BY <1>12, <2>1, <3>1
<2>3. CASE End(r)
<3>1. Ended(r, "down")
  BY <2>3 DEF End, Leaves
<3> QED
  BY <1>12, <2>1, <3>1
<2> QED
  BY <1>13, <2>2, <2>3
<1>14. ASSUME NEW r \in Replicas, GoesSilent(r) \/ GoesOld(r) PROVE Reports'
  BY <1>14 DEF GoesSilent, GoesOld
<1>15. ASSUME NEW c \in CommandIds, GoesLate(c) PROVE Reports'
  BY <1>15 DEF GoesLate
<1>16. CASE UNCHANGED vars
  BY <1>16 DEF vars
<1> QED
  BY <1>1, <1>2, <1>3, <1>4, <1>5, <1>6, <1>7, <1>8, <1>9, <1>10, <1>11, <1>13,
     <1>14, <1>15, <1>16 DEF Next, Pass

\* With one administrator, nothing comes between open_command_for() and
\* record_command() that could leave the replica with a second open command.
LEMMA StepOneOpen ==
  TypeOK /\ CommandsAreRecorded /\ OneAdministrator /\ OneOpenCommand
    /\ ReadStillHolds /\ [Next]_vars => OneOpenCommand' /\ ReadStillHolds'
<1> SUFFICES ASSUME TypeOK, CommandsAreRecorded, OneAdministrator, OneOpenCommand,
                    ReadStillHolds, [Next]_vars
             PROVE  OneOpenCommand' /\ ReadStillHolds'
  OBVIOUS
<1> USE DEF OneOpenCommand, ReadStillHolds, OpenCommandsFor, To
<1>1. ASSUME NEW p \in Panels, Record(p) PROVE OneOpenCommand' /\ ReadStillHolds'
<2> DEFINE r == request[p].to
<2>1. /\ given + 1 \in CommandIds /\ command'[given + 1].to = r
      /\ command[given + 1].status = "unused"
      /\ \A c \in CommandIds \ {given + 1} : command'[c] = command[c]
  BY <1>1, RecordOpensOne
<2>2. request[p].at = "record" /\ request' = [request EXCEPT ![p] = Idle]
  BY <1>1 DEF Record
<2>3. \A c \in CommandIds : ~(command[c].to = r /\ command[c].status \in OpenStatuses)
  BY <2>2
<2> HIDE DEF r
<2>4. OneOpenCommand'
  BY <2>1, <2>3
<2>5. \A q \in Panels : request'[q].at # "record"
  BY <2>2 DEF TypeOK, Idle, OneAdministrator
<2> QED
  BY <2>4, <2>5
<1>2. CASE ~\E p \in Panels : Record(p)
<2>1. \A c \in CommandIds : Settles(c)
  BY <1>2, OnlyRecordOpens
<2>2. \A r : To(r, OpenStatuses)' \subseteq To(r, OpenStatuses)
  BY <2>1 DEF Settles
<2>3. OneOpenCommand'
  BY <2>2
<2>4. \A p \in Panels : request'[p].at = "record" =>
        /\ request'[p].to = request[p].to
        /\ request[p].at = "record" \/ OpenCommandsFor(request[p].to) = {}
<3>1. ASSUME NEW p \in Panels, Ask(p)
      PROVE  \A q \in Panels : request'[q].at = "record" => request'[q] = request[q]
    BY <3>1 DEF Ask, TypeOK
<3>2. ASSUME NEW p \in Panels, ReadOpen(p)
      PROVE  \A q \in Panels : request'[q].at = "record" =>
               /\ request'[q].to = request[q].to
               /\ request[q].at = "record" \/ OpenCommandsFor(request[q].to) = {}
    BY <3>2 DEF ReadOpen, TypeOK, Idle, PanelRequest
<3>3. ASSUME NEW r \in Replicas,
             Pass(r) \/ TickError(r) \/ Boot(r) \/ Restart(r) \/ End(r)
               \/ GoesSilent(r) \/ GoesOld(r)
      PROVE  UNCHANGED request
    BY <3>3 DEF Pass, Publish, Expire, Read, Claim, Execute, ExecuteRestart, Finish,
       Prune, TickError, Boot, Restart, End, GoesSilent, GoesOld
<3>4. ASSUME NEW c \in CommandIds, GoesLate(c) PROVE UNCHANGED request
    BY <3>4 DEF GoesLate
<3>5. CASE UNCHANGED vars
    BY <3>5 DEF vars
<3> QED
    BY <1>2, <3>1, <3>2, <3>3, <3>4, <3>5 DEF Next, Give
<2>5. ReadStillHolds'
  BY <2>2, <2>4
<2> QED
  BY <2>3, <2>5
<1> QED
  BY <1>1, <1>2

LEMMA StepInductive == IInv /\ [Next]_vars => IInv'
<1> SUFFICES ASSUME IInv, [Next]_vars PROVE IInv'
  OBVIOUS
<1>1. TypeOK' /\ CommandsAreRecorded'
  BY StepTyped, StepRecorded DEF IInv
<1>2. Reports'
  BY StepReports DEF IInv, Reports
<1>3. OneAdministrator' <=> OneAdministrator
  BY DEF OneAdministrator
<1>4. OneAdministrator => OneOpenCommand' /\ ReadStillHolds'
  BY StepOneOpen DEF IInv
<1> QED
  BY <1>1, <1>2, <1>3, <1>4 DEF IInv, Reports

\* The strengthening behind the theorems below holds throughout.
THEOREM InductiveInvariant == Spec => []IInv
<1> QED
  BY InitInductive, StepInductive, PTL DEF Spec

\* What the last command reported of a replica holds whenever its process is
\* there: execute() wrote the row before it reported, the pass publishes what
\* the state is, and restore() reads the row back.
THEOREM ReportedStateSurvives == Spec => []StateSurvives
<1>1. IInv => StateSurvives
  BY DEF IInv
<1> QED
  BY InductiveInvariant, <1>1, PTL

\* With one request under way at a time a replica never has two open commands:
\* open_command_for() before record_command() is then enough.
THEOREM OneAdministratorOneCommand == OneAdministrator => (Spec => []OneOpenCommand)
<1> SUFFICES ASSUME OneAdministrator PROVE Spec => []OneOpenCommand
  OBVIOUS
<1>1. IInv => OneOpenCommand
  BY DEF IInv
<1> QED
  BY InductiveInvariant, <1>1, PTL

\* A command that was closed is never taken up again, by whichever pass had read
\* it before: claim_command() asks for the status it found, and the only rows
\* record_command() writes are new.
THEOREM ClosedForGood == Spec => ClosedStaysClosed
<1> DEFINE Stays == \A c \in CommandIds : command[c].status \in ClosedStatuses
                                           => command'[c].status \in ClosedStatuses
<1>1. ASSUME IInv, [Next]_vars PROVE Stays
<2>1. ASSUME NEW p \in Panels, Record(p) PROVE Stays
  BY <1>1, <2>1, RecordOpensOne DEF IInv, ClosedStatuses
<2>2. CASE \A c \in CommandIds : Settles(c)
  BY <2>2 DEF Settles
<2> QED
  BY <1>1, <2>1, <2>2, OnlyRecordOpens DEF IInv
<1>2. IInv /\ [Next]_vars => [Stays]_vars
  BY <1>1
<1> HIDE DEF Stays
<1>3. Spec => [][Stays]_vars
  BY InductiveInvariant, <1>2, PTL DEF Spec
<1> QED
  BY <1>3 DEF ClosedStaysClosed, Stays

\* The scheduler of a replica is paused and resumed in the step that stops and
\* starts it, wherever that is, unless a statement of the step fails.
LEMMA StepFollows == TypeOK /\ SchedulerFollows /\ [Next]_vars => SchedulerFollows'
<1> SUFFICES ASSUME TypeOK, SchedulerFollows, [Next]_vars PROVE SchedulerFollows'
  OBVIOUS
<1> USE DEF SchedulerFollows, StoppedIsPaused, Up, Goto, TypeOK, tickVars, memberVars, boundVars
<1>1. ASSUME NEW p \in Panels, Give(p) PROVE SchedulerFollows'
  BY <1>1 DEF Give, Ask, ReadOpen, Record
<1>2. ASSUME NEW r \in Replicas, Publish(r) PROVE SchedulerFollows'
  BY <1>2 DEF Publish
<1>3. ASSUME NEW r \in Replicas, Expire(r) PROVE SchedulerFollows'
  BY <1>3 DEF Expire
<1>4. ASSUME NEW r \in Replicas, Read(r) PROVE SchedulerFollows'
  BY <1>4 DEF Read
<1>5. ASSUME NEW r \in Replicas, Claim(r) PROVE SchedulerFollows'
  BY <1>5 DEF Claim
<1>6. ASSUME NEW r \in Replicas, Execute(r) PROVE SchedulerFollows'
<2> DEFINE s == IF command[holding[r]].action = "stop" THEN "stopped" ELSE "serving"
<2>1. UNCHANGED process
  BY <1>6 DEF Execute
<2>2. CASE UNCHANGED <<state, paused, errors>>
  BY <2>1, <2>2
<2>3. CASE /\ state' = [state EXCEPT ![r] = s] /\ paused' = [paused EXCEPT ![r] = (s = "stopped")]
           /\ UNCHANGED errors
  BY <2>1, <2>3
<2>4. CASE errors' = errors + 1
  BY <2>4
<2> QED
  BY <1>6, <2>2, <2>3, <2>4 DEF Execute, Becomes
<1>7. ASSUME NEW r \in Replicas, ExecuteRestart(r) PROVE SchedulerFollows'
  BY <1>7 DEF ExecuteRestart
<1>8. ASSUME NEW r \in Replicas, Finish(r) PROVE SchedulerFollows'
  BY <1>8 DEF Finish
<1>9. ASSUME NEW r \in Replicas, Prune(r) PROVE SchedulerFollows'
  BY <1>9 DEF Prune
<1>10. ASSUME NEW r \in Replicas, TickError(r) PROVE SchedulerFollows'
  BY <1>10 DEF TickError
<1>11. ASSUME NEW r \in Replicas, Boot(r) PROVE SchedulerFollows'
<2>1. CASE RestoredAndClosed(r)
  BY <1>11, <2>1 DEF Boot, RestoredAndClosed
<2>2. CASE RestoreFails(r)
  BY <2>2 DEF RestoreFails
<2> QED
  BY <1>11, <2>1, <2>2 DEF Boot
<1>12. ASSUME NEW r \in Replicas, NEW how \in {"exec", "down"}, Ended(r, how), UNCHANGED errors
       PROVE  SchedulerFollows'
  BY <1>12 DEF Ended
<1>13. ASSUME NEW r \in Replicas, Restart(r) \/ End(r) PROVE SchedulerFollows'
<2>1. UNCHANGED errors
  BY <1>13 DEF Restart, End
<2>2. Ended(r, "exec") \/ Ended(r, "down")
  BY <1>13 DEF Restart, End, Leaves
<2> QED
  BY <1>12, <2>1, <2>2
<1>14. ASSUME NEW r \in Replicas, GoesSilent(r) \/ GoesOld(r) PROVE SchedulerFollows'
  BY <1>14 DEF GoesSilent, GoesOld
<1>15. ASSUME NEW c \in CommandIds, GoesLate(c) PROVE SchedulerFollows'
  BY <1>15 DEF GoesLate
<1>16. CASE UNCHANGED vars
  BY <1>16 DEF vars
<1> QED
  BY <1>1, <1>2, <1>3, <1>4, <1>5, <1>6, <1>7, <1>8, <1>9, <1>10, <1>11, <1>13,
     <1>14, <1>15, <1>16 DEF Next, Pass

\* A replica that is there is what its last command reported, and its scheduler runs or
\* rests with it, across restarts, crashes and passes of any number of replicas.
THEOREM ReplicaDoesAsReported == Spec => []ReplicaIsAsReported
<1>1. Init => SchedulerFollows
  BY DEF Init, SchedulerFollows, StoppedIsPaused
<1>2. TypeOK /\ SchedulerFollows /\ [Next]_vars => SchedulerFollows'
  BY StepFollows
<1>3. Spec => []SchedulerFollows
  BY TypeCorrect, <1>1, <1>2, PTL DEF Spec
<1>4. StateSurvives /\ SchedulerFollows => ReplicaIsAsReported
  BY DEF ReplicaIsAsReported
<1> QED
  BY ReportedStateSurvives, <1>3, <1>4, PTL

-----------------------------------------------------------------------------
(* Refinement: what Assignments promises                                   *)

\* A command has an addressee once it is recorded, a pass reads its own commands
\* only, and what it holds was claimed.
AInv ==
  /\ \A p \in Panels : request[p].at # "idle" => request[p].to \in Replicas
  /\ \A c \in CommandIds :
       IF command[c].status = "unused" THEN command[c].to = "nobody" ELSE command[c].to \in Replicas
  /\ \A r \in Replicas : \A c \in queue[r] : command[c].to = r
  /\ \A r \in Replicas : holding[r] # 0 => holding[r] \in Spent

\* A step that leaves all of that alone.
Stutters == UNCHANGED <<Addressee, Spent, holding>>

\* What is done to a command: its status alone.
LEMMA ClosedFields ==
  ASSUME TypeOK, NEW c \in CommandIds, NEW s
  PROVE  Closed(c, s).to = command[c].to /\ Closed(c, s).status = s
<1>1. command[c] \in CommandRow
  BY DEF TypeOK
<1> QED
  BY <1>1 DEF Closed, CommandRow

\* Commands that are closed were spent before, and stay so.
LEMMA ClosingStutters ==
  ASSUME TypeOK, UNCHANGED holding,
         \A c \in CommandIds :
           \/ command'[c] = command[c]
           \/ c \in Spent /\ \E s \in ClosedStatuses : command'[c] = Closed(c, s)
  PROVE  Stutters
<1>1. \A c \in CommandIds : command'[c].to = command[c].to /\ (c \in Spent' <=> c \in Spent)
  BY ClosedFields DEF Spent, ClosedStatuses
<1> QED
  BY <1>1 DEF Stutters, Addressee, Spent

\* The conditional UPDATE spends a command that was not.
LEMMA ClaimingSpends ==
  ASSUME TypeOK, NEW c \in CommandIds, Claimable(c), Claimed(c)
  PROVE  UNCHANGED Addressee /\ c \notin Spent /\ Spent' = Spent \cup {c}
<1>1. command[c] \in CommandRow
  BY DEF TypeOK
<1>2. command'[c].to = command[c].to /\ command'[c].status = "executing"
  BY <1>1 DEF Claimed, TypeOK, CommandRow
<1>3. \A d \in CommandIds \ {c} : command'[d] = command[d]
  BY DEF Claimed, TypeOK
<1> QED
  BY <1>2, <1>3 DEF Claimable, Spent, Addressee

\* A pass, a process or a request does to the commands one of these things.
Taking(r) ==
  \E c \in queue[r] :
    /\ UNCHANGED Addressee /\ c \notin Spent /\ Spent' = Spent \cup {c}
    /\ holding[r] = 0 /\ holding' = [holding EXCEPT ![r] = c]
Leaving(r) ==
  /\ UNCHANGED <<Addressee, Spent>> /\ holding' = [holding EXCEPT ![r] = 0]
GivingUp ==
  /\ UNCHANGED <<Addressee, holding>>
  /\ \E some \in SUBSET {c \in CommandIds : command[c].status = "pending"} : Spent' = Spent \cup some
Giving(p) ==
  /\ request[p].at = "record"
  /\ \E c \in CommandIds :
       /\ command[c].status = "unused" /\ command'[c].status = "pending"
       /\ command'[c].to = request[p].to
       /\ \A d \in CommandIds \ {c} : command'[d] = command[d]
  /\ UNCHANGED holding

LEMMA NothingHeld ==
  ASSUME TypeOK, NEW r \in Replicas, pc[r] \notin {"execute", "finish"}
  PROVE  holding[r] = 0 /\ [holding EXCEPT ![r] = 0] = holding
BY DEF TypeOK

LEMMA EndLeaves ==
  ASSUME TypeOK, NEW r \in Replicas, NEW how, Leaves(r, how) \/ (Ended(r, how) /\ UNCHANGED command)
  PROVE  Leaving(r) \/ GivingUp
<1>1. holding' = [holding EXCEPT ![r] = 0]
  BY DEF Leaves, Ended
<1>2. CASE UNCHANGED command
  BY <1>1, <1>2 DEF Leaving, Addressee, Spent
<1>3. CASE pc[r] = "claim" /\ \E c \in queue[r] : Claimable(c) /\ Claimed(c)
  <2>1. PICK c \in queue[r] : Claimable(c) /\ Claimed(c)
    BY <1>3
  <2>2. c \in CommandIds
    BY DEF TypeOK
  <2>3. UNCHANGED holding
    BY <1>1, <1>3, NothingHeld
  <2>4. {c} \in SUBSET {d \in CommandIds : command[d].status = "pending"}
    BY <2>1, <2>2 DEF Claimable
  <2>5. QED
    BY <2>1, <2>2, <2>3, <2>4, ClaimingSpends DEF GivingUp
<1> QED
  BY <1>2, <1>3 DEF Leaves

LEMMA StepAssigns ==
  ASSUME TypeOK, CommandsAreRecorded, AInv, [Next]_vars
  PROVE  \/ Stutters \/ GivingUp
         \/ \E r \in Replicas : Taking(r) \/ Leaving(r)
         \/ \E p \in Panels : Giving(p)
<1> USE DEF tickVars, commandVars
<1>1. CASE UNCHANGED <<command, holding>>
  BY <1>1 DEF Stutters, Addressee, Spent
<1>2. ASSUME NEW p \in Panels, Give(p)
      PROVE  UNCHANGED <<command, holding>> \/ Giving(p)
  <2>1. CASE Record(p)
    <3>1. request[p].at = "record" /\ UNCHANGED holding
      BY <2>1 DEF Record
    <3>2. QED
      BY <2>1, <3>1, RecordOpensOne DEF Giving
  <2>2. QED
    BY <1>2, <2>1 DEF Give, Ask, ReadOpen
<1>3. ASSUME NEW r \in Replicas, Expire(r) PROVE GivingUp
  <2> DEFINE some == {c \in CommandIds : command[c].status = "pending" /\ command[c].late}
  <2>1. /\ UNCHANGED holding
        /\ \A c \in CommandIds : command'[c] = IF command[c].status \in OpenStatuses /\ command[c].late
                                               THEN Closed(c, "expired") ELSE command[c]
    BY <1>3 DEF Expire, Expirable
  <2>2. \A c \in CommandIds : /\ command'[c].to = command[c].to
                              /\ c \in Spent' <=> c \in Spent \cup some
    BY <2>1, ClosedFields DEF Spent, OpenStatuses
  <2>3. UNCHANGED Addressee /\ Spent' = Spent \cup some
    BY <2>2 DEF Addressee, Spent
  <2>4. some \in SUBSET {c \in CommandIds : command[c].status = "pending"}
    OBVIOUS
  <2>5. QED
    BY <2>1, <2>3, <2>4 DEF GivingUp
<1>4. ASSUME NEW r \in Replicas, Claim(r) PROVE UNCHANGED <<command, holding>> \/ Taking(r)
  <2>1. PICK c \in queue[r] :
          IF Claimable(c) THEN Claimed(c) /\ holding' = [holding EXCEPT ![r] = c]
                          ELSE UNCHANGED <<command, holding, pc>>
    BY <1>4 DEF Claim
  <2>2. c \in CommandIds /\ holding[r] = 0
    BY <1>4, NothingHeld DEF Claim, TypeOK
  <2>3. QED
    BY <2>1, <2>2, ClaimingSpends DEF Taking
<1>5. ASSUME NEW r \in Replicas, Execute(r) \/ ExecuteRestart(r) \/ TickError(r)
      PROVE  UNCHANGED <<command, holding>> \/ Leaving(r)
  <2>1. UNCHANGED command /\ (UNCHANGED holding \/ holding' = [holding EXCEPT ![r] = 0])
    BY <1>5 DEF Execute, Becomes, ExecuteRestart, TickError
  <2>2. QED
    BY <2>1 DEF Leaving, Addressee, Spent
<1>6. ASSUME NEW r \in Replicas, Finish(r) PROVE Leaving(r)
  <2>1. PICK s \in ClosedStatuses : command' = [command EXCEPT ![holding[r]] = Closed(holding[r], s)]
    BY <1>6 DEF Finish, ClosedStatuses
  <2>2. holding[r] \in CommandIds /\ holding[r] \in Spent /\ holding' = [holding EXCEPT ![r] = 0]
    BY <1>6 DEF Finish, TypeOK, AInv
  <2>3. \A c \in CommandIds : command'[c] = IF c = holding[r] THEN Closed(c, s) ELSE command[c]
    BY <2>1, <2>2 DEF TypeOK
  <2>4. \A c \in CommandIds : command'[c].to = command[c].to /\ (c \in Spent' <=> c \in Spent)
    BY <2>2, <2>3, ClosedFields DEF Spent, ClosedStatuses
  <2>5. QED
    BY <2>2, <2>4 DEF Leaving, Addressee, Spent
<1>7. ASSUME NEW r \in Replicas, Boot(r) PROVE Stutters
  <2>1. UNCHANGED holding
    BY <1>7 DEF Boot
  <2>2. ASSUME NEW c \in CommandIds
        PROVE  \/ command'[c] = command[c]
               \/ c \in Spent /\ \E s \in ClosedStatuses : command'[c] = Closed(c, s)
    <3>1. CASE c \in To(r, {"executing"}) /\ command[c].action = "restart" /\ RestoredAndClosed(r)
      <4>1. command'[c] = Closed(c, "done") /\ c \in Spent
        BY <3>1 DEF RestoredAndClosed, To, Spent
      <4>2. QED
        BY <4>1 DEF ClosedStatuses
    <3>2. CASE RestoreFails(r)
      BY <3>2 DEF RestoreFails
    <3>3. CASE RestoredAndClosed(r) /\ ~(c \in To(r, {"executing"}) /\ command[c].action = "restart")
      BY <3>3 DEF RestoredAndClosed
    <3>4. QED
      BY <1>7, <3>1, <3>2, <3>3 DEF Boot
  <2>3. QED
    BY <2>1, <2>2, ClosingStutters
<1>8. ASSUME NEW r \in Replicas, Restart(r) \/ End(r) PROVE Leaving(r) \/ GivingUp
  <2>1. \E how : Leaves(r, how) \/ (Ended(r, how) /\ UNCHANGED command)
    BY <1>8 DEF Restart, End
  <2>2. QED
    BY <2>1, EndLeaves
<1>9. ASSUME NEW c \in CommandIds, GoesLate(c) PROVE Stutters
  <2>1. command[c] \in CommandRow /\ UNCHANGED holding
    BY <1>9 DEF GoesLate, TypeOK
  <2>2. \A d \in CommandIds : command'[d].to = command[d].to /\ command'[d].status = command[d].status
    BY <1>9, <2>1 DEF GoesLate, TypeOK, CommandRow
  <2>3. QED
    BY <2>1, <2>2 DEF Stutters, Addressee, Spent
<1>10. ASSUME NEW r \in Replicas,
              Publish(r) \/ Read(r) \/ Prune(r) \/ GoesSilent(r) \/ GoesOld(r)
       PROVE  UNCHANGED <<command, holding>>
  BY <1>10 DEF Publish, Read, Prune, GoesSilent, GoesOld
<1>11. CASE UNCHANGED vars
  BY <1>11 DEF vars, Stutters, Addressee, Spent
<1> QED
  BY <1>1, <1>2, <1>3, <1>4, <1>5, <1>6, <1>7, <1>8, <1>9, <1>10, <1>11 DEF Next, Pass

\* What a pass reads is its own, and what it holds it took.
LEMMA QueuesShrink ==
  ASSUME TypeOK, [Next]_vars, NEW r \in Replicas
  PROVE  \A c \in queue'[r] : c \in CommandIds /\ (c \in queue[r] \/ command[c].to = r)
<1> USE DEF tickVars
<1>1. CASE UNCHANGED queue
  BY <1>1 DEF TypeOK
<1>2. ASSUME NEW q \in Replicas, Read(q)
      PROVE  queue'[r] \in {queue[r], To(r, {"pending"})}
  BY <1>2 DEF Read, TypeOK
<1>3. ASSUME NEW q \in Replicas, Claim(q) PROVE queue'[r] \subseteq queue[r]
  BY <1>3 DEF Claim, TypeOK
<1>4. ASSUME NEW q \in Replicas, queue' = [queue EXCEPT ![q] = {}] PROVE queue'[r] \subseteq queue[r]
  BY <1>4 DEF TypeOK
<1>5. ASSUME NEW q \in Replicas, Execute(q) \/ TickError(q) \/ Restart(q) \/ End(q)
      PROVE  UNCHANGED queue \/ queue' = [queue EXCEPT ![q] = {}]
  BY <1>5 DEF Execute, Becomes, TickError, Restart, End, Leaves, Ended
<1>6. ASSUME NEW q \in Replicas,
             Publish(q) \/ Expire(q) \/ ExecuteRestart(q) \/ Finish(q) \/ Prune(q) \/ Boot(q)
               \/ GoesSilent(q) \/ GoesOld(q)
      PROVE  UNCHANGED queue
  BY <1>6 DEF Publish, Expire, ExecuteRestart, Finish, Prune, Boot, GoesSilent, GoesOld
<1>7. ASSUME NEW p \in Panels, Give(p) PROVE UNCHANGED queue
  BY <1>7 DEF Give, Ask, ReadOpen, Record
<1>8. ASSUME NEW c \in CommandIds, GoesLate(c) PROVE UNCHANGED queue
  BY <1>8 DEF GoesLate
<1>9. UNCHANGED vars => UNCHANGED queue
  BY DEF vars
<1>10. queue'[r] \subseteq queue[r] \/ queue'[r] \in {queue[r], To(r, {"pending"})}
  BY <1>1, <1>2, <1>3, <1>4, <1>5, <1>6, <1>7, <1>8, <1>9 DEF Next, Pass
<1>11. queue[r] \in SUBSET CommandIds
  BY DEF TypeOK
<1> QED
  BY <1>10, <1>11 DEF To

\* Requests are for replicas, from the first of their statements to the last.
LEMMA RequestsAddress ==
  ASSUME TypeOK, AInv, [Next]_vars, NEW p \in Panels, request'[p].at # "idle"
  PROVE  request'[p].to \in Replicas
<1>1. CASE UNCHANGED request
  BY <1>1 DEF AInv
<1>2. ASSUME NEW q \in Panels, Give(q) PROVE request'[p].to \in Replicas
  <2>1. CASE q = p
    BY <1>2, <2>1 DEF Give, Ask, ReadOpen, Record, TypeOK, PanelRequest, AInv, Idle
  <2>2. CASE q # p
    BY <1>2, <2>2 DEF Give, Ask, ReadOpen, Record, TypeOK, AInv
  <2>3. QED
    BY <2>1, <2>2
<1>3. ASSUME NEW r \in Replicas,
             Pass(r) \/ TickError(r) \/ Boot(r) \/ Restart(r) \/ End(r)
               \/ GoesSilent(r) \/ GoesOld(r)
      PROVE  UNCHANGED request
  BY <1>3 DEF Pass, Publish, Expire, Read, Claim, Execute, ExecuteRestart, Finish,
     Prune, TickError, Boot, Restart, End, GoesSilent, GoesOld
<1>4. ASSUME NEW c \in CommandIds, GoesLate(c) PROVE UNCHANGED request
  BY <1>4 DEF GoesLate
<1>5. UNCHANGED vars => UNCHANGED request
  BY DEF vars
<1> QED
  BY <1>1, <1>2, <1>3, <1>4, <1>5 DEF Next

LEMMA StepAddressed ==
  ASSUME TypeOK, CommandsAreRecorded, AInv, [Next]_vars
  PROVE  AInv'
<1>1. TypeOK' /\ "nobody" \notin Replicas
  BY StepTyped, ReplicasAssumption
<1>2. \A p \in Panels : request'[p].at # "idle" => request'[p].to \in Replicas
  BY RequestsAddress
<1>3. ASSUME NEW c \in CommandIds
      PROVE  /\ IF command'[c].status = "unused" THEN command'[c].to = "nobody"
                                                 ELSE command'[c].to \in Replicas
             /\ command[c].status # "unused" => command'[c].to = command[c].to
  <2>1. ASSUME NEW p \in Panels, Record(p)
        PROVE  /\ command'[c] = command[c] \/ command[c].status = "unused"
               /\ command'[c] = command[c] \/ (command'[c].status = "pending" /\ command'[c].to \in Replicas)
    <3>1. request[p].to \in Replicas
      BY <2>1 DEF Record, AInv
    <3>2. QED
      BY <2>1, <3>1, RecordOpensOne
  <2>2. CASE Settles(c)
    BY <2>2 DEF Settles, AInv
  <2>3. QED
    BY <2>1, <2>2, OnlyRecordOpens DEF AInv
<1>4. ASSUME NEW r \in Replicas, NEW c \in queue'[r]
      PROVE  command'[c].to = r
  <2>1. c \in CommandIds /\ command[c].to = r
    BY QueuesShrink DEF AInv
  <2>2. command[c].status # "unused"
    BY <1>1, <2>1 DEF AInv
  <2>3. QED
    BY <1>3, <2>1, <2>2
<1>5. ASSUME NEW r \in Replicas, holding'[r] # 0
      PROVE  holding'[r] \in Spent'
  <2>1. CASE Stutters
    BY <1>5, <2>1 DEF Stutters, AInv
  <2>2. CASE GivingUp
    BY <1>5, <2>2 DEF GivingUp, AInv
  <2>3. ASSUME NEW q \in Replicas, Taking(q)
        PROVE  holding'[r] \in Spent'
    BY <1>5, <2>3 DEF Taking, AInv, TypeOK
  <2>4. ASSUME NEW q \in Replicas, Leaving(q)
        PROVE  holding'[r] \in Spent'
    BY <1>5, <2>4 DEF Leaving, AInv, TypeOK
  <2>5. ASSUME NEW p \in Panels, Giving(p)
        PROVE  holding'[r] \in Spent'
    <3>1. Spent \subseteq Spent'
      BY <2>5 DEF Giving, Spent
    <3>2. QED
      BY <1>5, <2>5, <3>1 DEF Giving, AInv
  <2>6. QED
    BY <2>1, <2>2, <2>3, <2>4, <2>5, StepAssigns
<1> QED
  BY <1>2, <1>3, <1>4, <1>5 DEF AInv

LEMMA InitAddressed == Init => AInv /\ ABS!Init
<1> SUFFICES ASSUME Init PROVE AInv /\ ABS!Init
  OBVIOUS
<1>1. \A c \in CommandIds : command[c].to = "nobody" /\ command[c].status = "unused"
  BY DEF Init, Unused
<1>2. Spent = {} /\ Addressee = [c \in CommandIds |-> "nobody"]
  BY <1>1 DEF Spent, Addressee
<1>3. AInv
  BY <1>1 DEF Init, AInv, Idle
<1> QED
  BY <1>2, <1>3 DEF Init, ABS!Init

LEMMA StepImplements ==
  ASSUME TypeOK, CommandsAreRecorded, AInv, [Next]_vars
  PROVE  [ABS!Next]_<<Addressee, Spent, holding>>
<1>1. "nobody" \notin Replicas
  BY ReplicasAssumption
<1>2. CASE Stutters
  BY <1>2 DEF Stutters
<1>3. CASE GivingUp
  <2>1. PICK some \in SUBSET {c \in CommandIds : command[c].status = "pending"} : Spent' = Spent \cup some
    BY <1>3 DEF GivingUp
  <2>2. \A c \in some : c \in CommandIds /\ Addressee[c] # "nobody" /\ c \notin Spent
    BY <1>1 DEF AInv, Addressee, Spent
  <2>3. some \in SUBSET (ABS!Given \ Spent)
    BY <2>2 DEF ABS!Given
  <2>4. ABS!GiveUp(some)
    BY <1>3, <2>1 DEF GivingUp, ABS!GiveUp
  <2>5. QED
    BY <2>3, <2>4 DEF ABS!Next
<1>4. ASSUME NEW r \in Replicas, Taking(r) PROVE ABS!Next
  <2>1. PICK c \in queue[r] :
          /\ UNCHANGED Addressee /\ c \notin Spent /\ Spent' = Spent \cup {c}
          /\ holding[r] = 0 /\ holding' = [holding EXCEPT ![r] = c]
    BY <1>4 DEF Taking
  <2>2. c \in CommandIds /\ Addressee[c] = r
    BY DEF TypeOK, AInv, Addressee
  <2>3. ABS!Take(r, c)
    BY <2>1, <2>2 DEF ABS!Take
  <2>4. QED
    BY <2>2, <2>3 DEF ABS!Next
<1>5. ASSUME NEW r \in Replicas, Leaving(r) PROVE ABS!Next
  BY <1>5 DEF Leaving, ABS!LeaveOff, ABS!Next
<1>6. ASSUME NEW p \in Panels, Giving(p) PROVE ABS!Next
  <2>1. PICK c \in CommandIds :
          /\ command[c].status = "unused" /\ command'[c].status = "pending"
          /\ command'[c].to = request[p].to
          /\ \A d \in CommandIds \ {c} : command'[d] = command[d]
    BY <1>6 DEF Giving
  <2>2. request[p].to \in Replicas /\ UNCHANGED holding
    BY <1>6 DEF Giving, AInv
  <2>3. Addressee[c] = "nobody" /\ Addressee' = [Addressee EXCEPT ![c] = request[p].to]
    BY <2>1 DEF AInv, Addressee
  <2>4. UNCHANGED Spent
    BY <2>1 DEF Spent
  <2>5. ABS!Give(c, request[p].to)
    BY <2>2, <2>3, <2>4 DEF ABS!Give
  <2>6. QED
    BY <2>1, <2>2, <2>5 DEF ABS!Next
<1> QED
  BY <1>2, <1>3, <1>4, <1>5, <1>6, StepAssigns

\* The replicas implement Assignments: a command is carried out at most once, by the replica
\* it was given to and one at a time, whoever reads it, expires it, dies with it or restarts.
THEOREM CommandsAreCarriedOutOnce == Spec => CarriedOutOnce
<1>1. IInv /\ AInv /\ [Next]_vars => AInv'
  BY StepAddressed DEF IInv
<1>2. IInv /\ AInv /\ [Next]_vars => [ABS!Next]_<<Addressee, Spent, holding>>
  BY StepImplements DEF IInv
<1> QED
  BY InductiveInvariant, InitAddressed, <1>1, <1>2, PTL DEF Spec, ABS!Spec, CarriedOutOnce
=============================================================================
