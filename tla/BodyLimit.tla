------------------------------ MODULE BodyLimit ------------------------------
(***************************************************************************)
(* How much of a body a route accepts (keepup_http/body_limit.py), between  *)
(* the server and the application: what the application receives and what  *)
(* it sends both pass through. One request; its client sends the body in   *)
(* pieces, says beforehand how long it is or does not, and may leave.      *)
(*                                                                         *)
(* The application is a plain write route (json_body, then the handler) or *)
(* a route that reads its own body, which may answer before it has read,   *)
(* read on after, or fail.                                                 *)
(***************************************************************************)
EXTENDS Integers

CONSTANTS
  Lengths,  \* of a body
  Pieces,   \* of a body
  Limits,   \* what a route may declare (max_body_bytes): a number of bytes, or Unlimited
  Default   \* max_upload_bytes

Unlimited == -1
Undeclared == -2

BodyLimitAssumption ==
  /\ Lengths \subseteq Nat /\ Pieces \subseteq Nat \ {0} /\ Default \in Nat \ {0}
  /\ Limits \subseteq (Nat \ {0}) \cup {Unlimited}

VARIABLES
  route,     \* what the route says: its limit, and whether it reads its own body
  length,    \* the body's
  says,      \* the length the client declares, or Undeclared
  sent,      \* how much of the body has been sent
  gone,      \* whether the client has left
  received,  \* what the middleware has counted, and what of it the application was given
  over,
  app,       \* where the application is
  started,   \* who started an answer: "nobody", "route" or "limit"
  ran        \* whether the handler has done its work

vars == <<route, length, says, sent, gone, received, over, app, started, ran>>

Routes == [limit : Limits \cup {Undeclared}, reads : BOOLEAN]

\* limit_for: the route's own, none for one that reads its body, or the application's
LimitFor(r) == IF r.limit # Undeclared THEN r.limit ELSE IF r.reads THEN Unlimited ELSE Default

Limit == LimitFor(route)

Beyond(n) == Limit # Unlimited /\ n > Limit

\* A body whose declared length is too much is answered before the application is called.
Init ==
  /\ route \in Routes /\ length \in Lengths /\ says \in {length, Undeclared}
  /\ sent = 0 /\ gone = FALSE /\ received = [counted |-> 0, given |-> 0] /\ over = FALSE /\ ran = FALSE
  /\ IF Beyond(says) THEN app = "done" /\ started = "limit" ELSE app = "reads" /\ started = "nobody"

Leave == ~gone /\ app # "done" /\ gone' = TRUE /\ UNCHANGED <<route, length, says, sent, received, over, app, started, ran>>

-----------------------------------------------------------------------------
(* What the application receives                                           *)

\* Mutant: a body that could not be read is an empty one.
AfterDisconnect_Empty == IF route.reads THEN {"reads", "failed"} ELSE {"handles"}

\* Told that the client went away: json_body raises, a route that reads its body does as
\* it likes.
AfterDisconnect == IF route.reads THEN {"reads", "failed", "handles"} ELSE {"failed"}

\* counted_receive: a piece is handed over while the limit holds.
Given(n) == IF Beyond(received.counted + n) THEN received.given ELSE received.given + n

Disconnected ==
  /\ app = "reads" /\ (over \/ gone)
  /\ app' \in AfterDisconnect
  /\ UNCHANGED <<route, length, says, sent, gone, received, over, started, ran>>

ReceivePiece(n) ==
  /\ app = "reads" /\ ~over /\ ~gone /\ sent + n <= length
  /\ sent' = sent + n
  /\ received' = [counted |-> received.counted + n, given |-> Given(n)]
  /\ over' = Beyond(received.counted + n)
  /\ IF over' THEN app' \in AfterDisconnect
     ELSE app' \in IF route.reads THEN {"reads", "handles", "failed"} ELSE {IF sent' = length THEN "handles" ELSE "reads"}
  /\ UNCHANGED <<route, length, says, gone, started, ran>>

\* There is no body, or none of it was wanted.
NoMoreBody ==
  /\ app = "reads" /\ ~over /\ ~gone /\ (sent = length \/ route.reads)
  /\ app' = "handles"
  /\ UNCHANGED <<route, length, says, sent, gone, received, over, started, ran>>

-----------------------------------------------------------------------------
(* What the application does and sends                                     *)

\* The handler works, and answers; one that reads its own body may answer first and read on.
Handle ==
  /\ app = "handles"
  /\ ran' = TRUE
  /\ started' = IF started = "nobody" /\ ~over THEN "route" ELSE started
  /\ app' \in IF route.reads THEN {"reads", "returned", "failed"} ELSE {"returned"}
  /\ UNCHANGED <<route, length, says, sent, gone, received, over>>

\* A refusal of the framework's own, or of the handler's: nothing is done.
Refuse ==
  /\ app \in {"reads", "handles"} /\ ~ran
  /\ app' = "returned"
  /\ started' = IF started = "nobody" /\ ~over THEN "route" ELSE started
  /\ UNCHANGED <<route, length, says, sent, gone, received, over, ran>>

\* Back in the middleware, by a return or by an exception, which is the limit's if it was
\* passed: then the client is told, unless it has an answer already.
Over_ == over /\ started = "nobody"

Finish ==
  /\ app \in {"returned", "failed"}
  /\ app' = "done"
  /\ started' = IF Over_ THEN "limit" ELSE IF started = "nobody" THEN "server" ELSE started
  /\ UNCHANGED <<route, length, says, sent, gone, received, over, ran>>

Next == Leave \/ Disconnected \/ (\E n \in Pieces : ReceivePiece(n)) \/ NoMoreBody \/ Handle \/ Refuse \/ Finish

Spec == Init /\ [][Next]_vars

-----------------------------------------------------------------------------

\* A client answered that its body is too large had nothing done for it, by a route whose
\* body the framework reads: neither before the limit was passed nor under the refusal
\* (keepup-61).
NothingIsDoneUnderARefusal == (started = "limit" /\ ~route.reads) => ~ran

\* No route is given more of a body than it accepts, and a client that sent more is told so,
\* if it was told nothing before.
LimitHolds ==
  /\ ~Beyond(received.given)
  /\ (app = "done" /\ (over \/ Beyond(says))) => started \in {"limit", "route"}

\* Both, for whatever the client declares, sends and leaves unsent.
LimitIsKept == NothingIsDoneUnderARefusal /\ LimitHolds

=============================================================================
