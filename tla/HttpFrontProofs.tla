-------------------------- MODULE HttpFrontProofs ---------------------------
(* Theorems about HttpFront, for any number of connections, timers,         *)
(* database clients, requests and failing statements: FrontConsistent is an *)
(* inductive invariant, no database client is ever leaked, and an orderly   *)
(* shutdown abandons no request whose client still waits for its answer.    *)
EXTENDS HttpFront, TLAPS

(* What is known of a connection between two steps.                         *)
LEMMA ConnKnown ==
  ASSUME FrontConsistent, NEW c \in Conns
  PROVE  /\ req[c] \in RequestState /\ InOrder(req[c])
         /\ conn[c] = "closed" /\ Busy(c) => req[c].left
         /\ main \in {"ending", "exited"} => conn[c] = "closed"
         /\ main \in {"ending", "exited"} /\ Busy(c) => req[c].left
BY DEF FrontConsistent, FrontTypeOK, ServerClosed

(* A new request has its statements before it.                              *)
LEMMA ArrivedOrdered ==
  ASSUME NEW kind \in {"api", "readyz", "healthz"}
  PROVE  /\ Arrived(kind) \in RequestState
         /\ Arrived(kind).pc \in {"reading", "running"} /\ ~ Arrived(kind).effect
BY DEF Arrived, NoRequest, Statements, RequestState

(* Enough for a step that changes the request of c only, or its connection  *)
(* with it, while the process stays what it is.                             *)
LEMMA ConnStep ==
  ASSUME FrontConsistent, NEW c \in Conns, NEW q \in RequestState,
         NEW b \in {"fresh", "open", "closed"},
         req' = [req EXCEPT ![c] = q], conn' = [conn EXCEPT ![c] = b],
         UNCHANGED <<main, timer, out, failures>>, served' \in Nat,
         InOrder(q), b = "closed" /\ q.pc # "done" => q.left,
         main \in {"ending", "exited"} => b = "closed",
         c \notin out \/ (q.pc = "running" /\ q.todo # <<>>)
  PROVE  FrontConsistent'
<1>1. /\ req'[c] = q /\ conn'[c] = b
      /\ \A d \in Conns : d # c => req'[d] = req[d] /\ conn'[d] = conn[d]
  BY DEF FrontConsistent, FrontTypeOK
<1>2. FrontTypeOK'
  BY DEF FrontConsistent, FrontTypeOK
<1>3. (\A d \in Conns : InOrder(req[d]))'
  BY <1>1 DEF FrontConsistent, InOrder
<1>4. (\A d \in Conns : conn[d] = "closed" /\ Busy(d) => req[d].left)'
  BY <1>1 DEF FrontConsistent, Busy
<1>5. (main \in {"ending", "exited"} => ServerClosed)'
  BY <1>1 DEF FrontConsistent, ServerClosed
<1>6. (\A j \in out : HasStatement(j))'
  BY <1>1 DEF FrontConsistent, HasStatement
<1> QED
  BY <1>2, <1>3, <1>4, <1>5, <1>6 DEF FrontConsistent

(* A connection that is not at a statement has no database client.          *)
LEMMA NoClient ==
  ASSUME FrontConsistent, NEW c \in Conns, req[c].pc # "running" \/ req[c].todo = <<>>
  PROVE  c \notin out
BY DEF FrontConsistent, HasStatement

LEMMA ConnectKeeps ==
  ASSUME FrontConsistent, NEW c \in Conns, Connect(c)
  PROVE  FrontConsistent'
<1>1. req' = [req EXCEPT ![c] = req[c]]
  BY DEF Connect, FrontConsistent, FrontTypeOK
<1>2. req[c].pc = "done" /\ main = "up"
  BY DEF Connect, Busy
<1> QED
  BY <1>1, <1>2, ConnKnown, NoClient, ConnStep DEF Connect, FrontConsistent, FrontTypeOK

LEMMA RequestKeeps ==
  ASSUME FrontConsistent, NEW c \in Conns, NEW kind \in {"api", "readyz", "healthz"},
         Request(c, kind)
  PROVE  FrontConsistent'
<1>1. InOrder(Arrived(kind))
  BY ArrivedOrdered DEF InOrder
<1>2. c \notin out /\ main \notin {"ending", "exited"}
  BY ConnKnown, NoClient DEF Request, Busy, IsOpen
<1>3. /\ req' = [req EXCEPT ![c] = Arrived(kind)] /\ conn' = [conn EXCEPT ![c] = "open"]
      /\ UNCHANGED <<main, timer, out, failures>> /\ served' \in Nat
  BY DEF Request, FrontConsistent, FrontTypeOK
<1>4. Arrived(kind) \in RequestState
  BY ArrivedOrdered
<1> QED
  BY <1>1, <1>2, <1>3, <1>4, ConnStep

(* A body that is too large is refused; otherwise it only grows.            *)
LEMMA ChunkKeeps ==
  ASSUME FrontConsistent, NEW c \in Conns, NEW n \in {1, 2}, Chunk(c, n)
  PROVE  FrontConsistent'
<1> DEFINE q == req[c]
           size == q.size + n
<1>1. /\ q \in RequestState /\ InOrder(q) /\ q.pc = "reading" /\ conn[c] = "open"
      /\ c \notin out /\ main \notin {"ending", "exited"} /\ size \in Nat
  BY ConnKnown, NoClient DEF Chunk, RequestState
<1>2. UNCHANGED <<main, timer, out, failures>> /\ served' \in Nat
  BY DEF Chunk, FrontConsistent, FrontTypeOK
<1>3. CASE TooLarge(size)
  <2> DEFINE p == [q EXCEPT !.size = size, !.pc = "done", !.reply = "too-large"]
  <2>1. req' = [req EXCEPT ![c] = p] /\ conn' = [conn EXCEPT ![c] = "closed"]
    BY <1>3 DEF Chunk, FrontConsistent, FrontTypeOK
  <2> HIDE DEF size
  <2>2. p \in RequestState /\ p.pc = "done" /\ ~ p.effect
    BY <1>1 DEF RequestState, InOrder
  <2> HIDE DEF p
  <2>3. InOrder(p)
    BY <2>2 DEF InOrder
  <2> QED
    BY <1>1, <1>2, <2>1, <2>2, <2>3, ConnStep
<1>4. CASE ~ TooLarge(size)
  <2> DEFINE p == [q EXCEPT !.size = size]
  <2>1. req' = [req EXCEPT ![c] = p] /\ conn' = [conn EXCEPT ![c] = "open"]
    BY <1>1, <1>4 DEF Chunk, FrontConsistent, FrontTypeOK
  <2> HIDE DEF size
  <2>2. p \in RequestState /\ p.pc = "reading" /\ ~ p.effect
    BY <1>1 DEF RequestState, InOrder
  <2> HIDE DEF p
  <2>3. InOrder(p)
    BY <2>2 DEF InOrder
  <2> QED
    BY <1>1, <1>2, <2>1, <2>2, <2>3, ConnStep
<1> QED
  BY <1>3, <1>4

LEMMA BodyEndsKeeps ==
  ASSUME FrontConsistent, NEW c \in Conns, BodyEnds(c)
  PROVE  FrontConsistent'
<1> DEFINE q == req[c]
<1>1. /\ q \in RequestState /\ InOrder(q) /\ q.pc = "reading" /\ conn[c] = "open"
      /\ c \notin out /\ main \notin {"ending", "exited"}
  BY ConnKnown, NoClient DEF BodyEnds
<1>2. conn' = [conn EXCEPT ![c] = "open"] /\ UNCHANGED <<main, timer, out, failures>> /\ served' \in Nat
  BY <1>1 DEF BodyEnds, FrontConsistent, FrontTypeOK
<1>3. PICK p : /\ p = [q EXCEPT !.pc = "running"] \/ p = [q EXCEPT !.pc = "done", !.reply = "error"]
               /\ req' = [req EXCEPT ![c] = p]
  BY DEF BodyEnds, FrontConsistent, FrontTypeOK
<1>4. p \in RequestState /\ ~ p.effect
  BY <1>1, <1>3 DEF RequestState, InOrder
<1>5. InOrder(p)
  BY <1>4 DEF InOrder, RequestState
<1> QED
  BY <1>1, <1>2, <1>3, <1>4, <1>5, ConnStep

(* A client that goes is not waited for.                                    *)
LEMMA ClosedKeeps ==
  ASSUME FrontConsistent, NEW c \in Conns, Closed(c)
  PROVE  FrontConsistent'
<1> DEFINE q == req[c]
           busy == Busy(c)
           pc == IF q.pc = "reading" THEN "done" ELSE q.pc
           p == [q EXCEPT !.pc = pc, !.left = busy]
<1>1. /\ q \in RequestState /\ InOrder(q) /\ main \notin {"ending", "exited"}
  BY ConnKnown DEF Closed, IsOpen
<1>2. /\ req' = [req EXCEPT ![c] = p] /\ conn' = [conn EXCEPT ![c] = "closed"]
      /\ UNCHANGED <<main, timer, out, failures>> /\ served' \in Nat
  BY DEF Closed, FrontConsistent, FrontTypeOK
<1>3. busy \in BOOLEAN /\ pc \in {"running", "done"}
  BY <1>1 DEF Busy, RequestState
<1>4. busy = (q.pc # "done")
  BY DEF Busy
<1> HIDE DEF busy, pc
<1>5. /\ p \in RequestState /\ p.pc = pc /\ p.left = busy /\ p.effect = q.effect
      /\ p.todo = q.todo /\ p.record = q.record
  BY <1>1, <1>3 DEF RequestState
<1> HIDE DEF p
<1>6. InOrder(p)
  BY <1>1, <1>5 DEF InOrder, pc
<1>7. c \notin out \/ (p.pc = "running" /\ p.todo # <<>>)
  BY <1>5, NoClient DEF pc
<1> QED
  BY <1>2, <1>4, <1>5, <1>6, <1>7, <1>3, ConnStep DEF pc

LEMMA AnswerKeeps ==
  ASSUME FrontConsistent, NEW c \in Conns, Answer(c)
  PROVE  FrontConsistent'
<1> DEFINE q == req[c]
           reply == IF q.reply = None THEN "ok" ELSE q.reply
           p == [q EXCEPT !.pc = "done", !.reply = reply]
<1>1. /\ q \in RequestState /\ InOrder(q) /\ q.pc = "running" /\ q.todo = <<>> /\ c \notin out
  BY ConnKnown, NoClient DEF Answer
<1>2. /\ req' = [req EXCEPT ![c] = p] /\ conn' = [conn EXCEPT ![c] = conn[c]]
      /\ UNCHANGED <<main, timer, out, failures>> /\ served' \in Nat
      /\ conn[c] \in {"fresh", "open", "closed"}
      /\ main \in {"ending", "exited"} => conn[c] = "closed"
  BY ConnKnown DEF Answer, FrontConsistent, FrontTypeOK
<1>3. reply \in {"ok", "error", "too-large"}
  BY <1>1 DEF RequestState
<1> HIDE DEF reply
<1>4. /\ p \in RequestState /\ p.pc = "done" /\ p.left = q.left /\ p.effect = q.effect
      /\ p.todo = q.todo /\ p.record = q.record
  BY <1>1, <1>3 DEF RequestState
<1> HIDE DEF p
<1>5. InOrder(p)
  BY <1>1, <1>4 DEF InOrder
<1> QED
  BY <1>1, <1>2, <1>4, <1>5, ConnStep

-----------------------------------------------------------------------------
(* The pool                                                                 *)

LEMMA AcquireKeeps ==
  ASSUME FrontConsistent, NEW j \in Conns \cup Timers, Acquire(j)
  PROVE  FrontConsistent'
BY DEF FrontConsistent, FrontTypeOK, Acquire, Wants, HasStatement, InOrder, Busy, ServerClosed

LEMMA TimerFiresKeeps ==
  ASSUME FrontConsistent, NEW t \in Timers, TimerFires(t)
  PROVE  FrontConsistent'
BY FrontAssumption
DEF FrontConsistent, FrontTypeOK, TimerFires, HasStatement, InOrder, Busy, ServerClosed

(* Enough for the end of a connection's statement: the client is given      *)
(* back, if there was one, and the handler goes on as q.                    *)
LEMMA ConnStatementEnds ==
  ASSUME FrontConsistent, NEW c \in Conns, NEW q \in RequestState, req[c].pc = "running",
         req' = [req EXCEPT ![c] = q], out' = out \ {c}, UNCHANGED <<main, conn, timer, served>>,
         failures' \in Nat, failures' >= failures,
         q.pc = "running", q.left = req[c].left, InOrder(q)'
  PROVE  FrontConsistent'
<1>1. /\ req'[c] = q
      /\ \A d \in Conns : d # c => req'[d] = req[d]
  BY DEF FrontConsistent, FrontTypeOK
<1>2. FrontTypeOK'
  BY DEF FrontConsistent, FrontTypeOK
<1>3. (\A d \in Conns : InOrder(req[d]))'
  <2> SUFFICES ASSUME NEW d \in Conns PROVE InOrder(req[d])'
    OBVIOUS
  <2>1. CASE d = c
    BY <1>1, <2>1
  <2>2. CASE d # c
    BY <1>1, <2>2 DEF FrontConsistent, FrontTypeOK, InOrder
  <2> QED
    BY <2>1, <2>2
<1>4. (\A d \in Conns : conn[d] = "closed" /\ Busy(d) => req[d].left)'
  BY <1>1 DEF FrontConsistent, Busy
<1>5. (\A j \in out : HasStatement(j))'
  BY <1>1 DEF FrontConsistent, HasStatement
<1> QED
  BY <1>2, <1>3, <1>4, <1>5 DEF FrontConsistent, ServerClosed

(* Enough for the end of a timer's statement.                               *)
LEMMA TimerStatementEnds ==
  ASSUME FrontConsistent, NEW t \in Timers, timer' = [timer EXCEPT ![t] = "waiting"],
         out' = out \ {t}, UNCHANGED <<main, conn, req, served>>,
         failures' \in Nat, failures' >= failures
  PROVE  FrontConsistent'
<1>1. FrontTypeOK'
  BY DEF FrontConsistent, FrontTypeOK
<1>2. (\A d \in Conns : InOrder(req[d]))'
  BY DEF FrontConsistent, FrontTypeOK, InOrder
<1>3. (\A j \in out : HasStatement(j))'
  BY FrontAssumption DEF FrontConsistent, FrontTypeOK, HasStatement
<1> QED
  BY <1>1, <1>2, <1>3 DEF FrontConsistent, ServerClosed, Busy

(* The statements of an operation come in order: after its effect it still  *)
(* has its record to do.                                                    *)
LEMMA CompleteKeeps ==
  ASSUME FrontConsistent, NEW j \in Conns \cup Timers, Complete(j)
  PROVE  FrontConsistent'
<1>1. /\ out' = out \ {j} /\ UNCHANGED <<main, conn, served>>
      /\ failures' \in Nat /\ failures' >= failures
  BY DEF Complete, Released, FrontConsistent, FrontTypeOK
<1>2. CASE j \in Conns
  <2> DEFINE q == req[j]
             todo == Tail(q.todo)
             effect == q.effect \/ Head(q.todo) = "effect"
             record == q.record \/ Head(q.todo) = "record"
  <2>1. /\ q \in RequestState /\ InOrder(q) /\ q.pc = "running" /\ q.todo # <<>>
    BY <1>2, ConnKnown DEF Complete, InStatement, HasStatement
  <2>2. PICK p : /\ p = [q EXCEPT !.todo = todo, !.effect = effect, !.record = record]
                 /\ req' = [req EXCEPT ![j] = p] /\ UNCHANGED timer
    BY <1>2 DEF Complete, Completed, FrontConsistent, FrontTypeOK
  <2>3. effect \in BOOLEAN /\ record \in BOOLEAN
    BY <2>1 DEF RequestState
  <2>4. CASE q.todo = <<"effect", "record">>
    <3>1. todo = <<"record">>
      BY <2>4
    <3> HIDE DEF todo, effect, record
    <3>2. p \in RequestState /\ p.pc = "running" /\ p.left = q.left /\ p.todo = <<"record">>
      BY <2>1, <2>2, <2>3, <3>1 DEF RequestState
    <3>3. InOrder(p)'
      BY <3>2 DEF InOrder
    <3> QED
      BY <1>1, <1>2, <2>1, <2>2, <3>2, <3>3, ConnStatementEnds
  <2>5. CASE q.todo = <<"record">>
    <3>1. todo = <<>> /\ record
      BY <2>5
    <3> HIDE DEF todo, effect, record
    <3>2. p \in RequestState /\ p.pc = "running" /\ p.left = q.left /\ p.todo = <<>> /\ p.record
      BY <2>1, <2>2, <2>3, <3>1 DEF RequestState
    <3>3. InOrder(p)'
      BY <3>2 DEF InOrder
    <3> QED
      BY <1>1, <1>2, <2>1, <2>2, <3>2, <3>3, ConnStatementEnds
  <2>6. CASE q.todo = <<"ping">>
    <3>1. todo = <<>> /\ ~ effect
      BY <2>1, <2>6 DEF RequestState, InOrder
    <3> HIDE DEF todo, effect, record
    <3>2. /\ p \in RequestState /\ p.pc = "running" /\ p.left = q.left /\ p.todo = <<>>
          /\ ~ p.effect
      BY <2>1, <2>2, <2>3, <3>1 DEF RequestState
    <3>3. InOrder(p)'
      BY <2>1, <2>6, <3>2 DEF InOrder
    <3> QED
      BY <1>1, <1>2, <2>1, <2>2, <3>2, <3>3, ConnStatementEnds
  <2> QED
    BY <2>1, <2>4, <2>5, <2>6 DEF RequestState
<1>3. CASE j \in Timers
  <2>1. timer' = [timer EXCEPT ![j] = "waiting"] /\ UNCHANGED req
    BY <1>3, FrontAssumption DEF Complete, Completed
  <2> QED
    BY <1>1, <1>3, <2>1, TimerStatementEnds
<1> QED
  BY <1>2, <1>3

(* What a statement that fails leaves undone is allowed for by failures.    *)
LEMMA StatementFailsKeeps ==
  ASSUME FrontConsistent, NEW j \in Conns \cup Timers, StatementFails(j)
  PROVE  FrontConsistent'
<1>1. /\ out' = out \ {j} /\ UNCHANGED <<main, conn, served>>
      /\ failures' \in Nat /\ failures' >= failures /\ failures' > 0
  BY DEF StatementFails, FrontConsistent, FrontTypeOK
<1>2. CASE j \in Conns
  <2> DEFINE q == req[j]
  <2>1. q \in RequestState /\ InOrder(q) /\ q.pc = "running"
    BY <1>2, ConnKnown DEF StatementFails, InStatement, HasStatement
  <2>2. PICK p : /\ p = [q EXCEPT !.todo = <<>>, !.reply = "error"]
                 /\ req' = [req EXCEPT ![j] = p] /\ UNCHANGED timer
    BY <1>2 DEF StatementFails, Failed, FrontConsistent, FrontTypeOK
  <2>3. p \in RequestState /\ p.pc = "running" /\ p.left = q.left /\ p.todo = <<>>
    BY <2>1, <2>2 DEF RequestState
  <2>4. InOrder(p)'
    BY <1>1, <2>3 DEF InOrder
  <2> QED
    BY <1>1, <1>2, <2>1, <2>2, <2>3, <2>4, ConnStatementEnds
<1>3. CASE j \in Timers
  <2>1. timer' = [timer EXCEPT ![j] = "waiting"] /\ UNCHANGED req
    BY <1>3, FrontAssumption DEF StatementFails, Failed
  <2> QED
    BY <1>1, <1>3, <2>1, TimerStatementEnds
<1> QED
  BY <1>2, <1>3

(* Who is refused by the ending pool has been left by its client: every     *)
(* connection is closed.                                                    *)
LEMMA RefusedKeeps ==
  ASSUME FrontConsistent, NEW j \in Conns \cup Timers, Refused(j)
  PROVE  FrontConsistent'
<1>1. /\ out' = out \ {j} /\ UNCHANGED <<main, conn, served>> /\ main = "ending"
      /\ failures' \in Nat /\ failures' >= failures
  BY DEF Refused, Wants, FrontConsistent, FrontTypeOK
<1>2. CASE j \in Conns
  <2> DEFINE q == req[j]
  <2>1. q \in RequestState /\ InOrder(q) /\ q.pc = "running" /\ q.left
    BY <1>1, <1>2, ConnKnown DEF Refused, Wants, HasStatement, Busy
  <2>2. PICK p : /\ p = [q EXCEPT !.todo = <<>>, !.reply = "error"]
                 /\ req' = [req EXCEPT ![j] = p] /\ UNCHANGED timer
    BY <1>2 DEF Refused, Failed, FrontConsistent, FrontTypeOK
  <2>3. p \in RequestState /\ p.pc = "running" /\ p.left = q.left /\ p.todo = <<>>
    BY <2>1, <2>2 DEF RequestState
  <2>4. InOrder(p)'
    BY <1>1, <2>1, <2>3 DEF InOrder
  <2> QED
    BY <1>1, <1>2, <2>1, <2>2, <2>3, <2>4, ConnStatementEnds
<1>3. CASE j \in Timers
  <2>1. timer' = [timer EXCEPT ![j] = "waiting"] /\ UNCHANGED req
    BY <1>3, FrontAssumption DEF Refused, Failed
  <2> QED
    BY <1>1, <1>3, <2>1, TimerStatementEnds
<1> QED
  BY <1>2, <1>3

-----------------------------------------------------------------------------
(* The shutdown                                                             *)

LEMMA ShutdownKeeps ==
  ASSUME FrontConsistent, Signal \/ EndPool \/ Exit
  PROVE  FrontConsistent'
<1>1. UNCHANGED <<conn, req, timer, out, served, failures>>
  BY DEF Signal, EndPool, Exit, Main
<1>2. FrontTypeOK'
  BY <1>1 DEF FrontConsistent, FrontTypeOK, Signal, EndPool, Exit, Main
<1>3. main \in {"ending", "exited"} => main' \in {"ending", "exited"}
  BY DEF Signal, EndPool, Exit, Main
<1>4. (\A c \in Conns : InOrder(req[c]))'
  BY <1>1, <1>3 DEF FrontConsistent, InOrder
<1>5. (main \in {"ending", "exited"} => ServerClosed)'
  BY <1>1 DEF FrontConsistent, ServerClosed, Signal, EndPool, Exit, Main
<1> QED
  BY <1>1, <1>2, <1>4, <1>5 DEF FrontConsistent, Busy, HasStatement

-----------------------------------------------------------------------------
LEMMA FrontInit == Init => FrontConsistent
BY DEF Init, FrontConsistent, FrontTypeOK, RequestState, NoRequest, InOrder, Busy, HasStatement,
       ServerClosed

LEMMA FrontStep == FrontConsistent /\ [Next]_frontVars => FrontConsistent'
<1> SUFFICES ASSUME FrontConsistent, [Next]_frontVars PROVE FrontConsistent'
  OBVIOUS
<1>1. ASSUME NEW c \in Conns, Connect(c) PROVE FrontConsistent'
  BY <1>1, ConnectKeeps
<1>2. ASSUME NEW c \in Conns, BodyEnds(c) PROVE FrontConsistent'
  BY <1>2, BodyEndsKeeps
<1>3. ASSUME NEW c \in Conns, HangUp(c) \/ RequestTimeout(c) \/ IdleClose(c)
      PROVE  FrontConsistent'
  BY <1>3, ClosedKeeps DEF HangUp, RequestTimeout, IdleClose
<1>4. ASSUME NEW c \in Conns, Answer(c) PROVE FrontConsistent'
  BY <1>4, AnswerKeeps
<1>5. ASSUME NEW c \in Conns, NEW kind \in {"api", "readyz", "healthz"}, Request(c, kind)
      PROVE  FrontConsistent'
  BY <1>5, RequestKeeps
<1>6. ASSUME NEW c \in Conns, NEW n \in {1, 2}, Chunk(c, n) PROVE FrontConsistent'
  BY <1>6, ChunkKeeps
<1>7. ASSUME NEW t \in Timers, TimerFires(t) PROVE FrontConsistent'
  BY <1>7, TimerFiresKeeps
<1>8. ASSUME NEW j \in Conns \cup Timers,
             Acquire(j) \/ Complete(j) \/ StatementFails(j) \/ Refused(j)
      PROVE  FrontConsistent'
  BY <1>8, AcquireKeeps, CompleteKeeps, StatementFailsKeeps, RefusedKeeps
<1>9. CASE Signal \/ EndPool \/ Exit
  BY <1>9, ShutdownKeeps
<1>10. CASE UNCHANGED frontVars
  BY <1>10 DEF frontVars, FrontConsistent, FrontTypeOK, InOrder, Busy, ServerClosed, HasStatement
<1> QED
  BY <1>1, <1>2, <1>3, <1>4, <1>5, <1>6, <1>7, <1>8, <1>9, <1>10 DEF Next

(* Whatever the clients, the timers and the database do, no database client *)
(* is checked out but for a statement that runs (db.js 21-47), a request    *)
(* without a connection has been left by its client, and the pool ends only *)
(* when no connection is left (index.js 120-135).                           *)
THEOREM FrontStaysConsistent == Spec => []FrontConsistent
<1> QED
  BY FrontInit, FrontStep, PTL DEF Spec

LEMMA NothingAbandonedFollows == FrontConsistent => NothingAbandoned
<1> SUFFICES ASSUME FrontConsistent, main \in {"ending", "exited"},
                    NEW c \in Conns, ~ req[c].left
             PROVE  ~ Busy(c) /\ (req[c].effect => req[c].record \/ failures > 0)
  BY DEF NothingAbandoned
<1> QED
  BY ConnKnown DEF Busy, InOrder

(* An orderly shutdown abandons no request that its client waits for.       *)
THEOREM NothingIsAbandoned == Spec => []NothingAbandoned
<1> QED
  BY FrontStaysConsistent, NothingAbandonedFollows, PTL
=============================================================================
