------------------------------ MODULE HttpFront -----------------------------
(* The process around the handlers: connections, request bodies, the pool   *)
(* of database clients, the timers, and the shutdown that takes it all down *)
(* in order (server.js, index.js).  What a handler does is reduced to the   *)
(* statements it runs one after another; VaultServer has the rest.          *)
EXTENDS Naturals, Sequences, FiniteSets

CONSTANTS Conns,       \* connections
          Timers,      \* the sweep and the audit heartbeat
          None,
          Limit,       \* --max-request-body, in units of a small chunk
          PoolMax,     \* --db-max-connections
          MaxRequests, \* bound on the requests of all connections
          MaxFailures  \* bound on failing statements

ASSUME FrontAssumption == /\ Limit \in Nat /\ PoolMax \in Nat \ {0}
                          /\ Conns \cap Timers = {}

VARIABLES main,   \* the process: up, stopping, ending or exited
          conn,   \* fresh connections, those that have brought a request, closed ones
          req,    \* the request of each connection
          timer,  \* what each timer is doing
          out,    \* who has a database client checked out
          served, \* requests accepted so far
          failures

frontVars == <<main, conn, req, timer, out, served, failures>>

(* The statements of a request: an operation changes the database and then  *)
(* appends to the audit chain; /readyz pings; /healthz and every refused    *)
(* path or method do nothing of the kind.                                   *)
Statements(kind) == CASE kind = "api" -> <<"effect", "record">>
                      [] kind = "readyz" -> <<"ping">>
                      [] kind = "healthz" -> <<>>

NoRequest == [kind |-> None, pc |-> "done", todo |-> <<>>, size |-> 0, reply |-> None,
              effect |-> FALSE, record |-> FALSE, left |-> FALSE]
Arrived(kind) == [NoRequest EXCEPT !.kind = kind, !.todo = Statements(kind),
                                   !.pc = IF kind = "api" THEN "reading" ELSE "running"]

Busy(c) == req[c].pc # "done"
IsOpen(c) == conn[c] # "closed"

Init == /\ main = "up"
        /\ conn = [c \in Conns |-> "closed"]
        /\ req = [c \in Conns |-> NoRequest]
        /\ timer = [t \in Timers |-> "waiting"]
        /\ out = {}
        /\ served = 0
        /\ failures = 0

Running == main # "exited"

-----------------------------------------------------------------------------
(* Connections and bodies.  A connection that is open when the server is    *)
(* closed may still bring a request.                                        *)
Connect(c) == /\ main = "up"
              /\ conn[c] = "closed" /\ ~ Busy(c)
              /\ conn' = [conn EXCEPT ![c] = "fresh"]
              /\ UNCHANGED <<main, req, timer, out, served, failures>>

Request(c, kind) == /\ Running
                    /\ IsOpen(c) /\ ~ Busy(c)
                    /\ served < MaxRequests
                    /\ served' = served + 1
                    /\ req' = [req EXCEPT ![c] = Arrived(kind)]
                    /\ conn' = [conn EXCEPT ![c] = "open"]
                    /\ UNCHANGED <<main, timer, out, failures>>

TooLarge(size) == size > Limit

(* readBody: past the limit the request is answered, and destroyed with its *)
(* connection, whatever is still to come.                                   *)
Chunk(c, n) == /\ Running
               /\ conn[c] = "open" /\ req[c].pc = "reading"
               /\ LET size == req[c].size + n IN
                    IF TooLarge(size)
                    THEN /\ req' = [req EXCEPT ![c].size = size, ![c].pc = "done",
                                               ![c].reply = "too-large"]
                         /\ conn' = [conn EXCEPT ![c] = "closed"]
                    ELSE /\ req' = [req EXCEPT ![c].size = size]
                         /\ UNCHANGED conn
               /\ UNCHANGED <<main, timer, out, served, failures>>

(* The body is complete: it parses and the request is handled, or it is     *)
(* malformed and refused on the spot.                                       *)
BodyEnds(c) == /\ Running
               /\ conn[c] = "open" /\ req[c].pc = "reading"
               /\ \/ req' = [req EXCEPT ![c].pc = "running"]
                  \/ req' = [req EXCEPT ![c].pc = "done", ![c].reply = "error"]
               /\ UNCHANGED <<main, conn, timer, out, served, failures>>

(* The connection goes: nobody waits for a body that is not complete, but a *)
(* handler that runs goes on running.                                       *)
Closed(c) == /\ Running
             /\ IsOpen(c)
             /\ conn' = [conn EXCEPT ![c] = "closed"]
             /\ req' = [req EXCEPT ![c].pc = IF @ = "reading" THEN "done" ELSE @,
                                   ![c].left = Busy(c)]
             /\ UNCHANGED <<main, timer, out, served, failures>>

HangUp(c) == Busy(c) /\ Closed(c)
RequestTimeout(c) == req[c].pc = "reading" /\ Closed(c)
IdleClose(c) == ~ Busy(c) /\ Closed(c)

Answer(c) == /\ Running
             /\ req[c].pc = "running" /\ req[c].todo = <<>>
             /\ req' = [req EXCEPT ![c].pc = "done",
                                   ![c].reply = IF @ = None THEN "ok" ELSE @]
             /\ UNCHANGED <<main, conn, timer, out, served, failures>>

-----------------------------------------------------------------------------
(* The pool: a statement takes a client if one is free, runs, and gives it  *)
(* back; once the pool is ending nobody gets one, and who asks then is      *)
(* refused.                                                                 *)
TimerFires(t) == /\ main = "up"
                 /\ timer[t] = "waiting"
                 /\ timer' = [timer EXCEPT ![t] = "running"]
                 /\ UNCHANGED <<main, conn, req, out, served, failures>>

HasStatement(j) == IF j \in Conns THEN req[j].pc = "running" /\ req[j].todo # <<>>
                   ELSE timer[j] = "running"
Wants(j) == HasStatement(j) /\ j \notin out
InStatement(j) == HasStatement(j) /\ j \in out

Acquire(j) == /\ main \in {"up", "stopping"}
              /\ Wants(j)
              /\ Cardinality(out) < PoolMax
              /\ out' = out \cup {j}
              /\ UNCHANGED <<main, conn, req, timer, served, failures>>

Leaked(j) == IF j \in Conns /\ Len(req[j].todo) = 1 THEN out ELSE out \ {j}
Released(j) == out \ {j}

(* A statement that fails ends the handler with an error; a timer's is      *)
(* logged.                                                                  *)
Failed(j) == IF j \in Conns
             THEN /\ req' = [req EXCEPT ![j].todo = <<>>, ![j].reply = "error"]
                  /\ UNCHANGED timer
             ELSE /\ timer' = [timer EXCEPT ![j] = "waiting"]
                  /\ UNCHANGED req

Completed(j) == IF j \in Conns
                THEN /\ req' = [req EXCEPT ![j].todo = Tail(@),
                                           ![j].effect = @ \/ Head(req[j].todo) = "effect",
                                           ![j].record = @ \/ Head(req[j].todo) = "record"]
                     /\ UNCHANGED timer
                ELSE /\ timer' = [timer EXCEPT ![j] = "waiting"]
                     /\ UNCHANGED req

Complete(j) == /\ Running /\ InStatement(j)
               /\ Completed(j)
               /\ out' = Released(j)
               /\ UNCHANGED <<main, conn, served, failures>>

StatementFails(j) == /\ Running /\ InStatement(j)
                     /\ failures < MaxFailures
                     /\ failures' = failures + 1
                     /\ Failed(j)
                     /\ out' = out \ {j}
                     /\ UNCHANGED <<main, conn, served>>

Refused(j) == /\ main = "ending"
              /\ Wants(j)
              /\ Failed(j)
              /\ UNCHANGED <<main, conn, out, served, failures>>

-----------------------------------------------------------------------------
(* Shutdown: timers stop and no connection is accepted; once the server has *)
(* none left the pool ends; once that has every client back the process     *)
(* exits.  A second signal changes nothing.                                 *)
Main(from, to) == /\ main = from
                  /\ main' = to
                  /\ UNCHANGED <<conn, req, timer, out, served, failures>>

Signal == Main("up", "stopping")

NotAwaited == TRUE
ServerClosed == \A c \in Conns : conn[c] = "closed"
EndPool == ServerClosed /\ Main("stopping", "ending")

Exit == out = {} /\ Main("ending", "exited")

Next == \/ \E c \in Conns : \/ Connect(c) \/ BodyEnds(c) \/ HangUp(c) \/ RequestTimeout(c)
                            \/ IdleClose(c) \/ Answer(c)
                            \/ \E kind \in {"api", "readyz", "healthz"} : Request(c, kind)
                            \/ \E n \in {1, 2} : Chunk(c, n)
        \/ \E t \in Timers : TimerFires(t)
        \/ \E j \in Conns \cup Timers : \/ Acquire(j) \/ Complete(j) \/ StatementFails(j)
                                        \/ Refused(j)
        \/ Signal \/ EndPool \/ Exit

Spec == Init /\ [][Next]_frontVars

(* Handlers run, the database answers, the pool serves its waiters in turn. *)
(* Node closes connections that stay idle after a request; those that bring *)
(* none or do not finish theirs it looks for only until the server is       *)
(* closed.  Nothing is assumed of the clients or of the signal.             *)
Fairness ==
  /\ \A c \in Conns : /\ WF_frontVars(Answer(c))
                      /\ WF_frontVars(main = "up" /\ RequestTimeout(c))
                      /\ WF_frontVars((main = "up" \/ conn[c] = "open") /\ IdleClose(c))
  /\ \A j \in Conns \cup Timers : /\ SF_frontVars(Acquire(j))
                                  /\ WF_frontVars(Complete(j))
  /\ WF_frontVars(EndPool) /\ WF_frontVars(Exit)

FairSpec == Spec /\ Fairness

-----------------------------------------------------------------------------
(* An orderly shutdown abandons no request whose client still waits for its *)
(* answer: none is being handled when the pool ends, and none has had its   *)
(* effect but not its record, unless a statement failed (index.js 120-135). *)
(* The handler of a client that hung up is not waited for.                  *)
NothingAbandoned ==
  main \in {"ending", "exited"} =>
    \A c \in Conns : ~ req[c].left =>
      ~ Busy(c) /\ (req[c].effect => req[c].record \/ failures > 0)

(* Every request that comes to be handled is answered, even with a single   *)
(* database client for all, and while the vault is up a client that does    *)
(* not finish its request does not keep it (server.js 189-233).             *)
EveryRequestEnds == \A c \in Conns :
  /\ req[c].pc = "running" ~> (req[c].pc = "done" \/ main = "exited")
  /\ req[c].pc = "reading" ~> (req[c].pc # "reading" \/ main # "up")

(* A vault that is told to stop does, whether or not its clients wait for   *)
(* their answers, if none holds a connection open for ever that never brings*)
(* its request to an end (index.js 120-135).                                *)
Stalled(c) == conn[c] = "fresh" \/ req[c].pc = "reading"
ShutdownEnds == <>[](\A c \in Conns : ~ Stalled(c))
                => (main = "stopping" ~> main = "exited")

-----------------------------------------------------------------------------
(* The inductive invariant behind NothingAbandoned.                         *)
RequestState == [kind : {None, "api", "readyz", "healthz"}, pc : {"reading", "running", "done"},
                 todo : {<<"effect", "record">>, <<"record">>, <<"ping">>, <<>>}, size : Nat,
                 reply : {None, "ok", "error", "too-large"},
                 effect : BOOLEAN, record : BOOLEAN, left : BOOLEAN]

FrontTypeOK == /\ main \in {"up", "stopping", "ending", "exited"}
               /\ conn \in [Conns -> {"fresh", "open", "closed"}]
               /\ req \in [Conns -> RequestState]
               /\ timer \in [Timers -> {"waiting", "running"}]
               /\ out \subseteq Conns \cup Timers
               /\ served \in Nat /\ failures \in Nat

(* Only an operation has an effect, and its record comes after it.          *)
(* What a shutdown took away was no longer waited for.                      *)
InOrder(q) ==
  /\ q.todo \in {<<"effect", "record">>, <<"ping">>} \/ q.pc = "reading" => ~ q.effect
  /\ q.pc = "done" /\ q.effect => q.todo = <<>>
  /\ q.todo = <<>> /\ q.effect => \/ q.record \/ failures > 0
                                  \/ q.left /\ main \in {"ending", "exited"}

(* Whoever is handled without a connection has hung up, none has one when   *)
(* the pool ends, and the clients checked out are those of running          *)
(* statements: none is leaked.                                              *)
FrontConsistent ==
  /\ FrontTypeOK
  /\ \A c \in Conns : InOrder(req[c])
  /\ \A c \in Conns : conn[c] = "closed" /\ Busy(c) => req[c].left
  /\ main \in {"ending", "exited"} => ServerClosed
  /\ \A j \in out : HasStatement(j)
=============================================================================
