-------------------------- MODULE VaultAccessProofs ------------------------
(* Who may do what to which key in VaultServer, for any users, keys,        *)
(* requests and number of crashes: nobody is served with a key that had     *)
(* ended when the request arrived, nobody learns of a key they hold nothing *)
(* on, and no row disappears but by a granted revocation or after its end.  *)
(* Every key keeps an owner and lists existing users only, and whoever is   *)
(* refused a key for want of a class leaves a denied record in the chain,   *)
(* and nobody else does.                                                    *)
EXTENDS VaultServerProofs

(* While only the server runs, rows are inserted and deleted, never changed.*)
KeysAsIssued == \A k \in Kid : keys[k] # None => keys[k] = issued[k]

(* The row is past its end.                                                 *)
Expired(row) == row.exp # None /\ row.exp <= now

(* authenticate returned the record of an existing user, and from there on  *)
(* that user is the one the request names.                                  *)
UserKnown(q) == q.user # None => /\ users[q.user.userId] # None
                                 /\ q.user.data = users[q.user.userId].data
CallerIs(q) == q.user # None => q.user.userId = q.in.user
CallerKnown(q) == UserKnown(q) /\ (q.pc \notin {"authr", "lost"} => CallerIs(q))

(* A request begins with nothing.                                           *)
Fresh(q) == /\ q.pc = "idle" => q.user = None /\ q.listed = {}
            /\ q.pc \in {"idle", "authq", "authr"} => q.kid = None

(* What a handler holds of a key that had ended by its arrival is expired,  *)
(* and it shows none of it.                                                 *)
ListsNoEnded(q) == \A kr \in q.listed : kr[1] \notin q.ended
EndedSeen(q) ==
  /\ \A k \in q.ended : Ended(k)
  /\ q.pc \in {"keyr", "crypto", "delq"} /\ q.row # None =>
       /\ q.kid # None /\ q.row = issued[q.kid]
       /\ q.kid \in q.ended => Expired(q.row)
  /\ q.pc = "listr" => \A kr \in q.listed : kr[1] \in q.ended => Expired(kr[2])
  /\ q.pc \notin {"listr", "lost"} => ListsNoEnded(q)

Holds(q) == /\ q.kid # None /\ issued[q.kid] # None
            /\ Entitled(q.in.user, users[q.in.user].data, q.in.request, issued[q.kid])

(* Past authorizedKey, and told anything, only with the class held.         *)
Told(q, out) ==
  q.in.request \in KeyOps /\ q.kid # None /\ out \in Telling =>
    Holds(q) /\ (out = "ok" => q.kid \notin q.ended)
Rightful(q) ==
  /\ q.pc \in {"crypto", "delq"} => Holds(q) /\ q.kid \notin q.ended
  /\ q.pc \in {"auditq", "deniedq", "respond", "done"} => Told(q, q.out)

AccessAt(q) == CallerKnown(q) /\ Fresh(q) /\ EndedSeen(q) /\ Rightful(q)

AccessConsistent ==
  /\ HandlersConsistent
  /\ KeysAsIssued
  /\ \A r \in Request : AccessAt(reqs[r])

-----------------------------------------------------------------------------
(* What every step leaves: users, the rows once issued, the ends of keys    *)

Framed == /\ users' = users
          /\ now' \in Nat /\ now <= now'
          /\ \A k \in Kid : issued[k] # None => issued'[k] = issued[k]
          /\ \A k \in Kid : Ended(k) => Ended(k)'

(* The rows a DELETE is for: those past their end, or that of one request.  *)
Deleting(K) == \/ K = Sweepable
               \/ \E r \in Request : reqs[r].pc = "delq" /\ K = {reqs[r].kid}

(* What a step does to the tables: no user changes, and of the rows one is  *)
(* inserted as its handler made it or some are deleted for a reason.        *)
LEMMA StepChanges ==
  ASSUME HandlersConsistent, [Next]_vars
  PROVE  /\ users' = users /\ now <= now'
         /\ \/ UNCHANGED <<keys, issued>>
            \/ \E r \in Request : reqs[r].pc = "insq" /\ InsertKey(reqs[r].kid, reqs[r].row)
            \/ \E K : DeleteKeys(K) /\ Deleting(K)
<1>1. now \in Nat
  BY TimeAssumption DEF HandlersConsistent, ServerTypeOK, DbTypeOK
<1>2. ASSUME NEW r \in Request, Arrive(r) PROVE UNCHANGED <<users, now, keys, issued>>
  BY <1>2 DEF Arrive, ServerOnly
<1>3. ASSUME NEW r \in Request, Handle(r)
      PROVE  /\ UNCHANGED <<users, now>>
             /\ \/ UNCHANGED <<keys, issued>>
                \/ reqs[r].pc = "insq" /\ InsertKey(reqs[r].kid, reqs[r].row)
                \/ \E K : DeleteKeys(K) /\ Deleting(K)
  <2>1. CASE QueryUser(r) \/ Dispatch(r) \/ DispatchInherited(r) \/ QueryKey(r) \/ Authorize(r)
             \/ Crypto(r) \/ QueryMissing(r) \/ Generate(r) \/ QueryList(r) \/ FilterList(r)
             \/ ReadFails(r) \/ Respond(r)
    BY <2>1, Zenon DEF QueryUser, Dispatch, DispatchInherited, QueryKey, Authorize, Crypto,
                QueryMissing, Generate, QueryList, FilterList, ReadFails, Respond, ServerOnly
  <2>2. CASE WriteFails(r)
    BY <2>2 DEF WriteFails, Deleting
  <2>3. CASE DeleteKey(r) \/ InsertNewKey(r)
    <3>1. reqs[r] \in RequestState
      BY RequestKnown
    <3> QED
      BY <2>3, <3>1 DEF DeleteKey, InsertNewKey, RequestState, Deleting
  <2>4. CASE AppendAudit(r) \/ AppendDenied(r) \/ AppendFails(r)
    BY <2>4 DEF AppendAudit, AppendDenied, AppendFails
  <2> QED
    BY <1>3, <2>1, <2>2, <2>3, <2>4 DEF Handle
<1>4. CASE Sweep \/ Start
  BY <1>1, <1>4 DEF Sweep, Start, Deleting
<1>5. CASE Crash \/ (Tick /\ UNCHANGED serverVars) \/ UNCHANGED vars
  BY <1>1, <1>5 DEF Crash, Tick, vars, dbVars
<1> QED
  BY <1>1, <1>2, <1>3, <1>4, <1>5 DEF Next, ServerNext

(* So rows stay as issued, what ended stays ended, and no user changes.     *)
LEMMA StepIsFramed ==
  ASSUME HandlersConsistent, KeysAsIssued, [Next]_vars
  PROVE  Framed /\ KeysAsIssued'
<1>1. users' = users /\ now <= now'
  BY StepChanges
<1>2. now \in Nat /\ now' \in Nat
  BY StepKeepsConsistent, TimeAssumption DEF HandlersConsistent, ServerTypeOK, DbTypeOK
<1>3. \A k \in Kid : keys[k] # None => keys[k].exp \in Nat \cup {None}
  BY DEF HandlersConsistent, ServerTypeOK, DbTypeOK, KeyTable, KeyRow, MaybeTime
<1>4. ASSUME NEW k \in Kid, keys[k] # None, keys[k].exp # None, keys[k].exp <= now
      PROVE  keys[k].exp <= now'
  BY <1>1, <1>2, <1>3, <1>4
<1>5. CASE UNCHANGED <<keys, issued>>
  BY <1>1, <1>2, <1>4, <1>5 DEF Framed, KeysAsIssued, Ended, Gone
<1>6. CASE \E r \in Request : reqs[r].pc = "insq" /\ InsertKey(reqs[r].kid, reqs[r].row)
  <2>1. PICK r \in Request : reqs[r].pc = "insq" /\ InsertKey(reqs[r].kid, reqs[r].row)
    BY <1>6
  <2> DEFINE j == reqs[r].kid
             row == reqs[r].row
  <2>2. j \in Kid /\ row \in KeyRow /\ issued[j] = None
    BY <2>1, RequestKnown DEF HandlersConsistent, KidsNew, WellPlaced, RequestState
  <2>3. /\ keys'[j] = row /\ issued'[j] = row
        /\ \A k \in Kid : k # j => keys'[k] = keys[k] /\ issued'[k] = issued[k]
    BY <2>1, <2>2, InsertKeyTables DEF HandlersConsistent
  <2> HIDE DEF j, row
  <2>4. keys[j] = None
    BY <2>2 DEF HandlersConsistent, KidsNew
  <2> QED
    BY <1>1, <1>2, <1>4, <2>2, <2>3, <2>4 DEF Framed, KeysAsIssued, Ended, Gone
<1>7. CASE \E K : DeleteKeys(K)
  <2>1. PICK K : DeleteKeys(K)
    BY <1>7
  <2>2. issued' = issued /\ \A k \in Kid : keys'[k] = IF k \in K THEN None ELSE keys[k]
    BY <2>1, DeleteKeysTables DEF HandlersConsistent
  <2>3. \A k \in Kid : keys[k] # None => issued[k] # None
    BY DEF HandlersConsistent, KidsNew
  <2> QED
    BY <1>1, <1>2, <1>4, <2>2, <2>3 DEF Framed, KeysAsIssued, Ended, Gone
<1> QED
  BY <1>5, <1>6, <1>7, StepChanges

(* What holds of a request goes on holding while others move.               *)
LEMMA AccessIsFramed ==
  ASSUME HandlersConsistent, Framed, NEW q \in RequestState, AccessAt(q)
  PROVE  AccessAt(q)'
<1>1. now \in Nat /\ q.kid \in Kid \cup {None} /\ q.ended \subseteq Kid
  BY TimeAssumption DEF HandlersConsistent, ServerTypeOK, DbTypeOK, RequestState
<1>2. UserKnown(q)' /\ CallerKnown(q)'
  BY DEF AccessAt, CallerKnown, UserKnown, CallerIs, Framed
<1>3. Fresh(q)'
  BY DEF AccessAt, Fresh
<1>4. EndedSeen(q)'
  <2>1. now' \in Nat /\ now <= now'
    BY <1>1 DEF Framed
  <2>2. ASSUME NEW row \in KeyRow, Expired(row) PROVE Expired(row)'
    BY <1>1, <2>1, <2>2 DEF Expired, KeyRow, MaybeTime
  <2>3. /\ q.row # None => q.row \in KeyRow
        /\ \A kr \in q.listed : kr[2] \in KeyRow
    BY DEF RequestState
  <2>4. \A k \in q.ended : Ended(k)'
    BY <1>1 DEF AccessAt, EndedSeen, Framed
  <2>5. q.pc \in {"keyr", "crypto", "delq"} /\ q.row # None =>
          /\ q.kid # None /\ q.row = issued'[q.kid]
          /\ q.kid \in q.ended => Expired(q.row)'
    BY <1>1, <2>2, <2>3 DEF AccessAt, EndedSeen, Framed
  <2>6. q.pc = "listr" => \A kr \in q.listed : kr[1] \in q.ended => Expired(kr[2])'
    BY <2>2, <2>3 DEF AccessAt, EndedSeen
  <2>7. q.pc \notin {"listr", "lost"} => ListsNoEnded(q)'
    BY DEF AccessAt, EndedSeen, ListsNoEnded
  <2> QED
    BY <2>4, <2>5, <2>6, <2>7 DEF EndedSeen
<1>5. Rightful(q)'
  BY <1>1 DEF AccessAt, Rightful, Told, Holds, Framed
<1> QED
  BY <1>2, <1>3, <1>4, <1>5 DEF AccessAt

(* To prove a step of one request, its new place is enough.                 *)
LEMMA Moved ==
  ASSUME AccessConsistent, [Next]_vars, NEW r \in Request, NEW q, Update(r, q), AccessAt(q)
  PROVE  \A s \in Request : AccessAt(reqs[s])'
<1> SUFFICES ASSUME NEW s \in Request PROVE AccessAt(reqs[s])'
  OBVIOUS
<1>1. PICK p \in RequestState : p = reqs'[s] /\ AccessAt(p)
  BY StepKeepsConsistent DEF Update, AccessConsistent, HandlersConsistent, ServerTypeOK
<1>2. AccessAt(p)'
  BY <1>1, StepIsFramed, AccessIsFramed DEF AccessConsistent
<1> QED
  BY <1>1, <1>2 DEF AccessAt, CallerKnown, UserKnown, CallerIs, Fresh, EndedSeen, ListsNoEnded,
                    Rightful, Told, Holds
-----------------------------------------------------------------------------
(* Where a handler may go                                                   *)

(* To its record and its answer, with an outcome it may tell.               *)
LEMMA MayConclude ==
  ASSUME NEW q \in RequestState, NEW out, UserKnown(q), CallerIs(q), ListsNoEnded(q),
         \A k \in q.ended : Ended(k), Told(q, out)
  PROVE  AccessAt(Conclude(q, out)) /\ AccessAt(Reply(q, out))
<1>1. ASSUME NEW p, p.in = q.in, p.user = q.user, p.kid = q.kid, p.ended = q.ended,
             p.listed = q.listed, p.out = out, p.pc \in {"auditq", "respond"}
      PROVE  AccessAt(p)
  BY <1>1 DEF AccessAt, CallerKnown, UserKnown, CallerIs, Fresh, EndedSeen, ListsNoEnded,
              Rightful, Told, Holds
<1>2. /\ Conclude(q, out).in = q.in /\ Conclude(q, out).user = q.user
      /\ Conclude(q, out).kid = q.kid /\ Conclude(q, out).ended = q.ended
      /\ Conclude(q, out).listed = q.listed /\ Conclude(q, out).out = out
      /\ Conclude(q, out).pc \in {"auditq", "respond"}
  BY DEF Conclude, RequestState
<1>3. /\ Reply(q, out).in = q.in /\ Reply(q, out).user = q.user
      /\ Reply(q, out).kid = q.kid /\ Reply(q, out).ended = q.ended
      /\ Reply(q, out).listed = q.listed /\ Reply(q, out).out = out
      /\ Reply(q, out).pc = "respond"
  BY DEF Reply, RequestState
<1> QED
  BY <1>1, <1>2, <1>3

(* Nowhere, when its process is dead.                                       *)
LEMMA MayBeLost ==
  ASSUME NEW q \in RequestState, AccessAt(q), NEW p, p.in = q.in, p.user = q.user, p.kid = q.kid,
         p.ended = q.ended, p.pc = "lost"
  PROVE  AccessAt(p)
BY DEF AccessAt, CallerKnown, UserKnown, Fresh, EndedSeen, Rightful

(* On to another await, still holding no row.                               *)
LEMMA MayGoOn ==
  ASSUME NEW q \in RequestState, AccessAt(q), NEW p, p.in = q.in, p.user = q.user,
         p.ended = q.ended, p.listed = q.listed,
         CallerIs(q), ListsNoEnded(q), p.pc \in {"keyq", "missq", "gen", "insq", "listq"}
  PROVE  AccessAt(p)
BY DEF AccessAt, CallerKnown, UserKnown, CallerIs, Fresh, EndedSeen, ListsNoEnded, Rightful

(* The same handler after its write, whether it did it or not.              *)
LEMMA DidOrNot ==
  ASSUME NEW q \in RequestState, AccessAt(q), NEW did \in BOOLEAN
  PROVE  /\ [q EXCEPT !.did = did] \in RequestState
         /\ AccessAt([q EXCEPT !.did = did])
         /\ [q EXCEPT !.did = did].pc = q.pc /\ [q EXCEPT !.did = did].in = q.in
<1> DEFINE p == [q EXCEPT !.did = did]
<1>1. /\ p \in RequestState /\ p.in = q.in /\ p.user = q.user /\ p.kid = q.kid
      /\ p.ended = q.ended /\ p.listed = q.listed /\ p.out = q.out /\ p.pc = q.pc
      /\ p.row = q.row
  BY DEF RequestState
<1> HIDE DEF p
<1>2. AccessAt(p)
  BY <1>1 DEF AccessAt, CallerKnown, UserKnown, CallerIs, Fresh, EndedSeen, ListsNoEnded,
              Rightful, Told, Holds
<1> QED
  BY <1>1, <1>2 DEF p

(* What is known of a request between two steps.                            *)
LEMMA AccessKnown ==
  ASSUME AccessConsistent, NEW r \in Request
  PROVE  /\ reqs[r] \in RequestState /\ AccessAt(reqs[r]) /\ WellPlaced(reqs[r])
         /\ now \in Nat
         /\ UserKnown(reqs[r]) /\ \A k \in reqs[r].ended : Ended(k)
         /\ reqs[r].pc \notin {"authr", "lost"} => CallerIs(reqs[r])
         /\ reqs[r].pc \notin {"listr", "lost"} => ListsNoEnded(reqs[r])
BY RequestKnown, TimeAssumption
DEF AccessConsistent, HandlersConsistent, ServerTypeOK, DbTypeOK, AccessAt, CallerKnown, EndedSeen

-----------------------------------------------------------------------------
(* One lemma per action: the request it moves keeps its place               *)

(* A request arrives: what has ended by now is known, nothing is held.      *)
LEMMA ArriveAccess ==
  ASSUME AccessConsistent, NEW r \in Request, Arrive(r)
  PROVE  \E q : Update(r, q) /\ AccessAt(q)
<1>1. reqs[r] \in RequestState /\ reqs[r].pc = "idle" /\ AccessAt(reqs[r])
  BY AccessKnown DEF Arrive
<1>2. reqs[r].user = None /\ reqs[r].kid = None /\ reqs[r].listed = {}
  BY <1>1 DEF AccessAt, Fresh
<1> DEFINE ended == {k \in Kid : Ended(k)}
           q(in) == [reqs[r] EXCEPT !.in = in, !.ended = ended]
<1>3. PICK in \in Inputs : Update(r, IF in.shape = "malformed" THEN Reply(q(in), "MALFORMED_REQUEST")
                                     ELSE Goto(q(in), "authq"))
  BY DEF Arrive
<1>4. \A k \in ended : Ended(k)
  OBVIOUS
<1>5. ended \subseteq Kid
  OBVIOUS
<1> HIDE DEF ended
<1> DEFINE p == q(in)
<1>6. /\ p \in RequestState /\ p.user = None /\ p.kid = None /\ p.listed = {} /\ p.ended = ended
  BY <1>1, <1>2, <1>5 DEF RequestState
<1>7. Update(r, IF in.shape = "malformed" THEN Reply(p, "MALFORMED_REQUEST") ELSE Goto(p, "authq"))
  BY <1>3
<1> HIDE DEF p
<1>8. AccessAt(Reply(p, "MALFORMED_REQUEST"))
  BY <1>4, <1>6, MayConclude DEF UserKnown, CallerIs, ListsNoEnded, Told
<1>9. AccessAt(Goto(p, "authq"))
  <2> DEFINE g == Goto(p, "authq")
  <2>1. g.user = None /\ g.kid = None /\ g.listed = {} /\ g.ended = ended /\ g.pc = "authq"
    BY <1>6 DEF Goto, RequestState
  <2> HIDE DEF g
  <2> QED
    BY <1>4, <2>1 DEF g, AccessAt, CallerKnown, UserKnown, CallerIs, Fresh, EndedSeen,
                      ListsNoEnded, Rightful
<1> QED
  BY <1>7, <1>8, <1>9

(* The user's record is read: of the one who calls, or none.                *)
LEMMA QueryUserAccess ==
  ASSUME AccessConsistent, NEW r \in Request, QueryUser(r)
  PROVE  \E q : Update(r, q) /\ AccessAt(q)
<1> DEFINE q == reqs[r]
           user == UserByTokenHash(q.in.token)
           p == [q EXCEPT !.pc = "authr", !.user = user]
<1>1. q \in RequestState /\ q.pc = "authq" /\ AccessAt(q)
  BY AccessKnown DEF QueryUser
<1>2. user # None => users[user.userId] # None /\ user.data = users[user.userId].data
  <2> DEFINE holders == {u \in UserId : users[u] # None /\ users[u].token = q.in.token}
  <2>1. CASE holders = {}
    BY <2>1 DEF UserByTokenHash
  <2>2. CASE holders # {}
    <3> DEFINE u == CHOOSE v \in holders : TRUE
    <3>1. u \in holders /\ user = [userId |-> u, data |-> users[u].data]
      BY <2>2 DEF UserByTokenHash
    <3> QED
      BY <3>1
  <2> QED
    BY <2>1, <2>2
<1>3. Update(r, p)
  BY DEF QueryUser
<1> HIDE DEF user
<1>4. /\ p.user = user /\ p.pc = "authr" /\ p.kid = q.kid /\ p.ended = q.ended
      /\ p.listed = q.listed
  BY <1>1 DEF RequestState
<1> HIDE DEF p
<1>5. AccessAt(p)
  BY <1>1, <1>2, <1>4 DEF AccessAt, CallerKnown, UserKnown, Fresh, EndedSeen, ListsNoEnded, Rightful
<1> QED
  BY <1>3, <1>5

(* authenticate and the dispatcher: no class is needed or claimed yet.      *)
LEMMA DispatchAccess ==
  ASSUME AccessConsistent, NEW r \in Request, Dispatch(r) \/ DispatchInherited(r)
  PROVE  \E q : Update(r, q) /\ AccessAt(q)
<1> DEFINE q == reqs[r]
           refused == [q EXCEPT !.user = None]
           moved(pc, kid, row) == [q EXCEPT !.pc = pc, !.kid = kid, !.row = row]
<1>1. /\ q \in RequestState /\ q.pc = "authr" /\ AccessAt(q) /\ UserKnown(q) /\ ListsNoEnded(q)
      /\ \A k \in q.ended : Ended(k)
  BY AccessKnown DEF Dispatch, DispatchInherited
<1>2. q.kid = None
  BY <1>1 DEF AccessAt, Fresh
<1>3. ASSUME Authenticated(q.in, q.user) PROVE CallerIs(q)
  BY <1>3 DEF Authenticated, CallerIs
<1>4. ASSUME NEW out, CallerIs(q) PROVE AccessAt(Conclude(q, out)) /\ AccessAt(Reply(q, out))
  BY <1>1, <1>2, <1>4, MayConclude DEF Told
<1>5. AccessAt(Reply(refused, "UNAUTHORIZED"))
  <2>1. /\ refused \in RequestState /\ refused.user = None /\ refused.kid = None
        /\ refused.ended = q.ended /\ refused.listed = q.listed
    BY <1>1, <1>2 DEF RequestState
  <2> HIDE DEF refused
  <2> QED
    BY <1>1, <2>1, MayConclude DEF UserKnown, CallerIs, ListsNoEnded, Told
<1>6. ASSUME NEW kid, NEW row, CallerIs(q) PROVE AccessAt(moved(FirstAwait(q.in, q.user), kid, row))
  <2> DEFINE pc == FirstAwait(q.in, q.user)
             p == [q EXCEPT !.pc = pc, !.kid = kid, !.row = row]
  <2>1. pc \in {"keyq", "missq", "gen", "listq"}
    BY DEF FirstAwait
  <2> HIDE DEF pc
  <2>2. p.in = q.in /\ p.user = q.user /\ p.ended = q.ended /\ p.listed = q.listed /\ p.pc = pc
    BY <1>1 DEF RequestState
  <2> HIDE DEF p
  <2>3. AccessAt(p)
    BY <1>1, <1>6, <2>1, <2>2, MayGoOn
  <2> QED
    BY <2>3 DEF p, pc
<1>7. \/ Update(r, Reply(refused, "UNAUTHORIZED"))
      \/ /\ Authenticated(q.in, q.user)
         /\ \/ \E out : Update(r, Reply(q, out)) \/ Update(r, Conclude(q, out))
            \/ \E kid, row : Update(r, moved(FirstAwait(q.in, q.user), kid, row))
  BY DEF Dispatch, DispatchInherited
<1> HIDE DEF refused, moved
<1> QED
  BY <1>3, <1>4, <1>5, <1>6, <1>7

(* The key's row is read, as issued; if the key had ended, it is expired.   *)
LEMMA QueryKeyAccess ==
  ASSUME AccessConsistent, NEW r \in Request, QueryKey(r)
  PROVE  \E q : Update(r, q) /\ AccessAt(q)
<1> DEFINE q == reqs[r]
           row == keys[q.kid]
           p == [q EXCEPT !.pc = "keyr", !.row = row]
<1>1. /\ q \in RequestState /\ q.pc = "keyq" /\ AccessAt(q) /\ UserKnown(q) /\ CallerIs(q)
      /\ ListsNoEnded(q) /\ (\A k \in q.ended : Ended(k)) /\ q.kid \in Kid /\ q.kid # None
  BY AccessKnown DEF QueryKey, WellPlaced, RequestState
<1>2. row # None => row = issued[q.kid] /\ (q.kid \in q.ended => Expired(row))
  BY <1>1 DEF AccessConsistent, KeysAsIssued, Ended, Gone, Expired
<1>3. Update(r, p)
  BY DEF QueryKey, KeyById
<1> HIDE DEF row
<1>4. /\ p.in = q.in /\ p.user = q.user /\ p.kid = q.kid /\ p.ended = q.ended
      /\ p.listed = q.listed /\ p.row = row /\ p.pc = "keyr"
  BY <1>1 DEF RequestState
<1> HIDE DEF p
<1>5. AccessAt(p)
  BY <1>1, <1>2, <1>4 DEF AccessAt, CallerKnown, UserKnown, CallerIs, Fresh, EndedSeen,
                          ListsNoEnded, Rightful
<1> QED
  BY <1>3, <1>5

(* authorizedKey lets through only callers with the class, and only keys    *)
(* not past their end; the rest get key-not-found.                          *)
LEMMA AuthorizeAccess ==
  ASSUME AccessConsistent, NEW r \in Request, Authorize(r)
  PROVE  \E q : Update(r, q) /\ AccessAt(q)
<1> DEFINE q == reqs[r]
           masked == [q EXCEPT !.masked = TRUE]
<1>1. /\ q \in RequestState /\ q.pc = "keyr" /\ AccessAt(q) /\ UserKnown(q) /\ CallerIs(q)
      /\ ListsNoEnded(q) /\ (\A k \in q.ended : Ended(k)) /\ q.kid # None /\ q.user # None
      /\ q.in.request \in KeyOps /\ now \in Nat
  BY AccessKnown DEF Authorize, WellPlaced, Handling
<1>2. ASSUME NEW out, out \notin Telling PROVE AccessAt(Conclude(q, out))
  BY <1>1, <1>2, MayConclude DEF Told
<1>3. AccessAt(Conclude(masked, "KEY_NOT_FOUND"))
  <2>1. /\ masked \in RequestState /\ masked.in = q.in /\ masked.user = q.user
        /\ masked.kid = q.kid /\ masked.ended = q.ended /\ masked.listed = q.listed
    BY <1>1 DEF RequestState
  <2> HIDE DEF masked
  <2> QED
    BY <1>1, <2>1, MayConclude DEF UserKnown, CallerIs, ListsNoEnded, Told, Telling
<1>4. ASSUME q.row # None, Granted(q.in, q.user, q.row), InWindow(q.row)
      PROVE  Holds(q) /\ q.kid \notin q.ended
  <2>1. q.row = issued[q.kid] /\ (q.kid \in q.ended => Expired(q.row)) /\ q.row \in KeyRow
    BY <1>1, <1>4 DEF AccessAt, EndedSeen, RequestState
  <2>2. ~Expired(q.row)
    BY <1>1, <1>4, <2>1 DEF InWindow, Expired, KeyRow, MaybeTime
  <2>3. q.user.userId = q.in.user /\ q.user.data = users[q.in.user].data
    BY <1>1 DEF UserKnown, CallerIs
  <2> QED
    BY <1>1, <1>4, <2>1, <2>2, <2>3 DEF Granted, Holds, Entitled
<1>5. ASSUME Holds(q), q.kid \notin q.ended, NEW out PROVE AccessAt(Conclude(q, out))
  BY <1>1, <1>5, MayConclude DEF Told
<1>6. ASSUME Holds(q), q.kid \notin q.ended, NEW pc \in {"crypto", "delq"}
      PROVE  AccessAt(Goto(q, pc))
  <2> DEFINE p == Goto(q, pc)
  <2>1. /\ p.in = q.in /\ p.user = q.user /\ p.kid = q.kid /\ p.ended = q.ended
        /\ p.listed = q.listed /\ p.row = q.row /\ p.pc = pc
    BY <1>1 DEF Goto, RequestState
  <2> HIDE DEF p
  <2> QED
    BY <1>1, <1>6, <2>1 DEF p, AccessAt, CallerKnown, UserKnown, CallerIs, Fresh, EndedSeen,
                            ListsNoEnded, Rightful, Holds
<1>7. \/ Update(r, Conclude(q, "KEY_NOT_FOUND"))
      \/ Update(r, Conclude(masked, "KEY_NOT_FOUND"))
      \/ /\ q.row # None /\ Granted(q.in, q.user, q.row) /\ InWindow(q.row)
         /\ \/ \E out : Update(r, Conclude(q, out))
            \/ \E pc \in {"crypto", "delq"} : Update(r, Goto(q, pc))
  BY DEF Authorize
<1> HIDE DEF masked
<1> QED
  BY <1>2, <1>3, <1>4, <1>5, <1>6, <1>7 DEF Telling

(* The key is used: the caller was let through.                             *)
LEMMA CryptoAccess ==
  ASSUME AccessConsistent, NEW r \in Request, Crypto(r)
  PROVE  \E q : Update(r, q) /\ AccessAt(q)
<1>1. /\ reqs[r].pc = "crypto" /\ reqs[r] \in RequestState /\ AccessAt(reqs[r])
      /\ UserKnown(reqs[r]) /\ CallerIs(reqs[r]) /\ ListsNoEnded(reqs[r])
      /\ \A k \in reqs[r].ended : Ended(k)
  BY AccessKnown DEF Crypto
<1>2. ASSUME NEW out PROVE Told(reqs[r], out)
  BY <1>1 DEF AccessAt, Rightful, Told
<1>3. \E out : Update(r, Conclude(reqs[r], out))
  BY DEF Crypto
<1> QED
  BY <1>1, <1>2, <1>3, MayConclude

(* The write of revoke or generate, and its failures.                       *)
LEMMA WriteAccess ==
  ASSUME AccessConsistent, NEW r \in Request, DeleteKey(r) \/ InsertNewKey(r) \/ WriteFails(r)
  PROVE  \E q : Update(r, q) /\ AccessAt(q)
<1> DEFINE q == reqs[r]
           did(b) == [q EXCEPT !.did = b]
<1>1. /\ q \in RequestState /\ AccessAt(q) /\ q.pc \in {"delq", "insq"} /\ WellPlaced(q)
  BY AccessKnown DEF DeleteKey, InsertNewKey, WriteFails, RequestState
<1>2. ASSUME NEW p \in RequestState, AccessAt(p), p.pc = q.pc, p.in = q.in, NEW out
      PROVE  AccessAt(Resume(p, Conclude(p, out)))
  <2>1. CASE p.alive
    <3>1. Told(p, out)
      BY <1>1, <1>2 DEF AccessAt, Rightful, Told, WellPlaced, KeyOps, OpClassOf
    <3>2. AccessAt(Conclude(p, out))
      BY <1>1, <1>2, <3>1, MayConclude DEF AccessAt, CallerKnown, EndedSeen
    <3> QED
      BY <2>1, <3>2 DEF Resume
  <2>2. CASE ~p.alive
    <3> DEFINE lost == [p EXCEPT !.pc = "lost"]
    <3>1. /\ lost.in = p.in /\ lost.user = p.user /\ lost.kid = p.kid /\ lost.ended = p.ended
          /\ lost.pc = "lost"
      BY <1>2 DEF RequestState
    <3> HIDE DEF lost
    <3>2. AccessAt(lost)
      BY <1>2, <3>1, MayBeLost
    <3> QED
      BY <2>2, <3>2 DEF Resume, lost
  <2> QED
    BY <2>1, <2>2
<1>3. ASSUME NEW b \in BOOLEAN, NEW out PROVE AccessAt(Resume(did(b), Conclude(did(b), out)))
  BY <1>1, <1>2, DidOrNot
<1>4. \/ \E out : Update(r, Resume(q, Conclude(q, out)))
      \/ \E b \in BOOLEAN : \E out : Update(r, Resume(did(b), Conclude(did(b), out)))
  BY DEF DeleteKey, InsertNewKey, WriteFails
<1> HIDE DEF did
<1> QED
  BY <1>1, <1>2, <1>3, <1>4

(* generate holds no key of anybody when it makes one.                      *)
LEMMA GenerateAccess ==
  ASSUME AccessConsistent, NEW r \in Request, QueryMissing(r) \/ Generate(r) \/ ReadFails(r)
  PROVE  \E q : Update(r, q) /\ AccessAt(q)
<1> DEFINE q == reqs[r]
<1>1. /\ q \in RequestState /\ AccessAt(q) /\ UserKnown(q) /\ CallerIs(q) /\ ListsNoEnded(q)
      /\ (\A k \in q.ended : Ended(k))
      /\ q.pc \in {"missq", "gen"} => q.in.request \notin KeyOps
  BY AccessKnown DEF QueryMissing, Generate, ReadFails, WellPlaced, KeyOps, OpClassOf
<1>2. ASSUME NEW out, q.pc \in {"missq", "gen"} \/ out \notin Telling
      PROVE  AccessAt(Conclude(q, out)) /\ AccessAt(Reply(q, out))
  BY <1>1, <1>2, MayConclude DEF Told
<1>3. CASE QueryMissing(r)
  <2>1. ASSUME NEW row PROVE AccessAt([q EXCEPT !.pc = "gen", !.row = row])
    <3> DEFINE p == [q EXCEPT !.pc = "gen", !.row = row]
    <3>1. p.in = q.in /\ p.user = q.user /\ p.ended = q.ended /\ p.listed = q.listed /\ p.pc = "gen"
      BY <1>1 DEF RequestState
    <3> HIDE DEF p
    <3>2. AccessAt(p)
      BY <1>1, <3>1, MayGoOn
    <3> QED
      BY <3>2 DEF p
  <2> QED
    BY <1>2, <1>3, <2>1 DEF QueryMissing
<1>4. CASE Generate(r)
  <2>1. ASSUME NEW k PROVE AccessAt([q EXCEPT !.pc = "insq", !.kid = k])
    <3> DEFINE p == [q EXCEPT !.pc = "insq", !.kid = k]
    <3>1. p.in = q.in /\ p.user = q.user /\ p.ended = q.ended /\ p.listed = q.listed /\ p.pc = "insq"
      BY <1>1 DEF RequestState
    <3> HIDE DEF p
    <3>2. AccessAt(p)
      BY <1>1, <3>1, MayGoOn
    <3> QED
      BY <3>2 DEF p
  <2> QED
    BY <1>2, <1>4, <2>1 DEF Generate
<1>5. CASE ReadFails(r)
  BY <1>2, <1>5 DEF ReadFails, Telling
<1> QED
  BY <1>3, <1>4, <1>5

(* list-keys reads the rows and filters out the expired ones.               *)
LEMMA ListAccess ==
  ASSUME AccessConsistent, NEW r \in Request, QueryList(r) \/ FilterList(r)
  PROVE  \E q : Update(r, q) /\ AccessAt(q)
<1> DEFINE q == reqs[r]
<1>1. /\ q \in RequestState /\ AccessAt(q) /\ UserKnown(q) /\ CallerIs(q) /\ now \in Nat
      /\ (\A k \in q.ended : Ended(k)) /\ q.in.request \notin KeyOps
  BY AccessKnown DEF QueryList, FilterList, WellPlaced, KeyOps, OpClassOf
<1>2. CASE QueryList(r)
  <2> DEFINE rows == {<<k, keys[k]>> : k \in KeysByAclUser(q.user.userId)}
             p == [q EXCEPT !.pc = "listr", !.listed = rows]
  <2>1. \A kr \in rows : kr[1] \in q.ended => Expired(kr[2])
    BY <1>1 DEF KeysByAclUser, Ended, Gone, Expired
  <2>2. Update(r, p)
    BY <1>2 DEF QueryList
  <2> HIDE DEF rows
  <2>3. /\ p.in = q.in /\ p.user = q.user /\ p.kid = q.kid /\ p.ended = q.ended
        /\ p.listed = rows /\ p.pc = "listr"
    BY <1>1 DEF RequestState
  <2> HIDE DEF p
  <2>4. AccessAt(p)
    BY <1>1, <2>1, <2>3 DEF AccessAt, CallerKnown, UserKnown, CallerIs, Fresh, EndedSeen, Rightful
  <2> QED
    BY <2>2, <2>4
<1>3. CASE FilterList(r)
  <2> DEFINE visible(row) == /\ InWindow(row)
                             /\ EffectiveAny(q.user.data.allowedOps, row.acl, q.user.userId)
             rows == {kr \in q.listed : visible(kr[2])}
             p == [q EXCEPT !.listed = rows]
  <2>1. Update(r, Conclude(p, "ok"))
    BY <1>3 DEF FilterList
  <2>2. ASSUME NEW kr \in rows PROVE kr[1] \notin q.ended
    <3>1. kr \in q.listed /\ InWindow(kr[2])
      OBVIOUS
    <3>2. kr[2] \in KeyRow
      BY <1>1, <3>1 DEF RequestState
    <3>3. ~Expired(kr[2])
      BY <1>1, <3>1, <3>2 DEF InWindow, Expired, KeyRow, MaybeTime
    <3> QED
      BY <1>1, <1>3, <3>1, <3>3 DEF FilterList, AccessAt, EndedSeen
  <2>3. rows \subseteq q.listed
    OBVIOUS
  <2> HIDE DEF rows
  <2>4. /\ p \in RequestState /\ p.in = q.in /\ p.user = q.user /\ p.kid = q.kid
        /\ p.ended = q.ended /\ p.listed = rows
    BY <1>1, <2>3 DEF RequestState
  <2> HIDE DEF p
  <2>5. AccessAt(Conclude(p, "ok"))
    BY <1>1, <2>2, <2>4, MayConclude DEF UserKnown, CallerIs, ListsNoEnded, Told
  <2> QED
    BY <2>1, <2>5
<1> QED
  BY <1>2, <1>3

(* The append and the answer tell what was decided before.                  *)
LEMMA AnswerAccess ==
  ASSUME AccessConsistent, NEW r \in Request,
         AppendAudit(r) \/ AppendDenied(r) \/ AppendFails(r) \/ Respond(r)
  PROVE  \E q : Update(r, q) /\ AccessAt(q)
<1> DEFINE q == reqs[r]
<1>1. /\ q \in RequestState /\ AccessAt(q) /\ UserKnown(q) /\ CallerIs(q) /\ ListsNoEnded(q)
      /\ (\A k \in q.ended : Ended(k)) /\ q.pc \in {"auditq", "deniedq", "respond"}
      /\ Told(q, q.out)
  BY AccessKnown DEF AppendAudit, AppendDenied, AppendFails, Respond, AccessAt, Rightful
<1>2. ASSUME NEW p, p.in = q.in, p.user = q.user, p.kid = q.kid, p.ended = q.ended,
             p.listed = q.listed, p.out = q.out, p.pc \in {"deniedq", "respond", "done"}
      PROVE  AccessAt(p)
  BY <1>1, <1>2 DEF AccessAt, CallerKnown, UserKnown, CallerIs, Fresh, EndedSeen, ListsNoEnded,
                    Rightful, Told, Holds
<1>3. AccessAt(AfterAppend(q)) /\ AccessAt(Goto(q, "respond")) /\ AccessAt(Discard(q, "done"))
  <2>1. ASSUME NEW pc \in {"deniedq", "respond"} PROVE AccessAt(Goto(q, pc))
    <3>1. /\ Goto(q, pc).in = q.in /\ Goto(q, pc).user = q.user /\ Goto(q, pc).kid = q.kid
          /\ Goto(q, pc).ended = q.ended /\ Goto(q, pc).listed = q.listed
          /\ Goto(q, pc).out = q.out /\ Goto(q, pc).pc = pc
      BY <1>1 DEF Goto, RequestState
    <3> QED
      BY <1>2, <3>1
  <2>2. /\ Discard(q, "done").in = q.in /\ Discard(q, "done").user = q.user
        /\ Discard(q, "done").kid = q.kid /\ Discard(q, "done").ended = q.ended
        /\ Discard(q, "done").listed = q.listed /\ Discard(q, "done").out = q.out
        /\ Discard(q, "done").pc = "done"
    BY <1>1 DEF Discard, RequestState
  <2>3. AccessAt(Discard(q, "done"))
    BY <1>2, <2>2
  <2> QED
    BY <2>1, <2>3 DEF AfterAppend
<1>4. AccessAt(AppendFailure(q))
  BY <1>1, MayConclude DEF AppendFailure, Told, Telling
<1>5. AccessAt([q EXCEPT !.pc = "lost"])
  <2> DEFINE lost == [q EXCEPT !.pc = "lost"]
  <2>1. /\ lost.in = q.in /\ lost.user = q.user /\ lost.kid = q.kid /\ lost.ended = q.ended
        /\ lost.pc = "lost"
    BY <1>1 DEF RequestState
  <2> HIDE DEF lost
  <2>2. AccessAt(lost)
    BY <1>1, <2>1, MayBeLost
  <2> QED
    BY <2>2 DEF lost
<1> QED
  BY <1>3, <1>4, <1>5 DEF AppendAudit, AppendDenied, AppendFails, Respond, Resume

(* The process dies: its requests are lost, the others stand still.         *)
LEMMA CrashAccess ==
  ASSUME AccessConsistent, Crash, NEW r \in Request
  PROVE  AccessAt(reqs[r])'
<1> DEFINE q == reqs[r]
<1>1. q \in RequestState /\ AccessAt(q) /\ HandlersConsistent /\ Framed
  BY AccessKnown, StepIsFramed DEF AccessConsistent, Next, ServerNext
<1>2. reqs'[r] = IF q.pc \in WriteSent THEN [q EXCEPT !.alive = FALSE]
                 ELSE IF q.pc \in InFlight THEN [q EXCEPT !.pc = "lost", !.row = None] ELSE q
  BY DEF Crash, Discard
<1>3. PICK p \in RequestState : p = reqs'[r]
  BY CrashKeeps DEF AccessConsistent, HandlersConsistent, ServerTypeOK
<1>4. \/ p = q
      \/ /\ p.in = q.in /\ p.user = q.user /\ p.kid = q.kid /\ p.ended = q.ended
         /\ \/ p.pc = "lost"
            \/ p.pc = q.pc /\ p.row = q.row /\ p.listed = q.listed /\ p.out = q.out
  BY <1>1, <1>2, <1>3 DEF RequestState
<1>5. AccessAt(p)
  BY <1>1, <1>4, MayBeLost
  DEF AccessAt, CallerKnown, UserKnown, CallerIs, Fresh, EndedSeen, ListsNoEnded, Rightful, Told, Holds
<1>6. AccessAt(p)'
  BY <1>1, <1>5, AccessIsFramed
<1> QED
  BY <1>3, <1>6 DEF AccessAt, CallerKnown, UserKnown, CallerIs, Fresh, EndedSeen, ListsNoEnded,
                    Rightful, Told, Holds

(* A step that moves no request.                                            *)
LEMMA OtherAccess ==
  ASSUME AccessConsistent, [Next]_vars, UNCHANGED reqs, NEW r \in Request
  PROVE  AccessAt(reqs[r])'
<1>1. PICK p \in RequestState : p = reqs[r] /\ AccessAt(p)
  BY AccessKnown
<1>2. AccessAt(p)'
  BY <1>1, StepIsFramed, AccessIsFramed DEF AccessConsistent
<1> QED
  BY <1>1, <1>2 DEF AccessAt, CallerKnown, UserKnown, CallerIs, Fresh, EndedSeen, ListsNoEnded,
                    Rightful, Told, Holds

(* At the start no request holds or knows anything.                         *)
LEMMA InitialAccess == Init => AccessConsistent
<1> SUFFICES ASSUME Init PROVE KeysAsIssued /\ \A r \in Request : AccessAt(reqs[r])
  BY InitiallyConsistent DEF AccessConsistent
<1>1. KeysAsIssued
  BY DEF Init, DbInit, KeysAsIssued
<1>2. ASSUME NEW r \in Request PROVE AccessAt(reqs[r])
  <2>1. reqs[r] = IdleRequest
    BY DEF Init
  <2>2. /\ reqs[r].pc = "idle" /\ reqs[r].user = None /\ reqs[r].kid = None
        /\ reqs[r].listed = {} /\ reqs[r].ended = {}
    BY <2>1 DEF IdleRequest
  <2> QED
    BY <2>2 DEF AccessAt, CallerKnown, UserKnown, CallerIs, Fresh, EndedSeen, ListsNoEnded, Rightful
<1> QED
  BY <1>1, <1>2

(* Access stays consistent from step to step, and so always.                *)
LEMMA StepKeepsAccess == AccessConsistent /\ [Next]_vars => AccessConsistent'
<1> SUFFICES ASSUME AccessConsistent, [Next]_vars PROVE \A r \in Request : AccessAt(reqs[r])'
  BY StepKeepsConsistent, StepIsFramed DEF AccessConsistent
<1>1. ASSUME NEW r \in Request, Arrive(r) \/ Handle(r)
      PROVE  \A s \in Request : AccessAt(reqs[s])'
  <2>1. \E q : Update(r, q) /\ AccessAt(q)
    BY <1>1, ArriveAccess, QueryUserAccess, DispatchAccess, QueryKeyAccess, AuthorizeAccess,
       CryptoAccess, WriteAccess, GenerateAccess, ListAccess, AnswerAccess DEF Handle
  <2> QED
    BY <2>1, Moved
<1>2. CASE Crash
  BY <1>2, CrashAccess
<1>3. CASE UNCHANGED reqs
  BY <1>3, OtherAccess
<1> QED
  BY <1>1, <1>2, <1>3 DEF Next, ServerNext, Sweep, Start, vars, serverVars

(* It is an invariant of the server.                                        *)
LEMMA AlwaysAccess == Spec => []AccessConsistent
BY InitialAccess, StepKeepsAccess, PTL DEF Spec

-----------------------------------------------------------------------------
(* README, Key lifecycle: a request that arrives when its key is revoked or *)
(* expired is never served with it, and never lists it, however the clock   *)
(* and other requests run between its awaits (authorizedKey, list-keys).    *)
THEOREM EndedKeysRefused == Spec => []EndedKeyNeverServed
<1>1. AccessConsistent => EndedKeyNeverServed
  <2> SUFFICES ASSUME AccessConsistent, NEW r \in Request, AnsweredOk(r)
               PROVE  /\ reqs[r].in.request \in KeyOps => reqs[r].kid \notin reqs[r].ended
                      /\ \A kr \in reqs[r].listed : kr[1] \notin reqs[r].ended
    BY DEF EndedKeyNeverServed
  <2>1. reqs[r].ended \subseteq Kid /\ None \notin Kid
    BY AccessKnown, NoneAssumption DEF RequestState
  <2> QED
    BY <2>1, AccessKnown DEF AnsweredOk, Answered, AccessAt, EndedSeen, ListsNoEnded, Rightful,
                             Told, Telling
<1> QED
  BY <1>1, AlwaysAccess, PTL

(* API.md, Masking: an operation that looked a key up tells anything but    *)
(* key-not-found only to callers who hold its class on the key              *)
(* (authorizedKey and the handlers behind it).                              *)
THEOREM ExistenceIsMasked == Spec => []ExistenceMasked
<1>1. AccessConsistent => ExistenceMasked
  BY AccessKnown DEF ExistenceMasked, Answered, HoldsClass, AccessAt, Rightful, Told, Telling, Holds
<1> QED
  BY <1>1, AlwaysAccess, PTL

(* A row disappears by a revocation that was granted on it, or after its    *)
(* end, if the grace period covers the lead of the database's clock         *)
(* (keystore.js revoke, serverdb.js sweepExpiredKeys).                      *)
THEOREM KeysEndRightly ==
  ASSUME DbSkew <= Grace
  PROVE  Spec => KeysEndForAReason
<1> DEFINE Reason(k) ==
      \/ keys[k].exp # None /\ keys[k].exp <= now
      \/ \E r \in Request : /\ reqs[r].pc = "delq" /\ reqs[r].kid = k
                            /\ Entitled(reqs[r].user.userId, reqs[r].user.data,
                                        reqs[r].in.request, keys[k])
<1>1. ASSUME AccessConsistent, [Next]_vars, NEW k \in Kid, keys[k] # None, keys'[k] = None
      PROVE  Reason(k)
  <2>1. PICK K : Deleting(K) /\ k \in K
    <3>1. ASSUME NEW r \in Request, reqs[r].pc = "insq", InsertKey(reqs[r].kid, reqs[r].row)
          PROVE  keys'[k] # None
      <4>1. reqs[r].kid \in Kid /\ reqs[r].row \in KeyRow
        BY <1>1, <3>1, RequestKnown DEF AccessConsistent, WellPlaced, RequestState
      <4> QED
        BY <1>1, <3>1, <4>1, InsertKeyTables, NoneAssumption DEF AccessConsistent, HandlersConsistent
    <3>2. PICK K : DeleteKeys(K) /\ Deleting(K)
      BY <1>1, <3>1, StepChanges DEF AccessConsistent
    <3>3. k \in K
      BY <1>1, <3>2, DeleteKeysTables DEF AccessConsistent, HandlersConsistent
    <3> QED
      BY <3>2, <3>3
  <2>2. CASE K = Sweepable
    <3>1. keys[k].exp # None /\ keys[k].exp < DbNow - Grace
      BY <2>1, <2>2 DEF Sweepable
    <3>2. keys[k].exp \in Nat /\ now \in Nat
      BY <1>1, <3>1, TimeAssumption
      DEF AccessConsistent, HandlersConsistent, ServerTypeOK, DbTypeOK, KeyTable, KeyRow, MaybeTime
    <3>3. keys[k].exp <= now
      BY <3>1, <3>2, TimeAssumption DEF DbNow
    <3> QED
      BY <3>1, <3>3
  <2>3. CASE \E r \in Request : reqs[r].pc = "delq" /\ K = {reqs[r].kid}
    <3>1. PICK r \in Request : reqs[r].pc = "delq" /\ reqs[r].kid = k
      BY <2>1, <2>3
    <3>2. /\ Holds(reqs[r]) /\ UserKnown(reqs[r]) /\ CallerIs(reqs[r]) /\ reqs[r].user # None
      BY <1>1, <3>1, AccessKnown DEF AccessAt, Rightful, WellPlaced, Handling
    <3>3. keys[k] = issued[k]
      BY <1>1 DEF AccessConsistent, KeysAsIssued
    <3> QED
      BY <3>1, <3>2, <3>3 DEF Holds, UserKnown, CallerIs
  <2> QED
    BY <2>1, <2>2, <2>3 DEF Deleting
<1>2. AccessConsistent /\ [Next]_vars =>
        [\A k \in Kid : keys[k] # None /\ keys'[k] = None => Reason(k)]_vars
  BY <1>1
<1> QED
  BY <1>2, AlwaysAccess, PTL DEF Spec, KeysEndForAReason

-----------------------------------------------------------------------------
(* An ACL that keeps its key owned, and the user among the owners.          *)
OwnsWith(acl, u) == AclAllows(acl, u, "owner")
Owned(acl) == /\ \E u \in UserId : users[u] # None /\ OwnsWith(acl, u)
              /\ \A u \in AclUsers(acl) : users[u] # None

(* The keys there are at the start are owned.                               *)
OwnedAtStart ==
  \A t \in InitialTables, k \in Kid : t.keys[k] # None =>
    /\ \E u \in UserId : t.users[u] # None /\ OwnsWith(t.keys[k].acl, u)
    /\ \A u \in AclUsers(t.keys[k].acl) : t.users[u] # None

(* So are a key about to be inserted and one that was.                      *)
OwnedAt(q) ==
  /\ q.pc \in {"gen", "insq"} => Owned(q.row.acl) /\ OwnsWith(q.row.acl, q.in.user)
  /\ q.did /\ q.in.request = "generate-key" =>
       issued[q.kid] # None /\ OwnsWith(issued[q.kid].acl, q.in.user)

KeysOwned == \A k \in Kid : keys[k] # None => Owned(keys[k].acl)

OwnershipConsistent == /\ AccessConsistent
                       /\ KeysOwned
                       /\ \A r \in Request : OwnedAt(reqs[r])

(* A request told key-not-found without a mark: the key is missing, was not *)
(* there yet, or the caller is one of those who hold the class (it is out   *)
(* of its window, or another revoked it first). Who they are is left open   *)
(* here: ACLs and masks stay as they are beside the server only.            *)
NotThen(k) == keys[k] = None \/ IssuedHere(k)
Concluded == {"auditq", "deniedq", "respond", "done"}
NotFound(q) == q.pc \in Concluded /\ q.out = "KEY_NOT_FOUND"
MarkKept(q) ==
  q.masked => /\ q.pc \in Concluded \cup {"lost"}
              /\ q.kid \in Kid /\ issued[q.kid] # None
              /\ q.pc \in {"auditq", "deniedq"} => q.out = "KEY_NOT_FOUND"
RefusedUnless(r, holders) ==
  LET q == reqs[r] IN
  /\ q.pc = "keyr" /\ q.row = None => NotThen(q.kid)
  /\ NotFound(q) => q.kid \in Kid /\ (q.masked \/ NotThen(q.kid) \/ r \in holders)

Holders == {r \in Request : Holds(reqs[r])}

(* A marked request appends its two records in turn.                        *)
RecordedInTurn(r) ==
  /\ reqs[r].pc = "deniedq" => reqs[r].masked /\ OpEvent(r) \in chain
  /\ reqs[r].pc \in {"respond", "done"} /\ reqs[r].out = "KEY_NOT_FOUND" /\ reqs[r].masked =>
       DeniedEvent(r) \in chain

(* Denied records are of marked requests, on top of their first record.     *)
DenialsTrue ==
  \A e \in chain : e.type = "denied" =>
    /\ e.op \in Request /\ reqs[e.op].masked
    /\ \E f \in chain : f.op = e.op /\ f.outcome = "KEY_NOT_FOUND"

DenialsConsistent ==
  /\ AccessConsistent
  /\ \A r \in Request : MarkKept(reqs[r]) /\ RefusedUnless(r, Holders) /\ RecordedInTurn(r)
  /\ DenialsTrue

-----------------------------------------------------------------------------
(* Where each action takes its request                                      *)

(* The step's request is where Update puts it.                              *)
LEMMA Updated ==
  ASSUME HandlersConsistent, NEW r \in Request, NEW q, Update(r, q)
  PROVE  reqs'[r] = q
BY DEF Update, HandlersConsistent, ServerTypeOK

(* What a handler's end leaves of it.                                       *)
LEMMA Ends ==
  ASSUME NEW q \in RequestState, NEW out
  PROVE  /\ Conclude(q, out).pc \in {"auditq", "respond"} /\ Reply(q, out).pc = "respond"
         /\ Conclude(q, out).out = out /\ Reply(q, out).out = out
         /\ Conclude(q, out).did = q.did /\ Reply(q, out).did = q.did
         /\ Conclude(q, out).masked = q.masked /\ Reply(q, out).masked = q.masked
         /\ Conclude(q, out).kid = q.kid /\ Reply(q, out).kid = q.kid
         /\ Conclude(q, out).in = q.in /\ Reply(q, out).in = q.in
BY DEF Conclude, Reply, RequestState

(* Arrivals, and the awaits at which no key's row is read or written.       *)
Quiet(r) == \/ Arrive(r) \/ QueryUser(r) \/ DispatchInherited(r) \/ Crypto(r)
            \/ QueryList(r) \/ FilterList(r) \/ ReadFails(r)

QuietlyAt(q, p) == /\ p.did = q.did /\ p.masked = q.masked
                   /\ p.pc \in {"authq", "authr", "listr", "auditq", "respond"}
                   /\ p.pc \in Concluded => p.out # "KEY_NOT_FOUND"

(* Such a step marks nobody, changes no key and hides none.                 *)
LEMMA QuietMoves ==
  ASSUME HandlersConsistent, NEW r \in Request, Quiet(r)
  PROVE  QuietlyAt(reqs[r], reqs'[r]) /\ reqs[r].pc \notin Concluded \cup {"lost"}
<1> DEFINE q == reqs[r]
<1>1. q \in RequestState
  BY RequestKnown
<1>2. ASSUME NEW out, out # "KEY_NOT_FOUND", Update(r, Conclude(q, out)) \/ Update(r, Reply(q, out))
      PROVE  QuietlyAt(q, reqs'[r])
  BY <1>1, <1>2, Updated, Ends DEF QuietlyAt
<1>3. CASE Arrive(r)
  <2>1. PICK in, ended :
          LET p == [q EXCEPT !.in = in, !.ended = ended]
          IN  Update(r, Reply(p, "MALFORMED_REQUEST")) \/ Update(r, Goto(p, "authq"))
    BY <1>3 DEF Arrive
  <2> DEFINE p == [q EXCEPT !.in = in, !.ended = ended]
  <2>2. p.did = q.did /\ p.masked = q.masked
    BY <1>1 DEF RequestState
  <2>3. ASSUME NEW m \in {Reply(p, "MALFORMED_REQUEST"), Goto(p, "authq")}
        PROVE  QuietlyAt(q, m)
    BY <1>1, <2>2, <2>3 DEF QuietlyAt, Reply, Goto, RequestState, Concluded
  <2> HIDE DEF p
  <2>4. reqs'[r] \in {Reply(p, "MALFORMED_REQUEST"), Goto(p, "authq")}
    BY <2>1, Updated DEF p
  <2> QED
    BY <1>3, <2>3, <2>4 DEF Arrive, Concluded
<1>4. CASE QueryUser(r)
  <2>1. PICK user : Update(r, [q EXCEPT !.pc = "authr", !.user = user])
    BY <1>4 DEF QueryUser
  <2>2. reqs'[r] = [q EXCEPT !.pc = "authr", !.user = user]
    BY <2>1, Updated
  <2> QED
    BY <1>1, <1>4, <2>2 DEF QueryUser, QuietlyAt, RequestState, Concluded
<1>5. CASE DispatchInherited(r)
  <2>1. \E out \in {"ok", "INTERNAL_ERROR"} : Update(r, Reply(q, out))
    BY <1>5 DEF DispatchInherited
  <2> QED
    BY <1>2, <1>5, <2>1 DEF DispatchInherited, Concluded
<1>6. CASE Crypto(r)
  <2>1. "KEY_NOT_FOUND" \notin CryptoOutcomes(q.in)
    BY DEF CryptoOutcomes
  <2>2. \E out : out # "KEY_NOT_FOUND" /\ Update(r, Conclude(q, out))
    BY <1>6, <2>1 DEF Crypto
  <2> QED
    BY <1>2, <1>6, <2>2 DEF Crypto, Concluded
<1>7. CASE QueryList(r)
  <2>1. PICK listed : Update(r, [q EXCEPT !.pc = "listr", !.listed = listed])
    BY <1>7 DEF QueryList
  <2>2. reqs'[r] = [q EXCEPT !.pc = "listr", !.listed = listed]
    BY <2>1, Updated
  <2> QED
    BY <1>1, <1>7, <2>2 DEF QueryList, QuietlyAt, RequestState, Concluded
<1>8. CASE FilterList(r)
  <2>1. PICK shown : Update(r, Conclude([q EXCEPT !.listed = shown], "ok"))
    BY <1>8 DEF FilterList
  <2> DEFINE p == Conclude([q EXCEPT !.listed = shown], "ok")
  <2>2. reqs'[r] = p
    BY <2>1, Updated
  <2>3. p.did = q.did /\ p.masked = q.masked /\ p.pc \in {"auditq", "respond"} /\ p.out = "ok"
    BY <1>1 DEF Conclude, RequestState
  <2> QED
    BY <1>8, <2>2, <2>3 DEF QuietlyAt, FilterList, Concluded
<1>9. CASE ReadFails(r)
  <2>1. Update(r, Conclude(q, "INTERNAL_ERROR")) \/ Update(r, Reply(q, "INTERNAL_ERROR"))
    BY <1>9 DEF ReadFails
  <2> QED
    BY <1>2, <1>9, <2>1 DEF ReadFails, Concluded
<1> QED
  BY <1>3, <1>4, <1>5, <1>6, <1>7, <1>8, <1>9 DEF Quiet

(* No gate hides a key; a request goes on to its handler's first await, and *)
(* to the generation of a key only with an ACL that names the caller alone. *)
LEMMA DispatchMoves ==
  ASSUME HandlersConsistent, NEW r \in Request, Dispatch(r)
  PROVE  /\ reqs[r].pc = "authr"
         /\ reqs'[r].did = reqs[r].did /\ reqs'[r].masked = reqs[r].masked
         /\ reqs'[r].in = reqs[r].in
         /\ reqs'[r].pc \in {"auditq", "respond", "keyq", "listq", "missq", "gen"}
         /\ reqs'[r].pc \in Concluded => reqs'[r].out # "KEY_NOT_FOUND"
         /\ reqs'[r].pc = "gen" =>
              /\ Authenticated(reqs[r].in, reqs[r].user)
              /\ AskedUsers(reqs[r].in, reqs[r].user) = {}
              /\ reqs'[r].row = NewRow(reqs[r].in, InitialAcl(reqs[r].in, reqs[r].user, {}))
<1> DEFINE q == reqs[r]
           gate == Gate(q.in, q.user)
           pc == FirstAwait(q.in, q.user)
           row == NewRow(q.in, InitialAcl(q.in, q.user, {}))
<1>1. q \in RequestState /\ q.pc = "authr"
  BY RequestKnown DEF Dispatch
<1>2. gate # None => gate # "KEY_NOT_FOUND"
  <2>1. GateGenerate(q.in, q.user) # None => GateGenerate(q.in, q.user) # "KEY_NOT_FOUND"
    BY DEF GateGenerate
  <2> QED
    BY <2>1 DEF Gate
<1>3. /\ pc \in {"keyq", "listq", "missq", "gen"}
      /\ pc = "gen" => /\ q.in.request = "generate-key"
                       /\ AskedUsers(q.in, q.user) = {}
  BY DEF FirstAwait
<1>4. PICK kid, new :
        /\ \/ Update(r, Reply([q EXCEPT !.user = None], "UNAUTHORIZED"))
           \/ Update(r, Reply(q, "UNKNOWN_OPERATION"))
           \/ gate # None /\ Update(r, Conclude(q, gate))
           \/ /\ Authenticated(q.in, q.user)
              /\ Update(r, [q EXCEPT !.pc = pc, !.kid = kid, !.row = new])
        /\ q.in.request = "generate-key" /\ AskedUsers(q.in, q.user) = {} => new = row
  BY Zenon DEF Dispatch
<1> HIDE DEF gate, pc, row
<1>5. CASE Update(r, Reply([q EXCEPT !.user = None], "UNAUTHORIZED"))
  <2>1. reqs'[r] = Reply([q EXCEPT !.user = None], "UNAUTHORIZED")
    BY <1>5, Updated
  <2> QED
    BY <1>1, <2>1 DEF Reply, RequestState
<1>6. CASE Update(r, Reply(q, "UNKNOWN_OPERATION"))
  BY <1>1, <1>6, Updated, Ends
<1>7. CASE gate # None /\ Update(r, Conclude(q, gate))
  BY <1>1, <1>2, <1>7, Updated, Ends
<1>8. CASE Authenticated(q.in, q.user) /\ Update(r, [q EXCEPT !.pc = pc, !.kid = kid, !.row = new])
  <2> DEFINE p == [q EXCEPT !.pc = pc, !.kid = kid, !.row = new]
  <2>1. reqs'[r] = p
    BY <1>8, Updated
  <2>2. p.pc = pc /\ p.row = new /\ p.in = q.in /\ p.did = q.did /\ p.masked = q.masked
    BY <1>1 DEF RequestState
  <2> HIDE DEF p
  <2> QED
    BY <1>1, <1>3, <1>4, <1>8, <2>1, <2>2 DEF row, Concluded
<1> QED
  BY <1>4, <1>5, <1>6, <1>7, <1>8

(* generate-key up to its INSERT.                                           *)
LEMMA GenerateMoves ==
  ASSUME HandlersConsistent, NEW r \in Request, QueryMissing(r) \/ Generate(r)
  PROVE  /\ reqs[r].pc \in {"missq", "gen"}
         /\ reqs'[r].did = reqs[r].did /\ reqs'[r].masked = reqs[r].masked
         /\ reqs'[r].in = reqs[r].in
         /\ reqs'[r].pc \in {"auditq", "respond", "gen", "insq"}
         /\ reqs'[r].pc \in Concluded => reqs'[r].out # "KEY_NOT_FOUND"
         /\ reqs'[r].pc \in {"gen", "insq"} =>
              \/ reqs[r].pc = "gen" /\ reqs'[r].row = reqs[r].row
              \/ LET asked == AskedUsers(reqs[r].in, reqs[r].user)
                     missing == MissingUsers(asked)
                 IN  /\ reqs[r].pc = "missq"
                     /\ reqs[r].in.acl # None => missing = {}
                     /\ reqs'[r].row = NewRow(reqs[r].in, InitialAcl(reqs[r].in, reqs[r].user, missing))
<1> DEFINE q == reqs[r]
           missing == MissingUsers(AskedUsers(q.in, q.user))
           row == NewRow(q.in, InitialAcl(q.in, q.user, missing))
<1>1. q \in RequestState
  BY RequestKnown
<1>2. CASE QueryMissing(r)
  <2>1. /\ q.pc = "missq"
        /\ \/ Update(r, Conclude(q, "INVALID_ACL"))
           \/ /\ q.in.acl # None => missing = {}
              /\ Update(r, [q EXCEPT !.pc = "gen", !.row = row])
    BY <1>2 DEF QueryMissing
  <2> HIDE DEF missing, row
  <2>2. CASE Update(r, Conclude(q, "INVALID_ACL"))
    BY <1>1, <2>1, <2>2, Updated, Ends
  <2>3. CASE (q.in.acl # None => missing = {}) /\ Update(r, [q EXCEPT !.pc = "gen", !.row = row])
    <3>1. reqs'[r] = [q EXCEPT !.pc = "gen", !.row = row]
      BY <2>3, Updated
    <3>2. /\ reqs'[r].pc = "gen" /\ reqs'[r].row = row /\ reqs'[r].in = q.in
          /\ reqs'[r].did = q.did /\ reqs'[r].masked = q.masked
      BY <1>1, <3>1 DEF RequestState
    <3> QED
      BY <2>1, <2>3, <3>2 DEF missing, row, Concluded
  <2> QED
    BY <2>1, <2>2, <2>3
<1>3. CASE Generate(r)
  <2>1. /\ q.pc = "gen"
        /\ \/ \E k \in Kid : Update(r, [q EXCEPT !.pc = "insq", !.kid = k])
           \/ Update(r, Conclude(q, "INTERNAL_ERROR"))
    BY <1>3 DEF Generate
  <2>2. ASSUME Update(r, Conclude(q, "INTERNAL_ERROR"))
        PROVE  /\ reqs'[r].pc \in {"auditq", "respond"} /\ reqs'[r].out = "INTERNAL_ERROR"
               /\ reqs'[r].in = q.in /\ reqs'[r].did = q.did /\ reqs'[r].masked = q.masked
    BY <1>1, <2>2, Updated, Ends
  <2>3. ASSUME NEW k \in Kid, Update(r, [q EXCEPT !.pc = "insq", !.kid = k])
        PROVE  /\ reqs'[r].pc = "insq" /\ reqs'[r].row = q.row /\ reqs'[r].in = q.in
               /\ reqs'[r].did = q.did /\ reqs'[r].masked = q.masked
    <3>1. reqs'[r] = [q EXCEPT !.pc = "insq", !.kid = k]
      BY <2>3, Updated
    <3> QED
      BY <1>1, <3>1 DEF RequestState
  <2> QED
    BY <2>1, <2>2, <2>3 DEF Concluded
<1> QED
  BY <1>2, <1>3

(* The two writes: a revocation may find its key gone, a key is inserted as *)
(* it was made.                                                             *)
LEMMA WriteMoves ==
  ASSUME HandlersConsistent, NEW r \in Request, DeleteKey(r) \/ InsertNewKey(r) \/ WriteFails(r)
  PROVE  /\ reqs[r].pc \in {"insq", "delq"}
         /\ reqs'[r].masked = reqs[r].masked
         /\ reqs'[r].in = reqs[r].in /\ reqs'[r].kid = reqs[r].kid
         /\ reqs'[r].pc \in {"lost", "auditq", "respond"}
         /\ reqs'[r].pc \in Concluded /\ reqs'[r].out = "KEY_NOT_FOUND" => reqs[r].pc = "delq"
         /\ reqs'[r].did /\ reqs[r].pc = "insq" => InsertKey(reqs[r].kid, reqs[r].row)
<1> DEFINE q == reqs[r]
           m(b) == [q EXCEPT !.did = b]
<1>1. q \in RequestState /\ q.pc \in {"insq", "delq"} /\ ~q.did
  BY RequestKnown DEF DeleteKey, InsertNewKey, WriteFails, EffectAccounted, RequestState
<1>2. ASSUME NEW b \in BOOLEAN, NEW out, Update(r, Resume(m(b), Conclude(m(b), out)))
      PROVE  /\ reqs'[r].masked = q.masked /\ reqs'[r].did = b
             /\ reqs'[r].in = q.in /\ reqs'[r].kid = q.kid
             /\ reqs'[r].pc \in {"lost", "auditq", "respond"}
             /\ reqs'[r].pc \in Concluded => reqs'[r].out = out
  <2>1. /\ m(b) \in RequestState /\ m(b).masked = q.masked /\ m(b).did = b
        /\ m(b).in = q.in /\ m(b).kid = q.kid
    BY <1>1 DEF RequestState
  <2> HIDE DEF m
  <2>2. reqs'[r] = Resume(m(b), Conclude(m(b), out))
    BY <1>2, Updated
  <2>3. CASE m(b).alive
    BY <2>1, <2>2, <2>3, Ends DEF Resume
  <2>4. CASE ~m(b).alive
    <3>1. reqs'[r] = [m(b) EXCEPT !.pc = "lost"]
      BY <2>2, <2>4 DEF Resume
    <3> QED
      BY <2>1, <3>1 DEF RequestState, Concluded
  <2> QED
    BY <2>3, <2>4
<1>3. q = m(FALSE)
  BY <1>1 DEF RequestState
<1>4. CASE DeleteKey(r)
  <2>1. q.pc = "delq"
    BY <1>4 DEF DeleteKey
  <2>2. \E b \in BOOLEAN, out \in Outcomes : Update(r, Resume(m(b), Conclude(m(b), out)))
    <3> DEFINE b == keys[q.kid] # None
    <3>1. b \in BOOLEAN /\ m(b).did = b
      BY <1>1 DEF RequestState
    <3>2. Update(r, Resume(m(b), Conclude(m(b), IF m(b).did THEN "ok" ELSE "KEY_NOT_FOUND")))
      BY <1>4, Zenon DEF DeleteKey
    <3> HIDE DEF b, m
    <3> QED
      BY <3>1, <3>2 DEF Outcomes, ApiErrors
  <2> QED
    BY <1>2, <2>1, <2>2
<1>5. CASE InsertNewKey(r)
  <2>1. q.pc = "insq"
    BY <1>5 DEF InsertNewKey
  <2>2. Update(r, Resume(m(TRUE), Conclude(m(TRUE), "ok")))
    BY <1>5, Zenon DEF InsertNewKey
  <2>3. InsertKey(q.kid, q.row)
    BY <1>1, <1>5, Zenon DEF InsertNewKey, RequestState, InsertKey
  <2> HIDE DEF m
  <2>4. /\ reqs'[r].masked = q.masked /\ reqs'[r].in = q.in /\ reqs'[r].kid = q.kid
        /\ reqs'[r].pc \in {"lost", "auditq", "respond"}
        /\ reqs'[r].pc \in Concluded => reqs'[r].out = "ok"
    BY <1>2, <2>2
  <2> QED
    BY <2>1, <2>3, <2>4
<1>6. CASE WriteFails(r)
  <2>1. \/ Update(r, Resume(m(FALSE), Conclude(m(FALSE), "INTERNAL_ERROR")))
        \/ /\ q.pc = "insq" => InsertKey(q.kid, q.row)
           /\ Update(r, Resume(m(TRUE), Conclude(m(TRUE), "INTERNAL_ERROR")))
    BY <1>3, <1>6 DEF WriteFails
  <2> HIDE DEF m
  <2>2. /\ reqs'[r].masked = q.masked /\ reqs'[r].in = q.in /\ reqs'[r].kid = q.kid
        /\ reqs'[r].pc \in {"lost", "auditq", "respond"}
        /\ reqs'[r].pc \in Concluded => reqs'[r].out = "INTERNAL_ERROR"
        /\ reqs'[r].did = FALSE \/ (q.pc = "insq" => InsertKey(q.kid, q.row))
    BY <1>2, <2>1
  <2> QED
    BY <1>1, <2>2
<1> QED
  BY <1>4, <1>5, <1>6

(* The end of a request: it keeps what it did and its mark; the denied      *)
(* record comes after the first one.                                        *)
Ending(r) == AppendAudit(r) \/ AppendDenied(r) \/ AppendFails(r) \/ Respond(r)

(* Where the appends and the answer leave a request.                        *)
LEMMA EndingMoves ==
  ASSUME HandlersConsistent, NEW r \in Request, Ending(r)
  PROVE  /\ reqs[r].pc \in {"auditq", "deniedq", "respond"}
         /\ reqs'[r].did = reqs[r].did /\ reqs'[r].masked = reqs[r].masked
         /\ reqs'[r].in = reqs[r].in /\ reqs'[r].kid = reqs[r].kid
         /\ reqs'[r].user = reqs[r].user
         /\ reqs'[r].pc \in {"lost", "deniedq", "respond", "done"}
         /\ \/ reqs'[r].pc = "lost"
            \/ reqs'[r].out = "INTERNAL_ERROR" /\ reqs'[r].pc # "deniedq"
            \/ /\ reqs'[r].out = reqs[r].out
               /\ \/ /\ reqs[r].pc = "auditq" /\ AppendEvent(OpEvent(r))
                     /\ reqs'[r].pc = IF reqs[r].masked THEN "deniedq" ELSE "respond"
                  \/ reqs[r].pc = "deniedq" /\ AppendEvent(DeniedEvent(r)) /\ reqs'[r].pc = "respond"
                  \/ reqs[r].pc = "respond" /\ reqs'[r].pc = "done"
<1> DEFINE q == reqs[r]
           Same(p) == /\ p.did = q.did /\ p.masked = q.masked /\ p.in = q.in /\ p.kid = q.kid
                      /\ p.user = q.user
<1>1. q \in RequestState
  BY RequestKnown
<1>2. /\ Same(Goto(q, "deniedq")) /\ Same(Goto(q, "respond")) /\ Same(AppendFailure(q))
      /\ Same([q EXCEPT !.pc = "lost"]) /\ Same(Discard(q, "done"))
      /\ Goto(q, "deniedq").pc = "deniedq" /\ Goto(q, "respond").pc = "respond"
      /\ Goto(q, "deniedq").out = q.out /\ Goto(q, "respond").out = q.out
      /\ AppendFailure(q).pc = "respond" /\ AppendFailure(q).out = "INTERNAL_ERROR"
      /\ [q EXCEPT !.pc = "lost"].pc = "lost"
      /\ Discard(q, "done").pc = "done" /\ Discard(q, "done").out = q.out
  BY <1>1 DEF Goto, AppendFailure, Reply, Discard, RequestState
<1>3. CASE AppendAudit(r)
  <2>1. /\ q.pc = "auditq" /\ AppendEvent(OpEvent(r))
        /\ \/ reqs'[r] = [q EXCEPT !.pc = "lost"]
           \/ reqs'[r] = IF q.masked THEN Goto(q, "deniedq") ELSE Goto(q, "respond")
    BY <1>3, Updated DEF AppendAudit, Resume, AfterAppend
  <2> QED
    BY <1>2, <2>1
<1>4. CASE AppendDenied(r)
  <2>1. /\ q.pc = "deniedq" /\ AppendEvent(DeniedEvent(r))
        /\ reqs'[r] = [q EXCEPT !.pc = "lost"] \/ reqs'[r] = Goto(q, "respond")
    BY <1>4, Updated DEF AppendDenied, Resume
  <2> QED
    BY <1>2, <2>1
<1>5. CASE AppendFails(r)
  <2>1. /\ q.pc \in {"auditq", "deniedq"}
        /\ reqs'[r] = [q EXCEPT !.pc = "lost"] \/ reqs'[r] = AppendFailure(q)
    BY <1>5, Updated DEF AppendFails, Resume
  <2> QED
    BY <1>2, <2>1
<1>6. CASE Respond(r)
  <2>1. q.pc = "respond" /\ reqs'[r] = Discard(q, "done")
    BY <1>6, Updated DEF Respond
  <2> QED
    BY <1>2, <2>1
<1> QED
  BY <1>3, <1>4, <1>5, <1>6 DEF Ending

(* The process dies: what was done, marked and asked stays.                 *)
LEMMA CrashMoves ==
  ASSUME HandlersConsistent, NEW r \in Request, Crash
  PROVE  /\ reqs'[r].did = reqs[r].did /\ reqs'[r].masked = reqs[r].masked
         /\ reqs'[r].in = reqs[r].in /\ reqs'[r].kid = reqs[r].kid
         /\ reqs'[r].user = reqs[r].user
         /\ \/ reqs'[r].pc = "lost"
            \/ /\ reqs'[r].pc = reqs[r].pc
               /\ reqs'[r].out = reqs[r].out /\ reqs'[r].row = reqs[r].row
<1>1. reqs[r] \in RequestState
  BY RequestKnown
<1> QED
  BY <1>1 DEF Crash, Discard, RequestState

(* The key's row is read and decided on: a refusal is marked when there is  *)
(* a row the caller does not hold the class on.                             *)
Deciding(q, p) ==
  /\ q.pc = "keyr"
  /\ p.pc \in {"auditq", "respond", "delq", "crypto"}
  /\ \/ /\ q.row # None /\ ~Granted(q.in, q.user, q.row)
        /\ p.masked = TRUE /\ p.pc = "auditq" /\ p.out = "KEY_NOT_FOUND"
     \/ /\ p.masked = q.masked
        /\ p.pc \in Concluded /\ p.out = "KEY_NOT_FOUND" =>
             q.row = None \/ Granted(q.in, q.user, q.row)

(* The row is as it was in the table; the verdict marks or grants.          *)
LEMMA KeyMoves ==
  ASSUME HandlersConsistent, NEW r \in Request, QueryKey(r) \/ Authorize(r)
  PROVE  /\ reqs[r].pc \in {"keyq", "keyr"}
         /\ reqs'[r].did = reqs[r].did
         /\ reqs'[r].in = reqs[r].in /\ reqs'[r].kid = reqs[r].kid
         /\ \/ /\ reqs'[r].pc = "keyr" /\ reqs'[r].row = keys[reqs[r].kid]
               /\ reqs'[r].masked = reqs[r].masked
            \/ Deciding(reqs[r], reqs'[r])
<1> DEFINE q == reqs[r]
           m == [q EXCEPT !.masked = TRUE]
           compat == Compatibility(q.in, q.row)
<1>1. q \in RequestState
  BY RequestKnown
<1>2. CASE QueryKey(r)
  <2>1. q.pc = "keyq" /\ reqs'[r] = [q EXCEPT !.pc = "keyr", !.row = keys[q.kid]]
    BY <1>2, Updated DEF QueryKey, KeyById
  <2> QED
    BY <1>1, <2>1 DEF RequestState
<1>3. CASE Authorize(r)
  <2>1. /\ q.pc = "keyr"
        /\ \/ q.row = None /\ Update(r, Conclude(q, "KEY_NOT_FOUND"))
           \/ /\ q.row # None /\ ~Granted(q.in, q.user, q.row)
              /\ Update(r, Conclude(m, "KEY_NOT_FOUND"))
           \/ Granted(q.in, q.user, q.row) /\ Update(r, Conclude(q, "KEY_NOT_FOUND"))
           \/ Granted(q.in, q.user, q.row) /\ Update(r, Conclude(q, compat))
           \/ \E pc \in {"delq", "crypto"} : Update(r, Goto(q, pc))
    BY <1>3 DEF Authorize
  <2>2. m \in RequestState /\ m.did = q.did /\ m.in = q.in /\ m.kid = q.kid /\ m.masked = TRUE
    BY <1>1 DEF RequestState
  <2> HIDE DEF m, compat
  <2>3. CASE /\ q.row # None /\ ~Granted(q.in, q.user, q.row)
             /\ Update(r, Conclude(m, "KEY_NOT_FOUND"))
    <3>1. m.in.request \in AuditedOps
      BY <2>1, <2>2, RequestKnown DEF WellPlaced, Handling
    <3>2. Conclude(m, "KEY_NOT_FOUND").pc = "auditq"
      BY <2>2, <3>1 DEF Conclude, RequestState
    <3> QED
      BY <2>1, <2>2, <2>3, <3>2, Updated, Ends DEF Deciding
  <2>4. ASSUME NEW out, Update(r, Conclude(q, out)),
               out = "KEY_NOT_FOUND" => q.row = None \/ Granted(q.in, q.user, q.row)
        PROVE  /\ Deciding(q, reqs'[r])
               /\ reqs'[r].did = q.did /\ reqs'[r].in = q.in /\ reqs'[r].kid = q.kid
    BY <1>1, <2>1, <2>4, Updated, Ends DEF Deciding
  <2>5. ASSUME NEW pc \in {"delq", "crypto"}, Update(r, Goto(q, pc))
        PROVE  /\ Deciding(q, reqs'[r])
               /\ reqs'[r].did = q.did /\ reqs'[r].in = q.in /\ reqs'[r].kid = q.kid
    <3>1. reqs'[r] = Goto(q, pc)
      BY <2>5, Updated
    <3>2. /\ reqs'[r].pc = pc /\ reqs'[r].masked = q.masked
          /\ reqs'[r].did = q.did /\ reqs'[r].in = q.in /\ reqs'[r].kid = q.kid
      BY <1>1, <3>1 DEF Goto, RequestState
    <3> QED
      BY <2>1, <3>2 DEF Deciding, Concluded
  <2> QED
    BY <2>1, <2>3, <2>4, <2>5
<1> QED
  BY <1>2, <1>3

(* Every step of a request is one of these.                                 *)
LEMMA Moves ==
  ASSUME NEW r \in Request, Arrive(r) \/ Handle(r)
  PROVE  \/ Quiet(r) \/ Ending(r) \/ Dispatch(r)
         \/ QueryMissing(r) \/ Generate(r)
         \/ DeleteKey(r) \/ InsertNewKey(r) \/ WriteFails(r)
         \/ QueryKey(r) \/ Authorize(r)
BY DEF Handle, Quiet, Ending

-----------------------------------------------------------------------------
(* Keys keep owners                                                         *)

(* The ACL a new key starts with names existing users only, the caller as   *)
(* an owner.                                                                *)
LEMMA NewAclOwned ==
  ASSUME NEW in \in Input, NEW user \in AuthUser, users[user.userId] # None,
         NEW missing, missing = MissingUsers(AskedUsers(in, user)),
         in.acl # None => missing = {}
  PROVE  /\ Owned(InitialAcl(in, user, missing))
         /\ OwnsWith(InitialAcl(in, user, missing), user.userId)
<1> DEFINE acl == InitialAcl(in, user, missing)
           self == user.userId
<1>1. self \in UserId /\ user.data.coOwners \subseteq UserId
  BY DEF AuthUser, UserData
<1>2. \A u \in AskedUsers(in, user) : u \notin missing => users[u] # None
  BY DEF MissingUsers
<1>3. CASE in.acl # None
  <2>1. acl = MergeSelf(in.acl, self) /\ missing = {}
    BY <1>3 DEF InitialAcl
  <2>2. in.acl \in RawAcl
    BY <1>3 DEF Input
  <2>3. "owner" \in acl[self]
    BY <1>1, <2>1, <2>2 DEF MergeSelf, RawAcl
  <2>4. AclUsers(acl) = AskedUsers(in, user)
    BY <1>3, <2>1 DEF AskedUsers
  <2>5. acl[self] \in SUBSET (OpClasses \cup {"bogus"})
    BY <1>1, <2>1, <2>2 DEF MergeSelf, RawAcl, OpClasses
  <2>6. acl[self] # None
    BY <2>5, NoneAssumption
  <2> QED
    BY <1>1, <1>2, <2>1, <2>3, <2>4, <2>6 DEF Owned, OwnsWith, AclAllows
<1>4. CASE in.acl = None
  <2>1. {"owner"} # None
    BY NoneAssumption DEF OpClasses
  <2>2. \A u \in UserId : acl[u] = IF u \in {self} \cup (AskedUsers(in, user) \ missing)
                                   THEN {"owner"} ELSE None
    BY <1>4 DEF InitialAcl
  <2>3. acl[self] = {"owner"}
    BY <1>1, <2>2
  <2>4. \A u \in AclUsers(acl) : users[u] # None
    BY <1>2, <2>2 DEF AclUsers
  <2> HIDE DEF acl
  <2> QED
    BY <1>1, <2>1, <2>3, <2>4 DEF Owned, OwnsWith, AclAllows, acl
<1> QED
  BY <1>3, <1>4

(* A request's row stays owned as it moves, and what it issued was.         *)
LEMMA RequestOwned ==
  ASSUME OwnershipConsistent, [Next]_vars, NEW r \in Request
  PROVE  OwnedAt(reqs[r])'
<1> DEFINE q == reqs[r]
           p == reqs'[r]
           RowOwned == p.pc \in {"gen", "insq"} => Owned(p.row.acl) /\ OwnsWith(p.row.acl, p.in.user)
           Issued == p.did /\ p.in.request = "generate-key" =>
                       issued'[p.kid] # None /\ OwnsWith(issued'[p.kid].acl, p.in.user)
<1>1. /\ HandlersConsistent /\ q \in RequestState /\ WellPlaced(q) /\ EffectAccounted(q)
      /\ AccessAt(q) /\ OwnedAt(q)
  BY AccessKnown, RequestKnown DEF OwnershipConsistent, AccessConsistent
<1>2. users' = users /\ \A k \in Kid : issued[k] # None => issued'[k] = issued[k]
  BY StepIsFramed DEF OwnershipConsistent, AccessConsistent, Framed
<1>3. q.in # None => q.in \in Input
  BY <1>1, RequestKnown
<1>4. q.user # None => q.user \in AuthUser /\ users[q.user.userId] # None
  BY <1>1, RequestKnown DEF AccessAt, CallerKnown, UserKnown
<1>5. q.pc \notin Concluded \cup {"lost"} => ~q.did
  BY <1>1 DEF EffectAccounted, Concluded
<1>6. ASSUME p.did = q.did, p.in = q.in, p.kid = q.kid PROVE Issued
  <2>1. q.did => q.kid \in Kid
    BY <1>1 DEF EffectAccounted, RequestState
  <2> QED
    BY <1>1, <1>2, <1>6, <2>1 DEF OwnedAt
<1>7. ASSUME NEW missing, missing = MissingUsers(AskedUsers(q.in, q.user)),
             q.in.acl # None => missing = {}, q.user # None, q.in # None,
             q.user.userId = q.in.user, p.in = q.in,
             p.row = NewRow(q.in, InitialAcl(q.in, q.user, missing))
      PROVE  RowOwned
  <2>1. p.row.acl = InitialAcl(q.in, q.user, missing)
    BY <1>7 DEF NewRow
  <2> QED
    BY <1>3, <1>4, <1>7, <2>1, NewAclOwned
<1>8. RowOwned /\ Issued
  <2>1. CASE p = q
    BY <1>1, <1>6, <2>1 DEF OwnedAt
  <2>2. CASE Quiet(r)
    BY <1>1, <1>5, <2>2, QuietMoves DEF QuietlyAt
  <2>3. CASE Dispatch(r)
    <3>1. Issued
      BY <1>1, <1>5, <2>3, DispatchMoves DEF Concluded
    <3>2. ASSUME p.pc \in {"gen", "insq"}
          PROVE  /\ Authenticated(q.in, q.user) /\ AskedUsers(q.in, q.user) = {} /\ p.in = q.in
                 /\ p.row = NewRow(q.in, InitialAcl(q.in, q.user, {})) /\ q.in # None
      BY <1>1, <2>3, <3>2, DispatchMoves DEF WellPlaced
    <3>3. MissingUsers({}) = {}
      BY DEF MissingUsers
    <3> QED
      BY <1>7, <3>1, <3>2, <3>3 DEF Authenticated
  <2>4. CASE QueryMissing(r) \/ Generate(r)
    <3>1. Issued
      BY <1>1, <1>5, <2>4, GenerateMoves DEF Concluded
    <3>2. q.user # None /\ q.in # None /\ q.user.userId = q.in.user
      BY <1>1, <2>4, GenerateMoves DEF WellPlaced, Handling, AccessAt, CallerKnown, CallerIs
    <3>3. CASE q.pc = "gen" /\ p.row = q.row
      BY <1>1, <2>4, <3>1, <3>3, GenerateMoves DEF OwnedAt
    <3> QED
      BY <1>1, <1>7, <2>4, <3>1, <3>2, <3>3, GenerateMoves
  <2>5. CASE DeleteKey(r) \/ InsertNewKey(r) \/ WriteFails(r)
    <3>1. RowOwned
      BY <1>1, <2>5, WriteMoves
    <3>2. ASSUME p.did, p.in.request = "generate-key" PROVE Issued
      <4>1. /\ q.pc = "insq" /\ p.kid = q.kid /\ p.in = q.in
            /\ q.kid \in Kid /\ q.row # None /\ q.row \in KeyRow
        BY <1>1, <2>5, <3>2, WriteMoves DEF WellPlaced, RequestState
      <4>2. InsertKey(q.kid, q.row)
        BY <1>1, <2>5, <3>2, <4>1, WriteMoves
      <4>3. issued'[q.kid] = q.row
        BY <1>1, <4>1, <4>2 DEF InsertKey, HandlersConsistent, ServerTypeOK, DbTypeOK, KeyTable
      <4> QED
        BY <1>1, <4>1, <4>3 DEF OwnedAt
    <3> QED
      BY <3>1, <3>2
  <2>6. CASE QueryKey(r) \/ Authorize(r)
    BY <1>1, <1>5, <2>6, KeyMoves DEF Deciding, Concluded
  <2>7. CASE Ending(r)
    BY <1>1, <1>6, <2>7, EndingMoves
  <2>8. CASE Crash
    BY <1>1, <1>6, <2>8, CrashMoves DEF OwnedAt
  <2> QED
    BY <1>1, <2>1, <2>2, <2>3, <2>4, <2>5, <2>6, <2>7, <2>8, StepOfOne, Moves
<1> QED
  BY <1>2, <1>8 DEF OwnedAt, Owned

(* Rows are inserted owned, and no user goes.                               *)
LEMMA TableOwned ==
  ASSUME OwnershipConsistent, [Next]_vars
  PROVE  KeysOwned'
<1>1. HandlersConsistent /\ users' = users
  BY StepIsFramed DEF OwnershipConsistent, AccessConsistent, Framed
<1> SUFFICES ASSUME NEW k \in Kid, keys'[k] # None PROVE Owned(keys'[k].acl)
  BY <1>1 DEF KeysOwned, Owned
<1>2. CASE keys'[k] = keys[k]
  BY <1>2 DEF OwnershipConsistent, KeysOwned
<1>3. ASSUME NEW r \in Request, reqs[r].pc = "insq", InsertKey(reqs[r].kid, reqs[r].row)
      PROVE  Owned(keys'[k].acl)
  <2>1. reqs[r].kid \in Kid /\ keys \in KeyTable
    BY <1>1, <1>3, RequestKnown
    DEF WellPlaced, RequestState, HandlersConsistent, ServerTypeOK, DbTypeOK
  <2>2. keys'[k] = keys[k] \/ keys'[k] = reqs[r].row
    BY <1>3, <2>1 DEF InsertKey, KeyTable
  <2> QED
    BY <1>2, <1>3, <2>2 DEF OwnershipConsistent, OwnedAt
<1>4. ASSUME NEW K, DeleteKeys(K) PROVE keys'[k] = keys[k]
  BY <1>4 DEF DeleteKeys
<1> QED
  BY <1>1, <1>2, <1>3, <1>4, StepChanges

(* Every key always has an owner, its ACL names existing users only, and    *)
(* whoever generated it is one of its first owners, if so it was at the     *)
(* start (generateKey, missingUsers).                                       *)
THEOREM KeysStayOwned ==
  ASSUME OwnedAtStart
  PROVE  Spec => []KeysAreOwned
<1>1. Init => OwnershipConsistent
  <2> SUFFICES ASSUME Init PROVE KeysOwned /\ \A r \in Request : OwnedAt(reqs[r])
    BY InitialAccess DEF OwnershipConsistent
  <2>1. PICK t \in InitialTables : users = t.users /\ keys = t.keys
    BY DEF Init, DbInit
  <2>2. KeysOwned
    BY <2>1 DEF OwnedAtStart, KeysOwned, Owned
  <2>3. \A r \in Request : reqs[r].pc = "idle" /\ ~reqs[r].did
    BY DEF Init, IdleRequest
  <2> QED
    BY <2>2, <2>3 DEF OwnedAt
<1>2. OwnershipConsistent /\ [Next]_vars => OwnershipConsistent'
  BY StepKeepsAccess, RequestOwned, TableOwned DEF OwnershipConsistent
<1>3. OwnershipConsistent => KeysAreOwned
  BY DEF OwnershipConsistent, KeysOwned, Owned, OwnsWith, OwnedAt, KeysAreOwned
<1> QED
  BY <1>1, <1>2, <1>3, PTL DEF Spec

-----------------------------------------------------------------------------
(* Refusals leave denied records                                            *)

(* A key that appears was issued by a request.                              *)
LEMMA NewIsIssued ==
  ASSUME [Promise!Next]_(Promise!promiseVars), NEW k \in Kid, k \notin Live, k \in Live'
  PROVE  \E r \in Request : Effect'[r] = k /\ Kind'[r] = "issue"
<1>1. PICK r \in Request, j \in Kid : Promise!Issue(r, j)
  BY DEF Promise!Next, Promise!Accept, Promise!Record, Promise!Answer, Promise!Revoke,
         Promise!Reap, Promise!promiseVars, Live
<1>2. Live' = Live \cup {j} /\ Effect' = [Effect EXCEPT ![r] = j] /\ Kind' = Kind /\ Kind[r] = "issue"
  BY <1>1 DEF Promise!Issue, Live, Effect, Kind
<1>3. j = k /\ Effect'[r] = k
  BY <1>2 DEF Effect
<1> QED
  BY <1>2, <1>3

(* A key that is missing, or was issued while the server ran, stays so.     *)
LEMMA NotThenStays ==
  ASSUME HandlersConsistent, [Next]_vars
  PROVE  \A k \in Kid : NotThen(k) => NotThen(k)'
<1> SUFFICES ASSUME NEW k \in Kid, NotThen(k) PROVE NotThen(k)'
  OBVIOUS
<1>1. None \notin Kid
  BY NoneAssumption
<1>2. \A r \in Request : /\ Kind[r] = "issue" => reqs[r].in.request = "generate-key"
                         /\ reqs[r].in # None /\ reqs[r].in.request = "generate-key" => Kind[r] = "issue"
  BY NoAnswerAssumption DEF Kind, RequestKind
<1>3. \A r \in Request : Kind'[r] = "issue" => reqs'[r].in.request = "generate-key"
  BY NoAnswerAssumption DEF Kind, RequestKind
<1>4. ASSUME NEW r \in Request, Effect'[r] = k, Kind'[r] = "issue" PROVE NotThen(k)'
  BY <1>1, <1>3, <1>4 DEF NotThen, IssuedHere, Effect
<1>5. CASE IssuedHere(k)
  <2>1. PICK r \in Request : reqs[r].did /\ reqs[r].kid = k /\ reqs[r].in.request = "generate-key"
    BY <1>5 DEF IssuedHere
  <2>2. Effect[r] = k /\ Kind[r] = "issue"
    BY <1>2, <2>1, RequestKnown DEF Effect, EffectAccounted
  <2>3. EffectsStay
    BY StepMaps, PromiseStep
  <2> QED
    BY <1>1, <1>4, <2>2, <2>3 DEF EffectsStay
<1>6. CASE keys[k] = None
  <2>1. CASE keys'[k] = None
    BY <2>1 DEF NotThen
  <2>2. CASE keys'[k] # None
    <3>1. k \notin Live /\ k \in Live'
      BY <1>6, <2>2 DEF Live
    <3> QED
      BY <1>4, <3>1, StepMaps, NewIsIssued
  <2> QED
    BY <2>1, <2>2
<1> QED
  BY <1>5, <1>6 DEF NotThen

(* Records are only ever added.                                             *)
LEMMA ChainGrows ==
  ASSUME [Next]_vars
  PROVE  /\ chain \subseteq chain'
         /\ \A e \in chain' \ chain : \E r \in Request :
              \/ reqs[r].pc = "auditq" /\ e = OpEvent(r)
              \/ reqs[r].pc = "deniedq" /\ e = DeniedEvent(r)
<1>1. CASE UNCHANGED chain
  BY <1>1
<1>2. ASSUME NEW r \in Request, AppendAudit(r) \/ AppendDenied(r) \/ AppendFails(r)
      PROVE  \/ UNCHANGED chain
             \/ reqs[r].pc = "auditq" /\ AppendEvent(OpEvent(r))
             \/ reqs[r].pc = "deniedq" /\ AppendEvent(DeniedEvent(r))
  BY <1>2 DEF AppendAudit, AppendDenied, AppendFails
<1>3. \/ UNCHANGED chain
      \/ \E r \in Request : AppendAudit(r) \/ AppendDenied(r) \/ AppendFails(r)
  BY DEF Next, ServerNext, Arrive, Handle, QueryUser, Dispatch, DispatchInherited, QueryKey,
         Authorize, Crypto, DeleteKey, QueryMissing, Generate, InsertNewKey, QueryList,
         FilterList, ReadFails, WriteFails, Respond, Sweep, Crash, Start, Tick, ServerOnly,
         vars, dbVars
<1> QED
  BY <1>1, <1>2, <1>3 DEF AppendEvent

(* A request refused for want of a class is marked, and nobody else is; it  *)
(* leaves its two records in turn. It is enough of the holders that they    *)
(* stay, that nobody else reaches the DELETE, and that authorizedKey grants *)
(* to nobody else; and of a row that was read, that its key was issued.     *)
LEMMA RequestRefused ==
  ASSUME HandlersConsistent, [Next]_vars, NEW r \in Request, NEW S, NEW T,
         MarkKept(reqs[r]), RefusedUnless(r, S), RecordedInTurn(r),
         NotFound(reqs[r]) /\ r \in S => r \in T,
         reqs[r].pc = "delq" => r \in T,
         reqs[r].pc = "keyr" /\ reqs[r].row # None =>
           /\ issued[reqs[r].kid] # None
           /\ Granted(reqs[r].in, reqs[r].user, reqs[r].row) => r \in T
  PROVE  /\ MarkKept(reqs[r])' /\ RefusedUnless(r, T)' /\ RecordedInTurn(r)'
         /\ reqs[r].masked => reqs'[r].masked
<1> DEFINE q == reqs[r]
           p == reqs'[r]
           Missing(k) == \/ keys'[k] = None
                         \/ \E s \in Request : /\ reqs'[s].did /\ reqs'[s].kid = k
                                               /\ reqs'[s].in.request = "generate-key"
           Mark == p.masked => /\ p.pc \in Concluded \cup {"lost"}
                               /\ p.kid \in Kid /\ issued'[p.kid] # None
                               /\ p.pc \in {"auditq", "deniedq"} => p.out = "KEY_NOT_FOUND"
           Refusal == /\ p.pc = "keyr" /\ p.row = None => Missing(p.kid)
                      /\ p.pc \in Concluded /\ p.out = "KEY_NOT_FOUND" =>
                           p.kid \in Kid /\ (p.masked \/ Missing(p.kid) \/ r \in T)
           InChain == /\ p.pc = "deniedq" => p.masked /\ OpEvent(r)' \in chain'
                      /\ p.pc \in {"respond", "done"} /\ p.out = "KEY_NOT_FOUND" /\ p.masked =>
                           DeniedEvent(r)' \in chain'
           Kept == q.masked => p.masked
<1>1. /\ q \in RequestState /\ WellPlaced(q)
      /\ MarkKept(q) /\ RefusedUnless(r, S) /\ RecordedInTurn(r)
  BY RequestKnown
<1>2. \A k \in Kid : issued[k] # None => issued'[k] # None
  BY StepMaps, PromiseStep DEF KidsStay, Ever
<1>3. \A k \in Kid : NotThen(k) => Missing(k)
  BY NotThenStays DEF NotThen, IssuedHere
<1>4. chain \subseteq chain'
  BY ChainGrows
<1>5. q.pc \notin Concluded \cup {"lost"} => ~q.masked
  BY <1>1 DEF MarkKept
<1> HIDE DEF Missing
<1>6. ASSUME p.masked = q.masked, p.kid = q.kid, p.in = q.in, p.user = q.user,
             p.pc = q.pc, p.out = q.out, p.row = q.row
      PROVE  Mark /\ Refusal /\ InChain /\ Kept
  <2>1. OpEvent(r)' = OpEvent(r) /\ DeniedEvent(r)' = DeniedEvent(r)
    BY <1>6 DEF OpEvent, DeniedEvent, ResultKid
  <2>2. p.pc = "keyr" => q.kid \in Kid
    BY <1>1, <1>6 DEF WellPlaced, RequestState
  <2> QED
    BY <1>1, <1>2, <1>3, <1>4, <1>6, <2>1, <2>2
    DEF MarkKept, RefusedUnless, NotFound, RecordedInTurn
<1>7. ASSUME q.pc \notin Concluded \cup {"lost"}, p.masked = q.masked,
             p.pc \notin {"keyr", "deniedq"}, p.pc \in Concluded => p.out # "KEY_NOT_FOUND"
      PROVE  Mark /\ Refusal /\ InChain /\ Kept
  BY <1>5, <1>7
<1>8. Mark /\ Refusal /\ InChain /\ Kept
  <2>1. CASE p = q
    BY <1>6, <2>1
  <2>2. CASE Quiet(r)
    BY <1>1, <1>7, <2>2, QuietMoves DEF QuietlyAt
  <2>3. CASE Dispatch(r)
    BY <1>1, <1>7, <2>3, DispatchMoves DEF Concluded
  <2>4. CASE QueryMissing(r) \/ Generate(r)
    BY <1>1, <1>7, <2>4, GenerateMoves DEF Concluded
  <2>5. CASE DeleteKey(r) \/ InsertNewKey(r) \/ WriteFails(r)
    <3>1. /\ ~q.masked /\ p.masked = q.masked /\ p.pc \notin {"keyr", "deniedq"}
          /\ p.in = q.in /\ p.kid = q.kid
          /\ p.pc \in Concluded /\ p.out = "KEY_NOT_FOUND" => q.pc = "delq"
      BY <1>1, <1>5, <2>5, WriteMoves DEF Concluded
    <3>2. q.pc = "delq" => q.kid \in Kid
      BY <1>1 DEF WellPlaced, RequestState
    <3> QED
      BY <3>1, <3>2
  <2>6. CASE QueryKey(r) \/ Authorize(r)
    <3>1. ~q.masked /\ q.kid \in Kid
      BY <1>1, <1>5, <2>6, KeyMoves DEF Concluded, WellPlaced, RequestState
    <3>2. CASE p.pc = "keyr" /\ p.row = keys[q.kid] /\ p.masked = q.masked
      <4>1. p.row = None => Missing(q.kid)
        BY <1>3, <3>1, <3>2 DEF NotThen
      <4> QED
        BY <1>1, <2>6, <3>1, <3>2, <4>1, KeyMoves DEF Concluded
    <3>3. CASE Deciding(q, p)
      <4>1. q.row = None => Missing(q.kid)
        BY <1>1, <1>3, <3>1, <3>3 DEF Deciding, RefusedUnless
      <4>2. p.kid = q.kid
        BY <2>6, KeyMoves
      <4> QED
        BY <1>2, <3>1, <3>3, <4>1, <4>2 DEF Deciding, Concluded
    <3> QED
      BY <1>1, <2>6, <3>2, <3>3, KeyMoves
  <2>7. CASE Ending(r)
    <3>1. p.masked = q.masked /\ p.kid = q.kid /\ p.in = q.in /\ p.user = q.user
      BY <1>1, <2>7, EndingMoves
    <3>2. ASSUME p.out = q.out PROVE OpEvent(r)' = OpEvent(r) /\ DeniedEvent(r)' = DeniedEvent(r)
      BY <3>1, <3>2 DEF OpEvent, DeniedEvent, ResultKid
    <3>3. ASSUME q.masked
          PROVE  /\ q.kid \in Kid /\ issued'[q.kid] # None
                 /\ q.pc \in {"auditq", "deniedq"} => q.out = "KEY_NOT_FOUND"
      BY <1>1, <1>2, <3>3 DEF MarkKept
    <3>4. CASE p.pc = "lost"
      BY <3>1, <3>3, <3>4 DEF Concluded
    <3>5. CASE p.out = "INTERNAL_ERROR" /\ p.pc # "deniedq"
      BY <1>1, <2>7, <3>1, <3>3, <3>5, EndingMoves DEF Concluded
    <3>6. ASSUME p.out = q.out, NotFound(q)
          PROVE  q.kid \in Kid /\ (q.masked \/ Missing(q.kid) \/ r \in T)
      BY <1>1, <1>3, <3>6 DEF RefusedUnless
    <3>7. q.pc \in {"auditq", "deniedq", "respond"} /\ p.pc \in {"lost", "deniedq", "respond", "done"}
      BY <1>1, <2>7, EndingMoves
    <3>8. ASSUME p.out = q.out PROVE Refusal
      BY <3>1, <3>6, <3>7, <3>8 DEF NotFound, Concluded
    <3>9. CASE /\ p.out = q.out /\ q.pc = "auditq" /\ AppendEvent(OpEvent(r))
               /\ p.pc = IF q.masked THEN "deniedq" ELSE "respond"
      <4>1. OpEvent(r) \in chain'
        BY <3>9 DEF AppendEvent
      <4> QED
        BY <3>1, <3>2, <3>3, <3>8, <3>9, <4>1 DEF Concluded
    <3>10. CASE p.out = q.out /\ q.pc = "deniedq" /\ AppendEvent(DeniedEvent(r)) /\ p.pc = "respond"
      <4>1. DeniedEvent(r) \in chain'
        BY <3>10 DEF AppendEvent
      <4> QED
        BY <3>1, <3>2, <3>3, <3>8, <3>10, <4>1 DEF Concluded
    <3>11. CASE p.out = q.out /\ q.pc = "respond" /\ p.pc = "done"
      BY <1>1, <1>4, <3>1, <3>2, <3>3, <3>8, <3>11 DEF Concluded, RecordedInTurn
    <3> QED
      BY <1>1, <2>7, <3>4, <3>5, <3>9, <3>10, <3>11, EndingMoves
  <2>8. CASE Crash
    <3>1. CASE p.pc = "lost"
      BY <1>1, <1>2, <2>8, <3>1, CrashMoves DEF MarkKept, Concluded
    <3> QED
      BY <1>1, <1>6, <2>8, <3>1, CrashMoves
  <2> QED
    BY <1>1, <2>1, <2>2, <2>3, <2>4, <2>5, <2>6, <2>7, <2>8, StepOfOne, Moves
<1> QED
  BY <1>8 DEF MarkKept, RefusedUnless, NotFound, RecordedInTurn, NotThen, IssuedHere, Missing

(* From authorizedKey on a request is about the same key.                   *)
LEMMA SameKey ==
  ASSUME HandlersConsistent, [Next]_vars, NEW r \in Request,
         reqs[r].pc \in {"keyr", "delq"} \cup Concluded
  PROVE  reqs'[r].kid = reqs[r].kid /\ reqs'[r].in = reqs[r].in
<1>1. reqs[r].pc \in {"keyr", "delq"} \cup Concluded
  OBVIOUS
<1>2. CASE Quiet(r)
  BY <1>1, <1>2 DEF Quiet, Arrive, QueryUser, DispatchInherited, Crypto, QueryList, FilterList,
                    ReadFails, Concluded
<1>3. CASE Dispatch(r) \/ QueryMissing(r) \/ Generate(r)
  BY <1>1, <1>3, DispatchMoves, GenerateMoves DEF Concluded
<1>4. CASE DeleteKey(r) \/ InsertNewKey(r) \/ WriteFails(r)
  BY <1>1, <1>4, WriteMoves DEF Concluded
<1>5. CASE QueryKey(r) \/ Authorize(r)
  BY <1>1, <1>5, KeyMoves DEF Concluded
<1>6. CASE Ending(r) \/ Crash
  BY <1>6, EndingMoves, CrashMoves
<1> QED
  BY <1>2, <1>3, <1>4, <1>5, <1>6, StepOfOne, Moves

(* Only the verdict marks, and only whom it does not grant the class.       *)
LEMMA VerdictMarks ==
  ASSUME HandlersConsistent, [Next]_vars, NEW r \in Request, ~reqs[r].masked, reqs'[r].masked
  PROVE  /\ reqs[r].pc = "keyr" /\ reqs[r].row # None
         /\ ~Granted(reqs[r].in, reqs[r].user, reqs[r].row)
<1>1. ~reqs[r].masked /\ reqs'[r].masked
  OBVIOUS
<1>2. CASE Quiet(r) \/ Dispatch(r) \/ QueryMissing(r) \/ Generate(r)
  BY <1>1, <1>2, QuietMoves, DispatchMoves, GenerateMoves DEF QuietlyAt
<1>3. CASE DeleteKey(r) \/ InsertNewKey(r) \/ WriteFails(r) \/ Ending(r) \/ Crash
  BY <1>1, <1>3, WriteMoves, EndingMoves, CrashMoves
<1>4. CASE QueryKey(r) \/ Authorize(r)
  BY <1>1, <1>4, KeyMoves DEF Deciding
<1> QED
  BY <1>1, <1>2, <1>3, <1>4, StepOfOne, Moves

(* A denied record is appended after the first record of a marked request.  *)
LEMMA DenialsStayTrue ==
  ASSUME HandlersConsistent, [Next]_vars, DenialsTrue,
         \A r \in Request : /\ MarkKept(reqs[r]) /\ RecordedInTurn(r)
                            /\ reqs[r].masked => reqs'[r].masked
  PROVE  DenialsTrue'
<1>1. ASSUME NEW e \in chain', e.type = "denied"
      PROVE  /\ e.op \in Request /\ reqs[e.op].masked
             /\ \E f \in chain : f.op = e.op /\ f.outcome = "KEY_NOT_FOUND"
  <2>1. CASE e \in chain
    BY <1>1, <2>1 DEF DenialsTrue
  <2>2. CASE e \notin chain
    <3>1. PICK r \in Request : \/ reqs[r].pc = "auditq" /\ e = OpEvent(r)
                               \/ reqs[r].pc = "deniedq" /\ e = DeniedEvent(r)
      BY <2>2, ChainGrows
    <3>2. reqs[r].pc = "auditq" => OpEvent(r).type # "denied"
      BY RequestKnown
      DEF WellPlaced, Handling, OpEvent, AuditedOps, Operations, KeyOps, OpClassOf
    <3>3. reqs[r].pc = "deniedq" /\ e.op = r
      BY <1>1, <3>1, <3>2 DEF DeniedEvent
    <3>4. reqs[r].masked /\ OpEvent(r) \in chain /\ reqs[r].out = "KEY_NOT_FOUND"
      BY <3>3 DEF RecordedInTurn, MarkKept
    <3> QED
      BY <3>3, <3>4 DEF OpEvent
  <2> QED
    BY <2>1, <2>2
<1> QED
  BY <1>1, ChainGrows DEF DenialsTrue

(* Beside the server only, whoever holds the class, or is let in, goes on   *)
(* to hold it.                                                              *)
LEMMA StepKeepsDenials ==
  ASSUME DenialsConsistent, [Next]_vars
  PROVE  DenialsConsistent'
<1>1. AccessConsistent /\ AccessConsistent' /\ HandlersConsistent
  BY StepKeepsAccess DEF DenialsConsistent, AccessConsistent
<1>2. ASSUME NEW r \in Request
      PROVE  /\ MarkKept(reqs[r])' /\ RefusedUnless(r, Holders)' /\ RecordedInTurn(r)'
             /\ reqs[r].masked => reqs'[r].masked
  <2> DEFINE q == reqs[r]
  <2>1. /\ WellPlaced(q) /\ AccessAt(q) /\ q \in RequestState
        /\ MarkKept(q) /\ RefusedUnless(r, Holders) /\ RecordedInTurn(r)
    BY <1>1, AccessKnown, RequestKnown DEF DenialsConsistent
  <2>2. users' = users /\ \A k \in Kid : issued[k] # None => issued'[k] = issued[k]
    BY StepIsFramed DEF Framed, DenialsConsistent, AccessConsistent
  <2>3. ASSUME Holds(q), q.pc \in {"keyr", "delq"} \cup Concluded PROVE Holds(q)'
    <3>1. q.kid \in Kid /\ reqs'[r].kid = q.kid /\ reqs'[r].in = q.in
      BY <1>1, <2>1, <2>3, SameKey DEF Holds, RequestState
    <3> QED
      BY <2>2, <2>3, <3>1 DEF Holds
  <2>4. ASSUME q.pc = "keyr", q.row # None
        PROVE  issued[q.kid] # None /\ (Granted(q.in, q.user, q.row) => Holds(q))
    <3>1. q.kid # None /\ q.row = issued[q.kid]
      BY <2>1, <2>4 DEF AccessAt, EndedSeen
    <3>2. q.user # None /\ q.user.userId = q.in.user /\ q.user.data = users[q.in.user].data
      BY <2>1, <2>4 DEF AccessAt, CallerKnown, UserKnown, CallerIs, WellPlaced, Handling
    <3> QED
      BY <2>4, <3>1, <3>2 DEF Granted, Entitled, Holds
  <2>5. q.pc = "delq" => Holds(q)
    BY <2>1 DEF AccessAt, Rightful
  <2>6. PICK T : T = {s \in Request : Holds(reqs[s])'}
    OBVIOUS
  <2>7. /\ NotFound(q) /\ r \in Holders => r \in T
        /\ q.pc = "delq" => r \in T
        /\ q.pc = "keyr" /\ q.row # None =>
             issued[q.kid] # None /\ (Granted(q.in, q.user, q.row) => r \in T)
    BY <2>3, <2>4, <2>5, <2>6 DEF NotFound, Holders
  <2>8. /\ MarkKept(reqs[r])' /\ RefusedUnless(r, T)' /\ RecordedInTurn(r)'
        /\ q.masked => reqs'[r].masked
    BY <1>1, <2>1, <2>7, RequestRefused
  <2>9. RefusedUnless(r, Holders)'
    BY <2>6, <2>8 DEF RefusedUnless, Holders
  <2> QED
    BY <2>8, <2>9
<1>3. DenialsTrue'
  BY <1>1, <1>2, DenialsStayTrue DEF DenialsConsistent
<1> QED
  BY <1>1, <1>2, <1>3 DEF DenialsConsistent

(* Whoever is told key-not-found of a key that was there and that they hold *)
(* nothing on leaves a key-not-found and a denied record, and no denied     *)
(* record is of anything else (authorizedKey, handleApi).                   *)
THEOREM DenialsAreRecorded == Spec => []DenialsRecorded
<1>1. Init => DenialsConsistent
  <2> SUFFICES ASSUME Init
               PROVE  /\ \A r \in Request : MarkKept(reqs[r]) /\ RefusedUnless(r, Holders)
                                            /\ RecordedInTurn(r)
                      /\ DenialsTrue
    BY InitialAccess DEF DenialsConsistent
  <2>1. chain = {} /\ \A r \in Request : reqs[r].pc = "idle" /\ ~reqs[r].masked
    BY DEF Init, DbInit, IdleRequest
  <2> QED
    BY <2>1 DEF MarkKept, RefusedUnless, NotFound, Concluded, RecordedInTurn, DenialsTrue
<1>2. DenialsConsistent /\ [Next]_vars => DenialsConsistent'
  BY StepKeepsDenials
<1>3. ASSUME DenialsConsistent PROVE DenialsRecorded
  <2> SUFFICES ASSUME NEW r \in Request
               PROVE  /\ /\ Answered(r) /\ reqs[r].out = "KEY_NOT_FOUND"
                         /\ keys[reqs[r].kid] # None /\ ~IssuedHere(reqs[r].kid)
                         /\ ~HoldsClass(r)
                         => DeniedEvent(r) \in chain
                      /\ reqs[r].user # None /\ DeniedEvent(r) \in chain =>
                           /\ issued[reqs[r].kid] # None
                           /\ \E e \in chain : e.op = r /\ e.outcome = "KEY_NOT_FOUND"
    BY DEF DenialsRecorded
  <2>1. MarkKept(reqs[r]) /\ RefusedUnless(r, Holders) /\ RecordedInTurn(r) /\ DenialsTrue
    BY <1>3 DEF DenialsConsistent
  <2>2. r \in Holders => HoldsClass(r)
    BY DEF Holders, Holds, HoldsClass
  <2>3. DeniedEvent(r).type = "denied" /\ DeniedEvent(r).op = r
    BY DEF DeniedEvent
  <2>4. ASSUME Answered(r), reqs[r].out = "KEY_NOT_FOUND", keys[reqs[r].kid] # None,
               ~IssuedHere(reqs[r].kid), ~HoldsClass(r)
        PROVE  DeniedEvent(r) \in chain
    BY <2>1, <2>2, <2>4 DEF Answered, RefusedUnless, NotFound, Concluded, NotThen, RecordedInTurn
  <2>5. ASSUME DeniedEvent(r) \in chain
        PROVE  /\ issued[reqs[r].kid] # None
               /\ \E e \in chain : e.op = r /\ e.outcome = "KEY_NOT_FOUND"
    BY <2>1, <2>3, <2>5 DEF DenialsTrue, MarkKept
  <2> QED
    BY <2>4, <2>5
<1> QED
  BY <1>1, <1>2, <1>3, PTL DEF Spec
=============================================================================
