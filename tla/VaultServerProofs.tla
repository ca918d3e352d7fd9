------------------------- MODULE VaultServerProofs -------------------------
(* Theorems about VaultServer, for any users, keys, requests, tokens, KEKs, *)
(* clocks and number of crashes: HandlersConsistent is an inductive         *)
(* invariant, a success is never sent before its record is in the chain,    *)
(* and the server implements VaultPromise: initial states map to initial    *)
(* states, and every step from a consistent state to one step of the        *)
(* promise or to none.  Then what the promise implies for the tables and    *)
(* the chain: of concurrent revocations of a key, or inserts of one, a      *)
(* single request is recorded as successful, whatever queries failed, and a *)
(* kid never names a second key.  Most of it is an invariant of the promise *)
(* that the refinement carries over; only who is named in a record has to   *)
(* be followed in the server.                                               *)
EXTENDS VaultServer, TLAPS

-----------------------------------------------------------------------------
(* The operators the handlers are built from                                *)

(* A token lookup yields a user record or nothing.                          *)
LEMMA UserByTokenHashType ==
  ASSUME users \in UserTable, NEW t
  PROVE  UserByTokenHash(t) \in AuthUser \cup {None}
<1> DEFINE holders == {u \in UserId : users[u] # None /\ users[u].token = t}
<1>1. CASE holders = {}
  BY <1>1 DEF UserByTokenHash
<1>2. CASE holders # {}
  <2> DEFINE u == CHOOSE v \in holders : TRUE
  <2>1. u \in holders
    BY <1>2
  <2>2. users[u] \in User
    BY <2>1 DEF UserTable
  <2>3. [userId |-> u, data |-> users[u].data] \in AuthUser
    BY <2>1, <2>2 DEF User, AuthUser
  <2> QED
    BY <1>2, <2>3 DEF UserByTokenHash
<1> QED
  BY <1>1, <1>2

(* Adding the caller as an owner makes an ACL of an acceptable one.         *)
LEMMA MergeSelfType ==
  ASSUME NEW acl \in RawAcl, NEW self \in UserId, ValidateAcl(MergeSelf(acl, self))
  PROVE  MergeSelf(acl, self) \in Acl
<1> DEFINE merged == MergeSelf(acl, self)
<1>1. DOMAIN merged = UserId /\ merged = [u \in UserId |-> merged[u]]
  BY DEF MergeSelf, RawAcl
<1>2. ASSUME NEW u \in UserId PROVE merged[u] \in (SUBSET OpClasses) \cup {None}
  BY DEF ValidateAcl, AclUsers
<1> QED
  BY <1>1, <1>2 DEF Acl

(* The ACL a new key starts with is an ACL.                                 *)
LEMMA InitialAclType ==
  ASSUME NEW in \in Input, NEW user \in AuthUser, NEW missing,
         in.acl # None => ValidateAcl(MergeSelf(in.acl, user.userId))
  PROVE  InitialAcl(in, user, missing) \in Acl
<1>1. user.userId \in UserId
  BY DEF AuthUser
<1>2. CASE in.acl # None
  <2>1. in.acl \in RawAcl
    BY <1>2 DEF Input
  <2> QED
    BY <1>1, <1>2, <2>1, MergeSelfType DEF InitialAcl
<1>3. CASE in.acl = None
  <2>1. {"owner"} \in SUBSET OpClasses
    BY DEF OpClasses
  <2> QED
    BY <1>3, <2>1 DEF InitialAcl, Acl
<1> QED
  BY <1>2, <1>3

(* The row of a new key is a key row.                                       *)
LEMMA NewRowType ==
  ASSUME NEW in \in Input, NEW acl \in Acl
  PROVE  NewRow(in, acl) \in KeyRow
BY KekAssumption DEF NewRow, KeyRow, Input

(* What a handler decides before its first await is an outcome or nothing;  *)
(* only a healthcheck is done there; whoever goes on has a key or an ACL in *)
(* order, as the operation needs.                                           *)
LEMMA GateDecides ==
  ASSUME NEW in \in Input, NEW user \in AuthUser, in.request \in Operations
  PROVE  /\ Gate(in, user) \in Outcomes \cup {None}
         /\ Gate(in, user) = "ok" => in.request = "healthcheck"
         /\ Gate(in, user) = None => in.request \in AuditedOps
         /\ Gate(in, user) = None /\ in.request \in KeyOps => TargetKid(in) \in Kid
         /\ Gate(in, user) = None /\ in.request = "generate-key" /\ in.acl # None
              => ValidateAcl(MergeSelf(in.acl, user.userId))
<1>1. CASE in.request = "generate-key"
  <2>1. Gate(in, user) = GateGenerate(in, user)
    BY <1>1 DEF Gate
  <2> QED
    BY <1>1, <2>1, NoAnswerAssumption
    DEF GateGenerate, Answers, Outcomes, ApiErrors, KeyOps, OpClassOf, AuditedOps, Operations
<1>2. CASE in.request # "generate-key" /\ BadData(in)
  BY <1>2, NoAnswerAssumption DEF Gate, Answers, Outcomes, ApiErrors
<1>3. CASE in.request # "generate-key" /\ ~BadData(in)
  <2>1. in.request \in AuditedOps \/ in.request = "healthcheck"
    BY DEF AuditedOps
  <2>2. in.request \in KeyOps \ TokenOps => TargetKid(in) \in Kid
    BY <1>3 DEF BadData, TargetKid, Input
  <2>3. in.request \in TokenOps /\ ResolveKid(in) # None => TargetKid(in) \in Kid
    BY DEF TargetKid, ResolveKid, Input
  <2>4. TokenOps \subseteq KeyOps
    BY DEF TokenOps, KeyOps, OpClassOf
  <2>5. in.request \in {"healthcheck", "list-keys", "export-key", "public-key",
                        "create-jwt", "create-jwe", "revoke-key"} \cup TokenOps
    BY <1>3 DEF Operations, KeyOps, OpClassOf, TokenOps
  <2> QED
    BY <1>3, <2>1, <2>2, <2>3, <2>4, <2>5, NoAnswerAssumption
    DEF Gate, Answers, Outcomes, ApiErrors, TokenOps
<1> QED
  BY <1>1, <1>2, <1>3

(* What is decided from the row is an outcome or nothing; never a success   *)
(* of a revocation.                                                         *)
LEMMA CompatibilityDecides ==
  ASSUME NEW in, NEW row
  PROVE  /\ Compatibility(in, row) \in Outcomes \cup {None}
         /\ Compatibility(in, row) = "ok" => in.request = "public-key"
BY NoAnswerAssumption DEF Compatibility, Answers, Outcomes, ApiErrors

(* Cryptography ends in an outcome.                                         *)
LEMMA CryptoOutcomesType ==
  ASSUME NEW in
  PROVE  CryptoOutcomes(in) \subseteq Outcomes
BY DEF CryptoOutcomes, Outcomes, ApiErrors

(* The records of an authenticated, audited request are events.             *)
LEMMA OpEventType ==
  ASSUME ServerTypeOK, NEW r \in Request, reqs[r].in # None, reqs[r].user # None,
         reqs[r].in.request \in AuditedOps, reqs[r].out \in Outcomes
  PROVE  OpEvent(r) \in Event
<1>1. reqs[r] \in RequestState
  BY DEF ServerTypeOK
<1>2. reqs[r].in \in Input /\ reqs[r].user.userId \in UserId
  BY <1>1, InputAssumption DEF RequestState, AuthUser
<1>3. ResultKid(reqs[r]) \in Kid \cup {None}
  BY <1>1, <1>2 DEF ResultKid, RequestState, Input
<1> QED
  BY <1>2, <1>3 DEF OpEvent, Event

(* A denied event is an event: it names a user and has no outcome.          *)
LEMMA DeniedEventType ==
  ASSUME ServerTypeOK, NEW r \in Request, reqs[r].in # None, reqs[r].user # None
  PROVE  DeniedEvent(r) \in Event
<1>1. reqs[r] \in RequestState
  BY DEF ServerTypeOK
<1>2. reqs[r].in \in Input /\ reqs[r].user.userId \in UserId
  BY <1>1, InputAssumption DEF RequestState, AuthUser
<1> QED
  BY <1>2 DEF DeniedEvent, Event, Input

-----------------------------------------------------------------------------
(* What one request's step has to show for HandlersConsistent to be kept    *)

(* Enough for a step that moves request r to state q.                       *)
LEMMA RequestStep ==
  ASSUME HandlersConsistent, NEW r \in Request, NEW q \in RequestState,
         Update(r, q), WellPlaced(q), EffectAccounted(q),
         UNCHANGED <<users, now, up, crashes>>,
         keys' \in KeyTable, issued' \in KeyTable,
         chain \subseteq chain',
         /\ q.pc \in {"deniedq", "respond", "done"} /\ q.out = "ok"
         /\ q.in.request \in AuditedOps
         => OpEvent(r)' \in chain',
         KidsNew'
  PROVE  HandlersConsistent'
<1>1. reqs \in [Request -> RequestState]
  BY DEF HandlersConsistent, ServerTypeOK
<1>2. /\ reqs' \in [Request -> RequestState]
      /\ reqs'[r] = q
      /\ \A s \in Request : s # r => reqs'[s] = reqs[s]
  BY <1>1 DEF Update
<1>3. ServerTypeOK'
  BY <1>2 DEF HandlersConsistent, ServerTypeOK, DbTypeOK
<1>4. ASSUME NEW s \in Request PROVE WellPlaced(reqs'[s]) /\ EffectAccounted(reqs'[s])
  BY <1>2 DEF HandlersConsistent
<1>5. SuccessRecorded'
  <2> SUFFICES ASSUME NEW s \in Request,
                      reqs'[s].pc \in {"deniedq", "respond", "done"},
                      reqs'[s].out = "ok", reqs'[s].in.request \in AuditedOps
               PROVE  OpEvent(s)' \in chain'
    BY DEF SuccessRecorded
  <2>1. CASE s = r
    BY <1>2, <2>1
  <2>2. CASE s # r
    <3>1. reqs'[s] = reqs[s]
      BY <1>2, <2>2
    <3>2. OpEvent(s) \in chain
      BY <3>1 DEF HandlersConsistent, SuccessRecorded
    <3>3. OpEvent(s)' = OpEvent(s)
      BY <3>1 DEF OpEvent
    <3> QED
      BY <3>2, <3>3
  <2> QED
    BY <2>1, <2>2
<1> QED
  BY <1>3, <1>4, <1>5 DEF HandlersConsistent

(* A step that changes no key keeps the kids about to be inserted new, when *)
(* it is not the one that picks a kid.                                      *)
LEMMA KidsNewKept ==
  ASSUME HandlersConsistent, NEW r \in Request, NEW q, Update(r, q),
         q.pc # "insq", UNCHANGED <<keys, issued>>
  PROVE  KidsNew'
<1>1. /\ reqs'[r] = q
      /\ \A s \in Request : s # r => reqs'[s] = reqs[s]
  BY DEF HandlersConsistent, ServerTypeOK, Update
<1> QED
  BY <1>1 DEF HandlersConsistent, KidsNew

(* Enough for a step that moves request r to state q and nothing else.      *)
LEMMA HandlerStep ==
  ASSUME HandlersConsistent, NEW r \in Request, NEW q \in RequestState,
         Update(r, q), ServerOnly, WellPlaced(q), EffectAccounted(q), q.pc # "insq",
         q.pc \in {"deniedq", "respond", "done"} /\ q.out = "ok" => q.in.request \notin AuditedOps
  PROVE  HandlersConsistent'
<1>1. KidsNew'
  BY KidsNewKept DEF ServerOnly
<1> QED
  BY <1>1, RequestStep DEF ServerOnly, HandlersConsistent, ServerTypeOK, DbTypeOK

(* A handler that is not past its write may conclude with any outcome that  *)
(* is no success of an operation that changes keys.                         *)
LEMMA ConcludeStep ==
  ASSUME HandlersConsistent, NEW r \in Request, NEW q \in RequestState, NEW out \in Outcomes,
         q.in # None, q.user # None, ~q.did,
         out = "ok" => q.in.request \notin {"generate-key", "revoke-key"},
         Update(r, Conclude(q, out)), ServerOnly
  PROVE  HandlersConsistent'
<1> DEFINE p == Conclude(q, out)
<1> DEFINE pc == IF q.in.request \in AuditedOps THEN "auditq" ELSE "respond"
<1>1. p = [q EXCEPT !.out = out, !.pc = pc]
  BY DEF Conclude
<1>2. pc \in InFlight /\ out \in Answers
  BY DEF InFlight, WriteSent, Answers
<1> HIDE DEF p, pc
<1>3. /\ p \in RequestState /\ p.in = q.in /\ p.user = q.user /\ p.out = out /\ p.did = q.did
      /\ p.pc = pc
  BY <1>1, <1>2 DEF RequestState
<1>4. WellPlaced(p)
  BY <1>3 DEF pc, WellPlaced, Handling
<1>5. EffectAccounted(p)
  BY <1>3 DEF pc, EffectAccounted
<1> QED
  BY <1>3, <1>4, <1>5, HandlerStep DEF p, pc

(* What is known of a request between two steps.                            *)
LEMMA RequestKnown ==
  ASSUME HandlersConsistent, NEW r \in Request
  PROVE  /\ reqs[r] \in RequestState
         /\ WellPlaced(reqs[r])
         /\ EffectAccounted(reqs[r])
         /\ reqs[r].in # None => reqs[r].in \in Inputs /\ reqs[r].in \in Input
         /\ reqs[r].user # None => reqs[r].user \in AuthUser /\ reqs[r].user.userId \in UserId
BY InputAssumption DEF HandlersConsistent, ServerTypeOK, RequestState, AuthUser

-----------------------------------------------------------------------------
(* One lemma per action: it keeps HandlersConsistent                        *)

(* A new request stands in the authentication query, or is refused as       *)
(* malformed; it has done nothing yet.                                      *)
LEMMA ArriveKeeps ==
  ASSUME HandlersConsistent, NEW r \in Request, Arrive(r)
  PROVE  HandlersConsistent'
<1>1. PICK in \in Inputs :
        LET q == [reqs[r] EXCEPT !.in = in, !.ended = {k \in Kid : Ended(k)}]
        IN  Update(r, IF in.shape = "malformed" THEN Reply(q, "MALFORMED_REQUEST")
                      ELSE Goto(q, "authq"))
  BY DEF Arrive
<1> DEFINE ended == {k \in Kid : Ended(k)}
           q == [reqs[r] EXCEPT !.in = in, !.ended = ended]
           p == IF in.shape = "malformed" THEN Reply(q, "MALFORMED_REQUEST") ELSE Goto(q, "authq")
<1>2. ended \subseteq Kid
  OBVIOUS
<1>3. reqs[r] \in RequestState /\ ~reqs[r].did
  BY RequestKnown DEF Arrive, EffectAccounted
<1> HIDE DEF ended
<1>4. q \in RequestState /\ ~q.did /\ q.in = in
  BY <1>2, <1>3 DEF RequestState
<1>5. /\ p \in RequestState /\ ~p.did /\ p.in = in
      /\ p.pc = "authq" \/ (p.pc = "respond" /\ p.out = "MALFORMED_REQUEST")
  <2> HIDE DEF q
  <2>1. CASE in.shape = "malformed"
    BY <1>4, <2>1 DEF RequestState, Reply, InFlight, Answers
  <2>2. CASE in.shape # "malformed"
    BY <1>4, <2>2 DEF RequestState, Goto, InFlight
  <2> QED
    BY <2>1, <2>2
<1>6. WellPlaced(p) /\ EffectAccounted(p)
  BY <1>5, NoInputAssumption DEF WellPlaced, EffectAccounted, Handling
<1>7. Update(r, p)
  BY <1>1 DEF ended
<1> QED
  BY <1>5, <1>6, <1>7, HandlerStep DEF Arrive

(* The user row, or its absence, is what the handler goes on with.          *)
LEMMA QueryUserKeeps ==
  ASSUME HandlersConsistent, NEW r \in Request, QueryUser(r)
  PROVE  HandlersConsistent'
<1> DEFINE user == UserByTokenHash(reqs[r].in.token)
           q == [reqs[r] EXCEPT !.pc = "authr", !.user = user]
<1>1. user \in AuthUser \cup {None}
  BY UserByTokenHashType DEF HandlersConsistent, ServerTypeOK, DbTypeOK
<1>2. /\ reqs[r] \in RequestState /\ reqs[r].pc = "authq" /\ ~reqs[r].did
      /\ reqs[r].in # None
  BY RequestKnown DEF QueryUser, EffectAccounted, WellPlaced
<1> HIDE DEF user
<1>3. q \in RequestState /\ q.pc = "authr" /\ q.in = reqs[r].in /\ ~q.did
  BY <1>1, <1>2 DEF RequestState, InFlight
<1>4. WellPlaced(q) /\ EffectAccounted(q)
  BY <1>2, <1>3 DEF WellPlaced, EffectAccounted, Handling
<1> QED
  BY <1>3, <1>4, HandlerStep DEF QueryUser, user

(* A request name the handler table inherits is answered at once; the name  *)
(* is not an audited operation, so its success needs no record.             *)
LEMMA DispatchInheritedKeeps ==
  ASSUME HandlersConsistent, NEW r \in Request, DispatchInherited(r)
  PROVE  HandlersConsistent'
<1>1. PICK out \in {"ok", "INTERNAL_ERROR"} : Update(r, Reply(reqs[r], out))
  BY DEF DispatchInherited
<1>2. /\ reqs[r] \in RequestState /\ reqs[r].pc = "authr" /\ ~reqs[r].did
      /\ reqs[r].in # None /\ reqs[r].in.request = "inherited"
  BY RequestKnown DEF DispatchInherited, EffectAccounted, WellPlaced
<1> DEFINE q == Reply(reqs[r], out)
<1>3. /\ q \in RequestState /\ q.pc = "respond" /\ q.in = reqs[r].in /\ ~q.did
      /\ q.in.request \notin AuditedOps
  BY <1>2 DEF Reply, RequestState, InFlight, Answers, Outcomes, ApiErrors,
              AuditedOps, Operations, KeyOps, OpClassOf
<1>4. WellPlaced(q) /\ EffectAccounted(q)
  BY <1>2, <1>3 DEF WellPlaced, EffectAccounted, Handling
<1> QED
  BY <1>1, <1>3, <1>4, HandlerStep DEF DispatchInherited

(* The refusals, and the five ways past the gate.                           *)
LEMMA DispatchKeeps ==
  ASSUME HandlersConsistent, NEW r \in Request, Dispatch(r)
  PROVE  HandlersConsistent'
<1> DEFINE q == reqs[r]
           in == q.in
           gate == Gate(in, q.user)
<1>1. /\ q \in RequestState /\ q.pc = "authr" /\ ~q.did
      /\ in # None /\ in \in Inputs /\ in \in Input
  BY RequestKnown DEF Dispatch, EffectAccounted, WellPlaced
<1>2. ServerOnly
  BY DEF Dispatch
<1>3. CASE ~Authenticated(in, q.user)
  <2> DEFINE p == Reply([q EXCEPT !.user = None], "UNAUTHORIZED")
  <2>1. Update(r, p)
    BY <1>3 DEF Dispatch
  <2>2. p \in RequestState /\ p.pc = "respond" /\ p.in = in /\ ~p.did /\ p.out = "UNAUTHORIZED"
    BY <1>1 DEF Reply, RequestState, InFlight, Answers
  <2>3. WellPlaced(p) /\ EffectAccounted(p)
    BY <1>1, <2>2 DEF WellPlaced, EffectAccounted, Handling
  <2> QED
    BY <1>2, <2>1, <2>2, <2>3, HandlerStep
<1>4. CASE Authenticated(in, q.user) /\ in.request \notin Operations
  <2> DEFINE p == Reply(q, "UNKNOWN_OPERATION")
  <2>1. Update(r, p)
    BY <1>4 DEF Dispatch
  <2>2. p \in RequestState /\ p.pc = "respond" /\ p.in = in /\ ~p.did /\ p.out = "UNKNOWN_OPERATION"
    BY <1>1 DEF Reply, RequestState, InFlight, Answers
  <2>3. WellPlaced(p) /\ EffectAccounted(p)
    BY <1>1, <2>2 DEF WellPlaced, EffectAccounted, Handling
  <2> QED
    BY <1>2, <2>1, <2>2, <2>3, HandlerStep
<1>5. CASE Authenticated(in, q.user) /\ in.request \in Operations
  <2>1. q.user # None /\ q.user \in AuthUser
    BY <1>5, RequestKnown DEF Authenticated
  <2>2. /\ gate \in Outcomes \cup {None}
        /\ gate = "ok" => in.request = "healthcheck"
        /\ gate = None => in.request \in AuditedOps
        /\ gate = None /\ in.request \in KeyOps => TargetKid(in) \in Kid
        /\ gate = None /\ in.request = "generate-key" /\ in.acl # None
             => ValidateAcl(MergeSelf(in.acl, q.user.userId))
    BY <1>1, <1>5, <2>1, GateDecides
  <2>3. CASE gate # None
    <3>1. Update(r, Conclude(q, gate))
      BY <1>5, <2>3 DEF Dispatch
    <3> HIDE DEF gate
    <3> QED
      BY <1>1, <1>2, <2>1, <2>2, <2>3, <3>1, ConcludeStep
  <2>4. CASE gate = None
    <3> DEFINE straight == in.request = "generate-key" /\ AskedUsers(in, q.user) = {}
               pc  == FirstAwait(in, q.user)
               kid == IF in.request \in KeyOps THEN TargetKid(in) ELSE None
               row == IF straight THEN NewRow(in, InitialAcl(in, q.user, {})) ELSE None
               p   == [q EXCEPT !.pc = pc, !.kid = kid, !.row = row]
    <3>1. Update(r, p)
      BY <1>5, <2>4 DEF Dispatch
    <3>2. kid \in Kid \cup {None} /\ (in.request \in KeyOps => kid # None)
      BY <2>2, <2>4, NoneAssumption
    <3>3. row \in KeyRow \cup {None} /\ (straight => row # None)
      BY <1>1, <2>1, <2>2, <2>4, InitialAclType, NewRowType, NoneAssumption
    <3>4. /\ pc \in {"listq", "gen", "missq", "keyq"}
          /\ pc = "listq" => in.request = "list-keys"
          /\ pc \in {"gen", "missq"} => in.request = "generate-key"
          /\ pc = "gen" => straight
          /\ pc = "keyq" => in.request \in KeyOps
      BY <2>2, <2>4 DEF FirstAwait, AuditedOps, Operations
    <3> HIDE DEF pc, kid, row, straight
    <3>5. /\ p \in RequestState /\ p.pc = pc /\ p.in = in /\ p.user = q.user
          /\ p.kid = kid /\ p.row = row /\ ~p.did
      <4>1. pc \in InFlight
        BY <3>4 DEF InFlight
      <4>2. q \in RequestState /\ q.in = in /\ ~q.did
        BY <1>1
      <4> HIDE DEF q, in
      <4>3. p \in RequestState
        BY <3>2, <3>3, <4>1, <4>2 DEF RequestState
      <4> QED
        BY <4>2, <4>3 DEF RequestState
    <3>6. WellPlaced(p)
      BY <1>1, <2>1, <2>2, <2>4, <3>2, <3>3, <3>4, <3>5 DEF WellPlaced, Handling
    <3>7. EffectAccounted(p)
      BY <3>4, <3>5 DEF EffectAccounted
    <3> QED
      BY <1>2, <3>1, <3>4, <3>5, <3>6, <3>7, HandlerStep
  <2> QED
    BY <2>3, <2>4
<1> QED
  BY <1>3, <1>4, <1>5

(* The key row read is a row or nothing, so the handler may authorize with  *)
(* it.                                                                      *)
LEMMA QueryKeyKeeps ==
  ASSUME HandlersConsistent, NEW r \in Request, QueryKey(r)
  PROVE  HandlersConsistent'
<1> DEFINE row == KeyById(reqs[r].kid)
           q == [reqs[r] EXCEPT !.pc = "keyr", !.row = row]
<1>1. /\ reqs[r] \in RequestState /\ reqs[r].pc = "keyq" /\ ~reqs[r].did
      /\ WellPlaced(reqs[r]) /\ reqs[r].kid \in Kid
  BY RequestKnown DEF QueryKey, EffectAccounted, WellPlaced, RequestState
<1>2. row \in KeyRow \cup {None}
  BY <1>1 DEF HandlersConsistent, ServerTypeOK, DbTypeOK, KeyTable, KeyById
<1> HIDE DEF row
<1>3. /\ q \in RequestState /\ q.pc = "keyr" /\ q.in = reqs[r].in /\ ~q.did
      /\ q.user = reqs[r].user /\ q.kid = reqs[r].kid
  BY <1>1, <1>2 DEF RequestState, InFlight
<1>4. WellPlaced(q) /\ EffectAccounted(q)
  BY <1>1, <1>3 DEF WellPlaced, EffectAccounted, Handling
<1> QED
  BY <1>3, <1>4, HandlerStep DEF QueryKey, row

(* Every verdict leaves the handler at a place that fits its operation:     *)
(* refused before any effect, deleting only for revoke-key, computing       *)
(* otherwise.                                                               *)
LEMMA AuthorizeKeeps ==
  ASSUME HandlersConsistent, NEW r \in Request, Authorize(r)
  PROVE  HandlersConsistent'
<1> DEFINE q == reqs[r]
           compat == Compatibility(q.in, q.row)
           masked == [q EXCEPT !.masked = TRUE]
<1>1. /\ q \in RequestState /\ q.pc = "keyr" /\ ~q.did
      /\ WellPlaced(q) /\ q.in # None /\ q.user # None /\ q.in.request \in KeyOps
  BY RequestKnown DEF Authorize, EffectAccounted, WellPlaced, Handling
<1>2. ServerOnly
  BY DEF Authorize
<1>3. "KEY_NOT_FOUND" \in Outcomes /\ "KEY_NOT_FOUND" # "ok"
  BY DEF Outcomes, ApiErrors
<1>4. CASE Update(r, Conclude(q, "KEY_NOT_FOUND"))
  BY <1>1, <1>2, <1>3, <1>4, ConcludeStep
<1>5. CASE Update(r, Conclude(masked, "KEY_NOT_FOUND"))
  <2>1. masked \in RequestState /\ masked.in = q.in /\ masked.user = q.user /\ ~masked.did
    BY <1>1 DEF RequestState
  <2> HIDE DEF masked
  <2> QED
    BY <1>1, <1>2, <1>3, <1>5, <2>1, ConcludeStep
<1>6. CASE compat # None /\ Update(r, Conclude(q, compat))
  <2>1. compat \in Outcomes /\ (compat = "ok" => q.in.request = "public-key")
    BY <1>6, CompatibilityDecides
  <2> HIDE DEF compat
  <2> QED
    BY <1>1, <1>2, <1>6, <2>1, ConcludeStep
<1>7. ASSUME q.row # None,
             Update(r, Goto(q, IF q.in.request = "revoke-key" THEN "delq" ELSE "crypto"))
      PROVE  HandlersConsistent'
  <2> DEFINE pc == IF q.in.request = "revoke-key" THEN "delq" ELSE "crypto"
             p  == Goto(q, pc)
  <2>1. /\ pc \in {"delq", "crypto"}
        /\ pc = "delq" <=> q.in.request = "revoke-key"
    OBVIOUS
  <2> HIDE DEF pc
  <2>2. /\ p \in RequestState /\ p.pc = pc /\ p.in = q.in /\ p.user = q.user
        /\ p.kid = q.kid /\ p.row = q.row /\ ~p.did
    BY <1>1, <2>1 DEF Goto, RequestState, InFlight, WriteSent
  <2>3. WellPlaced(p) /\ EffectAccounted(p)
    BY <1>1, <1>7, <2>1, <2>2 DEF WellPlaced, EffectAccounted, Handling
  <2> QED
    BY <1>2, <1>7, <2>1, <2>2, <2>3, HandlerStep DEF pc
<1>8. \/ Update(r, Conclude(q, "KEY_NOT_FOUND"))
      \/ Update(r, Conclude(masked, "KEY_NOT_FOUND"))
      \/ compat # None /\ Update(r, Conclude(q, compat))
      \/ /\ q.row # None
         /\ Update(r, Goto(q, IF q.in.request = "revoke-key" THEN "delq" ELSE "crypto"))
  BY DEF Authorize
<1> QED
  BY <1>4, <1>5, <1>6, <1>7, <1>8

(* Whatever the cryptography yields is an outcome of an operation that has  *)
(* no effect to account for.                                                *)
LEMMA CryptoKeeps ==
  ASSUME HandlersConsistent, NEW r \in Request, Crypto(r)
  PROVE  HandlersConsistent'
<1> DEFINE q == reqs[r]
<1>1. /\ q \in RequestState /\ q.pc = "crypto" /\ ~q.did /\ q.in # None /\ q.user # None
      /\ q.in.request \in KeyOps /\ q.in.request # "revoke-key"
  BY RequestKnown DEF Crypto, EffectAccounted, WellPlaced, Handling
<1>2. q.in.request \notin {"generate-key", "revoke-key"}
  BY <1>1 DEF KeyOps, OpClassOf
<1>3. PICK out : out \in Outcomes /\ Update(r, Conclude(q, out))
  BY CryptoOutcomesType DEF Crypto, Outcomes, ApiErrors
<1> QED
  BY <1>1, <1>2, <1>3, ConcludeStep DEF Crypto

(* After the co-owner query the row of the new key is complete.             *)
LEMMA QueryMissingKeeps ==
  ASSUME HandlersConsistent, NEW r \in Request, QueryMissing(r)
  PROVE  HandlersConsistent'
<1> DEFINE q == reqs[r]
           missing == MissingUsers(AskedUsers(q.in, q.user))
           row == NewRow(q.in, InitialAcl(q.in, q.user, missing))
           p == [q EXCEPT !.pc = "gen", !.row = row]
<1>1. /\ q \in RequestState /\ q.pc = "missq" /\ ~q.did /\ WellPlaced(q)
      /\ q.in # None /\ q.user # None /\ q.in \in Input /\ q.user \in AuthUser
  BY RequestKnown DEF QueryMissing, EffectAccounted, WellPlaced, Handling
<1>2. CASE Update(r, Conclude(q, "INVALID_ACL"))
  BY <1>1, <1>2, ConcludeStep DEF QueryMissing, Outcomes, ApiErrors
<1>3. CASE Update(r, p)
  <2>1. row \in KeyRow
    BY <1>1, InitialAclType, NewRowType DEF WellPlaced
  <2> HIDE DEF row
  <2>2. /\ p \in RequestState /\ p.pc = "gen" /\ p.in = q.in /\ p.user = q.user
        /\ p.row # None /\ ~p.did
    BY <1>1, <2>1, NoneAssumption DEF RequestState, InFlight
  <2>3. WellPlaced(p) /\ EffectAccounted(p)
    BY <1>1, <2>2 DEF WellPlaced, EffectAccounted, Handling
  <2> QED
    BY <1>3, <2>2, <2>3, HandlerStep DEF QueryMissing
<1> QED
  BY <1>2, <1>3 DEF QueryMissing

(* Drawing a kid never issued keeps the kids about to be inserted new and   *)
(* different from each other.                                               *)
LEMMA GenerateKeeps ==
  ASSUME HandlersConsistent, NEW r \in Request, Generate(r)
  PROVE  HandlersConsistent'
<1> DEFINE q == reqs[r]
<1>1. /\ q \in RequestState /\ q.pc = "gen" /\ ~q.did /\ WellPlaced(q)
      /\ q.in # None /\ q.user # None
  BY RequestKnown DEF Generate, EffectAccounted, WellPlaced, Handling
<1>2. CASE Update(r, Conclude(q, "INTERNAL_ERROR"))
  BY <1>1, <1>2, ConcludeStep DEF Generate, Outcomes, ApiErrors
<1>3. ASSUME NEW k \in Kid, FreshKid(k), Update(r, [q EXCEPT !.pc = "insq", !.kid = k])
      PROVE  HandlersConsistent'
  <2> DEFINE p == [q EXCEPT !.pc = "insq", !.kid = k]
  <2>1. /\ p \in RequestState /\ p.pc = "insq" /\ p.in = q.in /\ p.user = q.user
        /\ p.kid = k /\ p.row = q.row /\ ~p.did
    BY <1>1 DEF RequestState, InFlight, WriteSent
  <2>2. WellPlaced(p) /\ EffectAccounted(p)
    BY <1>1, <2>1, NoneAssumption DEF WellPlaced, EffectAccounted, Handling
  <2>3. /\ reqs'[r] = p
        /\ \A s \in Request : s # r => reqs'[s] = reqs[s]
    BY <1>3 DEF HandlersConsistent, ServerTypeOK, Update
  <2> HIDE DEF p
  <2>4. KidsNew'
    <3>1. keys' = keys /\ issued' = issued
      BY DEF Generate, ServerOnly
    <3>2. issued[k] = None /\ \A s \in Request : reqs[s].kid # k
      BY <1>3 DEF FreshKid
    <3> QED
      BY <2>1, <2>3, <3>1, <3>2 DEF HandlersConsistent, KidsNew
  <2> QED
    BY <1>3, <2>1, <2>2, <2>4, RequestStep
    DEF p, Generate, ServerOnly, HandlersConsistent, ServerTypeOK, DbTypeOK
<1> QED
  BY <1>2, <1>3 DEF Generate

(* The rows listed are key rows.                                            *)
LEMMA QueryListKeeps ==
  ASSUME HandlersConsistent, NEW r \in Request, QueryList(r)
  PROVE  HandlersConsistent'
<1> DEFINE q == reqs[r]
           rows == {<<k, keys[k]>> : k \in KeysByAclUser(q.user.userId)}
           p == [q EXCEPT !.pc = "listr", !.listed = rows]
<1>1. q \in RequestState /\ q.pc = "listq" /\ ~q.did /\ WellPlaced(q)
  BY RequestKnown DEF QueryList, EffectAccounted, WellPlaced
<1>2. rows \subseteq Kid \X KeyRow
  BY DEF HandlersConsistent, ServerTypeOK, DbTypeOK, KeyTable, KeysByAclUser
<1> HIDE DEF rows
<1>3. /\ p \in RequestState /\ p.pc = "listr" /\ p.in = q.in /\ p.user = q.user /\ ~p.did
  BY <1>1, <1>2 DEF RequestState, InFlight
<1>4. WellPlaced(p) /\ EffectAccounted(p)
  BY <1>1, <1>3 DEF WellPlaced, EffectAccounted, Handling
<1> QED
  BY <1>3, <1>4, HandlerStep DEF QueryList, rows

(* Listing has no effect and ends with an outcome.                          *)
LEMMA FilterListKeeps ==
  ASSUME HandlersConsistent, NEW r \in Request, FilterList(r)
  PROVE  HandlersConsistent'
<1> DEFINE q == reqs[r]
           visible(row) == /\ InWindow(row)
                           /\ EffectiveAny(q.user.data.allowedOps, row.acl, q.user.userId)
           rows == {kr \in q.listed : visible(kr[2])}
           p == [q EXCEPT !.listed = rows]
<1>1. /\ q \in RequestState /\ q.pc = "listr" /\ ~q.did /\ q.in # None /\ q.user # None
      /\ q.in.request = "list-keys"
  BY RequestKnown DEF FilterList, EffectAccounted, WellPlaced, Handling
<1>2. rows \subseteq q.listed
  OBVIOUS
<1>3. Update(r, Conclude(p, "ok")) /\ ServerOnly
  BY DEF FilterList
<1> HIDE DEF rows
<1>4. p \in RequestState /\ p.in = q.in /\ p.user = q.user /\ ~p.did
  BY <1>1, <1>2 DEF RequestState
<1> HIDE DEF p
<1> QED
  BY <1>1, <1>3, <1>4, ConcludeStep DEF Outcomes

(* A failed read comes before any effect, so it may be answered as an       *)
(* internal error.                                                          *)
LEMMA ReadFailsKeeps ==
  ASSUME HandlersConsistent, NEW r \in Request, ReadFails(r)
  PROVE  HandlersConsistent'
<1> DEFINE q == reqs[r]
<1>1. /\ q \in RequestState /\ q.pc \in {"authq", "keyq", "missq", "listq"} /\ ~q.did
      /\ q.in # None /\ WellPlaced(q)
  BY RequestKnown DEF ReadFails, EffectAccounted, WellPlaced
<1>2. "INTERNAL_ERROR" \in Outcomes /\ "INTERNAL_ERROR" # "ok"
  BY DEF Outcomes, ApiErrors
<1>3. ServerOnly
  BY DEF ReadFails
<1>4. CASE q.pc = "authq" /\ Update(r, Reply(q, "INTERNAL_ERROR"))
  <2> DEFINE p == Reply(q, "INTERNAL_ERROR")
  <2>1. /\ p \in RequestState /\ p.pc = "respond" /\ p.in = q.in /\ ~p.did
        /\ p.out = "INTERNAL_ERROR"
    BY <1>1, <1>2 DEF Reply, RequestState, InFlight, Answers
  <2>2. WellPlaced(p) /\ EffectAccounted(p)
    BY <1>1, <2>1 DEF WellPlaced, EffectAccounted, Handling
  <2> QED
    BY <1>2, <1>3, <1>4, <2>1, <2>2, HandlerStep
<1>5. CASE q.pc # "authq" /\ Update(r, Conclude(q, "INTERNAL_ERROR"))
  <2>1. q.user # None
    BY <1>1, <1>5 DEF WellPlaced, Handling
  <2> QED
    BY <1>1, <1>2, <1>3, <1>5, <2>1, ConcludeStep
<1> QED
  BY <1>4, <1>5 DEF ReadFails

(* The handler of a write resumes, unless its process has died.             *)
LEMMA ResumedWrite ==
  ASSUME NEW q \in RequestState, NEW out \in Outcomes, WellPlaced(q), q.kid # None,
         q.pc \in {"insq", "delq"}, out = "ok" => q.did
  PROVE  LET p == Resume(q, Conclude(q, out)) IN
         /\ p \in RequestState /\ WellPlaced(p) /\ EffectAccounted(p)
         /\ p.pc \in {"auditq", "lost"}
         /\ p.in = q.in /\ p.kid = q.kid /\ p.did = q.did
<1> DEFINE p == Resume(q, Conclude(q, out))
<1>1. /\ q.in # None /\ q.user # None
      /\ q.in.request \in AuditedOps /\ q.in.request \in {"generate-key", "revoke-key"}
  BY DEF WellPlaced, Handling
<1>2. CASE q.alive
  <2>1. p = [q EXCEPT !.out = out, !.pc = "auditq"]
    BY <1>1, <1>2 DEF Resume, Conclude
  <2>2. /\ p \in RequestState /\ p.pc = "auditq" /\ p.in = q.in /\ p.kid = q.kid
        /\ p.did = q.did /\ p.user = q.user /\ p.out = out
    BY <2>1 DEF RequestState, InFlight, WriteSent, Answers
  <2> HIDE DEF p
  <2> QED
    BY <1>1, <2>2 DEF p, WellPlaced, EffectAccounted, Handling
<1>3. CASE ~q.alive
  <2>1. p = [q EXCEPT !.pc = "lost"]
    BY <1>3 DEF Resume
  <2>2. /\ p \in RequestState /\ p.pc = "lost" /\ p.in = q.in /\ p.kid = q.kid
        /\ p.did = q.did
    BY <2>1 DEF RequestState, Finished
  <2> HIDE DEF p
  <2> QED
    BY <1>1, <2>2 DEF p, WellPlaced, EffectAccounted, Handling
<1> QED
  BY <1>2, <1>3

(* The tables after an INSERT and after a DELETE.                           *)
LEMMA InsertKeyTables ==
  ASSUME ServerTypeOK, NEW k \in Kid, NEW row \in KeyRow, InsertKey(k, row)
  PROVE  /\ keys' \in KeyTable /\ issued' \in KeyTable
         /\ keys'[k] = row /\ issued'[k] = row
         /\ \A j \in Kid : j # k => keys'[j] = keys[j] /\ issued'[j] = issued[j]
BY DEF ServerTypeOK, DbTypeOK, KeyTable, InsertKey

(* Deleting rows leaves a key table and forgets none of the kids ever       *)
(* issued.                                                                  *)
LEMMA DeleteKeysTables ==
  ASSUME ServerTypeOK, NEW K, DeleteKeys(K)
  PROVE  /\ keys' \in KeyTable /\ issued' = issued /\ issued' \in KeyTable
         /\ \A k \in Kid : keys'[k] = IF k \in K THEN None ELSE keys[k]
BY DEF ServerTypeOK, DbTypeOK, KeyTable, DeleteKeys

(* A DELETE leaves the kids about to be inserted new.                       *)
LEMMA KidsNewAfterDelete ==
  ASSUME HandlersConsistent, NEW r \in Request, NEW q, Update(r, q), q.pc # "insq",
         NEW K, DeleteKeys(K)
  PROVE  KidsNew'
<1>1. /\ reqs'[r] = q
      /\ \A s \in Request : s # r => reqs'[s] = reqs[s]
  BY DEF HandlersConsistent, ServerTypeOK, Update
<1>2. issued' = issued /\ \A k \in Kid : keys'[k] # None => keys[k] # None
  BY DeleteKeysTables DEF HandlersConsistent
<1> QED
  BY <1>1, <1>2 DEF HandlersConsistent, KidsNew

(* An INSERT leaves the other kids about to be inserted new.                *)
LEMMA KidsNewAfterInsert ==
  ASSUME HandlersConsistent, NEW r \in Request, NEW q, Update(r, q), q.pc # "insq",
         reqs[r].pc = "insq", reqs[r].kid \in Kid, reqs[r].row \in KeyRow,
         InsertKey(reqs[r].kid, reqs[r].row)
  PROVE  KidsNew'
<1>1. /\ reqs'[r] = q
      /\ \A s \in Request : s # r => reqs'[s] = reqs[s]
  BY DEF HandlersConsistent, ServerTypeOK, Update
<1>2. /\ keys'[reqs[r].kid] = reqs[r].row /\ issued'[reqs[r].kid] = reqs[r].row
      /\ \A j \in Kid : j # reqs[r].kid => keys'[j] = keys[j] /\ issued'[j] = issued[j]
  BY InsertKeyTables DEF HandlersConsistent
<1>3. \A s \in Request : reqs[s].pc = "insq" => reqs[s].kid \in Kid
  BY RequestKnown DEF WellPlaced, RequestState
<1> QED
  BY <1>1, <1>2, <1>3, NoneAssumption DEF HandlersConsistent, KidsNew

(* A deletion is accounted for: the handler that deleted knows it and goes  *)
(* on to the audit append.                                                  *)
LEMMA DeleteKeyKeeps ==
  ASSUME HandlersConsistent, NEW r \in Request, DeleteKey(r)
  PROVE  HandlersConsistent'
<1> DEFINE deleted == keys[reqs[r].kid] # None
           q == [reqs[r] EXCEPT !.did = deleted]
           out == IF q.did THEN "ok" ELSE "KEY_NOT_FOUND"
           p == Resume(q, Conclude(q, out))
<1>1. reqs[r] \in RequestState /\ reqs[r].pc = "delq" /\ WellPlaced(reqs[r])
  BY RequestKnown DEF DeleteKey
<1>2. deleted \in BOOLEAN
  OBVIOUS
<1>3. Update(r, p) /\ DeleteKeys({q.kid}) /\ UNCHANGED <<users, chain, now, up, crashes>>
  BY DEF DeleteKey
<1> HIDE DEF deleted
<1>4. /\ q \in RequestState /\ q.pc = "delq" /\ q.in = reqs[r].in /\ q.kid = reqs[r].kid
      /\ q.user = reqs[r].user /\ q.row = reqs[r].row
  BY <1>1, <1>2 DEF RequestState
<1>5. WellPlaced(q) /\ q.kid # None
  BY <1>1, <1>4 DEF WellPlaced, Handling
<1>6. out \in Outcomes /\ (out = "ok" => q.did)
  BY DEF Outcomes, ApiErrors
<1> HIDE DEF q, out
<1>7. p \in RequestState /\ WellPlaced(p) /\ EffectAccounted(p) /\ p.pc \in {"auditq", "lost"}
  BY <1>4, <1>5, <1>6, ResumedWrite
<1> HIDE DEF p
<1>8. KidsNew'
  BY <1>3, <1>7, KidsNewAfterDelete
<1>9. keys' \in KeyTable /\ issued' \in KeyTable
  BY <1>3, DeleteKeysTables DEF HandlersConsistent
<1> QED
  BY <1>3, <1>7, <1>8, <1>9, RequestStep DEF HandlersConsistent, ServerTypeOK

(* The insert takes one new kid; the other handlers' kids stay new.         *)
LEMMA InsertNewKeyKeeps ==
  ASSUME HandlersConsistent, NEW r \in Request, InsertNewKey(r)
  PROVE  HandlersConsistent'
<1> DEFINE q == [reqs[r] EXCEPT !.did = TRUE]
           p == Resume(q, Conclude(q, "ok"))
<1>1. /\ reqs[r] \in RequestState /\ reqs[r].pc = "insq" /\ WellPlaced(reqs[r])
      /\ reqs[r].kid \in Kid /\ reqs[r].row \in KeyRow
  BY RequestKnown DEF InsertNewKey, WellPlaced, RequestState
<1>2. /\ q \in RequestState /\ q.pc = "insq" /\ q.in = reqs[r].in /\ q.kid = reqs[r].kid
      /\ q.user = reqs[r].user /\ q.row = reqs[r].row /\ q.did
  BY <1>1 DEF RequestState
<1>3. /\ Update(r, p) /\ InsertKey(reqs[r].kid, reqs[r].row)
      /\ UNCHANGED <<users, chain, now, up, crashes>>
  BY <1>2 DEF InsertNewKey
<1>4. WellPlaced(q) /\ q.kid # None
  BY <1>1, <1>2 DEF WellPlaced, Handling
<1> HIDE DEF q
<1>5. p \in RequestState /\ WellPlaced(p) /\ EffectAccounted(p) /\ p.pc \in {"auditq", "lost"}
  BY <1>2, <1>4, ResumedWrite DEF Outcomes
<1> HIDE DEF p
<1>6. KidsNew'
  BY <1>1, <1>3, <1>5, KidsNewAfterInsert
<1>7. keys' \in KeyTable /\ issued' \in KeyTable
  BY <1>1, <1>3, InsertKeyTables DEF HandlersConsistent
<1> QED
  BY <1>3, <1>5, <1>6, <1>7, RequestStep DEF HandlersConsistent, ServerTypeOK

(* The write failed, or it took effect and only its reply is lost.          *)
LEMMA WriteFailsKeeps ==
  ASSUME HandlersConsistent, NEW r \in Request, WriteFails(r)
  PROVE  HandlersConsistent'
<1> DEFINE q == reqs[r]
           done == [q EXCEPT !.did = TRUE]
<1>1. /\ q \in RequestState /\ q.pc \in {"insq", "delq"} /\ WellPlaced(q)
      /\ q.kid \in Kid /\ q.row \in KeyRow /\ q.kid # None
  BY RequestKnown DEF WriteFails, WellPlaced, RequestState
<1>2. UNCHANGED <<users, chain, now, up, crashes>>
  BY DEF WriteFails
<1>3. "INTERNAL_ERROR" \in Outcomes /\ "INTERNAL_ERROR" # "ok"
  BY DEF Outcomes, ApiErrors
<1>4. CASE Update(r, Resume(q, Conclude(q, "INTERNAL_ERROR"))) /\ UNCHANGED <<keys, issued>>
  <2> DEFINE p == Resume(q, Conclude(q, "INTERNAL_ERROR"))
  <2>1. p \in RequestState /\ WellPlaced(p) /\ EffectAccounted(p) /\ p.pc \in {"auditq", "lost"}
    BY <1>1, <1>3, ResumedWrite
  <2> HIDE DEF p
  <2>2. KidsNew'
    BY <1>4, <2>1, KidsNewKept DEF p
  <2> QED
    BY <1>2, <1>4, <2>1, <2>2, RequestStep DEF p, HandlersConsistent, ServerTypeOK, DbTypeOK
<1>5. CASE /\ IF q.pc = "insq" THEN InsertKey(q.kid, q.row)
              ELSE keys[q.kid] # None /\ DeleteKeys({q.kid})
           /\ Update(r, Resume(done, Conclude(done, "INTERNAL_ERROR")))
  <2> DEFINE p == Resume(done, Conclude(done, "INTERNAL_ERROR"))
  <2>1. /\ done \in RequestState /\ done.pc = q.pc /\ done.in = q.in /\ done.kid = q.kid
        /\ done.user = q.user /\ done.row = q.row /\ done.did
    BY <1>1 DEF RequestState
  <2>2. WellPlaced(done)
    BY <1>1, <2>1 DEF WellPlaced, Handling
  <2> HIDE DEF done
  <2>3. p \in RequestState /\ WellPlaced(p) /\ EffectAccounted(p) /\ p.pc \in {"auditq", "lost"}
    BY <1>1, <1>3, <2>1, <2>2, ResumedWrite
  <2> HIDE DEF p
  <2>4. Update(r, p)
    BY <1>5 DEF p
  <2>5. KidsNew' /\ keys' \in KeyTable /\ issued' \in KeyTable
    <3>1. CASE q.pc = "insq"
      BY <1>1, <1>5, <2>3, <2>4, <3>1, KidsNewAfterInsert, InsertKeyTables DEF HandlersConsistent
    <3>2. CASE q.pc # "insq"
      BY <1>1, <1>5, <2>3, <2>4, <3>2, KidsNewAfterDelete, DeleteKeysTables DEF HandlersConsistent
    <3> QED
      BY <3>1, <3>2
  <2> QED
    BY <1>2, <2>3, <2>4, <2>5, RequestStep DEF HandlersConsistent, ServerTypeOK
<1>6. \/ Update(r, Resume(q, Conclude(q, "INTERNAL_ERROR"))) /\ UNCHANGED <<keys, issued>>
      \/ /\ IF q.pc = "insq" THEN InsertKey(q.kid, q.row)
            ELSE keys[q.kid] # None /\ DeleteKeys({q.kid})
         /\ Update(r, Resume(done, Conclude(done, "INTERNAL_ERROR")))
  BY DEF WriteFails
<1> QED
  BY <1>4, <1>5, <1>6

(* A record depends on what the request asked and how it ended only.        *)
LEMMA OpEventKept ==
  ASSUME NEW r \in Request, reqs'[r].in = reqs[r].in, reqs'[r].user = reqs[r].user,
         reqs'[r].kid = reqs[r].kid, reqs'[r].out = reqs[r].out
  PROVE  OpEvent(r)' = OpEvent(r)
BY DEF OpEvent, ResultKid

(* Once the record is in the chain the success may leave.                   *)
LEMMA AppendAuditKeeps ==
  ASSUME HandlersConsistent, NEW r \in Request, AppendAudit(r)
  PROVE  HandlersConsistent'
<1> DEFINE q == reqs[r]
           p == Resume(q, AfterAppend(q))
<1>1. /\ q \in RequestState /\ q.pc = "auditq" /\ WellPlaced(q) /\ EffectAccounted(q)
      /\ q.in # None /\ q.user # None /\ q.in.request \in AuditedOps /\ q.out \in Outcomes
  BY RequestKnown DEF AppendAudit, WellPlaced, Handling
<1>2. Update(r, p) /\ AppendEvent(OpEvent(r)) /\ UNCHANGED <<users, keys, now, issued, up, crashes>>
  BY DEF AppendAudit
<1>3. /\ p \in RequestState /\ p.pc \in {"deniedq", "respond", "lost"} /\ p.in = q.in
      /\ p.user = q.user /\ p.kid = q.kid /\ p.out = q.out /\ p.did = q.did
  BY <1>1 DEF Resume, AfterAppend, Goto, RequestState, InFlight, WriteSent, Finished
<1> HIDE DEF p
<1>4. WellPlaced(p) /\ EffectAccounted(p)
  BY <1>1, <1>3 DEF WellPlaced, EffectAccounted, Handling
<1>5. chain' = chain \cup {OpEvent(r)}
  BY <1>2 DEF AppendEvent
<1>6. OpEvent(r)' \in chain'
  <2>1. reqs'[r] = p
    BY <1>2 DEF HandlersConsistent, ServerTypeOK, Update
  <2> QED
    BY <1>3, <1>5, <2>1, OpEventKept
<1>7. KidsNew'
  BY <1>2, <1>3, KidsNewKept
<1> QED
  BY <1>2, <1>3, <1>4, <1>5, <1>6, <1>7, RequestStep DEF HandlersConsistent, ServerTypeOK, DbTypeOK

(* The denied event is appended only for a refusal, after the operation's   *)
(* own record.                                                              *)
LEMMA AppendDeniedKeeps ==
  ASSUME HandlersConsistent, NEW r \in Request, AppendDenied(r)
  PROVE  HandlersConsistent'
<1> DEFINE q == reqs[r]
           p == Resume(q, Goto(q, "respond"))
<1>1. /\ q \in RequestState /\ q.pc = "deniedq" /\ WellPlaced(q) /\ EffectAccounted(q)
      /\ q.in # None /\ q.user # None /\ q.in.request \in AuditedOps
  BY RequestKnown DEF AppendDenied, WellPlaced, Handling
<1>2. Update(r, p) /\ AppendEvent(DeniedEvent(r)) /\ UNCHANGED <<users, keys, now, issued, up, crashes>>
  BY DEF AppendDenied
<1>3. /\ p \in RequestState /\ p.pc \in {"respond", "lost"} /\ p.in = q.in
      /\ p.user = q.user /\ p.kid = q.kid /\ p.out = q.out /\ p.did = q.did
  BY <1>1 DEF Resume, Goto, RequestState, InFlight, Finished
<1> HIDE DEF p
<1>4. WellPlaced(p) /\ EffectAccounted(p)
  BY <1>1, <1>3 DEF WellPlaced, EffectAccounted, Handling
<1>5. chain' = chain \cup {DeniedEvent(r)}
  BY <1>2 DEF AppendEvent
<1>6. ASSUME p.out = "ok" PROVE OpEvent(r)' \in chain'
  <2>1. reqs'[r] = p
    BY <1>2 DEF HandlersConsistent, ServerTypeOK, Update
  <2>2. OpEvent(r) \in chain
    BY <1>1, <1>3, <1>6 DEF HandlersConsistent, SuccessRecorded
  <2> QED
    BY <1>3, <1>5, <2>1, <2>2, OpEventKept
<1>7. KidsNew'
  BY <1>2, <1>3, KidsNewKept
<1> QED
  BY <1>2, <1>3, <1>4, <1>5, <1>6, <1>7, RequestStep DEF HandlersConsistent, ServerTypeOK, DbTypeOK

(* A failed append takes the success back, so no success lacks its record.  *)
LEMMA AppendFailsKeeps ==
  ASSUME HandlersConsistent, NEW r \in Request, AppendFails(r)
  PROVE  HandlersConsistent'
<1> DEFINE q == reqs[r]
           p == Resume(q, AppendFailure(q))
<1>1. /\ q \in RequestState /\ q.pc \in {"auditq", "deniedq"} /\ WellPlaced(q)
      /\ EffectAccounted(q) /\ q.in # None /\ q.user # None
      /\ q.in.request \in AuditedOps /\ q.out \in Outcomes
  BY RequestKnown DEF AppendFails, WellPlaced, Handling
<1>2. Update(r, p) /\ UNCHANGED <<users, keys, now, issued, up, crashes>>
  BY DEF AppendFails
<1>3. /\ p \in RequestState /\ p.in = q.in /\ p.kid = q.kid /\ p.did = q.did
      /\ p.pc = "lost" \/ (p.pc = "respond" /\ p.out = "INTERNAL_ERROR")
  BY <1>1 DEF Resume, AppendFailure, Reply, RequestState, InFlight, Finished, Answers, Outcomes, ApiErrors
<1> HIDE DEF p
<1>4. WellPlaced(p) /\ EffectAccounted(p)
  BY <1>1, <1>3 DEF WellPlaced, EffectAccounted, Handling
<1>5. chain \subseteq chain'
  BY DEF AppendFails, AppendEvent
<1>6. KidsNew'
  BY <1>2, <1>3, KidsNewKept
<1> QED
  BY <1>2, <1>3, <1>4, <1>5, <1>6, RequestStep DEF HandlersConsistent, ServerTypeOK, DbTypeOK

(* An answered request keeps its outcome and whether it took effect.        *)
LEMMA RespondKeeps ==
  ASSUME HandlersConsistent, NEW r \in Request, Respond(r)
  PROVE  HandlersConsistent'
<1> DEFINE q == reqs[r]
           p == Discard(q, "done")
<1>1. /\ q \in RequestState /\ q.pc = "respond" /\ WellPlaced(q) /\ EffectAccounted(q)
      /\ q.in # None
  BY RequestKnown DEF Respond, WellPlaced
<1>2. Update(r, p) /\ ServerOnly
  BY DEF Respond
<1>3. /\ p \in RequestState /\ p.pc = "done" /\ p.in = q.in
      /\ p.user = q.user /\ p.kid = q.kid /\ p.out = q.out /\ p.did = q.did
  BY <1>1 DEF Discard, RequestState, Finished
<1> HIDE DEF p
<1>4. WellPlaced(p) /\ EffectAccounted(p)
  BY <1>1, <1>3 DEF WellPlaced, EffectAccounted, Handling
<1>5. ASSUME p.out = "ok", p.in.request \in AuditedOps PROVE OpEvent(r)' \in chain'
  <2>1. reqs'[r] = p
    BY <1>2 DEF HandlersConsistent, ServerTypeOK, Update
  <2>2. OpEvent(r) \in chain
    BY <1>1, <1>3, <1>5 DEF HandlersConsistent, SuccessRecorded
  <2> QED
    BY <1>2, <1>3, <2>1, <2>2, OpEventKept DEF ServerOnly
<1>6. KidsNew'
  BY <1>2, <1>3, KidsNewKept DEF ServerOnly
<1> QED
  BY <1>2, <1>3, <1>4, <1>5, <1>6, RequestStep DEF HandlersConsistent, ServerTypeOK, DbTypeOK, ServerOnly

(* A sweep, at boot or on the timer, leaves the requests alone.             *)
LEMMA SweepKeeps ==
  ASSUME HandlersConsistent, DeleteKeys(Sweepable), UNCHANGED <<users, chain, now, reqs, crashes>>,
         up' \in BOOLEAN
  PROVE  HandlersConsistent'
<1>1. /\ keys' \in KeyTable /\ issued' = issued /\ issued' \in KeyTable
      /\ \A k \in Kid : keys'[k] # None => keys[k] # None
  BY DeleteKeysTables DEF HandlersConsistent
<1>2. ServerTypeOK'
  BY <1>1 DEF HandlersConsistent, ServerTypeOK, DbTypeOK
<1>3. SuccessRecorded'
  BY DEF HandlersConsistent, SuccessRecorded, OpEvent
<1>4. KidsNew'
  BY <1>1 DEF HandlersConsistent, KidsNew
<1> QED
  BY <1>2, <1>3, <1>4 DEF HandlersConsistent

(* A crash loses the handlers; statements already sent to the database may  *)
(* still run, and they stay accounted for.                                  *)
LEMMA CrashKeeps ==
  ASSUME HandlersConsistent, Crash
  PROVE  HandlersConsistent'
<1>1. ASSUME NEW r \in Request
      PROVE  /\ reqs'[r] \in RequestState /\ WellPlaced(reqs'[r]) /\ EffectAccounted(reqs'[r])
             /\ reqs'[r].pc \in {"deniedq", "respond", "done", "insq"} =>
                  /\ reqs'[r].pc = reqs[r].pc /\ reqs'[r].in = reqs[r].in
                  /\ reqs'[r].user = reqs[r].user /\ reqs'[r].kid = reqs[r].kid
                  /\ reqs'[r].out = reqs[r].out
  <2> DEFINE q == reqs[r]
  <2>1. q \in RequestState /\ WellPlaced(q) /\ EffectAccounted(q)
    BY RequestKnown
  <2>2. reqs'[r] = IF q.pc \in WriteSent THEN [q EXCEPT !.alive = FALSE]
                   ELSE IF q.pc \in InFlight THEN Discard(q, "lost") ELSE q
    BY DEF Crash
  <2>3. CASE q.pc \in WriteSent
    <3>1. reqs'[r] = [q EXCEPT !.alive = FALSE]
      BY <2>2, <2>3
    <3>2. /\ reqs'[r] \in RequestState /\ reqs'[r].pc = q.pc /\ reqs'[r].in = q.in
          /\ reqs'[r].user = q.user /\ reqs'[r].kid = q.kid /\ reqs'[r].out = q.out
          /\ reqs'[r].row = q.row /\ reqs'[r].did = q.did
      BY <2>1, <3>1 DEF RequestState
    <3> QED
      BY <2>1, <3>2 DEF WellPlaced, EffectAccounted
  <2>4. CASE q.pc \notin WriteSent /\ q.pc \in InFlight
    <3>1. reqs'[r] = [q EXCEPT !.pc = "lost", !.row = None]
      BY <2>2, <2>4 DEF Discard
    <3>2. /\ reqs'[r] \in RequestState /\ reqs'[r].pc = "lost" /\ reqs'[r].in = q.in
          /\ reqs'[r].kid = q.kid /\ reqs'[r].did = q.did
      BY <2>1, <3>1 DEF RequestState, Finished
    <3>3. q.in # None
      BY <2>1, <2>4 DEF WellPlaced, InFlight, WriteSent
    <3> QED
      BY <2>1, <3>2, <3>3 DEF WellPlaced, EffectAccounted, Handling
  <2>5. CASE q.pc \notin WriteSent /\ q.pc \notin InFlight
    BY <2>1, <2>2, <2>5
  <2> QED
    BY <2>3, <2>4, <2>5
<1>2. DOMAIN reqs' = Request /\ reqs' = [r \in Request |-> reqs'[r]]
  BY DEF Crash
<1>3. ServerTypeOK'
  <2>1. reqs' \in [Request -> RequestState]
    BY <1>1, <1>2
  <2>2. crashes' \in 0..MaxCrashes
    BY ServerAssumption DEF HandlersConsistent, ServerTypeOK, Crash
  <2> QED
    BY <2>1, <2>2 DEF HandlersConsistent, ServerTypeOK, DbTypeOK, Crash, dbVars
<1>4. SuccessRecorded'
  <2> SUFFICES ASSUME NEW r \in Request,
                      reqs'[r].pc \in {"deniedq", "respond", "done"},
                      reqs'[r].out = "ok", reqs'[r].in.request \in AuditedOps
               PROVE  OpEvent(r)' \in chain'
    BY DEF SuccessRecorded
  <2>1. OpEvent(r) \in chain
    BY <1>1 DEF HandlersConsistent, SuccessRecorded
  <2>2. OpEvent(r)' = OpEvent(r)
    BY <1>1, OpEventKept
  <2> QED
    BY <2>1, <2>2 DEF Crash, dbVars
<1>5. KidsNew'
  <2>1. keys' = keys /\ issued' = issued
    BY DEF Crash, dbVars
  <2> QED
    BY <1>1, <2>1 DEF HandlersConsistent, KidsNew
<1> QED
  BY <1>1, <1>3, <1>4, <1>5 DEF HandlersConsistent

(* A step that changes nothing but the clock.                               *)
LEMMA ClockKeeps ==
  ASSUME HandlersConsistent, now' \in 0..MaxTime,
         UNCHANGED <<users, keys, chain, issued, reqs, up, crashes>>
  PROVE  HandlersConsistent'
BY DEF HandlersConsistent, ServerTypeOK, DbTypeOK, SuccessRecorded, OpEvent, KidsNew

-----------------------------------------------------------------------------
(* HandlersConsistent is inductive                                          *)

(* At the start no request is in flight, and any starting tables do.        *)
LEMMA InitiallyConsistent == Init => HandlersConsistent
<1> SUFFICES ASSUME Init PROVE HandlersConsistent
  OBVIOUS
<1>1. IdleRequest \in RequestState
  BY DEF IdleRequest, RequestState
<1>2. ServerTypeOK
  BY <1>1, TableAssumption, TimeAssumption, ServerAssumption
  DEF Init, DbInit, ServerTypeOK, DbTypeOK
<1>3. \A r \in Request : reqs[r] = IdleRequest
  BY DEF Init
<1>4. ASSUME NEW r \in Request PROVE WellPlaced(reqs[r]) /\ EffectAccounted(reqs[r])
  BY <1>3 DEF IdleRequest, WellPlaced, EffectAccounted, Handling
<1>5. SuccessRecorded
  BY <1>3 DEF IdleRequest, SuccessRecorded
<1>6. KidsNew
  <2>1. \A r \in Request : reqs[r].pc # "insq"
    BY <1>3 DEF IdleRequest
  <2>2. issued = keys
    BY DEF Init, DbInit
  <2> QED
    BY <2>1, <2>2 DEF KidsNew
<1> QED
  BY <1>2, <1>4, <1>5, <1>6 DEF HandlersConsistent

(* Every step of the server keeps HandlersConsistent: one lemma per action. *)
LEMMA StepKeepsConsistent == HandlersConsistent /\ [Next]_vars => HandlersConsistent'
<1> SUFFICES ASSUME HandlersConsistent, [Next]_vars PROVE HandlersConsistent'
  OBVIOUS
<1>1. ASSUME NEW r \in Request, Arrive(r) PROVE HandlersConsistent'
  BY <1>1, ArriveKeeps
<1>2. ASSUME NEW r \in Request, Handle(r) PROVE HandlersConsistent'
  BY <1>2, QueryUserKeeps, DispatchKeeps, DispatchInheritedKeeps, QueryKeyKeeps,
     AuthorizeKeeps, CryptoKeeps, DeleteKeyKeeps, QueryMissingKeeps, GenerateKeeps,
     InsertNewKeyKeeps, QueryListKeeps, FilterListKeeps, ReadFailsKeeps, WriteFailsKeeps,
     AppendAuditKeeps, AppendDeniedKeeps, AppendFailsKeeps, RespondKeeps DEF Handle
<1>3. CASE Sweep
  BY <1>3, SweepKeeps DEF Sweep, serverVars, HandlersConsistent, ServerTypeOK
<1>4. CASE Start
  BY <1>4, SweepKeeps DEF Start
<1>5. CASE Crash
  BY <1>5, CrashKeeps
<1>6. CASE Tick /\ UNCHANGED serverVars
  <2>1. now' \in 0..MaxTime
    BY <1>6, TimeAssumption DEF Tick, HandlersConsistent, ServerTypeOK, DbTypeOK
  <2> QED
    BY <1>6, <2>1, ClockKeeps DEF Tick, serverVars
<1>7. CASE UNCHANGED vars
  BY <1>7, ClockKeeps DEF vars, HandlersConsistent, ServerTypeOK, DbTypeOK
<1> QED
  BY <1>1, <1>2, <1>3, <1>4, <1>5, <1>6, <1>7 DEF Next, ServerNext

(* Whatever the server appends to the chain are its events.                 *)
LEMMA StepAppendsEvents ==
  ASSUME HandlersConsistent, [Next]_vars
  PROVE  chain' \subseteq chain \cup Event
<1>1. ASSUME NEW r \in Request, AppendAudit(r) \/ AppendDenied(r) \/ AppendFails(r)
      PROVE  chain' \subseteq chain \cup Event
  <2>1. /\ reqs[r].pc \in {"auditq", "deniedq"} /\ reqs[r].in # None /\ reqs[r].user # None
        /\ reqs[r].in.request \in AuditedOps /\ reqs[r].out \in Outcomes
    BY <1>1, RequestKnown DEF AppendAudit, AppendDenied, AppendFails, WellPlaced, Handling
  <2>2. OpEvent(r) \in Event /\ DeniedEvent(r) \in Event
    BY <2>1, OpEventType, DeniedEventType DEF HandlersConsistent
  <2> QED
    BY <1>1, <2>2 DEF AppendAudit, AppendDenied, AppendFails, AppendEvent
<1>2. CASE UNCHANGED chain
  BY <1>2
<1> QED
  BY <1>1, <1>2
  DEF Next, ServerNext, Arrive, Handle, QueryUser, Dispatch, DispatchInherited, QueryKey,
      Authorize, Crypto, DeleteKey, QueryMissing, Generate, InsertNewKey, QueryList,
      FilterList, ReadFails, WriteFails, Respond, Sweep, Crash, Start, Tick, ServerOnly,
      vars, dbVars

(* Whatever the requests, the interleaving of their awaits, the failures    *)
(* and the crashes: every handler in flight stands where its request may    *)
(* stand, with what it needs, tables and chain account for what was done,   *)
(* and the chain holds events only (handleApi, the handlers, keystore.js).  *)
THEOREM ServerConsistent == Spec => [](TypeOK /\ HandlersConsistent)
<1>1. Init => TypeOK /\ HandlersConsistent
  BY InitiallyConsistent DEF TypeOK, HandlersConsistent, Init, DbInit
<1>2. TypeOK /\ HandlersConsistent /\ [Next]_vars => (TypeOK /\ HandlersConsistent)'
  BY StepKeepsConsistent, StepAppendsEvents DEF TypeOK, HandlersConsistent, Event
<1> QED
  BY <1>1, <1>2, PTL DEF Spec

(* README, Audit chain: "there is never a success response without a        *)
(* recorded event" (handleApi appends before it responds).                  *)
THEOREM SuccessIsAudited == Spec => []OkIsAudited
<1>1. HandlersConsistent => OkIsAudited
  BY DEF HandlersConsistent, SuccessRecorded, OkIsAudited, AnsweredOk, Answered
<1> QED
  BY <1>1, ServerConsistent, PTL

-----------------------------------------------------------------------------
(* The requests with a record of success in the chain.                      *)
Recorded == {r \in Request : \E e \in chain : e.op = r /\ e.outcome = "ok"}

(* The step of request r shows outside neither as an effect on a key nor as *)
(* a record of success nor as an answer.                                    *)
Unseen(r) == /\ \A s \in Request : s # r => reqs'[s] = reqs[s]
             /\ reqs'[r].in = reqs[r].in /\ reqs[r].in # None
             /\ reqs'[r].did = reqs[r].did
             /\ reqs[r].did => reqs'[r].kid = reqs[r].kid
             /\ reqs[r].pc # "done" /\ reqs'[r].pc # "done"

Stutter == UNCHANGED Promise!promiseVars

-----------------------------------------------------------------------------

(* At the start nothing was asked, done, recorded or answered.              *)
LEMMA InitMaps == Init => Promise!Init
<1> SUFFICES ASSUME Init PROVE Promise!Init
  OBVIOUS
<1>1. \A r \in Request : reqs[r] = IdleRequest
  BY DEF Init
<1>2. \A r \in Request : RequestKind(r) = None /\ AnswerSent(r) = None /\ ~reqs[r].did
  BY <1>1 DEF IdleRequest, RequestKind, AnswerSent
<1>3. issued = keys /\ chain = {}
  BY DEF Init, DbInit
<1> QED
  BY <1>2, <1>3 DEF Promise!Init

(* A request's view depends on what it asks, and on its answer once sent.   *)
LEMMA ViewsKept ==
  ASSUME NEW r \in Request, reqs'[r].in = reqs[r].in,
         reqs[r].pc # "done", reqs'[r].pc # "done"
  PROVE  RequestKind(r)' = RequestKind(r) /\ AnswerSent(r)' = AnswerSent(r)
BY DEF RequestKind, AnswerSent

(* A request that does not move shows the promise nothing new.              *)
LEMMA OthersKept ==
  ASSUME NEW s \in Request, reqs'[s] = reqs[s]
  PROVE  RequestKind(s)' = RequestKind(s) /\ AnswerSent(s)' = AnswerSent(s)
BY DEF RequestKind, AnswerSent

(* A step that changes neither what one request did and answered, nor the   *)
(* keys, nor the records, is a stutter of the promise.                      *)
LEMMA UnseenStutters ==
  ASSUME NEW r \in Request, Unseen(r), UNCHANGED <<keys, issued>>, Recorded' = Recorded
  PROVE  Stutter
<1>1. ASSUME NEW s \in Request
      PROVE  /\ RequestKind(s)' = RequestKind(s) /\ AnswerSent(s)' = AnswerSent(s)
             /\ (IF reqs[s].did THEN reqs[s].kid ELSE None)'
                  = IF reqs[s].did THEN reqs[s].kid ELSE None
  BY ViewsKept, OthersKept DEF Unseen
<1>2. [s \in Request |-> RequestKind(s)]' = [s \in Request |-> RequestKind(s)]
  BY <1>1
<1>3. [s \in Request |-> AnswerSent(s)]' = [s \in Request |-> AnswerSent(s)]
  BY <1>1
<1>4. [s \in Request |-> IF reqs[s].did THEN reqs[s].kid ELSE None]'
        = [s \in Request |-> IF reqs[s].did THEN reqs[s].kid ELSE None]
  BY <1>1
<1> QED
  BY <1>2, <1>3, <1>4 DEF Promise!promiseVars, Stutter, Recorded

(* Enough for a step that moves request r to state q to go unseen.          *)
LEMMA QuietUpdate ==
  ASSUME HandlersConsistent, NEW r \in Request, NEW q, Update(r, q),
         q.in = reqs[r].in, reqs[r].in # None, q.did = reqs[r].did,
         reqs[r].did => q.kid = reqs[r].kid, reqs[r].pc # "done", q.pc # "done",
         UNCHANGED <<keys, issued>>, Recorded' = Recorded
  PROVE  Stutter
<1>1. /\ reqs'[r] = q
      /\ \A s \in Request : s # r => reqs'[s] = reqs[s]
  BY DEF HandlersConsistent, ServerTypeOK, Update
<1> QED
  BY <1>1, UnseenStutters DEF Unseen

(* Before its write, a handler that concludes or answers goes unseen.       *)
LEMMA QuietConclude ==
  ASSUME HandlersConsistent, NEW r \in Request, NEW q \in RequestState, NEW out,
         Update(r, Conclude(q, out)) \/ Update(r, Reply(q, out)),
         q.in = reqs[r].in, reqs[r].in # None, ~q.did, ~reqs[r].did, reqs[r].pc # "done",
         ServerOnly
  PROVE  Stutter
<1>1. Recorded' = Recorded
  BY DEF Recorded, ServerOnly
<1>2. CASE Update(r, Conclude(q, out))
  <2> DEFINE p == Conclude(q, out)
  <2>1. p.in = q.in /\ p.did = q.did /\ p.pc \in {"auditq", "respond"}
    BY DEF Conclude, RequestState
  <2> HIDE DEF p
  <2>2. p.did = reqs[r].did
    BY <2>1, RequestKnown DEF RequestState
  <2> QED
    BY <1>1, <1>2, <2>1, <2>2, QuietUpdate DEF p, ServerOnly
<1>3. CASE Update(r, Reply(q, out))
  <2> DEFINE p == Reply(q, out)
  <2>1. p.in = q.in /\ p.did = q.did /\ p.pc = "respond"
    BY DEF Reply, RequestState
  <2> HIDE DEF p
  <2>2. p.did = reqs[r].did
    BY <2>1, RequestKnown DEF RequestState
  <2> QED
    BY <1>1, <1>3, <2>1, <2>2, QuietUpdate DEF p, ServerOnly
<1> QED
  BY <1>2, <1>3

(* What holds of a request whose handler has not written yet.               *)
LEMMA NothingDoneYet ==
  ASSUME HandlersConsistent, NEW r \in Request,
         reqs[r].pc \in {"authq", "authr", "keyq", "keyr", "missq", "gen", "listq", "listr",
                        "crypto", "insq", "delq"}
  PROVE  reqs[r] \in RequestState /\ reqs[r].in # None /\ ~reqs[r].did /\ reqs[r].did = FALSE
BY RequestKnown DEF WellPlaced, EffectAccounted, RequestState

(* Nothing a handler does before its write, or instead of one, is seen.     *)
LEMMA ReadingIsQuiet ==
  ASSUME HandlersConsistent, NEW r \in Request,
         \/ QueryUser(r) \/ Dispatch(r) \/ DispatchInherited(r) \/ QueryKey(r) \/ Authorize(r)
         \/ Crypto(r) \/ QueryMissing(r) \/ Generate(r) \/ QueryList(r) \/ FilterList(r)
         \/ ReadFails(r)
  PROVE  Stutter
<1> DEFINE q == reqs[r]
<1>1. q \in RequestState /\ q.in # None /\ ~q.did /\ q.did = FALSE /\ q.pc # "done"
  BY NothingDoneYet DEF QueryUser, Dispatch, DispatchInherited, QueryKey, Authorize, Crypto,
                        QueryMissing, Generate, QueryList, FilterList, ReadFails
<1>2. ServerOnly
  BY DEF QueryUser, Dispatch, DispatchInherited, QueryKey, Authorize, Crypto,
         QueryMissing, Generate, QueryList, FilterList, ReadFails
<1>3. Recorded' = Recorded
  BY <1>2 DEF Recorded, ServerOnly
<1>4. ASSUME NEW p \in RequestState, p.in = q.in, ~p.did, NEW out,
             Update(r, Conclude(p, out)) \/ Update(r, Reply(p, out))
      PROVE  Stutter
  BY <1>1, <1>2, <1>4, QuietConclude
<1>5. ASSUME NEW p, Update(r, p), p.in = q.in, p.did = q.did, p.pc # "done"
      PROVE  Stutter
  BY <1>1, <1>2, <1>3, <1>5, QuietUpdate DEF ServerOnly
<1>6. CASE QueryUser(r)
  BY <1>1, <1>5, <1>6 DEF QueryUser, RequestState
<1>7. CASE Dispatch(r)
  <2> DEFINE gone == [q EXCEPT !.user = None]
             moved(row, pc, kid) == [q EXCEPT !.pc = pc, !.kid = kid, !.row = row]
  <2>1. gone \in RequestState /\ gone.in = q.in /\ ~gone.did
    BY <1>1 DEF RequestState
  <2>2. ASSUME NEW row, NEW kid, Update(r, moved(row, FirstAwait(q.in, q.user), kid)) PROVE Stutter
    <3>1. FirstAwait(q.in, q.user) # "done"
      BY DEF FirstAwait
    <3> QED
      BY <1>1, <1>5, <2>2, <3>1 DEF RequestState
  <2> HIDE DEF gone
  <2>3. \/ Update(r, Reply(gone, "UNAUTHORIZED"))
        \/ Update(r, Reply(q, "UNKNOWN_OPERATION"))
        \/ Update(r, Conclude(q, Gate(q.in, q.user)))
        \/ \E row, kid : Update(r, moved(row, FirstAwait(q.in, q.user), kid))
    BY <1>7 DEF Dispatch, gone
  <2> QED
    BY <1>1, <1>4, <2>1, <2>2, <2>3
<1>8. CASE DispatchInherited(r)
  BY <1>1, <1>4, <1>8 DEF DispatchInherited
<1>9. CASE QueryKey(r)
  BY <1>1, <1>5, <1>9 DEF QueryKey, RequestState
<1>10. CASE Authorize(r)
  <2> DEFINE masked == [q EXCEPT !.masked = TRUE]
  <2>1. masked \in RequestState /\ masked.in = q.in /\ ~masked.did
    BY <1>1 DEF RequestState
  <2>2. ASSUME NEW pc, Update(r, Goto(q, pc)), pc # "done" PROVE Stutter
    BY <1>1, <1>5, <2>2 DEF Goto, RequestState
  <2> HIDE DEF masked
  <2>3. \/ Update(r, Conclude(q, "KEY_NOT_FOUND"))
        \/ Update(r, Conclude(masked, "KEY_NOT_FOUND"))
        \/ Update(r, Conclude(q, Compatibility(q.in, q.row)))
        \/ Update(r, Goto(q, "delq")) \/ Update(r, Goto(q, "crypto"))
    BY <1>10 DEF Authorize, masked
  <2> QED
    BY <1>1, <1>4, <2>1, <2>2, <2>3
<1>11. CASE Crypto(r)
  BY <1>1, <1>4, <1>11 DEF Crypto
<1>12. CASE QueryMissing(r)
  <2>1. ASSUME NEW row, Update(r, [q EXCEPT !.pc = "gen", !.row = row]) PROVE Stutter
    BY <1>1, <1>5, <2>1 DEF RequestState
  <2> QED
    BY <1>1, <1>4, <1>12, <2>1 DEF QueryMissing
<1>13. CASE Generate(r)
  <2>1. ASSUME NEW k, Update(r, [q EXCEPT !.pc = "insq", !.kid = k]) PROVE Stutter
    BY <1>1, <1>5, <2>1 DEF RequestState
  <2> QED
    BY <1>1, <1>4, <1>13, <2>1 DEF Generate
<1>14. CASE QueryList(r)
  BY <1>1, <1>5, <1>14 DEF QueryList, RequestState
<1>15. CASE FilterList(r)
  <2> DEFINE visible(row) == /\ InWindow(row)
                             /\ EffectiveAny(q.user.data.allowedOps, row.acl, q.user.userId)
             rows == {kr \in q.listed : visible(kr[2])}
             p == [q EXCEPT !.listed = rows]
  <2>1. Update(r, Conclude(p, "ok"))
    BY <1>15 DEF FilterList
  <2>2. rows \subseteq q.listed
    OBVIOUS
  <2> HIDE DEF rows
  <2>3. p \in RequestState /\ p.in = q.in /\ ~p.did
    BY <1>1, <2>2 DEF RequestState
  <2> HIDE DEF p
  <2> QED
    BY <1>4, <2>1, <2>3
<1>16. CASE ReadFails(r)
  BY <1>1, <1>4, <1>16 DEF ReadFails
<1> QED
  BY <1>6, <1>7, <1>8, <1>9, <1>10, <1>11, <1>12, <1>13, <1>14, <1>15, <1>16

-----------------------------------------------------------------------------
(* The steps that are seen                                                  *)

(* A request accepted.                                                      *)
LEMMA ArriveIsAccept ==
  ASSUME HandlersConsistent, NEW r \in Request, Arrive(r)
  PROVE  Promise!Next
<1>1. PICK in \in Inputs :
        LET q == [reqs[r] EXCEPT !.in = in, !.ended = {k \in Kid : Ended(k)}]
        IN  Update(r, IF in.shape = "malformed" THEN Reply(q, "MALFORMED_REQUEST")
                      ELSE Goto(q, "authq"))
  BY DEF Arrive
<1> DEFINE q == [reqs[r] EXCEPT !.in = in, !.ended = {k \in Kid : Ended(k)}]
           p == IF in.shape = "malformed" THEN Reply(q, "MALFORMED_REQUEST") ELSE Goto(q, "authq")
<1>2. /\ reqs[r] \in RequestState /\ ~reqs[r].did /\ reqs[r].in = None /\ reqs[r].pc = "idle"
      /\ UNCHANGED <<keys, issued, chain>>
  BY RequestKnown DEF Arrive, EffectAccounted, WellPlaced, ServerOnly
<1>3. p.in = in /\ p.in # None /\ ~p.did /\ p.pc \in {"respond", "authq"}
  BY <1>2, NoInputAssumption DEF Reply, Goto, RequestState
<1>4. /\ reqs'[r] = p
      /\ \A s \in Request : s # r => reqs'[s] = reqs[s]
  BY <1>1 DEF HandlersConsistent, ServerTypeOK, Update
<1> HIDE DEF p
<1>5. RequestKind(r) = None /\ RequestKind(r)' \in {"issue", "revoke", "use"}
  BY <1>2, <1>3, <1>4 DEF RequestKind
<1>6. AnswerSent(r)' = AnswerSent(r)
  BY <1>2, <1>3, <1>4 DEF AnswerSent
<1>7. \A s \in Request : s # r => RequestKind(s)' = RequestKind(s) /\ AnswerSent(s)' = AnswerSent(s)
  BY <1>4, OthersKept
<1>8. Promise!Accept(r)
  <2>1. [s \in Request |-> RequestKind(s)]'
          = [[s \in Request |-> RequestKind(s)] EXCEPT ![r] = RequestKind(r)']
    BY <1>7
  <2>2. [s \in Request |-> AnswerSent(s)]' = [s \in Request |-> AnswerSent(s)]
    BY <1>6, <1>7
  <2>3. [s \in Request |-> IF reqs[s].did THEN reqs[s].kid ELSE None]'
          = [s \in Request |-> IF reqs[s].did THEN reqs[s].kid ELSE None]
    BY <1>2, <1>3, <1>4
  <2> QED
    BY <1>2, <1>5, <2>1, <2>2, <2>3 DEF Promise!Accept, Promise!Kinds
<1> QED
  BY <1>8 DEF Promise!Next

(* What the view of a request is while its write is pending.                *)
LEMMA OpenWrite ==
  ASSUME HandlersConsistent, NEW r \in Request, reqs[r].pc \in {"insq", "delq"}
  PROVE  /\ reqs[r] \in RequestState /\ reqs[r].kid \in Kid /\ reqs[r].in # None
         /\ reqs[r].did = FALSE
         /\ RequestKind(r) = IF reqs[r].pc = "insq" THEN "issue" ELSE "revoke"
         /\ AnswerSent(r) = None
BY RequestKnown DEF WellPlaced, EffectAccounted, RequestState, RequestKind, AnswerSent

(* A write that took effect: a new key issued, or a key revoked, by a       *)
(* request that still has no effect and no answer.                          *)
LEMMA EffectIsSeen ==
  ASSUME HandlersConsistent, NEW r \in Request, NEW q, Update(r, q), UNCHANGED chain,
         reqs[r].pc \in {"insq", "delq"},
         q.in = reqs[r].in, q.did, q.kid = reqs[r].kid, q.pc # "done",
         IF reqs[r].pc = "insq" THEN InsertKey(reqs[r].kid, reqs[r].row)
         ELSE keys[reqs[r].kid] # None /\ DeleteKeys({reqs[r].kid})
  PROVE  Promise!Next
<1>1. PICK k \in Kid : k = reqs[r].kid
  BY OpenWrite
<1>2. /\ reqs'[r] = q
      /\ \A s \in Request : s # r => reqs'[s] = reqs[s]
  BY DEF HandlersConsistent, ServerTypeOK, Update
<1>3. \A s \in Request : RequestKind(s)' = RequestKind(s) /\ AnswerSent(s)' = AnswerSent(s)
  BY <1>2, OthersKept, ViewsKept
<1>4. [s \in Request |-> RequestKind(s)]' = [s \in Request |-> RequestKind(s)]
  BY <1>3
<1>5. [s \in Request |-> AnswerSent(s)]' = [s \in Request |-> AnswerSent(s)]
  BY <1>3
<1>6. [s \in Request |-> IF reqs[s].did THEN reqs[s].kid ELSE None]'
        = [[s \in Request |-> IF reqs[s].did THEN reqs[s].kid ELSE None] EXCEPT ![r] = k]
  BY <1>1, <1>2
<1>7. CASE reqs[r].pc = "insq"
  <2>1. /\ issued[k] = None /\ keys'[k] # None /\ issued'[k] # None
        /\ \A j \in Kid : j # k => keys'[j] = keys[j] /\ issued'[j] = issued[j]
    <3>1. reqs[r].row \in KeyRow /\ reqs[r].row # None
      BY <1>7, RequestKnown, NoneAssumption DEF WellPlaced, RequestState
    <3> QED
      BY <1>1, <1>7, <3>1, InsertKeyTables DEF HandlersConsistent, KidsNew
  <2>2. /\ {j \in Kid : keys[j] # None}' = {j \in Kid : keys[j] # None} \cup {k}
        /\ {j \in Kid : issued[j] # None}' = {j \in Kid : issued[j] # None} \cup {k}
    BY <2>1
  <2>3. Promise!Issue(r, k)
    BY <1>4, <1>5, <1>6, <1>7, <2>1, <2>2, OpenWrite, NoAnswerAssumption
    DEF Promise!Issue, Promise!Open
  <2> QED
    BY <2>3 DEF Promise!Next
<1>8. CASE reqs[r].pc = "delq"
  <2>1. /\ keys[k] # None /\ issued' = issued
        /\ \A j \in Kid : keys'[j] = IF j = k THEN None ELSE keys[j]
    BY <1>1, <1>8, DeleteKeysTables DEF HandlersConsistent
  <2>2. {j \in Kid : keys[j] # None}' = {j \in Kid : keys[j] # None} \ {k}
    BY <2>1
  <2>3. Promise!Revoke(r, k)
    BY <1>4, <1>5, <1>6, <1>8, <2>1, <2>2, OpenWrite, NoAnswerAssumption
    DEF Promise!Revoke, Promise!Open
  <2> QED
    BY <2>3 DEF Promise!Next
<1> QED
  BY <1>7, <1>8

(* The handler of a write that resumes or is lost has sent no answer.       *)
LEMMA ResumedView ==
  ASSUME NEW q \in RequestState, NEW out
  PROVE  LET p == Resume(q, Conclude(q, out)) IN
         p.in = q.in /\ p.did = q.did /\ p.kid = q.kid /\ p.pc \in {"auditq", "respond", "lost"}
BY DEF Resume, Conclude, RequestState

(* A deletion is the promise's effect of a revocation; finding no row is a  *)
(* stutter.                                                                 *)
LEMMA DeleteKeyMaps ==
  ASSUME HandlersConsistent, NEW r \in Request, DeleteKey(r)
  PROVE  Promise!Next \/ Stutter
<1> DEFINE deleted == keys[reqs[r].kid] # None
           q == [reqs[r] EXCEPT !.did = deleted]
           out == IF q.did THEN "ok" ELSE "KEY_NOT_FOUND"
           p == Resume(q, Conclude(q, out))
<1>1. reqs[r].pc = "delq" /\ reqs[r] \in RequestState /\ reqs[r].did = FALSE /\ reqs[r].in # None
      /\ reqs[r].kid \in Kid
  BY OpenWrite DEF DeleteKey
<1>2. Update(r, p) /\ DeleteKeys({reqs[r].kid}) /\ UNCHANGED chain
  <2>1. q.kid = reqs[r].kid
    BY <1>1 DEF RequestState
  <2> QED
    BY <2>1 DEF DeleteKey
<1>3. deleted \in BOOLEAN
  OBVIOUS
<1> HIDE DEF deleted
<1>4. q \in RequestState /\ q.in = reqs[r].in /\ q.kid = reqs[r].kid /\ q.did = deleted
  BY <1>1, <1>3 DEF RequestState
<1> HIDE DEF q, out
<1>5. p.in = reqs[r].in /\ p.did = deleted /\ p.kid = reqs[r].kid /\ p.pc # "done"
  BY <1>4, ResumedView
<1> HIDE DEF p
<1>6. CASE deleted
  <2>1. keys[reqs[r].kid] # None
    BY <1>6 DEF deleted
  <2> QED
    BY <1>1, <1>2, <1>5, <1>6, <2>1, EffectIsSeen
<1>7. CASE ~deleted
  <2>1. keys[reqs[r].kid] = None
    BY <1>7 DEF deleted
  <2>2. UNCHANGED <<keys, issued>>
    BY <1>2, <2>1 DEF DeleteKeys, HandlersConsistent, ServerTypeOK, DbTypeOK, KeyTable
  <2>3. Recorded' = Recorded
    BY <1>2 DEF Recorded
  <2>4. p.did = reqs[r].did
    BY <1>1, <1>3, <1>5, <1>7
  <2> QED
    BY <1>1, <1>2, <1>5, <2>2, <2>3, <2>4, QuietUpdate
<1> QED
  BY <1>6, <1>7

(* An insert is the promise's effect of an issue.                           *)
LEMMA InsertNewKeyMaps ==
  ASSUME HandlersConsistent, NEW r \in Request, InsertNewKey(r)
  PROVE  Promise!Next
<1> DEFINE q == [reqs[r] EXCEPT !.did = TRUE]
           p == Resume(q, Conclude(q, "ok"))
<1>1. reqs[r].pc = "insq" /\ reqs[r] \in RequestState
  BY RequestKnown DEF InsertNewKey
<1>2. /\ q \in RequestState /\ q.in = reqs[r].in /\ q.kid = reqs[r].kid /\ q.did
      /\ q.row = reqs[r].row
  BY <1>1 DEF RequestState
<1>3. Update(r, p) /\ InsertKey(reqs[r].kid, reqs[r].row) /\ UNCHANGED chain
  BY <1>2 DEF InsertNewKey
<1> HIDE DEF q
<1>4. p.in = reqs[r].in /\ p.did /\ p.kid = reqs[r].kid /\ p.pc # "done"
  BY <1>2, ResumedView
<1> HIDE DEF p
<1> QED
  BY <1>1, <1>3, <1>4, EffectIsSeen

(* A write that failed for the handler is an effect when the database did   *)
(* it and a stutter when it did not.                                        *)
LEMMA WriteFailsMaps ==
  ASSUME HandlersConsistent, NEW r \in Request, WriteFails(r)
  PROVE  Promise!Next \/ Stutter
<1> DEFINE q == reqs[r]
           done == [q EXCEPT !.did = TRUE]
<1>1. /\ q.pc \in {"insq", "delq"} /\ q \in RequestState /\ q.did = FALSE /\ q.in # None
      /\ UNCHANGED chain
  BY OpenWrite DEF WriteFails
<1>2. CASE Update(r, Resume(q, Conclude(q, "INTERNAL_ERROR"))) /\ UNCHANGED <<keys, issued>>
  <2> DEFINE p == Resume(q, Conclude(q, "INTERNAL_ERROR"))
  <2>1. p.in = q.in /\ p.did = q.did /\ p.kid = q.kid /\ p.pc # "done"
    BY <1>1, ResumedView
  <2> HIDE DEF p
  <2>2. Recorded' = Recorded
    BY <1>1 DEF Recorded
  <2> QED
    BY <1>1, <1>2, <2>1, <2>2, QuietUpdate DEF p
<1>3. CASE /\ IF q.pc = "insq" THEN InsertKey(q.kid, q.row)
              ELSE keys[q.kid] # None /\ DeleteKeys({q.kid})
           /\ Update(r, Resume(done, Conclude(done, "INTERNAL_ERROR")))
  <2> DEFINE p == Resume(done, Conclude(done, "INTERNAL_ERROR"))
  <2>1. done \in RequestState /\ done.in = q.in /\ done.kid = q.kid /\ done.did
    BY <1>1 DEF RequestState
  <2> HIDE DEF done
  <2>2. p.in = q.in /\ p.did /\ p.kid = q.kid /\ p.pc # "done"
    BY <2>1, ResumedView
  <2> HIDE DEF p
  <2>3. Update(r, p)
    BY <1>3 DEF p
  <2> QED
    BY <1>1, <1>3, <2>2, <2>3, EffectIsSeen
<1>4. \/ Update(r, Resume(q, Conclude(q, "INTERNAL_ERROR"))) /\ UNCHANGED <<keys, issued>>
      \/ /\ IF q.pc = "insq" THEN InsertKey(q.kid, q.row)
            ELSE keys[q.kid] # None /\ DeleteKeys({q.kid})
         /\ Update(r, Resume(done, Conclude(done, "INTERNAL_ERROR")))
  BY DEF WriteFails
<1> QED
  BY <1>2, <1>3, <1>4

(* The views of a handler that appends: asked, and not answered.            *)
LEMMA OpenAppend ==
  ASSUME HandlersConsistent, NEW r \in Request, reqs[r].pc \in {"auditq", "deniedq"}
  PROVE  /\ reqs[r] \in RequestState /\ reqs[r].in # None
         /\ RequestKind(r) \in {"issue", "revoke", "use"} /\ AnswerSent(r) = None
BY RequestKnown DEF WellPlaced, RequestKind, AnswerSent

(* The record of a success: of work that was done.                          *)
LEMMA SuccessIsRecord ==
  ASSUME HandlersConsistent, NEW r \in Request, NEW q, Update(r, q),
         reqs[r].pc = "auditq", reqs[r].out = "ok", AppendEvent(OpEvent(r)),
         q.in = reqs[r].in, q.did = reqs[r].did, q.kid = reqs[r].kid, q.pc # "done",
         UNCHANGED <<keys, issued>>
  PROVE  Promise!Next
<1>1. /\ reqs'[r] = q
      /\ \A s \in Request : s # r => reqs'[s] = reqs[s]
  BY DEF HandlersConsistent, ServerTypeOK, Update
<1>2. \A s \in Request : RequestKind(s)' = RequestKind(s) /\ AnswerSent(s)' = AnswerSent(s)
  BY <1>1, OthersKept, ViewsKept
<1>3. [s \in Request |-> RequestKind(s)]' = [s \in Request |-> RequestKind(s)]
  BY <1>2
<1>4. [s \in Request |-> AnswerSent(s)]' = [s \in Request |-> AnswerSent(s)]
  BY <1>2
<1>5. [s \in Request |-> IF reqs[s].did THEN reqs[s].kid ELSE None]'
        = [s \in Request |-> IF reqs[s].did THEN reqs[s].kid ELSE None]
  BY <1>1
<1>6. RequestKind(r) \in {"issue", "revoke"} => reqs[r].did /\ reqs[r].kid # None
  BY OpenAppend, RequestKnown DEF RequestKind, EffectAccounted
<1>7. {s \in Request : \E e \in chain : e.op = s /\ e.outcome = "ok"}'
        = {s \in Request : \E e \in chain : e.op = s /\ e.outcome = "ok"} \cup {r}
  <2>1. OpEvent(r).op = r /\ OpEvent(r).outcome = "ok"
    BY DEF OpEvent
  <2> HIDE DEF OpEvent
  <2> QED
    BY <2>1 DEF AppendEvent
<1>8. Promise!Record(r)
  BY <1>3, <1>4, <1>5, <1>6, <1>7, OpenAppend, NoAnswerAssumption
  DEF Promise!Record, Promise!Open
<1> QED
  BY <1>8 DEF Promise!Next

(* Any other append is unseen.                                              *)
LEMMA OtherAppendIsQuiet ==
  ASSUME HandlersConsistent, NEW r \in Request, NEW q, Update(r, q),
         reqs[r].pc \in {"auditq", "deniedq"},
         \/ UNCHANGED chain
         \/ reqs[r].out # "ok" /\ AppendEvent(OpEvent(r))
         \/ AppendEvent(DeniedEvent(r)),
         q.in = reqs[r].in, q.did = reqs[r].did, q.kid = reqs[r].kid, q.pc # "done",
         UNCHANGED <<keys, issued>>
  PROVE  Stutter
<1>1. OpEvent(r).outcome = reqs[r].out
  BY DEF OpEvent
<1>2. DeniedEvent(r).outcome # "ok"
  BY NoAnswerAssumption DEF DeniedEvent, Answers, Outcomes
<1>3. Recorded' = Recorded
  BY <1>1, <1>2 DEF Recorded, AppendEvent
<1> QED
  BY <1>3, OpenAppend, QuietUpdate

(* An append is a record of the promise, or an answer of failure, or a      *)
(* stutter.                                                                 *)
LEMMA AppendMaps ==
  ASSUME HandlersConsistent, NEW r \in Request,
         AppendAudit(r) \/ AppendDenied(r) \/ AppendFails(r)
  PROVE  Promise!Next \/ Stutter
<1>1. reqs[r] \in RequestState /\ reqs[r].pc \in {"auditq", "deniedq"}
  BY RequestKnown DEF AppendAudit, AppendDenied, AppendFails
<1>2. UNCHANGED <<keys, issued>>
  BY DEF AppendAudit, AppendDenied, AppendFails
<1>3. PICK q : /\ Update(r, q) /\ q.in = reqs[r].in /\ q.did = reqs[r].did
               /\ q.kid = reqs[r].kid /\ q.pc # "done"
  <2>1. CASE AppendAudit(r)
    <3> DEFINE p == Resume(reqs[r], AfterAppend(reqs[r]))
    <3>1. p.in = reqs[r].in /\ p.did = reqs[r].did /\ p.kid = reqs[r].kid /\ p.pc # "done"
      BY <1>1 DEF Resume, AfterAppend, Goto, RequestState
    <3> QED
      BY <2>1, <3>1 DEF AppendAudit
  <2>2. CASE AppendDenied(r)
    <3> DEFINE p == Resume(reqs[r], Goto(reqs[r], "respond"))
    <3>1. p.in = reqs[r].in /\ p.did = reqs[r].did /\ p.kid = reqs[r].kid /\ p.pc # "done"
      BY <1>1 DEF Resume, Goto, RequestState
    <3> QED
      BY <2>2, <3>1 DEF AppendDenied
  <2>3. CASE AppendFails(r)
    <3> DEFINE p == Resume(reqs[r], AppendFailure(reqs[r]))
    <3>1. p.in = reqs[r].in /\ p.did = reqs[r].did /\ p.kid = reqs[r].kid /\ p.pc # "done"
      BY <1>1 DEF Resume, AppendFailure, Reply, RequestState
    <3> QED
      BY <2>3, <3>1 DEF AppendFails
  <2> QED
    BY <2>1, <2>2, <2>3
<1>4. \/ UNCHANGED chain
      \/ reqs[r].pc = "auditq" /\ AppendEvent(OpEvent(r))
      \/ AppendEvent(DeniedEvent(r))
  BY DEF AppendAudit, AppendDenied, AppendFails
<1>5. CASE reqs[r].pc = "auditq" /\ reqs[r].out = "ok" /\ AppendEvent(OpEvent(r))
  BY <1>2, <1>3, <1>5, SuccessIsRecord
<1>6. CASE ~(reqs[r].pc = "auditq" /\ reqs[r].out = "ok" /\ AppendEvent(OpEvent(r)))
  BY <1>1, <1>2, <1>3, <1>4, <1>6, OtherAppendIsQuiet
<1> QED
  BY <1>5, <1>6

(* The answer sent, a success only after its record.                        *)
LEMMA RespondIsAnswer ==
  ASSUME HandlersConsistent, NEW r \in Request, Respond(r)
  PROVE  Promise!Next
<1> DEFINE q == Discard(reqs[r], "done")
<1>1. /\ reqs[r] \in RequestState /\ reqs[r].pc = "respond" /\ reqs[r].in # None
      /\ Update(r, q) /\ UNCHANGED <<keys, issued, chain>>
  BY RequestKnown DEF Respond, WellPlaced, ServerOnly
<1>2. /\ q.in = reqs[r].in /\ q.did = reqs[r].did /\ q.kid = reqs[r].kid /\ q.out = reqs[r].out
      /\ q.pc = "done"
  BY <1>1 DEF Discard, RequestState
<1>3. /\ reqs'[r] = q
      /\ \A s \in Request : s # r => reqs'[s] = reqs[s]
  BY <1>1 DEF HandlersConsistent, ServerTypeOK, Update
<1> HIDE DEF q
<1>4. \A s \in Request : RequestKind(s)' = RequestKind(s)
  BY <1>2, <1>3 DEF RequestKind
<1>5. \A s \in Request : s # r => AnswerSent(s)' = AnswerSent(s)
  BY <1>3, OthersKept
<1>6. PICK a \in {"ok", "other"} : a = AnswerSent(r)'
  BY <1>2, <1>3 DEF AnswerSent
<1>7. AnswerSent(r) = None /\ RequestKind(r) # None
  BY <1>1, NoAnswerAssumption DEF AnswerSent, RequestKind
<1>8. a = "ok" => r \in {s \in Request : \E e \in chain : e.op = s /\ e.outcome = "ok"}
  <2> SUFFICES ASSUME a = "ok" PROVE \E e \in chain : e.op = r /\ e.outcome = "ok"
    OBVIOUS
  <2>1. reqs[r].out = "ok" /\ reqs[r].in.request \in AuditedOps
    BY <1>2, <1>3, <1>6 DEF AnswerSent
  <2>2. OpEvent(r) \in chain
    BY <1>1, <2>1 DEF HandlersConsistent, SuccessRecorded
  <2>3. OpEvent(r).op = r /\ OpEvent(r).outcome = "ok"
    BY <2>1 DEF OpEvent
  <2> QED
    BY <2>2, <2>3
<1>9. [s \in Request |-> RequestKind(s)]' = [s \in Request |-> RequestKind(s)]
  BY <1>4
<1>10. [s \in Request |-> AnswerSent(s)]' = [[s \in Request |-> AnswerSent(s)] EXCEPT ![r] = a]
  BY <1>5, <1>6
<1>11. [s \in Request |-> IF reqs[s].did THEN reqs[s].kid ELSE None]'
         = [s \in Request |-> IF reqs[s].did THEN reqs[s].kid ELSE None]
  BY <1>2, <1>3
<1>12. Promise!Answer(r, a)
  BY <1>1, <1>7, <1>8, <1>9, <1>10, <1>11 DEF Promise!Answer, Promise!Open
<1> QED
  BY <1>12 DEF Promise!Next

(* A sweep reaps.                                                           *)
LEMMA SweepIsReap ==
  ASSUME HandlersConsistent, DeleteKeys(Sweepable), UNCHANGED <<chain, reqs>>
  PROVE  Promise!Next
<1>1. PICK K : K = Sweepable
  OBVIOUS
<1>2. K \in SUBSET {k \in Kid : keys[k] # None}
  BY <1>1 DEF Sweepable
<1>3. issued' = issued /\ \A k \in Kid : keys'[k] = IF k \in K THEN None ELSE keys[k]
  BY <1>1, DeleteKeysTables DEF HandlersConsistent
<1>4. {k \in Kid : keys[k] # None}' = {k \in Kid : keys[k] # None} \ K
  BY <1>3
<1>5. \A s \in Request : RequestKind(s)' = RequestKind(s) /\ AnswerSent(s)' = AnswerSent(s)
  BY OthersKept
<1>6. [s \in Request |-> RequestKind(s)]' = [s \in Request |-> RequestKind(s)]
  BY <1>5
<1>7. [s \in Request |-> AnswerSent(s)]' = [s \in Request |-> AnswerSent(s)]
  BY <1>5
<1>8. Promise!Reap(K)
  BY <1>3, <1>4, <1>6, <1>7 DEF Promise!Reap
<1> QED
  BY <1>2, <1>8 DEF Promise!Next

(* The death of the process is not an answer, nor undoes one.               *)
LEMMA CrashStutters ==
  ASSUME HandlersConsistent, Crash
  PROVE  Stutter
<1>1. ASSUME NEW r \in Request
      PROVE  /\ reqs'[r].in = reqs[r].in /\ reqs'[r].did = reqs[r].did
             /\ reqs'[r].kid = reqs[r].kid /\ reqs'[r].out = reqs[r].out
             /\ reqs'[r].pc = "done" <=> reqs[r].pc = "done"
  <2>1. reqs[r] \in RequestState
    BY RequestKnown
  <2>2. reqs'[r] = IF reqs[r].pc \in WriteSent THEN [reqs[r] EXCEPT !.alive = FALSE]
                   ELSE IF reqs[r].pc \in InFlight THEN [reqs[r] EXCEPT !.pc = "lost", !.row = None]
                   ELSE reqs[r]
    BY DEF Crash, Discard
  <2>3. "done" \notin InFlight
    BY DEF InFlight, WriteSent
  <2> QED
    BY <2>1, <2>2, <2>3 DEF RequestState
<1>2. \A r \in Request : RequestKind(r)' = RequestKind(r) /\ AnswerSent(r)' = AnswerSent(r)
  BY <1>1 DEF RequestKind, AnswerSent
<1>3. [r \in Request |-> RequestKind(r)]' = [r \in Request |-> RequestKind(r)]
  BY <1>2
<1>4. [r \in Request |-> AnswerSent(r)]' = [r \in Request |-> AnswerSent(r)]
  BY <1>2
<1>5. [r \in Request |-> IF reqs[r].did THEN reqs[r].kid ELSE None]'
        = [r \in Request |-> IF reqs[r].did THEN reqs[r].kid ELSE None]
  BY <1>1
<1>6. UNCHANGED <<keys, issued, chain>>
  BY DEF Crash, dbVars
<1> QED
  BY <1>3, <1>4, <1>5, <1>6 DEF Stutter, Promise!promiseVars

(* A step that leaves tables, chain and requests alone is unseen.           *)
LEMMA ClockStutters ==
  ASSUME UNCHANGED <<keys, issued, chain, reqs>>
  PROVE  Stutter
<1>1. \A r \in Request : RequestKind(r)' = RequestKind(r) /\ AnswerSent(r)' = AnswerSent(r)
  BY OthersKept
<1>2. [r \in Request |-> RequestKind(r)]' = [r \in Request |-> RequestKind(r)]
  BY <1>1
<1>3. [r \in Request |-> AnswerSent(r)]' = [r \in Request |-> AnswerSent(r)]
  BY <1>1
<1> QED
  BY <1>2, <1>3 DEF Stutter, Promise!promiseVars

(* Every step from a consistent state is a step of the promise or a         *)
(* stutter.                                                                 *)
LEMMA StepMaps ==
  ASSUME HandlersConsistent, [Next]_vars
  PROVE  [Promise!Next]_(Promise!promiseVars)
<1> SUFFICES Promise!Next \/ Stutter
  BY DEF Stutter
<1>1. ASSUME NEW r \in Request, Arrive(r) PROVE Promise!Next
  BY <1>1, ArriveIsAccept
<1>2. ASSUME NEW r \in Request, Handle(r) PROVE Promise!Next \/ Stutter
  BY <1>2, ReadingIsQuiet, DeleteKeyMaps, InsertNewKeyMaps, WriteFailsMaps, AppendMaps,
     RespondIsAnswer DEF Handle
<1>3. CASE Sweep
  BY <1>3, SweepIsReap DEF Sweep, serverVars
<1>4. CASE Start
  BY <1>4, SweepIsReap DEF Start
<1>5. CASE Crash
  BY <1>5, CrashStutters
<1>6. CASE Tick /\ UNCHANGED serverVars
  BY <1>6, ClockStutters DEF Tick, serverVars
<1>7. CASE UNCHANGED vars
  BY <1>7, ClockStutters DEF vars
<1> QED
  BY <1>1, <1>2, <1>3, <1>4, <1>5, <1>6, <1>7 DEF Next, ServerNext

(* The server implements VaultPromise: keys are issued and revoked once,    *)
(* each by the one request that says so; nothing is recorded as done that   *)
(* was not; no success is sent unrecorded. Awaits, lost replies, failed     *)
(* appends, sweeps and crashes never show (server.js, serverhandlers.js,    *)
(* keystore.js).                                                            *)
THEOREM ServerKeepsPromise == Spec => KeepsPromise
<1>1. Init => Promise!Init
  BY InitMaps
<1>2. HandlersConsistent /\ [Next]_vars => [Promise!Next]_(Promise!promiseVars)
  BY StepMaps
<1> QED
  BY <1>1, <1>2, ServerConsistent, PTL DEF Spec, KeepsPromise, Promise!Spec

-----------------------------------------------------------------------------
(* The views of the promise.                                                *)
Live == {k \in Kid : keys[k] # None}
Ever == {k \in Kid : issued[k] # None}
Kind == [r \in Request |-> RequestKind(r)]
Effect == [r \in Request |-> IF reqs[r].did THEN reqs[r].kid ELSE None]

(* What a request did stays done, and no other request does it again.       *)
EffectsUnique ==
  \A r \in Request : Effect[r] # None =>
    /\ Kind[r] \in {"issue", "revoke"}
    /\ Effect[r] \in Ever
    /\ Kind[r] = "revoke" => Effect[r] \notin Live
    /\ \A s \in Request : Effect[s] = Effect[r] /\ Kind[s] = Kind[r] => s = r

(* A record that a key was issued or revoked tells what its request did,    *)
(* and for whom.                                                            *)
KindOf(type) == IF type = "generate-key" THEN "issue" ELSE "revoke"
RecordsTrue ==
  \A e \in chain : e.type \in {"generate-key", "revoke-key"} /\ e.outcome = "ok" =>
    /\ e.op \in Request
    /\ Effect[e.op] = e.kid /\ e.kid \in Kid
    /\ Kind[e.op] = KindOf(e.type)
    /\ reqs[e.op].user.userId = e.user

HistoryConsistent == HandlersConsistent /\ EffectsUnique /\ RecordsTrue

(* A record is what its five members say.                                   *)
RecordsPlain ==
  \A e \in chain : e = [type |-> e.type, op |-> e.op, user |-> e.user, kid |-> e.kid,
                         outcome |-> e.outcome]

-----------------------------------------------------------------------------
(* What a step of the promise does to the views                             *)

EffectsStay == \A r \in Request : Effect[r] # None => Effect'[r] = Effect[r] /\ Kind'[r] = Kind[r]
KidsStay == Ever \subseteq Ever' /\ Live' \cap Ever \subseteq Live

(* A request that just issued or revoked a key.                             *)
EffectMade(r) ==
  /\ Effect[r] = None /\ Kind'[r] = Kind[r]
  /\ \A s \in Request : s # r => Effect'[s] = Effect[s] /\ Kind'[s] = Kind[s]
  /\ \/ Kind[r] = "issue" /\ Effect'[r] \in Ever' \ Ever
     \/ Kind[r] = "revoke" /\ Effect'[r] \in Live \cap Ever' /\ Effect'[r] \notin Live'

(* What a step does, seen through the promise: one of its actions or none.  *)
LEMMA PromiseStep ==
  ASSUME HandlersConsistent, [Promise!Next]_(Promise!promiseVars)
  PROVE  /\ EffectsStay /\ KidsStay
         /\ \/ \A r \in Request : Effect'[r] # None => Effect[r] = Effect'[r]
            \/ \E r \in Request : EffectMade(r)
<1>1. Live \subseteq Ever /\ None \notin Kid
  BY NoneAssumption DEF HandlersConsistent, KidsNew, Live, Ever
<1>2. \A r \in Request : Effect[r] # None => Kind[r] # None
  BY RequestKnown, NoAnswerAssumption DEF Effect, Kind, RequestKind, EffectAccounted
<1>3. CASE \E r \in Request : \/ Promise!Accept(r) \/ Promise!Record(r)
                              \/ \E a \in {"ok", "other"} : Promise!Answer(r, a)
  BY <1>1, <1>2, <1>3
  DEF Promise!Accept, Promise!Record, Promise!Answer, EffectsStay, KidsStay, Live, Ever, Kind, Effect
<1>4. ASSUME NEW r \in Request, NEW k \in Kid, Promise!Issue(r, k) PROVE EffectMade(r)
  BY <1>1, <1>4 DEF Promise!Issue, EffectMade, Live, Ever, Kind, Effect
<1>5. ASSUME NEW r \in Request, NEW k \in Kid, Promise!Issue(r, k) PROVE KidsStay
  BY <1>5 DEF Promise!Issue, KidsStay, Live, Ever
<1>6. ASSUME NEW r \in Request, NEW k \in Kid, Promise!Revoke(r, k) PROVE EffectMade(r)
  BY <1>1, <1>6 DEF Promise!Revoke, EffectMade, Live, Ever, Kind, Effect
<1>7. ASSUME NEW r \in Request, NEW k \in Kid, Promise!Revoke(r, k) PROVE KidsStay
  BY <1>7 DEF Promise!Revoke, KidsStay, Live, Ever
<1>8. ASSUME NEW r \in Request, EffectMade(r) PROVE EffectsStay
  BY <1>8 DEF EffectMade, EffectsStay
<1>9. CASE \E K : Promise!Reap(K)
  BY <1>9 DEF Promise!Reap, EffectsStay, KidsStay, Live, Ever, Kind, Effect
<1>10. CASE UNCHANGED Promise!promiseVars
  BY <1>10 DEF Promise!promiseVars, EffectsStay, KidsStay, Live, Ever, Kind, Effect
<1> QED
  BY <1>3, <1>4, <1>5, <1>6, <1>7, <1>8, <1>9, <1>10 DEF Promise!Next

(* The promise keeps what a request did unique.                             *)
LEMMA EffectsUniqueKept ==
  ASSUME HandlersConsistent, EffectsUnique, [Promise!Next]_(Promise!promiseVars)
  PROVE  EffectsUnique'
<1>1. EffectsStay /\ KidsStay
  BY PromiseStep
<1>2. Effect' = [r \in Request |-> Effect'[r]]
  BY DEF Effect
<1>3. CASE \A r \in Request : Effect'[r] # None => Effect[r] = Effect'[r]
  BY <1>1, <1>3 DEF EffectsUnique, EffectsStay, KidsStay
<1>4. CASE \E r \in Request : EffectMade(r)
  <2>1. PICK r \in Request : EffectMade(r)
    BY <1>4
  <2> QED
    BY <1>1, <2>1 DEF EffectsUnique, EffectsStay, KidsStay, EffectMade
<1> QED
  BY <1>3, <1>4, PromiseStep

-----------------------------------------------------------------------------
(* The records                                                              *)

(* A step moves one request on, or kills the process, or moves none.        *)
LEMMA StepOfOne ==
  ASSUME HandlersConsistent, [Next]_vars, NEW r \in Request
  PROVE  reqs'[r] = reqs[r] \/ Arrive(r) \/ Handle(r) \/ Crash
<1>1. ASSUME NEW s \in Request, s # r, NEW p, Update(s, p) PROVE reqs'[r] = reqs[r]
  BY <1>1 DEF Update, HandlersConsistent, ServerTypeOK
<1>2. ASSUME NEW s \in Request, s # r, Arrive(s) \/ Handle(s) PROVE reqs'[r] = reqs[r]
  <2>1. CASE Arrive(s)
    BY <1>1, <1>2, <2>1 DEF Arrive
  <2>2. CASE QueryUser(s) \/ Dispatch(s) \/ DispatchInherited(s) \/ QueryKey(s) \/ Authorize(s)
    BY <1>1, <1>2, <2>2, Zenon DEF QueryUser, Dispatch, DispatchInherited, QueryKey, Authorize
  <2>3. CASE Crypto(s)
    BY <1>1, <1>2, <2>3 DEF Crypto
  <2>4. CASE DeleteKey(s) \/ QueryMissing(s) \/ Generate(s) \/ InsertNewKey(s)
    BY <1>1, <1>2, <2>4 DEF DeleteKey, QueryMissing, Generate, InsertNewKey
  <2>5. CASE QueryList(s) \/ FilterList(s) \/ ReadFails(s) \/ WriteFails(s)
    BY <1>1, <1>2, <2>5 DEF QueryList, FilterList, ReadFails, WriteFails
  <2>6. CASE AppendAudit(s) \/ AppendDenied(s) \/ AppendFails(s) \/ Respond(s)
    BY <1>1, <1>2, <2>6 DEF AppendAudit, AppendDenied, AppendFails, Respond
  <2> QED
    BY <1>2, <2>1, <2>2, <2>3, <2>4, <2>5, <2>6 DEF Handle
<1> QED
  BY <1>2 DEF Next, ServerNext, Sweep, Start, vars, serverVars

(* The user of a request that changed a key stays who it was: its handler   *)
(* has only to append and to answer.                                        *)
LEMMA UserKept ==
  ASSUME HandlersConsistent, [Next]_vars, NEW r \in Request, reqs[r].did
  PROVE  reqs'[r].user = reqs[r].user
<1> DEFINE q == reqs[r]
<1>1. q \in RequestState /\ q.pc \in {"auditq", "deniedq", "respond", "done", "lost"}
  BY RequestKnown DEF EffectAccounted
<1>2. ASSUME NEW p, Update(r, p) PROVE reqs'[r] = p
  BY <1>2 DEF Update, HandlersConsistent, ServerTypeOK
<1>3. ASSUME Arrive(r) \/ Handle(r)
      PROVE  AppendAudit(r) \/ AppendDenied(r) \/ AppendFails(r) \/ Respond(r)
  <2>1. ~Arrive(r) /\ ~(QueryUser(r) \/ Dispatch(r) \/ DispatchInherited(r) \/ QueryKey(r))
    BY <1>1, Zenon DEF Arrive, QueryUser, Dispatch, DispatchInherited, QueryKey
  <2>2. ~(Authorize(r) \/ Crypto(r) \/ DeleteKey(r) \/ QueryMissing(r) \/ Generate(r))
    BY <1>1, Zenon DEF Authorize, Crypto, DeleteKey, QueryMissing, Generate
  <2>3. ~QueryList(r) /\ ~FilterList(r)
    BY <1>1, Zenon DEF QueryList, FilterList
  <2>4. ~InsertNewKey(r) /\ ~ReadFails(r) /\ ~WriteFails(r)
    BY <1>1 DEF InsertNewKey, ReadFails, WriteFails, RequestState
  <2> QED
    BY <1>3, <2>1, <2>2, <2>3, <2>4 DEF Handle
<1>4. CASE AppendAudit(r) \/ AppendDenied(r) \/ AppendFails(r) \/ Respond(r)
  <2>1. /\ Resume(q, AfterAppend(q)).user = q.user
        /\ Resume(q, Goto(q, "respond")).user = q.user
        /\ Resume(q, AppendFailure(q)).user = q.user
        /\ Discard(q, "done").user = q.user
    BY <1>1 DEF Resume, AfterAppend, AppendFailure, Reply, Goto, Discard, RequestState
  <2> QED
    BY <1>2, <1>4, <2>1 DEF AppendAudit, AppendDenied, AppendFails, Respond
<1>5. CASE Crash
  BY <1>1, <1>5 DEF Crash, Discard, RequestState
<1> QED
  BY <1>3, <1>4, <1>5, StepOfOne

(* A new record of success is of a request that did what it says.           *)
LEMMA RecordMade ==
  ASSUME HandlersConsistent, [Next]_vars, NEW e \in chain' \ chain, e.outcome = "ok",
         e.type \in {"generate-key", "revoke-key"}
  PROVE  /\ e.op \in Request
         /\ Effect[e.op] = e.kid /\ e.kid \in Kid
         /\ Kind[e.op] = KindOf(e.type)
         /\ reqs[e.op].user.userId = e.user
<1>1. PICK r \in Request : AppendAudit(r) \/ AppendDenied(r) \/ AppendFails(r)
  BY DEF Next, ServerNext, Arrive, Handle, QueryUser, Dispatch, DispatchInherited, QueryKey,
         Authorize, Crypto, DeleteKey, QueryMissing, Generate, InsertNewKey, QueryList,
         FilterList, ReadFails, WriteFails, Respond, Sweep, Crash, Start, Tick, ServerOnly,
         vars, dbVars
<1>2. e = DeniedEvent(r) \/ (e = OpEvent(r) /\ reqs[r].pc = "auditq")
  BY <1>1 DEF AppendAudit, AppendDenied, AppendFails, AppendEvent
<1>3. DeniedEvent(r).type = "denied"
  BY DEF DeniedEvent
<1>4. e = OpEvent(r) /\ reqs[r].pc = "auditq"
  BY <1>2, <1>3
<1>5. /\ e.op = r /\ e.type = reqs[r].in.request /\ e.outcome = reqs[r].out
      /\ e.user = reqs[r].user.userId /\ e.kid = ResultKid(reqs[r])
  BY <1>4 DEF OpEvent
<1>6. e.kid = reqs[r].kid
  BY <1>5 DEF ResultKid
<1>7. /\ reqs[r] \in RequestState /\ reqs[r].in # None
      /\ reqs[r].did /\ reqs[r].kid # None
  BY <1>4, <1>5, RequestKnown DEF EffectAccounted
<1>8. RequestKind(r) = KindOf(e.type)
  BY <1>5, <1>7 DEF RequestKind, KindOf
<1> QED
  BY <1>5, <1>6, <1>7, <1>8 DEF Effect, Kind, RequestState

(* Records stay true: what was done stays done, by the same user.           *)
LEMMA RecordsTrueKept ==
  ASSUME HandlersConsistent, RecordsTrue, [Next]_vars
  PROVE  RecordsTrue'
<1>1. EffectsStay
  BY StepMaps, PromiseStep
<1>2. ASSUME NEW r \in Request, Effect[r] # None PROVE reqs'[r].user = reqs[r].user
  BY <1>2, UserKept DEF Effect
<1>3. None \notin Kid
  BY NoneAssumption
<1> SUFFICES ASSUME NEW e \in chain', e.type \in {"generate-key", "revoke-key"}, e.outcome = "ok"
             PROVE  /\ e.op \in Request
                    /\ Effect'[e.op] = e.kid /\ e.kid \in Kid
                    /\ Kind'[e.op] = KindOf(e.type)
                    /\ reqs'[e.op].user.userId = e.user
  BY DEF RecordsTrue, KindOf
<1>4. /\ e.op \in Request
      /\ Effect[e.op] = e.kid /\ e.kid \in Kid
      /\ Kind[e.op] = KindOf(e.type)
      /\ reqs[e.op].user.userId = e.user
  <2>1. CASE e \in chain
    BY <2>1 DEF RecordsTrue
  <2>2. CASE e \notin chain
    BY <2>2, RecordMade
  <2> QED
    BY <2>1, <2>2
<1> QED
  BY <1>1, <1>2, <1>3, <1>4 DEF EffectsStay

(* At the start nothing is done and nothing recorded.                       *)
LEMMA InitiallyNoHistory == Init => HistoryConsistent
<1> SUFFICES ASSUME Init PROVE EffectsUnique /\ RecordsTrue
  BY InitiallyConsistent DEF HistoryConsistent
<1>1. \A r \in Request : ~reqs[r].did
  BY DEF Init, IdleRequest
<1>2. chain = {}
  BY DEF Init, DbInit
<1> QED
  BY <1>1, <1>2 DEF EffectsUnique, RecordsTrue, Effect

(* The history stays consistent from step to step.                          *)
LEMMA StepKeepsHistory == HistoryConsistent /\ [Next]_vars => HistoryConsistent'
BY StepKeepsConsistent, StepMaps, EffectsUniqueKept, RecordsTrueKept DEF HistoryConsistent

-----------------------------------------------------------------------------
(* Records of two revocations of a key are one record, for they are records *)
(* of one request; likewise for inserts.                                    *)
LEMMA RecordsUnique ==
  ASSUME HistoryConsistent, RecordsPlain
  PROVE  OneRevocationPerKey
<1> SUFFICES ASSUME NEW k \in Kid
             PROVE  /\ RevokeRecords(k) # {} => Gone(k)
                    /\ \A e, f \in RevokeRecords(k) : e = f
                    /\ \A e \in IssueRecords(k) : issued[k] # None
                    /\ \A e, f \in IssueRecords(k) : e = f
  BY DEF OneRevocationPerKey
<1>1. None \notin Kid
  BY NoneAssumption
<1>2. ASSUME NEW e \in RevokeRecords(k)
      PROVE  e.op \in Request /\ Effect[e.op] = k /\ Kind[e.op] = "revoke" /\ Gone(k)
  BY <1>1, <1>2 DEF HistoryConsistent, RecordsTrue, EffectsUnique, RevokeRecords, KindOf, Gone,
                    Live, Ever
<1>3. ASSUME NEW e \in IssueRecords(k)
      PROVE  e.op \in Request /\ Effect[e.op] = k /\ Kind[e.op] = "issue" /\ issued[k] # None
  BY <1>1, <1>3 DEF HistoryConsistent, RecordsTrue, EffectsUnique, IssueRecords, KindOf, Ever
<1>4. ASSUME NEW e \in chain, NEW f \in chain, e.op = f.op, e.type = f.type, e.kid = f.kid,
             e.outcome = f.outcome, e.user = f.user
      PROVE  e = f
  BY <1>4 DEF RecordsPlain
<1>5. ASSUME NEW e \in RevokeRecords(k), NEW f \in RevokeRecords(k) PROVE e = f
  <2>1. e.op = f.op
    BY <1>1, <1>2, <1>5 DEF HistoryConsistent, EffectsUnique
  <2> QED
    BY <1>4, <1>5, <2>1 DEF RevokeRecords, HistoryConsistent, RecordsTrue
<1>6. ASSUME NEW e \in IssueRecords(k), NEW f \in IssueRecords(k) PROVE e = f
  <2>1. e.op = f.op
    BY <1>1, <1>3, <1>6 DEF HistoryConsistent, EffectsUnique
  <2> QED
    BY <1>4, <1>6, <2>1 DEF IssueRecords, HistoryConsistent, RecordsTrue
<1> QED
  BY <1>2, <1>3, <1>5, <1>6

(* Of concurrent requests to revoke a key, or to insert one, whichever      *)
(* replies are lost, one is recorded as successful, and only if the row is  *)
(* gone, or was inserted (keystore.js revoke and generate, handleApi).      *)
THEOREM OneWinnerPerKey == Spec => []OneRevocationPerKey
<1>1. Spec => []HistoryConsistent
  BY InitiallyNoHistory, StepKeepsHistory, PTL DEF Spec
<1>2. HistoryConsistent /\ TypeOK => OneRevocationPerKey
  BY RecordsUnique DEF RecordsPlain, TypeOK, Event
<1> QED
  BY <1>1, <1>2, ServerConsistent, PTL

(* No handler brings back the row of a key that is gone, whatever copy of   *)
(* it the handler still holds (keystore.js, serverdb.js).                   *)
THEOREM GoneStaysGone == Spec => NoResurrection
<1>1. HandlersConsistent /\ [Next]_vars => [\A k \in Kid : Gone(k) => Gone(k)']_vars
  <2> SUFFICES ASSUME HandlersConsistent, [Next]_vars, NEW k \in Kid, Gone(k) PROVE Gone(k)'
    OBVIOUS
  <2>1. KidsStay
    BY StepMaps, PromiseStep
  <2> QED
    BY <2>1 DEF KidsStay, Live, Ever, Gone
<1> QED
  BY <1>1, ServerConsistent, PTL DEF Spec, NoResurrection
=============================================================================
