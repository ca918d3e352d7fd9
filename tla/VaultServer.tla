---------------------------- MODULE VaultServer ----------------------------
(* The vault's server process: the API requests in flight, each at one of   *)
(* the points where its handler awaits (server.js, serverauth.js,           *)
(* serverhandlers.js, keystore.js), the expiry sweep, and the process's     *)
(* crashes and restarts.                                                    *)
(*                                                                          *)
(* A query is two steps: the database executes it (pc "..q": sent) and the  *)
(* handler resumes with the result (pc "..r"); anything may happen between  *)
(* them. The two are one step when the handler, once resumed, reads neither *)
(* the clock nor the database before its next await.                        *)
EXTENDS VaultDb

CONSTANTS Request,         \* request envelopes, named by their op UUID
          Inputs,          \* what a request may contain
          ActiveKek,       \* the KEK new keys are wrapped with
          KnownKeks,       \* every KEK the process has loaded
          AllowExportKey,  \* --allow-export-key
          MaxCrashes       \* bound on the crashes of the process

VARIABLES reqs,      \* the requests, by op
          up,        \* the process is running
          crashes    \* how often it has crashed

serverVars == <<reqs, up, crashes>>
vars == <<users, keys, chain, now, issued, reqs, up, crashes>>

-----------------------------------------------------------------------------
(* Requests                                                                 *)

(* The class a key operation asks of the target key's ACL.                  *)
OpClassOf == [op \in {"public-key", "create-jwt", "verify-jwt", "create-jwe",
                      "decrypt-jwe", "revoke-key", "export-key"} |->
  CASE op = "public-key"  -> "export-public-key"
    [] op = "create-jwt"  -> "sign"
    [] op = "verify-jwt"  -> "verify"
    [] op = "create-jwe"  -> "encrypt"
    [] op = "decrypt-jwe" -> "decrypt"
    [] op = "revoke-key"  -> "revoke-key"
    [] op = "export-key"  -> "export-secret-key"]

KeyOps     == DOMAIN OpClassOf
TokenOps   == {"verify-jwt", "decrypt-jwe"}    \* take a token, maybe no kid
Operations == KeyOps \cup {"healthcheck", "generate-key", "list-keys"}
AuditedOps == Operations \ {"healthcheck"}

(* A request as the client sends it. shape: "malformed" fails the envelope  *)
(* checks, "bad" passes them but not those of the operation on its data.    *)
(* kid is data.kid; hdrKid and alg are those of the protected header of the *)
(* token sent, alg is the key algorithm asked for in generate-key. request  *)
(* "inherited" is any name every object inherits a function under, such as  *)
(* "constructor"; "no-such-op" is any other name that is no operation.      *)
Input == [user : UserId, token : Token, ip : Ip,
          request : Operations \cup {"no-such-op", "inherited"},
          shape : {"malformed", "bad", "good"},
          kid : Kid \cup {None}, hdrKid : Kid \cup {None}, alg : Alg,
          nbf : MaybeTime, exp : MaybeTime, acl : RawAcl \cup {None}]

ASSUME InputAssumption == Inputs \subseteq Input
ASSUME NoInputAssumption == None \notin Inputs
ASSUME KekAssumption == ActiveKek \in KnownKeks /\ KnownKeks \subseteq Kek
ASSUME ServerAssumption == AllowExportKey \in BOOLEAN /\ MaxCrashes \in Nat

ApiErrors == {"INVALID_REQUEST_DATA", "KEY_NOT_FOUND", "INCOMPATIBLE_KEY_TYPE",
              "INVALID_INPUT_TOKEN", "OPERATION_DISABLED", "INVALID_ACL",
              "KEY_NOT_AVAILABLE", "OPERATION_NOT_PERMITTED", "INTERNAL_ERROR"}
Outcomes == ApiErrors \cup {"ok"}
Answers == Outcomes \cup {"MALFORMED_REQUEST", "UNAUTHORIZED", "UNKNOWN_OPERATION"}

ASSUME NoAnswerAssumption == None \notin Answers \cup {"issue", "revoke", "use", "other"}

(* Where a handler may stand: a statement that changes the database sent,   *)
(* any other await, or no handler at all.                                   *)
WriteSent == {"insq", "delq", "auditq", "deniedq"}
InFlight  == WriteSent \cup {"authq", "authr", "keyq", "keyr", "missq", "gen",
                             "listq", "listr", "crypto", "respond"}
Finished  == {"done", "lost"}

(* user: what authenticate returned; row: the key row loaded, or the one    *)
(* about to be inserted; kid: the key the handler works on; listed: the     *)
(* rows keysByAclUser returned; out: the outcome; masked: the maskedDenial  *)
(* mark; alive: FALSE once the process that sent the statement has died.    *)
(* History: ended, the keys that were gone or expired when the request      *)
(* arrived; did, this request's INSERT or DELETE of a key row took effect.  *)
IdleRequest == [pc |-> "idle", in |-> None, user |-> None, row |-> None,
                kid |-> None, listed |-> {}, out |-> None, masked |-> FALSE,
                alive |-> TRUE, ended |-> {}, did |-> FALSE]

AuthUser == [userId : UserId, data : UserData]

RequestState == [pc : InFlight \cup Finished \cup {"idle"},
                 in : Inputs \cup {None}, user : AuthUser \cup {None},
                 row : KeyRow \cup {None}, kid : Kid \cup {None},
                 listed : SUBSET (Kid \X KeyRow),
                 out : Answers \cup {None}, masked : BOOLEAN,
                 alive : BOOLEAN, ended : SUBSET Kid, did : BOOLEAN]

(* A record the server appends to the audit chain. The denied event has no  *)
(* outcome.                                                                 *)
Event == [type : AuditedOps \cup {"denied"}, op : Request, user : UserId,
          kid : Kid \cup {None}, outcome : Outcomes \cup {None}]

ServerTypeOK == /\ DbTypeOK
                /\ reqs \in [Request -> RequestState]
                /\ up \in BOOLEAN
                /\ crashes \in 0..MaxCrashes

(* The chain is typed apart: kv-admin appends to it as well.                *)
TypeOK == ServerTypeOK /\ chain \subseteq Event

Init == /\ DbInit
        /\ reqs = [r \in Request |-> IdleRequest]
        /\ up = TRUE
        /\ crashes = 0

-----------------------------------------------------------------------------
(* Helpers of the handlers                                                  *)

(* The kid of verify-jwt and decrypt-jwe, None when it is missing or when   *)
(* the request and the token disagree.                                      *)
ResolveKid(in) ==
  IF in.kid # None /\ in.hdrKid # None /\ in.kid # in.hdrKid THEN None
  ELSE IF in.kid # None THEN in.kid ELSE in.hdrKid

TargetKid(in) == IF in.request \in TokenOps THEN ResolveKid(in) ELSE in.kid

(* Mutation: the window's end is inclusive.                                 *)
InWindowInclusiveEnd(row) == /\ row.nbf # None => row.nbf <= now
                             /\ row.exp # None => row.exp >= now

InWindow(row) == /\ row.nbf # None => row.nbf <= now
                 /\ row.exp # None => row.exp > now

(* The token is known, belongs to the claimed user, and the account and the *)
(* address are in order. An account is still valid at the second it expires.*)
Authenticated(in, user) ==
  /\ user # None
  /\ user.userId = in.user
  /\ user.data.nbf # None => user.data.nbf <= now
  /\ user.data.exp # None => user.data.exp >= now
  /\ in.ip \in user.data.allowedIP

(* The ACL submitted to generate-key with the caller added as an owner.     *)
MergeSelf(acl, self) ==
  [acl EXCEPT ![self] = {"owner"} \cup (IF @ = None THEN {} ELSE @)]

(* What a handler decides before its first await: an outcome, or None to go *)
(* on.                                                                      *)
GateGenerate(in, user) ==
  IF ~AllowedOpsAllows(user.data.allowedOps, "generate-key")
    THEN "OPERATION_NOT_PERMITTED"
  ELSE IF \/ in.shape = "bad"
          \/ in.exp # None /\ in.exp <= now
          \/ in.exp # None /\ in.nbf # None /\ in.exp <= in.nbf
    THEN "INVALID_REQUEST_DATA"
  ELSE IF in.acl # None /\ ~ValidateAcl(MergeSelf(in.acl, user.userId))
    THEN "INVALID_ACL"
  ELSE None

BadData(in) == \/ in.shape = "bad"
               \/ in.request \in KeyOps \ TokenOps /\ in.kid = None

Gate(in, user) ==
  IF in.request = "generate-key" THEN GateGenerate(in, user)
  ELSE IF BadData(in) THEN "INVALID_REQUEST_DATA"
  ELSE CASE in.request = "healthcheck" -> "ok"
         [] in.request = "list-keys" ->
              IF AllowedOpsAllows(user.data.allowedOps, "list-keys") THEN None
              ELSE "OPERATION_NOT_PERMITTED"
         [] in.request = "export-key" ->
              IF AllowExportKey THEN None ELSE "OPERATION_DISABLED"
         [] in.request \in TokenOps ->
              IF ResolveKid(in) = None THEN "INVALID_INPUT_TOKEN" ELSE None
         [] OTHER -> None

(* The caller holds the class the operation asks for: ACL grant and mask.   *)
(* Mutation: the mask alone decides.                                        *)
MaskOnly(in, user, row) ==
  AllowedOpsAllows(user.data.allowedOps, OpClassOf[in.request])

Granted(in, user, row) ==
  /\ AclAllows(row.acl, user.userId, OpClassOf[in.request])
  /\ AllowedOpsAllows(user.data.allowedOps, OpClassOf[in.request])

(* What a handler decides from the row of a granted, in-window key: None to *)
(* go on, "ok" when nothing is left to do.                                  *)
Incompatible(in, row) ==
  \/ in.request = "public-key" /\ row.alg \in OctAlgs
  \/ in.request \in {"create-jwt", "verify-jwt"} /\ row.alg \notin JwtAlgs
  \/ in.request \in {"create-jwe", "decrypt-jwe"} /\ row.alg \notin JweAlgs

Compatibility(in, row) ==
  IF Incompatible(in, row) THEN "INCOMPATIBLE_KEY_TYPE"
  ELSE IF in.request \in TokenOps /\ in.alg # row.alg THEN "INVALID_INPUT_TOKEN"
  ELSE IF in.request = "public-key" THEN "ok"
  ELSE None

(* Whether the operation unwraps the secret half.                           *)
NeedsSecret(in, row) ==
  \/ in.request \in {"create-jwt", "decrypt-jwe", "export-key"}
  \/ in.request \in {"verify-jwt", "create-jwe"} /\ row.alg \in OctAlgs

(* How tr-jwt and tr-jwe may end: a refused claim, a token that does not    *)
(* verify or decrypt, any other exception.                                  *)
CryptoOutcomes(in) ==
  CASE in.request = "create-jwt" -> {"ok", "INVALID_REQUEST_DATA", "INTERNAL_ERROR"}
    [] in.request \in TokenOps   -> {"ok", "INVALID_INPUT_TOKEN"}
    [] in.request = "create-jwe" -> {"ok", "INTERNAL_ERROR"}
    [] OTHER                     -> {"ok"}

(* The records of a request.                                                *)
ResultKid(q) == IF q.out # "ok" THEN q.in.kid
                ELSE IF q.in.request = "list-keys" THEN None ELSE q.kid

OpEvent(r) == [type |-> reqs[r].in.request, op |-> r,
               user |-> reqs[r].user.userId, kid |-> ResultKid(reqs[r]),
               outcome |-> reqs[r].out]

DeniedEvent(r) == [type |-> "denied", op |-> r, user |-> reqs[r].user.userId,
                   kid |-> reqs[r].in.kid, outcome |-> None]

(* The row of a new key, and the ACL it starts with.                        *)
NewRow(in, acl) == [alg |-> in.alg, acl |-> acl, nbf |-> in.nbf,
                    exp |-> in.exp, kek |-> ActiveKek]

(* The users missingUsers is asked about: those of the submitted ACL, or    *)
(* the co-owners other than the caller.                                     *)
AskedUsers(in, user) ==
  IF in.acl # None THEN AclUsers(MergeSelf(in.acl, user.userId))
  ELSE user.data.coOwners \ {user.userId}

InitialAcl(in, user, missing) ==
  IF in.acl # None THEN MergeSelf(in.acl, user.userId)
  ELSE [u \in UserId |-> IF u \in {user.userId} \cup (AskedUsers(in, user) \ missing)
                          THEN {"owner"} ELSE None]

(* A kid randomUUID has never returned before.                              *)
FreshKid(k) == /\ issued[k] = None
               /\ \A r \in Request : reqs[r].kid # k

-----------------------------------------------------------------------------
(* Moving a request along                                                   *)

Update(r, q) == reqs' = [reqs EXCEPT ![r] = q]

(* The reply to a statement finds no process to return to.                  *)
Resume(q, next) == IF q.alive THEN next ELSE [q EXCEPT !.pc = "lost"]

(* The handler returned or threw: the outcome is audited, then answered.    *)
Conclude(q, out) ==
  [q EXCEPT !.out = out,
            !.pc = IF q.in.request \in AuditedOps THEN "auditq" ELSE "respond"]

Reply(q, out) == [q EXCEPT !.out = out, !.pc = "respond"]

Goto(q, pc) == [q EXCEPT !.pc = pc]

ServerOnly == UNCHANGED <<users, keys, chain, now, issued, up, crashes>>

-----------------------------------------------------------------------------
(* Dispatch                                                                 *)

(* A key that was issued and is gone or expired.                            *)
Ended(k) == \/ Gone(k)
            \/ keys[k] # None /\ keys[k].exp # None /\ keys[k].exp <= now

(* A request arrives and its envelope is checked; a well-formed one starts  *)
(* authenticate, which looks the token up.                                  *)
Arrive(r) ==
  /\ up
  /\ reqs[r].pc = "idle"
  /\ \E in \in Inputs :
       LET q == [reqs[r] EXCEPT !.in = in, !.ended = {k \in Kid : Ended(k)}]
       IN  Update(r, IF in.shape = "malformed" THEN Reply(q, "MALFORMED_REQUEST")
                     ELSE Goto(q, "authq"))
  /\ ServerOnly

QueryUser(r) ==
  /\ reqs[r].pc = "authq"
  /\ Update(r, [reqs[r] EXCEPT !.pc = "authr",
                               !.user = UserByTokenHash(reqs[r].in.token)])
  /\ ServerOnly

(* The first await of each handler.                                         *)
FirstAwait(in, user) ==
  CASE in.request = "list-keys" -> "listq"
    [] in.request = "generate-key" ->
         IF AskedUsers(in, user) = {} THEN "gen" ELSE "missq"
    [] OTHER -> "keyq"

(* authenticate's verdict, the choice of the handler, and the handler up to *)
(* its first await.                                                         *)
Dispatch(r) ==
  LET q    == reqs[r]
      in   == q.in
      gate == Gate(in, q.user)
  IN
  /\ q.pc = "authr"
  /\ in.request = "inherited" => ~Authenticated(in, q.user)
  /\ Update(r,
       IF ~Authenticated(in, q.user) THEN Reply([q EXCEPT !.user = None], "UNAUTHORIZED")
       ELSE IF in.request \notin Operations THEN Reply(q, "UNKNOWN_OPERATION")
       ELSE IF gate # None THEN Conclude(q, gate)
       ELSE [q EXCEPT !.pc = FirstAwait(in, q.user),
                      !.kid = IF in.request \in KeyOps THEN TargetKid(in) ELSE None,
                      !.row = IF in.request = "generate-key"
                                 /\ AskedUsers(in, q.user) = {}
                              THEN NewRow(in, InitialAcl(in, q.user, {}))
                              ELSE None])
  /\ ServerOnly

(* The handler is looked up as a property of an object: under an inherited  *)
(* name it is a function of Object.prototype, which returns some value or   *)
(* throws. The set of audited names holds the object's own names only.      *)
DispatchInherited(r) ==
  LET q == reqs[r] IN
  /\ q.pc = "authr"
  /\ q.in.request = "inherited"
  /\ Authenticated(q.in, q.user)
  /\ \E out \in {"ok", "INTERNAL_ERROR"} : Update(r, Reply(q, out))
  /\ ServerOnly

-----------------------------------------------------------------------------
(* Operations on a key                                                      *)

(* loadKey: the row is read...                                              *)
QueryKey(r) ==
  /\ reqs[r].pc = "keyq"
  /\ Update(r, [reqs[r] EXCEPT !.pc = "keyr", !.row = KeyById(reqs[r].kid)])
  /\ ServerOnly

(* ...and authorizedKey decides on it: a missing key, a denial and a key    *)
(* outside its window are all key-not-found; a denial is marked. A granted  *)
(* request goes on to the DELETE (revoke-key) or to the cryptography.       *)
Authorize(r) ==
  LET q == reqs[r]
      compat == Compatibility(q.in, q.row)
  IN
  /\ q.pc = "keyr"
  /\ Update(r,
       IF q.row = None THEN Conclude(q, "KEY_NOT_FOUND")
       ELSE IF ~Granted(q.in, q.user, q.row)
         THEN Conclude([q EXCEPT !.masked = TRUE], "KEY_NOT_FOUND")
       ELSE IF ~InWindow(q.row) THEN Conclude(q, "KEY_NOT_FOUND")
       ELSE IF compat # None THEN Conclude(q, compat)
       ELSE Goto(q, IF q.in.request = "revoke-key" THEN "delq" ELSE "crypto"))
  /\ ServerOnly

(* unwrapKey, where the operation needs the secret, and the JOSE operation. *)
(* A wrapped key that does not open is an internal error.                   *)
Crypto(r) ==
  LET q == reqs[r] IN
  /\ q.pc = "crypto"
  /\ IF NeedsSecret(q.in, q.row) /\ q.row.kek \notin KnownKeks
     THEN Update(r, Conclude(q, "KEY_NOT_AVAILABLE"))
     ELSE \E out \in CryptoOutcomes(q.in)
                     \cup (IF NeedsSecret(q.in, q.row) THEN {"INTERNAL_ERROR"} ELSE {}) :
            Update(r, Conclude(q, out))
  /\ ServerOnly

(* keystore.revoke: the DELETE, and its row count.                          *)
(* Mutation: the row count is not looked at.                                *)
DeleteKeyUnchecked(r) ==
  LET q == reqs[r] IN
  /\ q.pc = "delq"
  /\ DeleteKeys({q.kid})
  /\ Update(r, Resume([q EXCEPT !.did = TRUE],
                      Conclude([q EXCEPT !.did = TRUE], "ok")))
  /\ UNCHANGED <<users, chain, now, up, crashes>>

DeleteKey(r) ==
  LET q == [reqs[r] EXCEPT !.did = keys[reqs[r].kid] # None] IN
  /\ reqs[r].pc = "delq"
  /\ DeleteKeys({q.kid})
  /\ Update(r, Resume(q, Conclude(q, IF q.did THEN "ok" ELSE "KEY_NOT_FOUND")))
  /\ UNCHANGED <<users, chain, now, up, crashes>>

-----------------------------------------------------------------------------
(* generate-key                                                             *)

(* missingUsers, and the ACL of the new key.                                *)
QueryMissing(r) ==
  LET q == reqs[r]
      missing == MissingUsers(AskedUsers(q.in, q.user))
  IN
  /\ q.pc = "missq"
  /\ Update(r, IF q.in.acl # None /\ missing # {} THEN Conclude(q, "INVALID_ACL")
               ELSE [q EXCEPT !.pc = "gen",
                              !.row = NewRow(q.in, InitialAcl(q.in, q.user, missing))])
  /\ ServerOnly

(* generateVaultKey and kek.embed.                                          *)
Generate(r) ==
  /\ reqs[r].pc = "gen"
  /\ \/ \E k \in Kid : FreshKid(k) /\ Update(r, [reqs[r] EXCEPT !.pc = "insq", !.kid = k])
     \/ Update(r, Conclude(reqs[r], "INTERNAL_ERROR"))
  /\ ServerOnly

InsertNewKey(r) ==
  LET q == [reqs[r] EXCEPT !.did = TRUE] IN
  /\ q.pc = "insq"
  /\ InsertKey(q.kid, q.row)
  /\ Update(r, Resume(q, Conclude(q, "ok")))
  /\ UNCHANGED <<users, chain, now, up, crashes>>

-----------------------------------------------------------------------------
(* list-keys                                                                *)

QueryList(r) ==
  /\ reqs[r].pc = "listq"
  /\ Update(r, [reqs[r] EXCEPT !.pc = "listr",
                               !.listed = {<<k, keys[k]>> :
                                             k \in KeysByAclUser(reqs[r].user.userId)}])
  /\ ServerOnly

(* The rows read are filtered by the window at this moment and by the       *)
(* effective classes.                                                       *)
FilterList(r) ==
  LET q == reqs[r]
      visible(row) == /\ InWindow(row)
                      /\ EffectiveAny(q.user.data.allowedOps, row.acl, q.user.userId)
  IN
  /\ q.pc = "listr"
  /\ Update(r, Conclude([q EXCEPT !.listed = {kr \in @ : visible(kr[2])}], "ok"))
  /\ ServerOnly

-----------------------------------------------------------------------------
(* A query fails. The handler's exception becomes an internal error; one    *)
(* thrown by authenticate escapes to the server, which answers unaudited.   *)
(* A write may have been committed before its reply was lost.               *)
ReadFails(r) ==
  LET q == reqs[r] IN
  /\ \/ q.pc = "authq" /\ Update(r, Reply(q, "INTERNAL_ERROR"))
     \/ q.pc \in {"keyq", "missq", "listq"} /\ Update(r, Conclude(q, "INTERNAL_ERROR"))
  /\ ServerOnly

WriteFails(r) ==
  LET q == reqs[r] IN
  /\ q.pc \in {"insq", "delq"}
  /\ \/ /\ Update(r, Resume(q, Conclude(q, "INTERNAL_ERROR")))
        /\ UNCHANGED <<keys, issued>>
     \/ /\ IF q.pc = "insq" THEN InsertKey(q.kid, q.row)
           ELSE keys[q.kid] # None /\ DeleteKeys({q.kid})
        /\ LET p == [q EXCEPT !.did = TRUE]
           IN  Update(r, Resume(p, Conclude(p, "INTERNAL_ERROR")))
  /\ UNCHANGED <<users, chain, now, up, crashes>>

-----------------------------------------------------------------------------
(* The audit append and the response                                        *)

(* Mutation: the denied record is forgotten.                                *)
AfterAppendOnlyOne(q) == Goto(q, "respond")

(* The record is appended before the response is sent; a denial is followed *)
(* by its denied record.                                                    *)
AfterAppend(q) == IF q.masked THEN Goto(q, "deniedq") ELSE Goto(q, "respond")

(* Mutation: a failed append is logged and the answer goes out all the same.*)
AppendFailureIgnored(q) == AfterAppend(q)

(* Mutation: the handler gives up without answering.                        *)
AppendFailureUnanswered(q) == Goto(q, "lost")

AppendFailure(q) == Reply(q, "INTERNAL_ERROR")

AppendAudit(r) ==
  LET q == reqs[r] IN
  /\ q.pc = "auditq"
  /\ AppendEvent(OpEvent(r))
  /\ Update(r, Resume(q, AfterAppend(q)))
  /\ UNCHANGED <<users, keys, now, issued, up, crashes>>

AppendDenied(r) ==
  LET q == reqs[r] IN
  /\ q.pc = "deniedq"
  /\ AppendEvent(DeniedEvent(r))
  /\ Update(r, Resume(q, Goto(q, "respond")))
  /\ UNCHANGED <<users, keys, now, issued, up, crashes>>

(* Either append may fail, having left its record behind or not.            *)
AppendFails(r) ==
  LET q == reqs[r] IN
  /\ \/ q.pc = "auditq"  /\ (UNCHANGED chain \/ AppendEvent(OpEvent(r)))
     \/ q.pc = "deniedq" /\ (UNCHANGED chain \/ AppendEvent(DeniedEvent(r)))
  /\ Update(r, Resume(q, AppendFailure(q)))
  /\ UNCHANGED <<users, keys, now, issued, up, crashes>>

(* The answer leaves; what the handler still held is garbage.               *)
Discard(q, pc) == [q EXCEPT !.pc = pc, !.row = None]

Respond(r) ==
  /\ reqs[r].pc = "respond"
  /\ Update(r, Discard(reqs[r], "done"))
  /\ ServerOnly

-----------------------------------------------------------------------------
(* The process                                                              *)

(* The expiry sweep, on its timer while the process runs.                   *)
Sweep ==
  /\ up
  /\ Sweepable # {}
  /\ DeleteKeys(Sweepable)
  /\ UNCHANGED <<users, chain, now, serverVars>>

(* The process dies. A statement already sent may still be executed.        *)
Crash ==
  /\ up
  /\ crashes < MaxCrashes
  /\ up' = FALSE
  /\ crashes' = crashes + 1
  /\ reqs' = [r \in Request |->
                IF reqs[r].pc \in WriteSent THEN [reqs[r] EXCEPT !.alive = FALSE]
                ELSE IF reqs[r].pc \in InFlight THEN Discard(reqs[r], "lost")
                ELSE reqs[r]]
  /\ UNCHANGED dbVars

(* It boots again: an initial sweep, then it listens.                       *)
Start ==
  /\ ~up
  /\ up' = TRUE
  /\ DeleteKeys(Sweepable)
  /\ UNCHANGED <<users, chain, now, reqs, crashes>>

Handle(r) == \/ QueryUser(r) \/ Dispatch(r) \/ DispatchInherited(r)
             \/ QueryKey(r) \/ Authorize(r)
             \/ Crypto(r) \/ DeleteKey(r) \/ QueryMissing(r) \/ Generate(r)
             \/ InsertNewKey(r) \/ QueryList(r) \/ FilterList(r)
             \/ ReadFails(r) \/ WriteFails(r)
             \/ AppendAudit(r) \/ AppendDenied(r) \/ AppendFails(r) \/ Respond(r)

ServerNext == \/ \E r \in Request : Arrive(r) \/ Handle(r)
              \/ Sweep \/ Crash \/ Start

Next == ServerNext \/ (Tick /\ UNCHANGED serverVars)

Spec == Init /\ [][Next]_vars

(* Node resumes every handler whose await has settled, the pool settles     *)
(* every query (a reply or an error), the sweep timer keeps firing, a dead  *)
(* process is restarted, time passes. Nothing obliges a client to send, a   *)
(* process to crash, or the statement of a dead process to be executed.     *)
Fairness == /\ \A r \in Request : WF_vars(Handle(r) /\ reqs[r].alive)
            /\ WF_vars(Sweep)
            /\ WF_vars(Start)
            /\ WF_vars(Tick /\ UNCHANGED serverVars)

FairSpec == Spec /\ Fairness

-----------------------------------------------------------------------------
(* What the server promises                                                 *)

Answered(r) == reqs[r].pc \in {"respond", "done"}
AnsweredOk(r) == Answered(r) /\ reqs[r].out = "ok"

(* README, Audit chain: "there is never a success response without a        *)
(* recorded event". Every success about to leave or sent has its record,    *)
(* with the operation, the caller and the key the answer is about, whatever *)
(* queries failed and whichever process died meanwhile.                     *)
OkIsAudited ==
  \A r \in Request :
    AnsweredOk(r) /\ reqs[r].in.request \in AuditedOps => OpEvent(r) \in chain

(* A record of a success is never about work that was not done, and a key   *)
(* is revoked, or issued, by one request only: of concurrent revocations    *)
(* that all loaded the row, one is told ok.                                 *)
RevokeRecords(k) == {e \in chain : e.type = "revoke-key" /\ e.outcome = "ok" /\ e.kid = k}
IssueRecords(k)  == {e \in chain : e.type = "generate-key" /\ e.outcome = "ok" /\ e.kid = k}

OneRevocationPerKey ==
  \A k \in Kid : /\ RevokeRecords(k) # {} => Gone(k)
                 /\ \A e, f \in RevokeRecords(k) : e = f
                 /\ \A e \in IssueRecords(k) : issued[k] # None
                 /\ \A e, f \in IssueRecords(k) : e = f

(* README, Key lifecycle: a revoked or expired key "is unusable for every   *)
(* operation". A request that arrives when its key is gone or expired is    *)
(* never served with it, and never lists it.                                *)
EndedKeyNeverServed ==
  \A r \in Request : AnsweredOk(r) =>
    /\ reqs[r].in.request \in KeyOps => reqs[r].kid \notin reqs[r].ended
    /\ \A kr \in reqs[r].listed : kr[1] \notin reqs[r].ended

(* What the documentation calls holding a class on a key.                   *)
Entitled(u, data, op, row) == /\ AclAllows(row.acl, u, OpClassOf[op])
                              /\ AllowedOpsAllows(data.allowedOps, OpClassOf[op])

(* Answers that only a key that is there can cause, once it is looked up.   *)
Telling == {"ok", "INCOMPATIBLE_KEY_TYPE", "INVALID_INPUT_TOKEN", "KEY_NOT_AVAILABLE",
            "INVALID_REQUEST_DATA"}

(* API.md, Masking: only a caller who holds the class on the key gets any   *)
(* answer but key-not-found for an operation that looked the key up. Keys'  *)
(* ACLs and users' masks do not change while only the server runs.          *)
HoldsClass(r) ==
  LET in == reqs[r].in IN
  /\ issued[reqs[r].kid] # None
  /\ Entitled(in.user, users[in.user].data, in.request, issued[reqs[r].kid])

ExistenceMasked ==
  \A r \in Request :
    /\ Answered(r)
    /\ reqs[r].in.request \in KeyOps
    /\ reqs[r].kid # None
    /\ reqs[r].out \in Telling
    => HoldsClass(r)

(* API.md, Audit: an ACL violation leaves its denied record. A caller told  *)
(* key-not-found of a key that existed all along and that they do not hold  *)
(* has both records in the chain; and a denied record is only ever written  *)
(* of a key that exists, on top of a key-not-found record.                  *)
IssuedHere(k) == \E r \in Request : /\ reqs[r].did /\ reqs[r].kid = k
                                     /\ reqs[r].in.request = "generate-key"

DenialsRecorded ==
  \A r \in Request :
    /\ /\ Answered(r) /\ reqs[r].out = "KEY_NOT_FOUND"
       /\ keys[reqs[r].kid] # None /\ ~IssuedHere(reqs[r].kid)
       /\ ~HoldsClass(r)
       => DeniedEvent(r) \in chain
    /\ reqs[r].user # None /\ DeniedEvent(r) \in chain =>
         /\ issued[reqs[r].kid] # None
         /\ \E e \in chain : e.op = r /\ e.outcome = "KEY_NOT_FOUND"

(* A key row disappears only by a granted revocation that reached its       *)
(* DELETE, or when no caller could use it any more. The sweep goes by the   *)
(* database's clock: the grace period must cover its lead on the vault's.   *)
KeysEndForAReason ==
  [][\A k \in Kid : keys[k] # None /\ keys'[k] = None =>
       \/ keys[k].exp # None /\ keys[k].exp <= now
       \/ \E r \in Request : /\ reqs[r].pc = "delq" /\ reqs[r].kid = k
                             /\ Entitled(reqs[r].user.userId, reqs[r].user.data,
                                         reqs[r].in.request, keys[k])]_vars

(* README, Authorization: "every key always keeps at least one owner",      *)
(* users in an ACL exist, and the caller of generate-key is one of the      *)
(* owners. Nobody is removed while only the server runs.                    *)
KeysAreOwned ==
  /\ \A k \in Kid : keys[k] # None =>
        /\ \E u \in UserId : users[u] # None /\ AclAllows(keys[k].acl, u, "owner")
        /\ \A u \in AclUsers(keys[k].acl) : users[u] # None
  /\ \A r \in Request : reqs[r].did /\ reqs[r].in.request = "generate-key" =>
        AclAllows(issued[reqs[r].kid].acl, reqs[r].in.user, "owner")

(* A kid names one key forever: its row never comes back, whatever handler  *)
(* still holds a copy of it.                                                *)
NoResurrection == [][\A k \in Kid : Gone(k) => Gone(k)']_vars

(* Every request that reaches a process that stays alive is answered.       *)
EveryRequestAnswered ==
  \A r \in Request : reqs[r].pc = "authq" ~> reqs[r].pc = "done" \/ ~up

(* README, Key lifecycle: expired rows are reaped, across crashes.          *)
ExpiredKeysReaped ==
  \A k \in Kid : /\ keys[k] # None /\ keys[k].exp # None
                 /\ keys[k].exp < DbNow - Grace
                 ~> keys[k] = None

-----------------------------------------------------------------------------
(* The inductive invariant behind the safety properties                     *)

Handling == {"keyq", "keyr", "crypto", "delq", "missq", "gen", "insq",
             "listq", "listr", "auditq", "deniedq"}

(* What a handler has at hand at each await, and which requests get there.  *)
WellPlaced(q) ==
  /\ q.pc = "idle" <=> q.in = None
  /\ q.pc \in Handling => q.user # None /\ q.in.request \in AuditedOps
  /\ q.pc \in {"keyq", "keyr", "crypto", "delq"} => q.in.request \in KeyOps /\ q.kid # None
  /\ q.pc \in {"crypto", "delq", "gen", "insq"} => q.row # None
  /\ q.pc = "crypto" => q.in.request # "revoke-key"
  /\ q.pc = "delq" => q.in.request = "revoke-key"
  /\ q.pc \in {"missq", "gen", "insq"} => q.in.request = "generate-key"
  /\ q.pc = "missq" /\ q.in.acl # None => ValidateAcl(MergeSelf(q.in.acl, q.user.userId))
  /\ q.pc = "insq" => q.kid # None
  /\ q.pc \in {"listq", "listr"} => q.in.request = "list-keys"
  /\ q.pc \in {"auditq", "deniedq"} => q.out \in Outcomes

(* A request that changed a key is past its write, and one about to be      *)
(* recorded as done did what it was asked.                                  *)
EffectAccounted(q) ==
  /\ q.did => /\ q.pc \in {"auditq", "deniedq", "respond", "done", "lost"}
              /\ q.kid # None
              /\ q.in # None
              /\ q.in.request \in {"generate-key", "revoke-key"}
  /\ /\ q.pc = "auditq" /\ q.out = "ok"
     /\ q.in.request \in {"generate-key", "revoke-key"}
     => q.did

(* A success past its append has its record.                                *)
SuccessRecorded ==
  \A r \in Request :
    /\ reqs[r].pc \in {"deniedq", "respond", "done"} /\ reqs[r].out = "ok"
    /\ reqs[r].in.request \in AuditedOps
    => OpEvent(r) \in chain

(* Kids about to be inserted are new, and no two handlers hold the same.    *)
KidsNew ==
  /\ \A k \in Kid : keys[k] # None => issued[k] # None
  /\ \A r \in Request : reqs[r].pc = "insq" =>
        /\ issued[reqs[r].kid] = None
        /\ \A s \in Request : s # r /\ reqs[s].pc = "insq" => reqs[s].kid # reqs[r].kid

(* Together: between two steps, every handler in flight stands where its    *)
(* request may stand, with what it needs, and the tables and the chain      *)
(* account for what the handlers have done so far.                          *)
HandlersConsistent ==
  /\ ServerTypeOK
  /\ \A r \in Request : WellPlaced(reqs[r]) /\ EffectAccounted(reqs[r])
  /\ SuccessRecorded
  /\ KidsNew

(* API.md, revoke-key: "Hard-delete a key. [...] Always audited." When a    *)
(* request that deleted a key is over, the chain holds the record of its    *)
(* success.                                                                 *)
RevocationAlwaysAudited ==
  \A r \in Request :
    reqs[r].pc \in Finished /\ reqs[r].did /\ reqs[r].in.request = "revoke-key"
    => OpEvent(r) \in RevokeRecords(reqs[r].kid)

(* API.md, HTTP status codes: a request value that names no operation is    *)
(* answered unknown-operation, never ok.                                    *)
OkMeansOperation == \A r \in Request : AnsweredOk(r) => reqs[r].in.request \in Operations

-----------------------------------------------------------------------------
(* The server keeps the promise of VaultPromise. What is not audited (a     *)
(* healthcheck, a name that is no operation) asks for nothing.              *)
RequestKind(r) ==
  IF reqs[r].in = None THEN None
  ELSE CASE reqs[r].in.request = "generate-key" -> "issue"
         [] reqs[r].in.request = "revoke-key"   -> "revoke"
         [] OTHER                               -> "use"

AnswerSent(r) ==
  IF reqs[r].pc # "done" THEN None
  ELSE IF reqs[r].out = "ok" /\ reqs[r].in.request \in AuditedOps THEN "ok"
  ELSE "other"

Promise == INSTANCE VaultPromise WITH
  live     <- {k \in Kid : keys[k] # None},
  ever     <- {k \in Kid : issued[k] # None},
  kind     <- [r \in Request |-> RequestKind(r)],
  effect   <- [r \in Request |-> IF reqs[r].did THEN reqs[r].kid ELSE None],
  recorded <- {r \in Request : \E e \in chain : e.op = r /\ e.outcome = "ok"},
  answer   <- [r \in Request |-> AnswerSent(r)]

(* Every behaviour of the server is one of VaultPromise: the interleavings, *)
(* lost replies, failed appends and crashes never show.                     *)
KeepsPromise == Promise!Spec
=============================================================================
