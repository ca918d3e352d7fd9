---------------------------- MODULE VaultSystem ----------------------------
(* The whole vault: the server process and the kv-admin processes on one    *)
(* database. Each moves on its own; they meet in users, keys and chain.     *)
EXTENDS VaultServer, KvAdmin

(* History: what was true at some instant while the request was in flight:  *)
(* "acl", the key it asked for existed and its ACL granted the class to the *)
(* user, or "noacl", did not; "mask", the user existed, had the token sent, *)
(* and a mask with the class, or "nomask", without.                         *)
VARIABLE seen

(* History: the tokens commands took away. A revoke-token or set-token is   *)
(* to take its user's token with its UPDATE, remove-user with its DELETE.   *)
VARIABLE withdrawn

systemVars == <<vars, cmds, seen, withdrawn>>

Rights == {"acl", "mask"}
Wants == {"noacl", "nomask"}

AclSight(in, acl) ==
  IF AclAllows(acl, in.user, OpClassOf[in.request]) THEN "acl" ELSE "noacl"

MaskSight(in, data) ==
  IF AllowedOpsAllows(data.allowedOps, OpClassOf[in.request])
  THEN "mask" ELSE "nomask"

Witness(r) ==
  LET in == reqs[r].in IN
  IF /\ in # None /\ in.request \in KeyOps /\ TargetKid(in) # None
     /\ reqs[r].pc \notin Finished
  THEN {w \in Rights \cup Wants :
          \/ /\ keys[TargetKid(in)] # None
             /\ w = AclSight(in, keys[TargetKid(in)].acl)
          \/ /\ users[in.user] # None
             /\ users[in.user].token = in.token
             /\ w = MaskSight(in, users[in.user].data)}
  ELSE {}

Withdrawing ==
  {users[cmds[c].user].token :
     c \in {d \in Command : /\ cmds[d].pc \in {"token", "remove"}
                            /\ cmds'[d].pc \in {"data", "audit"}
                            /\ users[cmds[d].user] # None}} \ {None}

SystemTypeOK == /\ ServerTypeOK
                /\ chain \subseteq Event \cup AdminEvent
                /\ AdminTypeOK
                /\ seen \in [Request -> SUBSET (Rights \cup Wants)]
                /\ withdrawn \subseteq Token \ {None}

SystemInit == Init /\ AdminInit /\ seen = [r \in Request |-> {}] /\ withdrawn = {}

SystemNext ==
  /\ \/ Next /\ UNCHANGED cmds
     \/ AdminNext /\ UNCHANGED serverVars
  /\ seen' = [r \in Request |-> seen[r] \cup Witness(r)']
  /\ withdrawn' = withdrawn \cup Withdrawing

SystemSpec == SystemInit /\ [][SystemNext]_systemVars

-----------------------------------------------------------------------------

(* A request that did its work, or was told something of the key.           *)
Tells(q) == q.out = "ok" \/ (q.kid # None /\ q.out \in Telling)

(* A key operation that is answered ok, or is told anything that only a key *)
(* that is there can cause, was authorized: while it was in flight there    *)
(* was an instant at which the key existed and granted the class, and one   *)
(* at which the token was the user's and the mask had the class. A right    *)
(* that was gone when the request arrived, and a token revoked before, are  *)
(* worth nothing: to their holder the key does not exist. The two instants  *)
(* may differ: the mask is read first. And API.md, Audit: who is refused a  *)
(* key that was there all along, and was not authorized so, leaves a denied *)
(* record, and who leaves one lacked the class by ACL or by mask at some    *)
(* instant: a right that was held all along is never taken for a violation. *)
AnswersFollowRights ==
  \A r \in Request :
    LET q == reqs[r]
        authorized == Rights \subseteq seen[r]
    IN
    /\ Answered(r) /\ q.in.request \in KeyOps =>
         /\ Tells(q) => authorized
         /\ q.out = "KEY_NOT_FOUND" /\ keys[q.kid] # None /\ ~IssuedHere(q.kid)
            => authorized \/ DeniedEvent(r) \in chain
    /\ q.user # None /\ DeniedEvent(r) \in chain => seen[r] \cap Wants # {}

(* README, kv-admin: a token that was revoked, replaced or lost with its    *)
(* user is dead for good. It opens the vault to no one again, whatever data *)
(* other commands read before and write after, and in whichever order token *)
(* commands on one user interleave.                                         *)
RevokedTokensStayDead ==
  \A u \in UserId : users[u] # None => users[u].token \notin withdrawn

(* README, User accounts: set-token issues the token it prints. What it     *)
(* printed is its user's, until another command takes it away.              *)
PrintedTokensWork ==
  \A c \in Command :
    cmds[c].pc = "done" /\ cmds[c].token # None =>
      \/ users[cmds[c].user] = None
      \/ users[cmds[c].user].token = cmds[c].token
      \/ cmds[c].token \in withdrawn

(* Why: a token is of one user, or at hand of one set-token, or dead. One   *)
(* at hand is new; once written it is its user's as long as it is not dead. *)
InUse(t) == \E u \in UserId : users[u] # None /\ users[u].token = t

Written == {"data", "audit", "done"}

TokenPlaced(q) ==
  q.token # None =>
    /\ q.token \in NewTokens
    /\ q.pc = "token" => ~ InUse(q.token) /\ q.token \notin withdrawn
    /\ q.pc \in Written => \/ users[q.user] = None
                           \/ users[q.user].token = q.token
                           \/ q.token \in withdrawn

TokensConsistent ==
  /\ RevokedTokensStayDead
  /\ \A u, v \in UserId :
       /\ users[u] # None /\ users[v] # None
       /\ users[u].token # None /\ users[u].token = users[v].token
       => u = v
  /\ \A c \in Command : TokenPlaced(cmds[c])
  /\ \A c, d \in Command : cmds[c].token # None /\ cmds[c].token = cmds[d].token => c = d
  /\ \A t \in NewTokens \ {None} :
       t \in withdrawn \/ InUse(t) => \E d \in Command : cmds[d].token = t

(* Why: what a handler still holds was true when it was read. The mask the  *)
(* handler got from authenticate and the ACL in the row it loaded are       *)
(* witnessed, whether they grant the class or not; nobody is past           *)
(* authorizedKey without both; before the lookup no request is about a key. *)
RightsSeen(r) ==
  LET q == reqs[r]
      masked == MaskSight(q.in, q.user.data) \in seen[r]
  IN
  /\ q.pc \in {"idle", "authq", "authr"} => q.kid = None
  /\ q.in # None /\ q.in.request \in KeyOps =>
       /\ /\ q.pc = "authr" /\ q.user # None /\ q.user.userId = q.in.user
          /\ TargetKid(q.in) # None
          => masked
       /\ q.pc \in {"keyq", "keyr"} => /\ q.user.userId = q.in.user
                                       /\ q.kid = TargetKid(q.in)
                                       /\ masked
       /\ q.pc = "keyr" /\ q.row # None => AclSight(q.in, q.row.acl) \in seen[r]
       /\ \/ q.pc \in {"crypto", "delq"}
          \/ q.pc \in {"auditq", "deniedq", "respond", "done"} /\ Tells(q)
          => Rights \subseteq seen[r]

(* The inductive invariant of the whole: every handler and every command    *)
(* stands where it may, with what it needs, whatever the other does to the  *)
(* tables, and what rights a handler relies on were seen.                   *)
SystemConsistent ==
  /\ SystemTypeOK
  /\ HandlersConsistent
  /\ CommandsConsistent
  /\ CommandsAudited
  /\ TokensConsistent
  /\ \A r \in Request : RightsSeen(r)
=============================================================================
