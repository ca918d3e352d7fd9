------------------------------ MODULE KvAdmin ------------------------------
(* The kv-admin command line (kvadmin.js): every invocation is a process of *)
(* its own that goes straight to the database, one statement after another, *)
(* in no transaction, and appends its audit record last. Several may run at *)
(* once. A command may be killed, or fail, between any two statements.      *)
EXTENDS VaultDb

CONSTANTS Command,        \* invocations
          CommandLines,   \* what an invocation may be asked to do
          NewUsers,       \* user UUIDs no user has had
          NewTokens,      \* tokens never issued
          MaxOperators    \* how many commands run at the same time

VARIABLE cmds             \* the invocations

adminVars == <<cmds>>

CommandNames == {"add-user", "set-token", "revoke-token", "set-user-data",
                 "remove-user", "list-users", "update-acl", "rewrap", "verify-audit"}

UserFields == {"allowedOps", "coOwners", "allowedIP", "nbf", "exp"}

(* add-user starts from no address to connect from and no other property.   *)
EmptyData == [allowedOps |-> None, coOwners |-> {}, allowedIP |-> {},
              nbf |-> None, exp |-> None]

MergeData(data, change) ==
  [f \in DOMAIN data |-> IF f \in DOMAIN change THEN change[f] ELSE data[f]]

(* change holds the fields of the user's data that the options set; active  *)
(* and known are the KEKs given to rewrap.                                  *)
IsCommandLine(in) ==
  /\ DOMAIN in = {"command", "user", "kid", "acl", "change", "active", "known"}
  /\ in.command \in CommandNames
  /\ in.user \in UserId /\ in.kid \in Kid /\ in.acl \in RawAcl
  /\ DOMAIN in.change \subseteq UserFields
  /\ MergeData(EmptyData, in.change) \in UserData
  /\ in.active \in in.known /\ in.known \subseteq Kek

ASSUME LineAssumption == \A in \in CommandLines : IsCommandLine(in)
ASSUME NoLineAssumption == None \notin CommandLines
ASSUME OperatorAssumption == MaxOperators \in Nat
ASSUME FreshAssumption ==
  /\ NewUsers \subseteq UserId /\ NewTokens \subseteq Token
  /\ \A tables \in InitialTables, u \in UserId :
       tables.users[u] # None => tables.users[u].token \notin NewTokens

(* pc names the statement to be executed next. data is what setUserData     *)
(* will write, token what setUserToken will write and print, rows the work  *)
(* left for rewrap, skipped the rows it could not open.                     *)
IdleCommand == [pc |-> "idle", in |-> None, user |-> None, token |-> None,
                data |-> None, rows |-> {}, skipped |-> {}]

CommandRunning == {"insert", "read", "token", "data", "remove", "list", "missing",
                   "key", "acl", "snapshot", "wrap", "verify", "audit"}

CommandState == [pc : CommandRunning \cup {"idle", "done", "failed"},
                 in : CommandLines \cup {None}, user : UserId \cup {None},
                 token : Token \cup {None}, data : UserData \cup {None},
                 rows : SUBSET (Kid \X KeyRow), skipped : SUBSET Kid]

AdminEvent == [type : CommandNames, op : Command, user : UserId \cup {None},
               kid : Kid \cup {None}, outcome : {None}]

AdminTypeOK == cmds \in [Command -> CommandState]

AdminInit == cmds = [c \in Command |-> IdleCommand]

-----------------------------------------------------------------------------
(* Helpers                                                                  *)

CommandEvent(c) ==
  LET in == cmds[c].in IN
  [type |-> in.command, op |-> c, user |-> cmds[c].user,
   kid |-> IF in.command = "update-acl" THEN in.kid ELSE None, outcome |-> None]

FreshToken(t) == /\ t \in NewTokens
                 /\ \A u \in UserId : users[u] # None => users[u].token # t
                 /\ \A c \in Command : cmds[c].token # t

FreshUser(u) == /\ u \in NewUsers
                /\ users[u] = None
                /\ \A c \in Command : cmds[c].user # u

ToCommand(c, q) == cmds' = [cmds EXCEPT ![c] = q]

Step(c, pc) == ToCommand(c, [cmds[c] EXCEPT !.pc = pc])

Running == {c \in Command : cmds[c].pc \in CommandRunning}

-----------------------------------------------------------------------------
(* The commands, statement by statement                                     *)

FirstStatement(in) ==
  CASE in.command = "add-user"     -> "insert"
    [] in.command = "remove-user"  -> "remove"
    [] in.command = "list-users"   -> "list"
    [] in.command = "update-acl"   -> IF ValidateAcl(in.acl) THEN "missing" ELSE "failed"
    [] in.command = "rewrap"       -> "snapshot"
    [] in.command = "verify-audit" -> "verify"
    [] OTHER                       -> "read"

StartCommand(c) ==
  /\ cmds[c].pc = "idle"
  /\ Cardinality(Running) < MaxOperators
  /\ \E in \in CommandLines :
       ToCommand(c, [cmds[c] EXCEPT !.pc = FirstStatement(in), !.in = in,
                                    !.user = IF in.command \in {"update-acl", "rewrap", "add-user",
                                                                "list-users", "verify-audit"}
                                             THEN None ELSE in.user])
  /\ UNCHANGED dbVars

(* add-user                                                                 *)
AddUser(c) ==
  /\ cmds[c].pc = "insert"
  /\ \E u \in UserId :
       /\ FreshUser(u)
       /\ InsertUser(u, MergeData(EmptyData, cmds[c].in.change))
       /\ ToCommand(c, [cmds[c] EXCEPT !.pc = "audit", !.user = u])
  /\ UNCHANGED <<keys, chain, now, issued>>

(* set-token, revoke-token and set-user-data read the user first; what they *)
(* write later is computed from the data read here.                         *)
ReadUser(c) ==
  LET q == cmds[c]
      row == users[q.user]
  IN
  /\ q.pc = "read"
  /\ IF row = None THEN Step(c, "failed")
     ELSE \/ /\ q.in.command = "set-user-data"
             /\ ToCommand(c, [q EXCEPT !.pc = "data",
                                       !.data = MergeData(row.data, q.in.change)])
          \/ /\ q.in.command = "set-token"
             /\ \E t \in Token :
                  /\ FreshToken(t)
                  /\ ToCommand(c, [q EXCEPT !.pc = "token", !.data = row.data, !.token = t])
          \/ /\ q.in.command = "revoke-token"
             /\ ToCommand(c, [q EXCEPT !.pc = "token", !.data = row.data])
  /\ UNCHANGED dbVars

(* Mutation: a user who has a token keeps it.                               *)
WriteTokenOnlyFirst(c) ==
  /\ cmds[c].pc = "token"
  /\ LET row == users[cmds[c].user] IN
     IF cmds[c].token # None /\ row # None /\ row.token # None THEN UNCHANGED users
     ELSE SetUserToken(cmds[c].user, cmds[c].token)
  /\ Step(c, "data")
  /\ UNCHANGED <<keys, chain, now, issued>>

(* Mutation: revoke-token leaves the digest in place.                       *)
WriteTokenOnlyNew(c) ==
  /\ cmds[c].pc = "token"
  /\ IF cmds[c].token = None THEN UNCHANGED users
     ELSE SetUserToken(cmds[c].user, cmds[c].token)
  /\ Step(c, "data")
  /\ UNCHANGED <<keys, chain, now, issued>>

WriteToken(c) ==
  /\ cmds[c].pc = "token"
  /\ SetUserToken(cmds[c].user, cmds[c].token)
  /\ Step(c, "data")
  /\ UNCHANGED <<keys, chain, now, issued>>

(* The row count is not looked at, here and in the other UPDATEs.           *)
WriteData(c) ==
  /\ cmds[c].pc = "data"
  /\ SetUserData(cmds[c].user, cmds[c].data)
  /\ Step(c, "audit")
  /\ UNCHANGED <<keys, chain, now, issued>>

DeleteUser(c) ==
  /\ cmds[c].pc = "remove"
  /\ IF users[cmds[c].user] = None
     THEN Step(c, "failed") /\ UNCHANGED users
     ELSE Step(c, "audit") /\ RemoveUser(cmds[c].user)
  /\ UNCHANGED <<keys, chain, now, issued>>

(* list-users and verify-audit only read.                                   *)
ReadOnly(c) ==
  /\ cmds[c].pc \in {"list", "verify"}
  /\ Step(c, "audit")
  /\ UNCHANGED dbVars

(* update-acl: the users named exist, the key exists, the new ACL.          *)
CheckAclUsers(c) ==
  /\ cmds[c].pc = "missing"
  /\ Step(c, IF MissingUsers(AclUsers(cmds[c].in.acl)) = {} THEN "key" ELSE "failed")
  /\ UNCHANGED dbVars

ReadKey(c) ==
  /\ cmds[c].pc = "key"
  /\ Step(c, IF KeyById(cmds[c].in.kid) = None THEN "failed" ELSE "acl")
  /\ UNCHANGED dbVars

WriteAcl(c) ==
  /\ cmds[c].pc = "acl"
  /\ UpdateKeyAcl(cmds[c].in.kid, cmds[c].in.acl)
  /\ Step(c, "audit")
  /\ UNCHANGED <<users, chain, now>>

(* rewrap: the rows not wrapped with the active KEK, as they are at once... *)
SnapshotRows(c) ==
  /\ cmds[c].pc = "snapshot"
  /\ ToCommand(c, [cmds[c] EXCEPT !.pc = "wrap",
                                  !.rows = KeysNotEmbeddedWith(cmds[c].in.active)])
  /\ UNCHANGED dbVars

(* ...then one after the other: opened and wrapped anew, which takes a KEK  *)
(* that was given, or skipped, whatever it is that extract throws: the KEK  *)
(* is not among them, or what is in the row does not open with it.          *)
RewrapRow(c) ==
  LET q == cmds[c] IN
  /\ q.pc = "wrap"
  /\ \E kr \in q.rows :
       \/ /\ kr[2].kek \in q.in.known
          /\ UpdateKeyEmbedding(kr[1], kr[2], q.in.active)
          /\ ToCommand(c, [q EXCEPT !.rows = @ \ {kr}])
       \/ /\ ToCommand(c, [q EXCEPT !.rows = @ \ {kr}, !.skipped = @ \cup {kr[1]}])
          /\ UNCHANGED <<keys, issued>>
  /\ UNCHANGED <<users, chain, now>>

RewrapDone(c) ==
  /\ cmds[c].pc = "wrap"
  /\ cmds[c].rows = {}
  /\ Step(c, "audit")
  /\ UNCHANGED dbVars

(* The audit record; the command then prints its result.                    *)
(* Mutation: the result is printed whether or not the record was appended.  *)
PrintUnaudited(c) ==
  /\ cmds[c].pc = "audit"
  /\ chain' = chain \/ AppendEvent(CommandEvent(c))
  /\ Step(c, "done")
  /\ UNCHANGED <<users, keys, now, issued>>

AuditCommand(c) ==
  /\ cmds[c].pc = "audit"
  /\ AppendEvent(CommandEvent(c))
  /\ Step(c, "done")
  /\ UNCHANGED <<users, keys, now, issued>>

(* A statement fails, or the process is killed.                             *)
Abort(c) ==
  /\ cmds[c].pc \in CommandRunning
  /\ Step(c, "failed")
  /\ UNCHANGED dbVars

AdminStep(c) == \/ AddUser(c) \/ ReadUser(c) \/ WriteToken(c) \/ WriteData(c)
                \/ DeleteUser(c) \/ ReadOnly(c) \/ CheckAclUsers(c) \/ ReadKey(c)
                \/ WriteAcl(c) \/ SnapshotRows(c) \/ RewrapRow(c) \/ RewrapDone(c)
                \/ AuditCommand(c)

AdminNext == \E c \in Command : StartCommand(c) \/ AdminStep(c) \/ Abort(c)

-----------------------------------------------------------------------------
(* What the commands promise                                                *)

(* README, kv-admin: "a command fails if its audit append fails". A command *)
(* that printed its result has its record.                                  *)
CommandsAudited ==
  \A c \in Command : cmds[c].pc = "done" => CommandEvent(c) \in chain

(* README, kv-admin: the mask is what --allowed-ops sets. A user who stays  *)
(* keeps their mask in every step but the write of a set-user-data; a token *)
(* command never changes it.                                                *)
MaskOnlySetBySetUserData ==
  [][\A u \in UserId :
       /\ users[u] # None /\ users'[u] # None
       /\ users'[u].data.allowedOps # users[u].data.allowedOps
       => \E c \in Command : /\ cmds[c].pc = "data" /\ cmds[c].user = u
                             /\ cmds'[c].pc = "audit"
                             /\ cmds[c].in.command = "set-user-data"
                             /\ "allowedOps" \in DOMAIN cmds[c].in.change
    ]_<<dbVars, adminVars>>

(* The ACL of a key changes in no step but the UPDATE of an update-acl,     *)
(* whatever rewrap read before.                                             *)
AclOnlySetByUpdateAcl ==
  [][\A k \in Kid :
       /\ keys[k] # None /\ keys'[k] # None /\ keys'[k].acl # keys[k].acl
       => \E c \in Command : /\ cmds[c].pc = "acl" /\ cmds'[c].pc = "audit"
                             /\ cmds[c].in.kid = k /\ keys'[k].acl = cmds[c].in.acl
    ]_<<dbVars, adminVars>>

-----------------------------------------------------------------------------
(* The inductive invariant behind them: what a command has at hand at each  *)
(* statement, and which commands get there. A token is at hand of set-token *)
(* only, once it has read its user.                                         *)
CommandPlaced(q) ==
  /\ q.pc = "idle" <=> q.in = None
  /\ q.pc \in {"idle", "read"} => q.token = None
  /\ q.token # None => q.in.command = "set-token"
  /\ q.in # None /\ q.in.command \in {"set-token", "revoke-token", "set-user-data", "remove-user"}
       => q.user = q.in.user
  /\ q.pc = "insert" => q.in.command = "add-user"
  /\ q.pc = "read" => q.in.command \in {"set-token", "revoke-token", "set-user-data"}
  /\ q.pc = "token" => q.in.command \in {"set-token", "revoke-token"} /\ q.data \in UserData
  /\ q.pc = "data" => /\ q.in.command \in {"set-token", "revoke-token", "set-user-data"}
                      /\ q.data \in UserData
  /\ q.pc = "remove" => q.in.command = "remove-user"
  /\ q.pc \in {"list", "verify"} => q.in.command \in {"list-users", "verify-audit"}
  /\ q.pc \in {"missing", "key", "acl"} => q.in.command = "update-acl" /\ ValidateAcl(q.in.acl)
  /\ q.pc \in {"snapshot", "wrap"} => q.in.command = "rewrap"

CommandsConsistent == \A c \in Command : CommandPlaced(cmds[c])
=============================================================================
