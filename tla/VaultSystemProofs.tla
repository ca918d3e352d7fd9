------------------------- MODULE VaultSystemProofs -------------------------
(* Theorems about the whole vault, the server and the kv-admin commands on  *)
(* one database, for any users, keys, tokens, KEKs, requests and commands,  *)
(* and any number of each at once: SystemConsistent is an inductive         *)
(* invariant, and from it what a served operation was authorized by, what   *)
(* commands do to tokens and ACLs, and that the server keeps its promise to *)
(* clients whatever the commands do to the tables.                          *)
EXTENDS VaultSystem, VaultAccessProofs

-----------------------------------------------------------------------------
(* The operators the commands are built from                                *)

(* What is known of a command line.                                         *)
LEMMA LineKnown ==
  ASSUME NEW in \in CommandLines
  PROVE  /\ in # None
         /\ in.command \in CommandNames
         /\ in.user \in UserId /\ in.kid \in Kid /\ in.acl \in RawAcl
         /\ DOMAIN in.change \subseteq UserFields
         /\ MergeData(EmptyData, in.change) \in UserData
         /\ in.active \in Kek
BY LineAssumption, NoLineAssumption DEF IsCommandLine

(* Options that make acceptable data of an empty user's make acceptable     *)
(* data of any user's.                                                      *)
LEMMA MergeDataType ==
  ASSUME NEW data \in UserData, NEW change, DOMAIN change \subseteq UserFields,
         MergeData(EmptyData, change) \in UserData
  PROVE  MergeData(data, change) \in UserData
<1> DEFINE merged == MergeData(data, change)
           fresh == MergeData(EmptyData, change)
<1>1. DOMAIN data = UserFields /\ DOMAIN EmptyData = UserFields
  BY DEF UserData, EmptyData, UserFields
<1>2. merged = [f \in UserFields |-> merged[f]] /\ fresh = [f \in UserFields |-> fresh[f]]
  BY <1>1 DEF MergeData
<1>3. \A f \in UserFields : merged[f] = data[f] \/ merged[f] = fresh[f]
  BY <1>1 DEF MergeData
<1> HIDE DEF merged, fresh
<1>4. /\ data.allowedOps \in (SUBSET AllowedOpsClasses) \cup {None}
      /\ data.coOwners \in SUBSET UserId /\ data.allowedIP \in SUBSET Ip
      /\ data.nbf \in MaybeTime /\ data.exp \in MaybeTime
  BY DEF UserData
<1>5. /\ fresh.allowedOps \in (SUBSET AllowedOpsClasses) \cup {None}
      /\ fresh.coOwners \in SUBSET UserId /\ fresh.allowedIP \in SUBSET Ip
      /\ fresh.nbf \in MaybeTime /\ fresh.exp \in MaybeTime
  BY DEF UserData, fresh
<1>6. /\ merged.allowedOps \in (SUBSET AllowedOpsClasses) \cup {None}
      /\ merged.coOwners \in SUBSET UserId /\ merged.allowedIP \in SUBSET Ip
      /\ merged.nbf \in MaybeTime /\ merged.exp \in MaybeTime
  BY <1>3, <1>4, <1>5 DEF UserFields
<1>7. merged = [allowedOps |-> merged.allowedOps, coOwners |-> merged.coOwners,
                allowedIP |-> merged.allowedIP, nbf |-> merged.nbf, exp |-> merged.exp]
  BY <1>2 DEF UserFields
<1> QED
  BY <1>6, <1>7 DEF UserData, merged

(* An ACL that update-acl accepts is one the database may hold.             *)
LEMMA ValidAclType ==
  ASSUME NEW acl \in RawAcl, ValidateAcl(acl)
  PROVE  acl \in Acl
<1>1. ASSUME NEW u \in UserId PROVE acl[u] \in (SUBSET OpClasses) \cup {None}
  BY DEF ValidateAcl, AclUsers
<1> QED
  BY <1>1 DEF RawAcl, Acl

(* The record of a command that read its line is one of kv-admin's events.  *)
LEMMA CommandEventType ==
  ASSUME AdminTypeOK, NEW c \in Command, cmds[c].in \in CommandLines
  PROVE  CommandEvent(c) \in AdminEvent
<1>1. cmds[c].user \in UserId \cup {None}
  BY DEF AdminTypeOK, CommandState
<1> QED
  BY <1>1, LineKnown DEF CommandEvent, AdminEvent

-----------------------------------------------------------------------------
(* The commands: where each statement leaves its command and the tables     *)

AdminConsistent == DbTypeOK /\ AdminTypeOK /\ CommandsConsistent

(* A statement keeps the tables in order, inserts no key and deletes none,  *)
(* and moves its command to where it may stand. A command that has a token  *)
(* at hand goes on with it for the same user.                               *)
TablesInOrder == /\ users' \in UserTable /\ keys' \in KeyTable
                 /\ \A k \in Kid : keys'[k] # None <=> keys[k] # None
                 /\ UNCHANGED <<now, issued>>

SameWork(q, p) == p.in = q.in /\ p.user = q.user /\ p.token = q.token

Advances(c, p) == /\ ToCommand(c, p) /\ p \in CommandState /\ CommandPlaced(p)
                  /\ cmds[c].token = None \/ SameWork(cmds[c], p)

(* Users keep their tokens, or go; who is new has none, and no command is   *)
(* about them.                                                              *)
TokensStand ==
  \A u \in UserId : users'[u] # None =>
    \/ users[u] # None /\ users'[u].token = users[u].token
    \/ /\ users[u] = None /\ users'[u].token = None
       /\ \A d \in Command : cmds[d].user # u

(* A command that moves on has no token at hand, or the one it had, which   *)
(* it is not to write any more, or a new one it is to write.                *)
TokenInHand(q, p) ==
  \/ p.token = None
  \/ SameWork(q, p) /\ p.pc # "token" /\ (p.pc \in Written => q.pc \in Written)
  \/ p.pc = "token" /\ FreshToken(p.token)

(* If it was to take a token away, the user went with it.                   *)
TakesUser(q, p) ==
  q.pc \in {"token", "remove"} /\ p.pc \in {"data", "audit"} => users'[q.user] = None

(* A statement that gives no user a token, nor appends.                     *)
QuietCommand(c) ==
  /\ TablesInOrder /\ UNCHANGED chain /\ TokensStand
  /\ \E p : /\ Advances(c, p) /\ p.pc # "done"
            /\ TokenInHand(cmds[c], p) /\ TakesUser(cmds[c], p)

LEMMA CommandKnown ==
  ASSUME AdminConsistent, NEW c \in Command
  PROVE  /\ cmds[c] \in CommandState /\ CommandPlaced(cmds[c])
         /\ cmds[c].pc # "idle" => cmds[c].in \in CommandLines
         /\ cmds[c].in # None => cmds[c].in \in CommandLines
BY DEF AdminConsistent, AdminTypeOK, CommandsConsistent, CommandState, CommandPlaced

(* A statement that only reads leaves the tables as they are.               *)
LEMMA ReadsKeepTables ==
  ASSUME AdminConsistent, UNCHANGED dbVars
  PROVE  TablesInOrder /\ UNCHANGED chain /\ TokensStand
BY DEF AdminConsistent, DbTypeOK, dbVars, TablesInOrder, TokensStand

(* A command that only moves on to its next statement.                      *)
LEMMA StepMoves ==
  ASSUME AdminConsistent, NEW c \in Command, NEW pc, Step(c, pc),
         \/ cmds[c].pc \in CommandRunning \ {"read"} /\ pc \in {"audit", "done"}
         \/ cmds[c].pc \in CommandRunning /\ pc = "failed"
         \/ cmds[c].pc = "token" /\ pc = "data"
         \/ cmds[c].pc \in {"missing", "key"} /\ pc \in {"key", "acl"}
  PROVE  \E p : Advances(c, p) /\ p.pc = pc /\ SameWork(cmds[c], p)
<1> DEFINE q == cmds[c]
           p == [q EXCEPT !.pc = pc]
<1>1. q \in CommandState /\ CommandPlaced(q) /\ q.in \in CommandLines /\ q.pc # "idle"
  BY CommandKnown DEF CommandRunning
<1>2. pc \in {"audit", "failed", "done", "data", "key", "acl"}
  OBVIOUS
<1>3. p \in CommandState /\ p.pc = pc /\ SameWork(q, p) /\ p.data = q.data
  BY <1>1, <1>2 DEF CommandState, CommandRunning, SameWork
<1> HIDE DEF p
<1>4. CommandPlaced(p)
  BY <1>1, <1>2, <1>3, LineKnown DEF CommandPlaced, CommandRunning, SameWork
<1> QED
  BY <1>3, <1>4 DEF Advances, Step, p

(* A command that takes up its work has no token at hand yet.               *)
LEMMA StartCommandQuiet ==
  ASSUME AdminConsistent, NEW c \in Command, StartCommand(c)
  PROVE  QuietCommand(c)
<1> DEFINE q == cmds[c]
           user(in) == IF in.command \in {"update-acl", "rewrap", "add-user",
                                          "list-users", "verify-audit"} THEN None ELSE in.user
           moved(pc, in, u) == [q EXCEPT !.pc = pc, !.in = in, !.user = u]
<1>1. PICK in \in CommandLines : ToCommand(c, moved(FirstStatement(in), in, user(in)))
  BY DEF StartCommand
<1>2. q \in CommandState /\ q.token = None
  BY CommandKnown DEF StartCommand, CommandPlaced
<1> DEFINE pc == FirstStatement(in)
           u == user(in)
<1>3. /\ pc \in {"insert", "remove", "list", "missing", "failed", "snapshot", "verify", "read"}
      /\ pc = "insert" => in.command = "add-user"
      /\ pc = "remove" => in.command = "remove-user"
      /\ pc \in {"list", "verify"} => in.command \in {"list-users", "verify-audit"}
      /\ pc = "missing" => in.command = "update-acl" /\ ValidateAcl(in.acl)
      /\ pc = "snapshot" => in.command = "rewrap"
      /\ pc = "read" => in.command \in {"set-token", "revoke-token", "set-user-data"}
  BY LineKnown DEF FirstStatement, CommandNames
<1>4. u \in UserId \cup {None}
  BY LineKnown
<1>5. in.command \in {"set-token", "revoke-token", "set-user-data", "remove-user"} => u = in.user
  OBVIOUS
<1> HIDE DEF pc, u, q
<1>6. /\ moved(pc, in, u) \in CommandState
      /\ moved(pc, in, u).pc = pc /\ moved(pc, in, u).in = in /\ moved(pc, in, u).user = u
      /\ moved(pc, in, u).token = None
  <2> DEFINE pcs == CommandRunning \cup {"idle", "done", "failed"}
             lines == CommandLines \cup {None}
             people == UserId \cup {None}
  <2>1. pc \in pcs
    BY <1>3 DEF CommandRunning
  <2>2. in \in lines /\ u \in people
    BY <1>4
  <2>3. CommandState = [pc : pcs, in : lines, user : people,
                        token : Token \cup {None}, data : UserData \cup {None},
                        rows : SUBSET (Kid \X KeyRow), skipped : SUBSET Kid]
    BY DEF CommandState
  <2> HIDE DEF pcs, lines, people
  <2> QED
    BY <1>2, <2>1, <2>2, <2>3
<1>7. CommandPlaced(moved(pc, in, u))
  BY <1>3, <1>5, <1>6, LineKnown DEF CommandPlaced
<1>8. TablesInOrder /\ UNCHANGED chain /\ TokensStand
  BY ReadsKeepTables DEF StartCommand
<1>9. q.pc = "idle"
  BY DEF StartCommand, q
<1> QED
  BY <1>1, <1>2, <1>3, <1>6, <1>7, <1>8, <1>9 DEF QuietCommand, Advances, TokenInHand, TakesUser, pc, u, q

(* add-user inserts a user with acceptable data and no token.               *)
LEMMA AddUserQuiet ==
  ASSUME AdminConsistent, NEW c \in Command, AddUser(c)
  PROVE  QuietCommand(c)
<1> DEFINE q == cmds[c]
           data == MergeData(EmptyData, q.in.change)
<1>1. PICK u \in UserId : /\ InsertUser(u, data)
                          /\ \A d \in Command : cmds[d].user # u
                          /\ ToCommand(c, [q EXCEPT !.pc = "audit", !.user = u])
  BY DEF AddUser, FreshUser
<1>2. q \in CommandState /\ CommandPlaced(q) /\ q.pc = "insert" /\ q.in \in CommandLines
  BY CommandKnown DEF AddUser
<1>3. data \in UserData
  BY <1>2, LineKnown
<1>4. TablesInOrder /\ UNCHANGED chain /\ TokensStand
  <2>1. users \in UserTable /\ keys \in KeyTable
    BY DEF AdminConsistent, DbTypeOK
  <2>2. [token |-> None, data |-> data] \in User
    BY <1>3 DEF User
  <2> HIDE DEF data
  <2>3. users' \in UserTable /\ TokensStand
    BY <1>1, <2>1, <2>2 DEF InsertUser, UserTable, TokensStand
  <2> QED
    BY <2>1, <2>3 DEF TablesInOrder, AddUser
<1> DEFINE p == [q EXCEPT !.pc = "audit", !.user = u]
<1> HIDE DEF q
<1>5. p \in CommandState /\ p.pc = "audit" /\ p.in = q.in /\ p.token = q.token
  BY <1>2 DEF CommandState, CommandRunning
<1>6. q.in.command = "add-user" /\ q.token = None
  BY <1>2 DEF CommandPlaced
<1>7. CommandPlaced(p)
  BY <1>2, <1>5, <1>6, LineKnown DEF CommandPlaced
<1> QED
  BY <1>1, <1>2, <1>4, <1>5, <1>6, <1>7 DEF QuietCommand, Advances, TokenInHand, TakesUser, q

(* What the commands on one user read is acceptable, and so is what they    *)
(* will write; only set-user-data skips the token.                          *)
LEMMA ReadUserQuiet ==
  ASSUME AdminConsistent, NEW c \in Command, ReadUser(c)
  PROVE  QuietCommand(c)
<1> DEFINE q == cmds[c]
           row == users[q.user]
<1>1. TablesInOrder /\ UNCHANGED chain /\ TokensStand
  BY ReadsKeepTables DEF ReadUser
<1>2. /\ q \in CommandState /\ CommandPlaced(q) /\ q.pc = "read" /\ q.in \in CommandLines
      /\ q.token = None /\ q.user \in UserId
  BY CommandKnown, LineKnown DEF ReadUser, CommandPlaced
<1>3. row # None => row.data \in UserData
  BY <1>2 DEF AdminConsistent, DbTypeOK, UserTable, User
<1> DEFINE goes(p) == Advances(c, p) /\ p.pc # "done" /\ TokenInHand(q, p) /\ TakesUser(q, p)
<1>4. CASE row = None
  <2>1. PICK p : Advances(c, p) /\ p.pc = "failed" /\ SameWork(q, p)
    BY <1>2, <1>4, StepMoves DEF ReadUser, CommandRunning
  <2> QED
    BY <1>1, <1>2, <2>1 DEF QuietCommand, TokenInHand, TakesUser, SameWork
<1>5. ASSUME row # None, q.in.command = "set-user-data",
             ToCommand(c, [q EXCEPT !.pc = "data", !.data = MergeData(row.data, q.in.change)])
      PROVE  \E p : goes(p)
  <2> DEFINE data == MergeData(row.data, q.in.change)
             p == [q EXCEPT !.pc = "data", !.data = data]
  <2>1. data \in UserData
    BY <1>2, <1>3, <1>5, MergeDataType, LineKnown
  <2> HIDE DEF data
  <2>2. /\ p \in CommandState /\ p.pc = "data" /\ p.data = data /\ p.token = None
        /\ p.in = q.in /\ p.user = q.user
    BY <1>2, <2>1 DEF CommandState, CommandRunning
  <2>3. CommandPlaced(p)
    BY <1>2, <1>5, <2>1, <2>2 DEF CommandPlaced
  <2> QED
    BY <1>2, <1>5, <2>2, <2>3 DEF Advances, TokenInHand, TakesUser, data
<1>6. ASSUME row # None, q.in.command = "set-token", NEW t \in Token, FreshToken(t),
             ToCommand(c, [q EXCEPT !.pc = "token", !.data = row.data, !.token = t])
      PROVE  \E p : goes(p)
  <2> DEFINE p == [q EXCEPT !.pc = "token", !.data = row.data, !.token = t]
  <2>1. /\ p \in CommandState /\ p.pc = "token" /\ p.data = row.data
        /\ p.in = q.in /\ p.user = q.user /\ p.token = t
    BY <1>2, <1>3, <1>6 DEF CommandState, CommandRunning
  <2>2. CommandPlaced(p)
    BY <1>2, <1>3, <1>6, <2>1 DEF CommandPlaced
  <2> QED
    BY <1>2, <1>6, <2>1, <2>2 DEF Advances, TokenInHand, TakesUser
<1>7. ASSUME row # None, q.in.command = "revoke-token",
             ToCommand(c, [q EXCEPT !.pc = "token", !.data = row.data])
      PROVE  \E p : goes(p)
  <2> DEFINE p == [q EXCEPT !.pc = "token", !.data = row.data]
  <2>1. /\ p \in CommandState /\ p.pc = "token" /\ p.data = row.data /\ p.token = None
        /\ p.in = q.in /\ p.user = q.user
    BY <1>2, <1>3, <1>7 DEF CommandState, CommandRunning
  <2>2. CommandPlaced(p)
    BY <1>2, <1>3, <1>7, <2>1 DEF CommandPlaced
  <2> QED
    BY <1>2, <1>7, <2>1, <2>2 DEF Advances, TokenInHand, TakesUser
<1>8. CASE row # None
  <2>1. \E p : goes(p)
    BY <1>5, <1>6, <1>7, <1>8 DEF ReadUser
  <2> QED
    BY <1>1, <2>1 DEF QuietCommand
<1> QED
  BY <1>4, <1>8

(* Enough for a command that moves on, once its token is written or with    *)
(* none to write; where it removed a user, the user is gone.                *)
LEMMA StepQuiet ==
  ASSUME AdminConsistent, NEW c \in Command, NEW pc, Step(c, pc),
         TablesInOrder, UNCHANGED chain, TokensStand,
         \/ cmds[c].pc \in {"data", "remove", "list", "verify", "wrap", "acl"} /\ pc = "audit"
         \/ cmds[c].pc \in CommandRunning /\ pc = "failed"
         \/ cmds[c].pc \in {"missing", "key"} /\ pc \in {"key", "acl"},
         cmds[c].pc = "remove" /\ pc = "audit" => users'[cmds[c].user] = None
  PROVE  QuietCommand(c)
<1>1. PICK p : Advances(c, p) /\ p.pc = pc /\ SameWork(cmds[c], p)
  BY StepMoves DEF CommandRunning
<1>2. CommandPlaced(cmds[c])
  BY CommandKnown
<1>3. TokenInHand(cmds[c], p)
  BY <1>1, <1>2 DEF TokenInHand, SameWork, CommandPlaced, Written
<1>4. TakesUser(cmds[c], p)
  BY <1>1 DEF TakesUser
<1> QED
  BY <1>1, <1>3, <1>4 DEF QuietCommand

(* The data a command computed from the row it read goes into the row there *)
(* is, if there is one; the token stays.                                    *)
LEMMA WriteDataQuiet ==
  ASSUME AdminConsistent, NEW c \in Command, WriteData(c)
  PROVE  QuietCommand(c)
<1> DEFINE u == cmds[c].user
           data == cmds[c].data
<1>1. cmds[c].pc = "data" /\ data \in UserData /\ u \in UserId
  BY CommandKnown, LineKnown DEF WriteData, CommandPlaced
<1>2. users \in UserTable /\ keys \in KeyTable
  BY DEF AdminConsistent, DbTypeOK
<1>3. users' = IF users[u] = None THEN users ELSE [users EXCEPT ![u].data = data]
  BY DEF WriteData, SetUserData
<1> HIDE DEF u, data
<1>4. users[u] # None => /\ [users[u] EXCEPT !.data = data] \in User
                         /\ [users[u] EXCEPT !.data = data].token = users[u].token
  BY <1>1, <1>2 DEF UserTable, User
<1>5. users' \in UserTable /\ TokensStand
  BY <1>1, <1>2, <1>3, <1>4 DEF UserTable, TokensStand
<1>6. TablesInOrder
  BY <1>2, <1>5 DEF WriteData, TablesInOrder
<1> QED
  BY <1>1, <1>5, <1>6, StepQuiet DEF WriteData

(* Removing a user takes the row with its token.                            *)
LEMMA DeleteUserQuiet ==
  ASSUME AdminConsistent, NEW c \in Command, DeleteUser(c)
  PROVE  QuietCommand(c)
<1>1. users \in UserTable /\ keys \in KeyTable
  BY DEF AdminConsistent, DbTypeOK
<1>2. users' \in UserTable /\ TokensStand
  BY <1>1 DEF DeleteUser, RemoveUser, UserTable, TokensStand
<1>3. TablesInOrder
  BY <1>1, <1>2 DEF DeleteUser, TablesInOrder
<1>4. users'[cmds[c].user] = None
  <2>1. cmds[c].user \in UserId
    BY CommandKnown, LineKnown DEF DeleteUser, CommandPlaced
  <2> QED
    BY <1>1, <2>1 DEF DeleteUser, RemoveUser, UserTable
<1> QED
  BY <1>2, <1>3, <1>4, StepQuiet DEF DeleteUser, CommandRunning

LEMMA ReadingQuiet ==
  ASSUME AdminConsistent, NEW c \in Command,
         ReadOnly(c) \/ CheckAclUsers(c) \/ ReadKey(c) \/ RewrapDone(c) \/ Abort(c)
  PROVE  QuietCommand(c)
<1>1. TablesInOrder /\ UNCHANGED chain /\ TokensStand
  BY ReadsKeepTables DEF ReadOnly, CheckAclUsers, ReadKey, RewrapDone, Abort
<1> QED
  BY <1>1, StepQuiet DEF ReadOnly, CheckAclUsers, ReadKey, RewrapDone, Abort, CommandRunning

(* update-acl writes an acceptable ACL into the row there is, if there is   *)
(* one.                                                                     *)
LEMMA WriteAclQuiet ==
  ASSUME AdminConsistent, NEW c \in Command, WriteAcl(c)
  PROVE  QuietCommand(c)
<1> DEFINE k == cmds[c].in.kid
           acl == cmds[c].in.acl
<1>1. cmds[c].pc = "acl" /\ k \in Kid /\ acl \in Acl
  BY CommandKnown, LineKnown, ValidAclType DEF WriteAcl, CommandPlaced
<1>2. users \in UserTable /\ keys \in KeyTable /\ None \notin KeyRow
  BY NoneAssumption DEF AdminConsistent, DbTypeOK
<1>3. /\ keys' = IF keys[k] = None THEN keys ELSE [keys EXCEPT ![k].acl = acl]
      /\ UNCHANGED <<users, chain, now, issued>>
  BY DEF WriteAcl, UpdateKeyAcl
<1> HIDE DEF k, acl
<1>4. keys[k] # None => [keys[k] EXCEPT !.acl = acl] \in KeyRow
  BY <1>1, <1>2 DEF KeyTable, KeyRow
<1>5. keys' \in KeyTable /\ \A j \in Kid : keys'[j] # None <=> keys[j] # None
  BY <1>1, <1>2, <1>3, <1>4 DEF KeyTable
<1>6. TablesInOrder /\ TokensStand
  BY <1>2, <1>3, <1>5 DEF TablesInOrder, TokensStand
<1> QED
  BY <1>1, <1>3, <1>6, StepQuiet DEF WriteAcl

(* rewrap takes note of the rows to do.                                     *)
LEMMA SnapshotRowsQuiet ==
  ASSUME AdminConsistent, NEW c \in Command, SnapshotRows(c)
  PROVE  QuietCommand(c)
<1> DEFINE q == cmds[c]
           rows == KeysNotEmbeddedWith(q.in.active)
           p == [q EXCEPT !.pc = "wrap", !.rows = rows]
<1>1. q \in CommandState /\ CommandPlaced(q) /\ q.pc = "snapshot" /\ q.in \in CommandLines
  BY CommandKnown DEF SnapshotRows
<1>2. rows \in SUBSET (Kid \X KeyRow)
  BY DEF KeysNotEmbeddedWith, AdminConsistent, DbTypeOK, KeyTable
<1>3. ToCommand(c, p) /\ UNCHANGED dbVars
  BY DEF SnapshotRows
<1> HIDE DEF rows
<1>4. p \in CommandState /\ p.pc = "wrap" /\ SameWork(q, p) /\ p.data = q.data
  BY <1>1, <1>2 DEF CommandState, CommandRunning, SameWork
<1> HIDE DEF p
<1>5. CommandPlaced(p)
  BY <1>1, <1>4, LineKnown DEF CommandPlaced, SameWork
<1>6. TokenInHand(q, p) /\ TakesUser(q, p)
  BY <1>1, <1>4 DEF TokenInHand, TakesUser, Written
<1> QED
  BY <1>3, <1>4, <1>5, <1>6, ReadsKeepTables DEF QuietCommand, Advances

(* rewrap writes the KEK of the row there is, if there is one.              *)
LEMMA RewrapRowQuiet ==
  ASSUME AdminConsistent, NEW c \in Command, RewrapRow(c)
  PROVE  QuietCommand(c)
<1> DEFINE q == cmds[c]
<1>1. /\ q \in CommandState /\ CommandPlaced(q) /\ q.pc = "wrap" /\ q.in \in CommandLines
      /\ q.in.active \in Kek
  BY CommandKnown, LineKnown DEF RewrapRow
<1>2. PICK kr \in q.rows :
        \/ /\ UpdateKeyEmbedding(kr[1], kr[2], q.in.active)
           /\ ToCommand(c, [q EXCEPT !.rows = @ \ {kr}])
        \/ /\ ToCommand(c, [q EXCEPT !.rows = @ \ {kr}, !.skipped = @ \cup {kr[1]}])
           /\ UNCHANGED <<keys, issued>>
  BY DEF RewrapRow
<1>3. /\ users \in UserTable /\ keys \in KeyTable /\ None \notin KeyRow
      /\ UNCHANGED <<users, chain, now>>
  BY NoneAssumption DEF AdminConsistent, DbTypeOK, RewrapRow
<1>4. kr \in Kid \X KeyRow /\ q.rows \subseteq Kid \X KeyRow
  BY <1>1 DEF CommandState
<1> DEFINE k == kr[1]
<1>5. keys' = (IF keys[k] = None THEN keys ELSE [keys EXCEPT ![k].kek = q.in.active]) \/ keys' = keys
  BY <1>2 DEF UpdateKeyEmbedding
<1>6. keys[k] # None => [keys[k] EXCEPT !.kek = q.in.active] \in KeyRow
  BY <1>1, <1>3, <1>4 DEF KeyTable, KeyRow
<1>7. keys' \in KeyTable /\ \A j \in Kid : keys'[j] # None <=> keys[j] # None
  BY <1>3, <1>4, <1>5, <1>6 DEF KeyTable
<1>8. TablesInOrder /\ TokensStand
  BY <1>2, <1>3, <1>7 DEF TablesInOrder, TokensStand, UpdateKeyEmbedding
<1>9. ASSUME NEW p, NEW rows \in SUBSET (Kid \X KeyRow), NEW skipped \in SUBSET Kid,
             p = [q EXCEPT !.rows = rows] \/ p = [q EXCEPT !.rows = rows, !.skipped = skipped]
      PROVE  p \in CommandState /\ CommandPlaced(p) /\ p.pc = "wrap" /\ SameWork(q, p)
  <2>1. p \in CommandState /\ p.pc = "wrap" /\ SameWork(q, p) /\ p.data = q.data
    BY <1>1, <1>9 DEF CommandState, SameWork
  <2> QED
    BY <1>1, <2>1, LineKnown DEF CommandPlaced, SameWork
<1>10. PICK p : /\ ToCommand(c, p) /\ p \in CommandState /\ CommandPlaced(p)
                /\ p.pc = "wrap" /\ SameWork(q, p)
  <2>1. q.rows \ {kr} \in SUBSET (Kid \X KeyRow) /\ q.skipped \cup {kr[1]} \in SUBSET Kid
    BY <1>1, <1>4 DEF CommandState
  <2> QED
    BY <1>2, <1>9, <2>1
<1>11. TokenInHand(q, p) /\ TakesUser(q, p)
  BY <1>1, <1>10 DEF TokenInHand, TakesUser, Written
<1> QED
  BY <1>3, <1>8, <1>10, <1>11 DEF QuietCommand, Advances

-----------------------------------------------------------------------------
(* What the commands promise is kept                                        *)

CommandsKeep == AdminConsistent /\ CommandsAudited

(* The commands that do not move, and the one that does.                    *)
LEMMA CommandMoved ==
  ASSUME AdminConsistent, NEW c \in Command, NEW p, Advances(c, p)
  PROVE  /\ cmds'[c] = p
         /\ \A d \in Command : d # c => cmds'[d] = cmds[d] /\ CommandEvent(d)' = CommandEvent(d)
BY DEF AdminConsistent, AdminTypeOK, Advances, ToCommand, CommandEvent

LEMMA MovesKeepConsistent ==
  ASSUME AdminConsistent, TablesInOrder, NEW c \in Command, NEW p, Advances(c, p)
  PROVE  AdminConsistent'
<1>1. cmds' \in [Command -> CommandState]
  BY DEF AdminConsistent, AdminTypeOK, Advances, ToCommand
<1>2. \A d \in Command : CommandPlaced(cmds'[d])
  BY CommandMoved DEF AdminConsistent, CommandsConsistent, Advances
<1>3. CommandsConsistent'
  BY <1>2 DEF CommandsConsistent, CommandPlaced
<1> QED
  BY <1>1, <1>3 DEF AdminConsistent, AdminTypeOK, DbTypeOK, TablesInOrder

LEMMA QuietKeeps ==
  ASSUME CommandsKeep, NEW c \in Command, QuietCommand(c)
  PROVE  CommandsKeep'
<1>1. PICK p : Advances(c, p) /\ p.pc # "done"
  BY DEF QuietCommand
<1>2. AdminConsistent /\ TablesInOrder /\ UNCHANGED chain
  BY DEF CommandsKeep, QuietCommand
<1>3. AdminConsistent'
  BY <1>1, <1>2, MovesKeepConsistent
<1>4. CommandsAudited'
  BY <1>1, <1>2, CommandMoved DEF CommandsKeep, CommandsAudited
<1> QED
  BY <1>3, <1>4 DEF CommandsKeep

(* set-token gives its user the token it has at hand, and revoke-token has  *)
(* none at hand.                                                            *)
LEMMA TokenWritten ==
  ASSUME AdminConsistent, NEW c \in Command, WriteToken(c)
  PROVE  /\ TablesInOrder /\ UNCHANGED chain
         /\ \E p : Advances(c, p) /\ p.pc = "data" /\ SameWork(cmds[c], p)
         /\ cmds[c].pc = "token" /\ cmds[c].user \in UserId
         /\ users[cmds[c].user] = None => users' = users
         /\ users[cmds[c].user] # None => /\ users'[cmds[c].user] # None
                                         /\ users'[cmds[c].user].token = cmds[c].token
         /\ \A u \in UserId : u # cmds[c].user => users'[u] = users[u]
<1> DEFINE w == cmds[c].user
           t == cmds[c].token
<1>1. \E p : Advances(c, p) /\ p.pc = "data" /\ SameWork(cmds[c], p)
  BY StepMoves DEF WriteToken, CommandRunning
<1>2. cmds[c].pc = "token" /\ w \in UserId /\ t \in Token \cup {None}
  BY CommandKnown, LineKnown DEF WriteToken, CommandPlaced, CommandState
<1>3. /\ users' = IF users[w] = None THEN users ELSE [users EXCEPT ![w].token = t]
      /\ UNCHANGED <<keys, chain, now, issued>>
  BY DEF WriteToken, SetUserToken
<1>4. users \in UserTable /\ keys \in KeyTable
  BY DEF AdminConsistent, DbTypeOK
<1> HIDE DEF w, t
<1>5. users[w] # None => /\ [users[w] EXCEPT !.token = t] \in User
                         /\ [users[w] EXCEPT !.token = t].token = t
  BY <1>2, <1>4 DEF UserTable, User
<1>6. /\ users' \in UserTable
      /\ users[w] = None => users' = users
      /\ users[w] # None => users'[w] # None /\ users'[w].token = t
      /\ \A u \in UserId : u # w => users'[u] = users[u]
  BY <1>2, <1>3, <1>4, <1>5, NoneAssumption DEF UserTable
<1>7. TablesInOrder
  BY <1>3, <1>4, <1>6 DEF TablesInOrder
<1> QED
  BY <1>1, <1>2, <1>3, <1>6, <1>7 DEF w, t

LEMMA WriteTokenKeeps ==
  ASSUME CommandsKeep, NEW c \in Command, WriteToken(c)
  PROVE  CommandsKeep' /\ TablesInOrder /\ UNCHANGED chain
<1>1. AdminConsistent
  BY DEF CommandsKeep
<1>2. TablesInOrder /\ UNCHANGED chain
  BY <1>1, TokenWritten
<1>3. PICK p : Advances(c, p) /\ p.pc = "data"
  BY <1>1, TokenWritten
<1>4. AdminConsistent'
  BY <1>1, <1>2, <1>3, MovesKeepConsistent
<1>5. CommandsAudited'
  BY <1>1, <1>2, <1>3, CommandMoved DEF CommandsKeep, CommandsAudited
<1> QED
  BY <1>2, <1>4, <1>5 DEF CommandsKeep

(* The record is in the chain before the command is done.                   *)
LEMMA AuditCommandKeeps ==
  ASSUME CommandsKeep, NEW c \in Command, AuditCommand(c)
  PROVE  CommandsKeep' /\ TablesInOrder /\ \E e \in AdminEvent : chain' = chain \cup {e}
<1>1. AdminConsistent
  BY DEF CommandsKeep
<1>2. PICK p : Advances(c, p) /\ p.pc = "done" /\ SameWork(cmds[c], p)
  BY <1>1, StepMoves DEF AuditCommand, CommandRunning
<1>3. cmds[c].pc = "audit" /\ chain' = chain \cup {CommandEvent(c)} /\ UNCHANGED <<users, keys, now, issued>>
  BY DEF AuditCommand, AppendEvent
<1>4. CommandEvent(c)' = CommandEvent(c)
  BY <1>1, <1>2, CommandMoved DEF CommandEvent, SameWork
<1>5. CommandEvent(c) \in AdminEvent
  BY <1>1, <1>3, CommandKnown, CommandEventType DEF AdminConsistent
<1>6. TablesInOrder
  BY <1>1, <1>3 DEF TablesInOrder, AdminConsistent, DbTypeOK
<1>7. AdminConsistent'
  BY <1>1, <1>2, <1>6, MovesKeepConsistent
<1>8. CommandsAudited'
  BY <1>1, <1>2, <1>3, <1>4, CommandMoved DEF CommandsKeep, CommandsAudited
<1> QED
  BY <1>3, <1>5, <1>6, <1>7, <1>8 DEF CommandsKeep

(* Every step of kv-admin is one of these.                                  *)
LEMMA AdminSteps ==
  ASSUME AdminConsistent, AdminNext
  PROVE  \E c \in Command : QuietCommand(c) \/ WriteToken(c) \/ AuditCommand(c)
<1>1. PICK c \in Command : StartCommand(c) \/ AdminStep(c) \/ Abort(c)
  BY DEF AdminNext
<1> QED
  BY <1>1, StartCommandQuiet, AddUserQuiet, ReadUserQuiet, WriteDataQuiet, DeleteUserQuiet,
     ReadingQuiet, WriteAclQuiet, SnapshotRowsQuiet, RewrapRowQuiet DEF AdminStep

(* What a step of kv-admin does to the tables and the chain, and that it    *)
(* keeps what the commands promise: one lemma per statement.                *)
LEMMA AdminStepKeeps ==
  ASSUME CommandsKeep, AdminNext
  PROVE  /\ CommandsKeep' /\ TablesInOrder
         /\ chain' = chain \/ \E e \in AdminEvent : chain' = chain \cup {e}
<1>1. PICK c \in Command : QuietCommand(c) \/ WriteToken(c) \/ AuditCommand(c)
  BY AdminSteps DEF CommandsKeep
<1>2. CASE QuietCommand(c)
  BY <1>2, QuietKeeps DEF QuietCommand
<1>3. CASE WriteToken(c)
  BY <1>3, WriteTokenKeeps
<1>4. CASE AuditCommand(c)
  BY <1>4, AuditCommandKeeps
<1> QED
  BY <1>1, <1>2, <1>3, <1>4
(* The server neither writes users nor takes a record back.                 *)
LEMMA ServerLeavesUsers ==
  ASSUME [Next]_vars
  PROVE  users' = users /\ chain \subseteq chain'
<1>1. ASSUME NEW r \in Request, Arrive(r) \/ Handle(r) PROVE users' = users /\ chain \subseteq chain'
  BY <1>1 DEF Arrive, Handle, QueryUser, Dispatch, DispatchInherited, QueryKey,
         Authorize, Crypto, DeleteKey, QueryMissing, Generate, InsertNewKey, QueryList,
         FilterList, ReadFails, WriteFails, Respond, AppendAudit, AppendDenied, AppendFails,
         AppendEvent, ServerOnly
<1> QED
  BY <1>1 DEF Next, ServerNext, Sweep, Crash, Start, Tick, vars, dbVars

LEMMA ServerStepKeepsCommands ==
  ASSUME CommandsKeep, [Next]_vars, DbTypeOK', UNCHANGED cmds
  PROVE  CommandsKeep'
<1>1. users' = users /\ chain \subseteq chain'
  BY ServerLeavesUsers
<1>2. AdminConsistent'
  BY DEF CommandsKeep, AdminConsistent, AdminTypeOK, CommandsConsistent
<1>3. CommandsAudited'
  BY <1>1 DEF CommandsKeep, CommandsAudited, CommandEvent
<1> QED
  BY <1>2, <1>3 DEF CommandsKeep

-----------------------------------------------------------------------------
(* Tokens                                                                   *)

TokensKnown == /\ AdminConsistent /\ TokensConsistent /\ None \notin withdrawn
               /\ withdrawn' = withdrawn \cup Withdrawing

(* TokensConsistent of the next state, in terms of the command that moved.  *)
InUseNext(t) == \E u \in UserId : users'[u] # None /\ users'[u].token = t

PlacedNext(q) ==
  q.token # None =>
    /\ q.token \in NewTokens
    /\ q.pc = "token" => ~ InUseNext(q.token) /\ q.token \notin withdrawn'
    /\ q.pc \in Written => \/ users'[q.user] = None
                           \/ users'[q.user].token = q.token
                           \/ q.token \in withdrawn'

LEMMA TokensNext ==
  ASSUME \A u \in UserId : users'[u] # None => users'[u].token \notin withdrawn',
         \A u, v \in UserId :
           /\ users'[u] # None /\ users'[v] # None
           /\ users'[u].token # None /\ users'[u].token = users'[v].token
           => u = v,
         \A d \in Command : PlacedNext(cmds'[d]),
         \A d, e \in Command : cmds'[d].token # None /\ cmds'[d].token = cmds'[e].token => d = e,
         \A t \in NewTokens \ {None} :
           t \in withdrawn' \/ InUseNext(t) => \E d \in Command : cmds'[d].token = t
  PROVE  TokensConsistent'
<1>1. RevokedTokensStayDead'
  BY DEF RevokedTokensStayDead
<1>2. \A d \in Command : TokenPlaced(cmds[d])'
  BY DEF TokenPlaced, PlacedNext, InUse, InUseNext
<1>3. (\A d \in Command : TokenPlaced(cmds[d]))'
  BY <1>2
<1>4. (\A t \in NewTokens \ {None} :
         t \in withdrawn \/ InUse(t) => \E d \in Command : cmds[d].token = t)'
  BY DEF InUse, InUseNext
<1> QED
  BY <1>1, <1>3, <1>4 DEF TokensConsistent

(* A command that has a token at hand is about a user.                      *)
LEMMA TokenOfUser ==
  ASSUME AdminConsistent, NEW c \in Command,
         cmds[c].token # None \/ cmds[c].pc \in {"token", "remove"}
  PROVE  cmds[c].user \in UserId
BY CommandKnown, LineKnown DEF CommandPlaced

(* A step withdraws the token of the user its command is about, if it is to *)
(* take one.                                                                *)
LEMMA Withdrawn ==
  ASSUME TokensKnown, NEW c \in Command, NEW p, Advances(c, p)
  PROVE  /\ \A t : t \in withdrawn' <=>
                     \/ t \in withdrawn
                     \/ /\ cmds[c].pc \in {"token", "remove"} /\ p.pc \in {"data", "audit"}
                        /\ users[cmds[c].user] # None /\ users[cmds[c].user].token = t
                        /\ t # None
         /\ \A t \in withdrawn' : t # None /\ (t \in withdrawn \/ InUse(t))
<1>1. /\ cmds'[c] = p
      /\ \A d \in Command : d # c => cmds'[d] = cmds[d]
  BY CommandMoved DEF TokensKnown
<1>2. \A d \in Command :
        /\ cmds[d].pc \in {"token", "remove"}
        /\ cmds'[d].pc \in {"data", "audit"}
        /\ users[cmds[d].user] # None
        <=> /\ d = c /\ cmds[c].pc \in {"token", "remove"} /\ p.pc \in {"data", "audit"}
            /\ users[cmds[c].user] # None
  BY <1>1
<1>3. \A t : t \in Withdrawing <=> /\ cmds[c].pc \in {"token", "remove"} /\ p.pc \in {"data", "audit"}
                                   /\ users[cmds[c].user] # None /\ users[cmds[c].user].token = t
                                   /\ t # None
  BY <1>2 DEF Withdrawing
<1>4. cmds[c].pc \in {"token", "remove"} => cmds[c].user \in UserId
  BY TokenOfUser DEF TokensKnown
<1> QED
  BY <1>3, <1>4 DEF TokensKnown, InUse

(* No statement but the UPDATE of a token brings one to a user.             *)
LEMMA TokensStandKeep ==
  ASSUME TokensKnown, NEW c \in Command, NEW p, Advances(c, p),
         TokensStand, TokenInHand(cmds[c], p), TakesUser(cmds[c], p)
  PROVE  TokensConsistent'
<1> DEFINE q == cmds[c]
<1>1. /\ cmds'[c] = p
      /\ \A d \in Command : d # c => cmds'[d] = cmds[d]
  BY CommandMoved DEF TokensKnown
<1>2. /\ \A t : t \in withdrawn' <=>
                  \/ t \in withdrawn
                  \/ /\ q.pc \in {"token", "remove"} /\ p.pc \in {"data", "audit"}
                     /\ users[q.user] # None /\ users[q.user].token = t /\ t # None
      /\ \A t \in withdrawn' : t # None /\ (t \in withdrawn \/ InUse(t))
  BY Withdrawn
<1>3. \A u \in UserId : users'[u] # None /\ users'[u].token # None =>
        users[u] # None /\ users[u].token = users'[u].token
  BY DEF TokensStand
<1>4. \A t : t # None /\ InUseNext(t) => InUse(t)
  BY <1>3 DEF InUse, InUseNext
<1>5. ASSUME NEW u \in UserId, users'[u] # None, users'[u].token \in withdrawn'
      PROVE  FALSE
  <2>1. users[u] # None /\ users[u].token = users'[u].token /\ users[u].token # None
    BY <1>2, <1>3, <1>5
  <2>2. users[u].token \notin withdrawn
    BY <2>1 DEF TokensKnown, TokensConsistent, RevokedTokensStayDead
  <2>3. /\ q.pc \in {"token", "remove"} /\ p.pc \in {"data", "audit"}
        /\ users[q.user] # None /\ users[q.user].token = users[u].token
    BY <1>2, <1>5, <2>1, <2>2
  <2>4. q.user \in UserId
    BY <2>3, TokenOfUser DEF TokensKnown
  <2>5. q.user = u
    BY <2>1, <2>3, <2>4 DEF TokensKnown, TokensConsistent
  <2> QED
    BY <1>5, <2>3, <2>5 DEF TakesUser
<1>6. \A u, v \in UserId :
        /\ users'[u] # None /\ users'[v] # None
        /\ users'[u].token # None /\ users'[u].token = users'[v].token
        => u = v
  BY <1>3 DEF TokensKnown, TokensConsistent
<1>7. ASSUME p.token # None, ~ SameWork(q, p)
      PROVE  /\ p.pc = "token" /\ p.token \in NewTokens /\ ~ InUse(p.token)
             /\ p.token \notin withdrawn /\ \A d \in Command : cmds[d].token # p.token
  <2>1. p.pc = "token" /\ FreshToken(p.token)
    BY <1>7 DEF TokenInHand
  <2>2. p.token \in NewTokens /\ ~ InUse(p.token) /\ \A d \in Command : cmds[d].token # p.token
    BY <2>1 DEF FreshToken, InUse
  <2>3. p.token \notin withdrawn
    BY <1>7, <2>2 DEF TokensKnown, TokensConsistent
  <2> QED
    BY <2>1, <2>2, <2>3
<1>8. ASSUME p.token # None, SameWork(q, p)
      PROVE  /\ p.token = q.token /\ p.user = q.user /\ p.pc # "token"
             /\ p.pc \in Written => q.pc \in Written
  <2>1. p.token = q.token /\ p.user = q.user
    BY <1>8 DEF SameWork
  <2>2. p.pc = "token" => ~ FreshToken(p.token)
    BY <2>1 DEF FreshToken
  <2> QED
    BY <1>8, <2>1, <2>2 DEF TokenInHand
<1>9. ASSUME NEW d \in Command, cmds[d].token # None, cmds[d].pc \in Written
      PROVE  \/ users'[cmds[d].user] = None
             \/ users'[cmds[d].user].token = cmds[d].token
             \/ cmds[d].token \in withdrawn'
  <2>1. cmds[d].user \in UserId
    BY <1>9, TokenOfUser DEF TokensKnown
  <2>2. \/ users[cmds[d].user] = None
        \/ users[cmds[d].user].token = cmds[d].token
        \/ cmds[d].token \in withdrawn
    BY <1>9 DEF TokensKnown, TokensConsistent, TokenPlaced
  <2> QED
    BY <1>2, <2>1, <2>2 DEF TokensStand
<1>10. ASSUME NEW d \in Command PROVE PlacedNext(cmds'[d])
  <2>1. TokenPlaced(cmds[d])
    BY DEF TokensKnown, TokensConsistent
  <2>2. CASE d # c
    BY <1>1, <1>2, <1>4, <1>9, <2>1, <2>2 DEF TokenPlaced, PlacedNext
  <2>3. CASE d = c /\ SameWork(q, p)
    BY <1>1, <1>8, <1>9, <2>1, <2>3 DEF TokenPlaced, PlacedNext
  <2>4. CASE d = c /\ ~ SameWork(q, p)
    BY <1>1, <1>2, <1>4, <1>7, <2>4 DEF PlacedNext, Written
  <2> QED
    BY <2>2, <2>3, <2>4
<1>11. ASSUME NEW d \in Command, NEW e \in Command, cmds'[d].token # None,
              cmds'[d].token = cmds'[e].token
       PROVE  d = e
  <2>1. \A f, g \in Command : cmds[f].token # None /\ cmds[f].token = cmds[g].token => f = g
    BY DEF TokensKnown, TokensConsistent
  <2> QED
    BY <1>1, <1>7, <1>8, <1>11, <2>1
<1>12. ASSUME NEW t \in NewTokens \ {None}, t \in withdrawn' \/ InUseNext(t)
       PROVE  \E d \in Command : cmds'[d].token = t
  <2>1. t \in withdrawn \/ InUse(t)
    BY <1>2, <1>4, <1>12
  <2>2. PICK d \in Command : cmds[d].token = t
    BY <2>1 DEF TokensKnown, TokensConsistent
  <2> QED
    BY <1>1, <1>12, <2>2 DEF Advances, SameWork
<1> QED
  BY <1>5, <1>6, <1>10, <1>11, <1>12, TokensNext

(* The UPDATE of a token puts the one at hand in the place of the old one.  *)
LEMMA WriteTokenKeepsTokens ==
  ASSUME TokensKnown, NEW c \in Command, WriteToken(c)
  PROVE  TokensConsistent'
<1> DEFINE q == cmds[c]
           w == q.user
<1>1. /\ q.pc = "token" /\ w \in UserId
      /\ users[w] = None => users' = users
      /\ users[w] # None => users'[w] # None /\ users'[w].token = q.token
      /\ \A u \in UserId : u # w => users'[u] = users[u]
  BY TokenWritten DEF TokensKnown
<1>2. PICK p : Advances(c, p) /\ p.pc = "data" /\ SameWork(q, p)
  BY TokenWritten DEF TokensKnown
<1>3. /\ cmds'[c].token = q.token /\ cmds'[c].user = w /\ cmds'[c].pc = "data"
      /\ \A d \in Command : d # c => cmds'[d] = cmds[d]
  BY <1>2, CommandMoved DEF TokensKnown, SameWork
<1>4. /\ \A t : t \in withdrawn' <=>
                  t \in withdrawn \/ (users[w] # None /\ users[w].token = t /\ t # None)
      /\ \A t \in withdrawn' : t # None /\ (t \in withdrawn \/ InUse(t))
  BY <1>1, <1>2, Withdrawn
<1>5. /\ \A u \in UserId : users[u] # None => users[u].token \notin withdrawn
      /\ \A u, v \in UserId : /\ users[u] # None /\ users[v] # None
                              /\ users[u].token # None /\ users[u].token = users[v].token
                              => u = v
      /\ \A d \in Command : TokenPlaced(cmds[d])
      /\ \A d, e \in Command : cmds[d].token # None /\ cmds[d].token = cmds[e].token => d = e
  BY DEF TokensKnown, TokensConsistent, RevokedTokensStayDead
<1>6. q.token # None => ~ InUse(q.token) /\ q.token \notin withdrawn' /\ q.token \in NewTokens
  BY <1>1, <1>4, <1>5 DEF TokenPlaced
<1>7. \A t : InUseNext(t) => InUse(t) \/ t = q.token
  BY <1>1 DEF InUse, InUseNext
<1> HIDE DEF q, w
<1>8. ASSUME NEW u \in UserId, users'[u] # None, users'[u].token \in withdrawn'
      PROVE  FALSE
  <2>1. CASE u = w /\ users[w] # None
    BY <1>1, <1>4, <1>6, <1>8, <2>1
  <2>2. CASE ~ (u = w /\ users[w] # None)
    <3>1. users'[u] = users[u]
      BY <1>1, <2>2
    <3> QED
      BY <1>1, <1>4, <1>5, <1>8, <2>2, <3>1
  <2> QED
    BY <2>1, <2>2
<1>9. ASSUME NEW u \in UserId, NEW v \in UserId, users'[u] # None, users'[v] # None,
             users'[u].token # None, users'[u].token = users'[v].token
      PROVE  u = v
  <2>1. \A x \in UserId : x # w \/ users[w] = None => users'[x] = users[x]
    BY <1>1
  <2>2. \A x \in UserId : users[x] # None /\ users[x].token # None => users[x].token # q.token
    BY <1>6 DEF InUse
  <2> QED
    BY <1>1, <1>5, <1>9, <2>1, <2>2
<1>10. ASSUME NEW d \in Command PROVE PlacedNext(cmds'[d])
  <2>1. CASE d = c
    BY <1>1, <1>3, <1>6, <2>1 DEF PlacedNext
  <2>2. ASSUME d # c, cmds[d].token # None PROVE PlacedNext(cmds'[d])
    <3>1. cmds'[d] = cmds[d] /\ TokenPlaced(cmds[d]) /\ cmds[d].token # q.token
      BY <1>3, <1>5, <2>2 DEF q
    <3>2. cmds[d].pc = "token" => ~ InUseNext(cmds[d].token) /\ cmds[d].token \notin withdrawn'
      BY <1>4, <1>7, <2>2, <3>1 DEF TokenPlaced
    <3>3. cmds[d].user \in UserId
      BY <2>2, TokenOfUser DEF TokensKnown
    <3>4. cmds[d].pc \in Written => \/ users'[cmds[d].user] = None
                                    \/ users'[cmds[d].user].token = cmds[d].token
                                    \/ cmds[d].token \in withdrawn'
      BY <1>1, <1>4, <2>2, <3>1, <3>3 DEF TokenPlaced
    <3> QED
      BY <3>1, <3>2, <3>4 DEF TokenPlaced, PlacedNext
  <2> QED
    BY <1>3, <2>1, <2>2 DEF PlacedNext
<1>11. \A d \in Command : cmds'[d].token = cmds[d].token
  BY <1>3 DEF q
<1>12. ASSUME NEW t \in NewTokens \ {None}, t \in withdrawn' \/ InUseNext(t)
       PROVE  \E d \in Command : cmds'[d].token = t
  <2>1. CASE t = q.token
    BY <1>11, <2>1 DEF q
  <2>2. CASE t # q.token
    <3>1. t \in withdrawn \/ InUse(t)
      BY <1>4, <1>7, <1>12, <2>2
    <3> QED
      BY <1>11, <3>1 DEF TokensKnown, TokensConsistent
  <2> QED
    BY <2>1, <2>2
<1> QED
  BY <1>5, <1>8, <1>9, <1>10, <1>11, <1>12, TokensNext

LEMMA AdminStepKeepsTokens ==
  ASSUME TokensKnown, AdminNext
  PROVE  TokensConsistent'
<1>1. PICK c \in Command : QuietCommand(c) \/ WriteToken(c) \/ AuditCommand(c)
  BY AdminSteps DEF TokensKnown
<1>2. CASE QuietCommand(c)
  BY <1>2, TokensStandKeep DEF QuietCommand
<1>3. CASE WriteToken(c)
  BY <1>3, WriteTokenKeepsTokens
<1>4. CASE AuditCommand(c)
  <2>1. cmds[c].pc = "audit" /\ users' = users
    BY <1>4 DEF AuditCommand
  <2>2. PICK p : Advances(c, p) /\ p.pc = "done" /\ SameWork(cmds[c], p)
    BY <1>4, StepMoves DEF AuditCommand, CommandRunning, TokensKnown
  <2>3. TokensStand /\ TokenInHand(cmds[c], p) /\ TakesUser(cmds[c], p)
    BY <2>1, <2>2 DEF TokensStand, TokenInHand, TakesUser, Written
  <2> QED
    BY <2>2, <2>3, TokensStandKeep
<1> QED
  BY <1>1, <1>2, <1>3, <1>4

LEMMA WithdrawnTokens ==
  ASSUME TokensKnown, withdrawn \subseteq Token \ {None}, AdminNext
  PROVE  withdrawn' \subseteq Token \ {None}
<1>1. users \in UserTable
  BY DEF TokensKnown, AdminConsistent, DbTypeOK
<1>2. ASSUME NEW d \in Command, cmds[d].pc \in {"token", "remove"}, users[cmds[d].user] # None
      PROVE  users[cmds[d].user].token \in Token \cup {None}
  <2>1. cmds[d].user \in UserId
    BY <1>2, TokenOfUser DEF TokensKnown
  <2> QED
    BY <1>1, <1>2, <2>1 DEF UserTable, User
<1>3. Withdrawing \subseteq Token \ {None}
  BY <1>2 DEF Withdrawing
<1> QED
  BY <1>3 DEF TokensKnown

(* What touches neither users nor commands withdraws nothing.               *)
LEMMA OthersKeepTokens ==
  ASSUME TokensConsistent, UNCHANGED <<users, cmds>>,
         withdrawn' = withdrawn \cup Withdrawing \/ UNCHANGED withdrawn
  PROVE  TokensConsistent' /\ UNCHANGED withdrawn
<1>1. Withdrawing = {}
  BY DEF Withdrawing
<1> QED
  BY <1>1 DEF TokensConsistent, RevokedTokensStayDead, TokenPlaced, InUse

-----------------------------------------------------------------------------
(* The handlers do not notice the commands                                  *)

(* A step that inserts no key and deletes none, and moves no request.       *)
LEMMA HandlersUnmoved ==
  ASSUME HandlersConsistent, TablesInOrder, chain \subseteq chain', UNCHANGED serverVars
  PROVE  HandlersConsistent'
<1>1. ServerTypeOK'
  BY DEF HandlersConsistent, ServerTypeOK, DbTypeOK, TablesInOrder, serverVars
<1>2. SuccessRecorded'
  BY DEF HandlersConsistent, SuccessRecorded, OpEvent, serverVars
<1>3. KidsNew'
  BY DEF HandlersConsistent, KidsNew, TablesInOrder, serverVars
<1>4. \A r \in Request : WellPlaced(reqs'[r]) /\ EffectAccounted(reqs'[r])
  BY DEF HandlersConsistent, serverVars
<1>5. (\A r \in Request : WellPlaced(reqs[r]) /\ EffectAccounted(reqs[r]))'
  BY <1>4 DEF WellPlaced, EffectAccounted
<1> QED
  BY <1>1, <1>2, <1>3, <1>5 DEF HandlersConsistent

-----------------------------------------------------------------------------
(* What was seen of the rights a handler relies on                          *)

(* RightsSeen, of a request in state q of which S was seen.                 *)
Masked(q, S) == MaskSight(q.in, q.user.data) \in S
LetIn(q) == \/ q.pc \in {"crypto", "delq"}
            \/ q.pc \in {"auditq", "deniedq", "respond", "done"} /\ Tells(q)
Unlooked == {"idle", "authq", "authr"}

RightsHeld(q, S) ==
  /\ q.pc \in Unlooked => q.kid = None
  /\ q.in # None /\ q.in.request \in KeyOps =>
       /\ q.pc = "authr" /\ q.user # None /\ q.user.userId = q.in.user /\ TargetKid(q.in) # None
            => Masked(q, S)
       /\ q.pc \in {"keyq", "keyr"} =>
            q.user.userId = q.in.user /\ q.kid = TargetKid(q.in) /\ Masked(q, S)
       /\ q.pc = "keyr" /\ q.row # None => AclSight(q.in, q.row.acl) \in S
       /\ LetIn(q) => Rights \subseteq S

LEMMA RightsOf ==
  ASSUME NEW r \in Request
  PROVE  /\ RightsSeen(r) <=> RightsHeld(reqs[r], seen[r])
         /\ RightsSeen(r)' <=> RightsHeld(reqs'[r], seen'[r])
BY DEF RightsSeen, RightsHeld, Masked, LetIn, Unlooked

(* What was seen stays seen.                                                *)
LEMMA RightsStay ==
  ASSUME NEW q, NEW S, RightsHeld(q, S), NEW T, S \subseteq T
  PROVE  RightsHeld(q, T)
BY DEF RightsHeld, Masked

(* A request that relies on no rights: no key operation, or refused, or     *)
(* before it was authenticated.                                             *)
LEMMA NothingHeld ==
  ASSUME NEW q, NEW S, ~LetIn(q), q.pc \notin Unlooked, q.pc \notin {"keyq", "keyr"}
  PROVE  RightsHeld(q, S)
BY DEF RightsHeld, Unlooked

LEMMA OtherOperation ==
  ASSUME NEW q, NEW S, q.in.request \notin KeyOps, q.pc \notin Unlooked
  PROVE  RightsHeld(q, S)
BY DEF RightsHeld

(* One that relied on both rights keeps them to its end.                    *)
LEMMA BothHeld ==
  ASSUME NEW q, NEW p, NEW S, NEW T, RightsHeld(q, S), S \subseteq T, LetIn(q),
         p.in = q.in, p.pc \notin Unlooked, p.pc \notin {"keyq", "keyr"}
  PROVE  RightsHeld(p, T)
BY DEF RightsHeld, Unlooked

SeenGrows == seen' = [r \in Request |-> seen[r] \cup Witness(r)']

LEMMA SeenAtStep ==
  ASSUME SeenGrows, NEW r \in Request
  PROVE  /\ seen[r] \subseteq seen'[r]
         /\ reqs'[r].in # None /\ reqs'[r].in.request \in KeyOps /\ TargetKid(reqs'[r].in) # None
            /\ reqs'[r].pc \notin Finished
              => LET in == reqs'[r].in IN
                 /\ keys'[TargetKid(in)] # None
                      => AclSight(in, keys'[TargetKid(in)].acl) \in seen'[r]
                 /\ users'[in.user] # None /\ users'[in.user].token = in.token
                      => MaskSight(in, users'[in.user].data) \in seen'[r]
<1>1. seen'[r] = seen[r] \cup Witness(r)'
  BY DEF SeenGrows
<1>2. \A in, v : AclSight(in, v) \in Rights \cup Wants /\ MaskSight(in, v) \in Rights \cup Wants
  BY DEF AclSight, MaskSight, Rights, Wants
<1> QED
  BY <1>1, <1>2 DEF Witness

LEMMA SeenType ==
  ASSUME SeenGrows, seen \in [Request -> SUBSET (Rights \cup Wants)]
  PROVE  seen' \in [Request -> SUBSET (Rights \cup Wants)]
<1>1. \A r \in Request : Witness(r)' \subseteq Rights \cup Wants
  BY DEF Witness
<1> QED
  BY <1>1 DEF SeenGrows

(* A user found by token has it.                                            *)
LEMMA UserByTokenHashHolds ==
  ASSUME NEW t, UserByTokenHash(t) # None
  PROVE  LET user == UserByTokenHash(t) IN
         /\ user.userId \in UserId /\ users[user.userId] # None
         /\ users[user.userId].token = t
         /\ user.data = users[user.userId].data
<1> DEFINE holders == {u \in UserId : users[u] # None /\ users[u].token = t}
           u == CHOOSE v \in holders : TRUE
<1>1. holders # {}
  BY DEF UserByTokenHash
<1>2. u \in holders
  BY <1>1
<1>3. UserByTokenHash(t) = [userId |-> u, data |-> users[u].data]
  BY <1>1 DEF UserByTokenHash
<1> HIDE DEF u
<1> QED
  BY <1>2, <1>3

RightsKnown == HandlersConsistent /\ (\A r \in Request : RightsSeen(r)) /\ SeenGrows

LEMMA RequestRights ==
  ASSUME RightsKnown, NEW r \in Request
  PROVE  /\ reqs[r] \in RequestState /\ WellPlaced(reqs[r]) /\ RightsHeld(reqs[r], seen[r])
         /\ \A p : Update(r, p) => reqs'[r] = p
         /\ seen[r] \subseteq seen'[r]
BY RequestKnown, RightsOf, SeenAtStep DEF RightsKnown, Update, HandlersConsistent, ServerTypeOK

(* The mask comes with the token, in one query.                             *)
LEMMA QueryUserSees ==
  ASSUME RightsKnown, NEW r \in Request, QueryUser(r)
  PROVE  RightsHeld(reqs'[r], seen'[r])
<1> DEFINE q == reqs[r]
           user == UserByTokenHash(q.in.token)
           p == [q EXCEPT !.pc = "authr", !.user = user]
<1>1. q \in RequestState /\ q.kid = None /\ reqs'[r] = p /\ users' = users
  BY RequestRights DEF QueryUser, ServerOnly, RightsHeld, Unlooked
<1> HIDE DEF user
<1>2. p.pc = "authr" /\ p.in = q.in /\ p.user = user /\ p.kid = None
  BY <1>1 DEF RequestState
<1> SUFFICES ASSUME q.in # None, q.in.request \in KeyOps, user # None, user.userId = q.in.user,
                    TargetKid(q.in) # None
             PROVE  MaskSight(q.in, user.data) \in seen'[r]
  BY <1>1, <1>2 DEF RightsHeld, Masked, LetIn
<1>3. /\ users[q.in.user] # None /\ users[q.in.user].token = q.in.token
      /\ user.data = users[q.in.user].data
  BY UserByTokenHashHolds DEF user
<1> QED
  BY <1>1, <1>2, <1>3, SeenAtStep DEF RightsKnown, Finished

(* Only an authenticated user's request for a key gets to the key query.    *)
LEMMA DispatchSees ==
  ASSUME RightsKnown, NEW r \in Request, Dispatch(r)
  PROVE  RightsHeld(reqs'[r], seen'[r])
<1> DEFINE q == reqs[r]
           gate == Gate(q.in, q.user)
           inserts == q.in.request = "generate-key" /\ AskedUsers(q.in, q.user) = {}
           on == [q EXCEPT !.pc = FirstAwait(q.in, q.user),
                           !.kid = IF q.in.request \in KeyOps THEN TargetKid(q.in) ELSE None,
                           !.row = IF inserts THEN NewRow(q.in, InitialAcl(q.in, q.user, {}))
                                   ELSE None]
<1>1. /\ q \in RequestState /\ q.in # None /\ q.pc = "authr" /\ q.kid = None
      /\ RightsHeld(q, seen[r]) /\ seen[r] \subseteq seen'[r]
  BY RequestRights DEF Dispatch, WellPlaced, RightsHeld, Unlooked
<1>2. reqs'[r] = IF ~Authenticated(q.in, q.user) THEN Reply([q EXCEPT !.user = None], "UNAUTHORIZED")
                 ELSE IF q.in.request \notin Operations THEN Reply(q, "UNKNOWN_OPERATION")
                 ELSE IF gate # None THEN Conclude(q, gate) ELSE on
  BY RequestRights DEF Dispatch
<1>3. CASE q.in.request \notin KeyOps
  <2>1. reqs'[r].in = q.in /\ reqs'[r].pc \notin Unlooked
    BY <1>1, <1>2 DEF Reply, Conclude, FirstAwait, Unlooked, RequestState
  <2> QED
    BY <1>3, <2>1, OtherOperation
<1>4. CASE q.in.request \in KeyOps /\ ~Authenticated(q.in, q.user)
  <2>1. reqs'[r].pc = "respond" /\ reqs'[r].out = "UNAUTHORIZED"
    BY <1>1, <1>2, <1>4 DEF Reply, RequestState
  <2> QED
    BY <2>1, NothingHeld DEF LetIn, Tells, Telling, Unlooked
<1>5. CASE q.in.request \in KeyOps /\ Authenticated(q.in, q.user)
  <2>1. q.in \in Input /\ q.user \in AuthUser /\ q.user # None /\ q.user.userId = q.in.user
    BY <1>1, <1>5, InputAssumption DEF RequestState, Authenticated
  <2>2. q.in.request \in Operations /\ q.in.request \notin {"healthcheck", "generate-key", "list-keys"}
    BY <1>5 DEF Operations, KeyOps, OpClassOf
  <2>3. gate = "ok" => q.in.request = "healthcheck"
    BY <2>1, <2>2, GateDecides
  <2>4. gate = None => TargetKid(q.in) \in Kid
    BY <1>5, <2>1, <2>2, GateDecides
  <2>5. CASE gate # None
    <3>1. reqs'[r] = Conclude(q, gate)
      BY <1>2, <1>5, <2>2, <2>5
    <3> HIDE DEF gate
    <3>2. /\ reqs'[r].pc \in {"auditq", "respond"} /\ reqs'[r].out # "ok"
          /\ reqs'[r].kid = None
      BY <1>1, <2>2, <2>3, <3>1 DEF Conclude, RequestState
    <3> QED
      BY <3>2, NothingHeld DEF LetIn, Tells, Unlooked
  <2>6. CASE gate = None
    <3>1. reqs'[r] = on /\ TargetKid(q.in) # None
      BY <1>2, <1>5, <2>2, <2>4, <2>6, NoneAssumption
    <3>2. FirstAwait(q.in, q.user) = "keyq"
      BY <2>2 DEF FirstAwait
    <3>3. on.pc = "keyq" /\ on.kid = TargetKid(q.in) /\ on.user = q.user /\ on.in = q.in
      BY <1>1, <1>5, <3>2 DEF RequestState
    <3> HIDE DEF on
    <3>4. Masked(q, seen[r])
      BY <1>1, <1>5, <2>1, <3>1 DEF RightsHeld
    <3> QED
      BY <1>1, <2>1, <3>1, <3>3, <3>4 DEF RightsHeld, Masked, LetIn, Unlooked
  <2> QED
    BY <2>5, <2>6
<1> QED
  BY <1>3, <1>4, <1>5

(* The ACL comes with the row.                                              *)
LEMMA QueryKeySees ==
  ASSUME RightsKnown, NEW r \in Request, QueryKey(r)
  PROVE  RightsHeld(reqs'[r], seen'[r])
<1> DEFINE q == reqs[r]
           p == [q EXCEPT !.pc = "keyr", !.row = keys[q.kid]]
<1>1. /\ q \in RequestState /\ q.pc = "keyq" /\ reqs'[r] = p /\ keys' = keys /\ q.kid # None
      /\ q.in # None /\ q.in.request \in KeyOps
      /\ RightsHeld(q, seen[r]) /\ seen[r] \subseteq seen'[r]
  BY RequestRights DEF QueryKey, ServerOnly, KeyById, WellPlaced
<1>2. p.pc = "keyr" /\ p.in = q.in /\ p.user = q.user /\ p.kid = q.kid /\ p.row = keys[q.kid]
  BY <1>1 DEF RequestState
<1> HIDE DEF p
<1>3. q.user.userId = q.in.user /\ q.kid = TargetKid(q.in) /\ Masked(q, seen[r])
  BY <1>1 DEF RightsHeld
<1>4. ASSUME p.row # None PROVE AclSight(q.in, p.row.acl) \in seen'[r]
  BY <1>1, <1>2, <1>3, <1>4, SeenAtStep DEF RightsKnown, Finished
<1> QED
  BY <1>1, <1>2, <1>3, <1>4 DEF RightsHeld, Masked, LetIn, Unlooked

(* Nobody is past authorizedKey without both.                               *)
LEMMA AuthorizeSees ==
  ASSUME RightsKnown, NEW r \in Request, Authorize(r)
  PROVE  RightsHeld(reqs'[r], seen'[r])
<1> DEFINE q == reqs[r]
<1>1. /\ q \in RequestState /\ q.pc = "keyr" /\ q.in # None /\ q.in.request \in KeyOps
      /\ RightsHeld(q, seen[r]) /\ seen[r] \subseteq seen'[r]
  BY RequestRights DEF Authorize, WellPlaced
<1>2. CASE q.row # None /\ Granted(q.in, q.user, q.row)
  <2>1. Rights \subseteq seen'[r]
    BY <1>1, <1>2 DEF RightsHeld, Masked, MaskSight, AclSight, Granted, Rights
  <2> DEFINE compat == Compatibility(q.in, q.row)
             next == IF q.in.request = "revoke-key" THEN "delq" ELSE "crypto"
  <2>2. \/ reqs'[r] = Conclude(q, "KEY_NOT_FOUND") \/ reqs'[r] = Conclude(q, compat)
        \/ reqs'[r] = Goto(q, next)
    BY <1>2, RequestRights DEF Authorize
  <2> HIDE DEF compat
  <2>3. reqs'[r].pc \notin Unlooked /\ reqs'[r].pc \notin {"keyq", "keyr"}
    BY <1>1, <2>2 DEF Conclude, Goto, RequestState, Unlooked
  <2> QED
    BY <2>1, <2>3 DEF RightsHeld, Unlooked
<1>3. CASE ~(q.row # None /\ Granted(q.in, q.user, q.row))
  <2>1. \/ reqs'[r] = Conclude(q, "KEY_NOT_FOUND")
        \/ reqs'[r] = Conclude([q EXCEPT !.masked = TRUE], "KEY_NOT_FOUND")
    BY <1>3, RequestRights DEF Authorize
  <2>2. reqs'[r].pc \in {"auditq", "respond"} /\ reqs'[r].out = "KEY_NOT_FOUND"
    BY <1>1, <2>1 DEF Conclude, RequestState
  <2> QED
    BY <2>2, NothingHeld DEF LetIn, Tells, Telling, Unlooked
<1> QED
  BY <1>2, <1>3

(* From there on a handler only concludes.                                  *)
LEMMA PastSees ==
  ASSUME RightsKnown, NEW r \in Request, Crypto(r) \/ DeleteKey(r)
  PROVE  RightsHeld(reqs'[r], seen'[r])
<1> DEFINE q == reqs[r]
<1>1. /\ q \in RequestState /\ q.pc \in {"crypto", "delq"} /\ RightsHeld(q, seen[r])
      /\ seen[r] \subseteq seen'[r]
  BY RequestRights DEF Crypto, DeleteKey
<1>2. CASE Crypto(r)
  <2>1. PICK out : reqs'[r] = Conclude(q, out)
    BY <1>2, RequestRights DEF Crypto
  <2>2. reqs'[r].in = q.in /\ reqs'[r].pc \in {"auditq", "respond"}
    BY <1>1, <2>1 DEF Conclude, RequestState
  <2> QED
    BY <1>1, <2>2, BothHeld DEF LetIn, Unlooked
<1>3. CASE DeleteKey(r)
  <2> DEFINE deleted == keys[q.kid] # None
             p == [q EXCEPT !.did = deleted]
             out == IF p.did THEN "ok" ELSE "KEY_NOT_FOUND"
  <2>1. reqs'[r] = Resume(p, Conclude(p, out))
    BY <1>3, RequestRights DEF DeleteKey
  <2>2. deleted \in BOOLEAN
    OBVIOUS
  <2> HIDE DEF deleted
  <2>3. p \in RequestState /\ p.in = q.in
    BY <1>1, <2>2 DEF RequestState
  <2> HIDE DEF p, out
  <2>4. reqs'[r].in = q.in /\ reqs'[r].pc \in {"auditq", "respond", "lost"}
    BY <2>1, <2>3, ResumedView
  <2> QED
    BY <1>1, <2>4, BothHeld DEF LetIn, Unlooked
<1> QED
  BY <1>2, <1>3

(* The other operations, and names that are no operation, rely on nothing.  *)
LEMMA OthersSee ==
  ASSUME RightsKnown, NEW r \in Request,
         \/ DispatchInherited(r) \/ QueryMissing(r) \/ Generate(r) \/ InsertNewKey(r)
         \/ QueryList(r) \/ FilterList(r)
  PROVE  RightsHeld(reqs'[r], seen'[r])
<1> DEFINE q == reqs[r]
<1>1. q \in RequestState /\ WellPlaced(q)
  BY RequestRights
<1>2. CASE DispatchInherited(r)
  <2>1. PICK out : reqs'[r] = Reply(q, out)
    BY <1>2, RequestRights DEF DispatchInherited
  <2>2. reqs'[r].in = q.in /\ reqs'[r].pc \notin Unlooked /\ q.in.request = "inherited"
    BY <1>1, <1>2, <2>1 DEF DispatchInherited, Reply, RequestState, Unlooked
  <2> QED
    BY <2>2, OtherOperation DEF KeyOps, OpClassOf
<1>3. CASE QueryMissing(r)
  <2>1. PICK out, row : \/ reqs'[r] = Conclude(q, out)
                        \/ reqs'[r] = [q EXCEPT !.pc = "gen", !.row = row]
    BY <1>3, RequestRights DEF QueryMissing
  <2>2. reqs'[r].in = q.in /\ reqs'[r].pc \notin Unlooked /\ q.in.request = "generate-key"
    BY <1>1, <1>3, <2>1 DEF QueryMissing, Conclude, RequestState, WellPlaced, Unlooked
  <2> QED
    BY <2>2, OtherOperation DEF KeyOps, OpClassOf
<1>4. CASE Generate(r)
  <2>1. PICK out, k : \/ reqs'[r] = Conclude(q, out)
                      \/ reqs'[r] = [q EXCEPT !.pc = "insq", !.kid = k]
    BY <1>4, RequestRights DEF Generate
  <2>2. reqs'[r].in = q.in /\ reqs'[r].pc \notin Unlooked /\ q.in.request = "generate-key"
    BY <1>1, <1>4, <2>1 DEF Generate, Conclude, RequestState, WellPlaced, Unlooked
  <2> QED
    BY <2>2, OtherOperation DEF KeyOps, OpClassOf
<1>5. CASE InsertNewKey(r)
  <2> DEFINE p == [q EXCEPT !.did = TRUE]
  <2>1. reqs'[r] = Resume(p, Conclude(p, "ok"))
    BY <1>5, RequestRights DEF InsertNewKey
  <2>2. p \in RequestState /\ p.in = q.in
    BY <1>1 DEF RequestState
  <2> HIDE DEF p
  <2>3. reqs'[r].in = q.in /\ reqs'[r].pc \notin Unlooked /\ q.in.request = "generate-key"
    BY <1>1, <1>5, <2>1, <2>2, ResumedView DEF InsertNewKey, WellPlaced, RequestState, Unlooked
  <2> QED
    BY <2>3, OtherOperation DEF KeyOps, OpClassOf
<1>6. CASE QueryList(r) \/ FilterList(r)
  <2>1. PICK rows : \/ reqs'[r] = [q EXCEPT !.pc = "listr", !.listed = rows]
                    \/ reqs'[r] = Conclude([q EXCEPT !.listed = rows], "ok")
    <3>1. CASE QueryList(r)
      BY <3>1, RequestRights DEF QueryList
    <3>2. CASE FilterList(r)
      <4> DEFINE visible(row) == /\ InWindow(row)
                                 /\ EffectiveAny(q.user.data.allowedOps, row.acl, q.user.userId)
                 rows == {kr \in q.listed : visible(kr[2])}
      <4>1. reqs'[r] = Conclude([q EXCEPT !.listed = rows], "ok")
        BY <3>2, RequestRights DEF FilterList
      <4> QED
        BY <4>1
    <3> QED
      BY <1>6, <3>1, <3>2
  <2>2. reqs'[r].in = q.in /\ reqs'[r].pc \notin Unlooked /\ q.in.request = "list-keys"
    BY <1>1, <1>6, <2>1 DEF QueryList, FilterList, Conclude, RequestState, WellPlaced, Unlooked
  <2> QED
    BY <2>2, OtherOperation DEF KeyOps, OpClassOf
<1> QED
  BY <1>2, <1>3, <1>4, <1>5, <1>6

(* A failed query or append is no success.                                  *)
LEMMA FailuresSee ==
  ASSUME RightsKnown, NEW r \in Request, ReadFails(r) \/ WriteFails(r) \/ AppendFails(r)
  PROVE  RightsHeld(reqs'[r], seen'[r])
<1> DEFINE q == reqs[r]
<1>1. q \in RequestState
  BY RequestRights
<1>2. PICK p : /\ p = q \/ p = [q EXCEPT !.did = TRUE]
               /\ \/ reqs'[r] = Reply(p, "INTERNAL_ERROR") \/ reqs'[r] = Conclude(p, "INTERNAL_ERROR")
                  \/ reqs'[r] = Resume(p, Conclude(p, "INTERNAL_ERROR"))
                  \/ reqs'[r] = Resume(p, Reply(p, "INTERNAL_ERROR"))
  <2>1. CASE ReadFails(r)
    BY <2>1, RequestRights DEF ReadFails
  <2>2. CASE WriteFails(r)
    BY <2>2, RequestRights DEF WriteFails
  <2>3. CASE AppendFails(r)
    BY <2>3, RequestRights DEF AppendFails, AppendFailure
  <2> QED
    BY <2>1, <2>2, <2>3
<1>3. \/ reqs'[r].pc = "lost"
      \/ reqs'[r].pc \in {"auditq", "respond"} /\ reqs'[r].out = "INTERNAL_ERROR"
  BY <1>1, <1>2 DEF Reply, Conclude, Resume, RequestState
<1> QED
  BY <1>3, NothingHeld DEF LetIn, Tells, Telling, Unlooked

(* The appends and the answer change no outcome.                            *)
LEMMA ConcludedSees ==
  ASSUME RightsKnown, NEW r \in Request, AppendAudit(r) \/ AppendDenied(r) \/ Respond(r)
  PROVE  RightsHeld(reqs'[r], seen'[r])
<1> DEFINE q == reqs[r]
<1>1. /\ q \in RequestState /\ q.pc \in {"auditq", "deniedq", "respond"} /\ RightsHeld(q, seen[r])
      /\ seen[r] \subseteq seen'[r]
  BY RequestRights DEF AppendAudit, AppendDenied, Respond
<1>2. \/ reqs'[r] = Resume(q, AfterAppend(q)) \/ reqs'[r] = Resume(q, Goto(q, "respond"))
      \/ reqs'[r] = Discard(q, "done")
  BY RequestRights DEF AppendAudit, AppendDenied, Respond
<1>3. /\ reqs'[r].in = q.in /\ reqs'[r].out = q.out /\ reqs'[r].kid = q.kid
      /\ reqs'[r].pc \in {"deniedq", "respond", "done", "lost"}
  BY <1>1, <1>2 DEF Resume, AfterAppend, Goto, Discard, RequestState
<1>4. CASE Tells(q)
  BY <1>1, <1>3, <1>4, BothHeld DEF LetIn, Unlooked
<1>5. CASE ~Tells(q)
  BY <1>3, <1>5, NothingHeld DEF LetIn, Tells, Unlooked
<1> QED
  BY <1>4, <1>5

(* Nor does the arrival, where nothing was asked yet, or the end of the     *)
(* process.                                                                 *)
LEMMA ArriveSees ==
  ASSUME RightsKnown, NEW r \in Request, Arrive(r)
  PROVE  RightsHeld(reqs'[r], seen'[r])
<1>1. PICK in \in Inputs :
        LET q == [reqs[r] EXCEPT !.in = in, !.ended = {k \in Kid : Ended(k)}]
        IN  Update(r, IF in.shape = "malformed" THEN Reply(q, "MALFORMED_REQUEST")
                      ELSE Goto(q, "authq"))
  BY DEF Arrive
<1> DEFINE q == [reqs[r] EXCEPT !.in = in, !.ended = {k \in Kid : Ended(k)}]
<1>2. reqs'[r] = Reply(q, "MALFORMED_REQUEST") \/ reqs'[r] = Goto(q, "authq")
  BY <1>1, RequestRights
<1>3. reqs[r].kid = None
  BY RequestRights DEF Arrive, RightsHeld, Unlooked
<1>4. \/ reqs'[r].pc = "respond" /\ reqs'[r].out = "MALFORMED_REQUEST"
      \/ reqs'[r].pc = "authq" /\ reqs'[r].kid = None
  BY <1>2, <1>3, RequestRights DEF Reply, Goto, RequestState
<1>5. CASE reqs'[r].pc = "respond" /\ reqs'[r].out = "MALFORMED_REQUEST"
  BY <1>5, NothingHeld DEF LetIn, Tells, Telling, Unlooked
<1>6. CASE reqs'[r].pc = "authq" /\ reqs'[r].kid = None
  BY <1>6 DEF RightsHeld, LetIn
<1> QED
  BY <1>4, <1>5, <1>6

LEMMA CrashSees ==
  ASSUME RightsKnown, NEW r \in Request, Crash
  PROVE  RightsHeld(reqs'[r], seen'[r])
<1> DEFINE q == reqs[r]
<1>1. q \in RequestState /\ RightsHeld(q, seen[r]) /\ seen[r] \subseteq seen'[r]
  BY RequestRights
<1>2. reqs'[r] = IF q.pc \in WriteSent THEN [q EXCEPT !.alive = FALSE]
                 ELSE IF q.pc \in InFlight THEN Discard(q, "lost") ELSE q
  BY DEF Crash
<1>3. CASE q.pc \in WriteSent
  <2>1. /\ reqs'[r].in = q.in /\ reqs'[r].pc = q.pc /\ reqs'[r].out = q.out
        /\ reqs'[r].kid = q.kid
    BY <1>1, <1>2, <1>3 DEF RequestState
  <2>2. CASE LetIn(q)
    BY <1>1, <1>3, <2>1, <2>2, BothHeld DEF WriteSent, Unlooked
  <2>3. CASE ~LetIn(q)
    BY <1>3, <2>1, <2>3, NothingHeld DEF LetIn, Tells, WriteSent, Unlooked
  <2> QED
    BY <2>2, <2>3
<1>4. CASE q.pc \notin WriteSent /\ q.pc \in InFlight
  <2>1. reqs'[r].pc = "lost"
    BY <1>1, <1>2, <1>4 DEF Discard, RequestState
  <2> QED
    BY <2>1, NothingHeld DEF LetIn, Tells, Telling, Unlooked
<1>5. CASE q.pc \notin WriteSent /\ q.pc \notin InFlight
  BY <1>1, <1>2, <1>5, RightsStay
<1> QED
  BY <1>3, <1>4, <1>5

(* Whatever the server or a command does, the rights relied on were seen.   *)
LEMMA RightsSeenKept ==
  ASSUME RightsKnown, [Next]_vars \/ UNCHANGED reqs
  PROVE  (\A r \in Request : RightsSeen(r))'
<1> SUFFICES ASSUME NEW r \in Request PROVE RightsHeld(reqs'[r], seen'[r])
  BY RightsOf
<1>1. CASE reqs'[r] = reqs[r]
  BY <1>1, RequestRights, RightsStay
<1>2. CASE Handle(r)
  BY <1>2, QueryUserSees, DispatchSees, QueryKeySees, AuthorizeSees, PastSees, OthersSee,
     FailuresSee, ConcludedSees DEF Handle
<1> QED
  BY <1>1, <1>2, ArriveSees, CrashSees, StepOfOne DEF RightsKnown

-----------------------------------------------------------------------------
(* SystemConsistent is inductive                                            *)

LEMMA SystemInitially == SystemInit => SystemConsistent
<1> SUFFICES ASSUME SystemInit PROVE SystemConsistent
  OBVIOUS
<1>1. HandlersConsistent
  BY InitiallyConsistent DEF SystemInit
<1>2. chain = {} /\ seen = [r \in Request |-> {}]
  BY DEF SystemInit, Init, DbInit
<1>3. \A c \in Command : cmds[c] = IdleCommand
  BY DEF SystemInit, AdminInit
<1>4. IdleCommand \in CommandState
  BY DEF IdleCommand, CommandState
<1>5. SystemTypeOK
  BY <1>1, <1>2, <1>4 DEF SystemTypeOK, HandlersConsistent, SystemInit, AdminInit, AdminTypeOK
<1>6. CommandsConsistent /\ CommandsAudited
  BY <1>3 DEF IdleCommand, CommandsConsistent, CommandPlaced, CommandsAudited
<1>7. \A r \in Request : reqs[r].in = None /\ reqs[r].kid = None
  BY DEF SystemInit, Init, IdleRequest
<1>8. \A r \in Request : RightsSeen(r)
  BY <1>7 DEF RightsSeen
<1>9. TokensConsistent
  <2>1. withdrawn = {} /\ \A c \in Command : cmds[c].token = None
    BY <1>3 DEF SystemInit, IdleCommand
  <2>2. PICK tables \in InitialTables : users = tables.users
    BY DEF SystemInit, Init, DbInit
  <2>3. \A u, v \in UserId :
          /\ users[u] # None /\ users[v] # None
          /\ users[u].token # None /\ users[u].token = users[v].token
          => u = v
    BY <2>2, TokenAssumption
  <2>4. \A t \in NewTokens : ~ InUse(t)
    BY <2>2, FreshAssumption DEF InUse
  <2> QED
    BY <2>1, <2>3, <2>4 DEF TokensConsistent, RevokedTokensStayDead, TokenPlaced
<1> QED
  BY <1>1, <1>5, <1>6, <1>8, <1>9 DEF SystemConsistent

(* A step of the whole, seen by the server: one of its own, or one that     *)
(* leaves its requests alone and its tables in order.                       *)
LEMMA StepKeepsSystem ==
  ASSUME SystemConsistent, [SystemNext]_systemVars
  PROVE  SystemConsistent'
<1>1. CASE UNCHANGED systemVars
  <2>1. SystemTypeOK'
    BY <1>1 DEF systemVars, vars, SystemConsistent, SystemTypeOK, AdminTypeOK, ServerTypeOK, DbTypeOK
  <2>2. HandlersConsistent'
    BY <1>1, StepKeepsConsistent DEF systemVars, SystemConsistent
  <2>3. CommandsKeep'
    BY <1>1, <2>1, ServerStepKeepsCommands
    DEF systemVars, CommandsKeep, SystemConsistent, AdminConsistent, SystemTypeOK, ServerTypeOK
  <2>4. (\A r \in Request : RightsSeen(r))'
    BY <1>1, RightsOf DEF systemVars, vars, SystemConsistent
  <2>5. TokensConsistent'
    BY <1>1, OthersKeepTokens DEF systemVars, vars, SystemConsistent
  <2> QED
    BY <2>1, <2>2, <2>3, <2>4, <2>5 DEF SystemConsistent, CommandsKeep, AdminConsistent
<1>2. CASE SystemNext
  <2>1. RightsKnown
    BY <1>2 DEF SystemNext, SeenGrows, RightsKnown, SystemConsistent
  <2>2. CommandsKeep
    BY DEF CommandsKeep, SystemConsistent, AdminConsistent, SystemTypeOK, ServerTypeOK
  <2>3. seen' \in [Request -> SUBSET (Rights \cup Wants)]
    BY <2>1, SeenType DEF RightsKnown, SystemConsistent, SystemTypeOK
  <2>4. TokensKnown /\ withdrawn \subseteq Token \ {None}
    BY <1>2, <2>2 DEF SystemNext, TokensKnown, CommandsKeep, SystemConsistent, SystemTypeOK
  <2>5. CASE Next /\ UNCHANGED cmds
    <3>1. HandlersConsistent'
      BY <2>5, StepKeepsConsistent DEF SystemConsistent
    <3>2. CommandsKeep'
      BY <2>2, <2>5, <3>1, ServerStepKeepsCommands DEF HandlersConsistent, ServerTypeOK
    <3>3. (\A r \in Request : RightsSeen(r))'
      BY <2>1, <2>5, RightsSeenKept
    <3>4. chain' \subseteq chain \cup Event
      BY <2>5, StepAppendsEvents DEF SystemConsistent
    <3>5. TokensConsistent' /\ UNCHANGED withdrawn
      <4>1. users' = users
        BY <2>5, ServerLeavesUsers
      <4> QED
        BY <2>5, <2>4, <4>1, OthersKeepTokens DEF TokensKnown
    <3>6. SystemTypeOK'
      BY <2>3, <2>4, <3>1, <3>2, <3>4, <3>5
      DEF SystemConsistent, SystemTypeOK, HandlersConsistent, CommandsKeep, AdminConsistent, Event,
          AdminEvent
    <3> QED
      BY <3>1, <3>2, <3>3, <3>6, <3>5 DEF SystemConsistent, CommandsKeep, AdminConsistent
  <2>6. CASE AdminNext /\ UNCHANGED serverVars
    <3>1. /\ CommandsKeep' /\ TablesInOrder
          /\ chain' = chain \/ \E e \in AdminEvent : chain' = chain \cup {e}
      BY <2>2, <2>6, AdminStepKeeps
    <3>2. HandlersConsistent'
      BY <2>6, <3>1, HandlersUnmoved DEF SystemConsistent
    <3>3. (\A r \in Request : RightsSeen(r))'
      BY <2>1, <2>6, RightsSeenKept DEF serverVars
    <3>4. TokensConsistent'
      BY <2>6, <2>4, AdminStepKeepsTokens
    <3>5. withdrawn' \subseteq Token \ {None}
      BY <2>2, <2>6, <2>4, WithdrawnTokens
    <3>6. SystemTypeOK'
      BY <2>3, <3>1, <3>2, <3>5
      DEF SystemConsistent, SystemTypeOK, HandlersConsistent, CommandsKeep, AdminConsistent, Event,
          AdminEvent
    <3> QED
      BY <3>1, <3>2, <3>3, <3>6, <3>4 DEF SystemConsistent, CommandsKeep, AdminConsistent
  <2> QED
    BY <1>2, <2>5, <2>6 DEF SystemNext
<1> QED
  BY <1>1, <1>2

(* Every behaviour of the whole keeps the server's handlers, the commands   *)
(* and the rights they rely on consistent: any mix of API requests, sweeps, *)
(* crashes, and kv-admin commands, stopped between any two statements       *)
(* (serverhandlers.js, kvadmin.js, serverdb.js).                            *)
THEOREM SystemStaysConsistent == SystemSpec => []SystemConsistent
BY SystemInitially, StepKeepsSystem, PTL DEF SystemSpec

(* README, kv-admin: a token that was revoked, replaced or lost with its    *)
(* user never opens the vault again, whichever commands run at once and     *)
(* wherever they are stopped (setUserToken, setUserData, removeUser).       *)
THEOREM RevocationLasts == SystemSpec => []RevokedTokensStayDead
<1>1. SystemConsistent => RevokedTokensStayDead
  BY DEF SystemConsistent, TokensConsistent
<1> QED
  BY <1>1, SystemStaysConsistent, PTL

(* README, User accounts: a token set-token printed is its user's, until    *)
(* another command takes it away (kvadmin.js 206-221).                      *)
THEOREM PrintedTokensLast == SystemSpec => []PrintedTokensWork
<1>1. SystemConsistent => PrintedTokensWork
  BY DEF SystemConsistent, TokensConsistent, TokenPlaced, Written, PrintedTokensWork
<1> QED
  BY <1>1, SystemStaysConsistent, PTL

(* README, kv-admin: "a command fails if its audit append fails": one that  *)
(* printed its result is recorded (kvadmin.js).                             *)
THEOREM CommandsAreAudited == SystemSpec => []CommandsAudited
<1>1. SystemConsistent => CommandsAudited
  BY DEF SystemConsistent
<1> QED
  BY <1>1, SystemStaysConsistent, PTL

(* README, Audit chain: no unrecorded success, whatever the commands append *)
(* between (handleApi).                                                     *)
THEOREM SuccessIsAuditedAmidCommands == SystemSpec => []OkIsAudited
<1>1. SystemConsistent => OkIsAudited
  BY DEF SystemConsistent, HandlersConsistent, SuccessRecorded, OkIsAudited, AnsweredOk, Answered
<1> QED
  BY <1>1, SystemStaysConsistent, PTL

-----------------------------------------------------------------------------
(* What is told, and what is refused                                        *)

(* Those whose both rights were seen are the holders of RefusedUnless; a    *)
(* row that was read is of a key that was issued; who is marked was seen to *)
(* lack the class.                                                          *)
Authorized == {r \in Request : Rights \subseteq seen[r]}
RowIssued(q) == q.pc = "keyr" /\ q.row # None => issued[q.kid] # None
WantSeen(r) == reqs[r].masked => seen[r] \cap Wants # {}

RefusalsConsistent ==
  /\ SystemConsistent
  /\ \A r \in Request : /\ MarkKept(reqs[r]) /\ RefusedUnless(r, Authorized)
                        /\ RecordedInTurn(r) /\ RowIssued(reqs[r]) /\ WantSeen(r)
  /\ DenialsTrue

(* The row comes from the table, where every key is one that was issued.    *)
LEMMA ReadRowsIssued ==
  ASSUME HandlersConsistent, [Next]_vars, NEW r \in Request, RowIssued(reqs[r])
  PROVE  RowIssued(reqs[r])'
<1> DEFINE q == reqs[r]
           p == reqs'[r]
<1>1. \A k \in Kid : issued[k] # None => issued'[k] # None
  BY StepMaps, PromiseStep DEF KidsStay, Ever
<1>2. q \in RequestState /\ WellPlaced(q)
  BY RequestKnown
<1>3. CASE QueryKey(r) \/ Authorize(r)
  <2>1. q.kid \in Kid /\ p.kid = q.kid
    BY <1>2, <1>3, KeyMoves DEF WellPlaced, RequestState
  <2>2. p.pc = "keyr" => p.row = keys[q.kid]
    BY <1>3, KeyMoves DEF Deciding
  <2>3. keys[q.kid] # None => issued[q.kid] # None
    BY <2>1 DEF HandlersConsistent, KidsNew
  <2> QED
    BY <1>1, <2>1, <2>2, <2>3 DEF RowIssued
<1>4. CASE p.pc = q.pc /\ p.row = q.row /\ p.kid = q.kid
  BY <1>1, <1>2, <1>4 DEF RowIssued, WellPlaced, RequestState
<1>5. CASE p.pc # "keyr"
  BY <1>5 DEF RowIssued
<1>6. CASE Quiet(r) \/ Ending(r) \/ Dispatch(r) \/ QueryMissing(r) \/ Generate(r)
           \/ DeleteKey(r) \/ InsertNewKey(r) \/ WriteFails(r)
  <2>1. p.pc # "keyr"
    BY <1>6, QuietMoves, EndingMoves, DispatchMoves, GenerateMoves, WriteMoves DEF QuietlyAt
  <2> QED
    BY <1>5, <2>1
<1>7. CASE Crash
  <2>1. p.pc = "lost" \/ (p.pc = q.pc /\ p.row = q.row /\ p.kid = q.kid)
    BY <1>7, CrashMoves
  <2> QED
    BY <1>4, <1>5, <2>1
<1>8. CASE p = q
  BY <1>4, <1>8
<1> QED
  BY <1>3, <1>6, <1>7, <1>8, StepOfOne, Moves

(* Nobody is let in whose rights were not seen, and what was seen stays.    *)
LEMMA ServerKeepsRefusals ==
  ASSUME RefusalsConsistent, SeenGrows, [Next]_vars
  PROVE  /\ \A r \in Request : /\ MarkKept(reqs[r])' /\ RefusedUnless(r, Authorized)'
                               /\ RecordedInTurn(r)' /\ RowIssued(reqs[r])' /\ WantSeen(r)'
         /\ DenialsTrue'
<1>1. RightsKnown /\ HandlersConsistent
  BY DEF RightsKnown, RefusalsConsistent, SystemConsistent
<1>2. ASSUME NEW r \in Request
      PROVE  /\ MarkKept(reqs[r])' /\ RefusedUnless(r, Authorized)' /\ RecordedInTurn(r)'
             /\ WantSeen(r)'
             /\ reqs[r].masked => reqs'[r].masked
  <2> DEFINE q == reqs[r]
             T == {s \in Request : Rights \subseteq seen'[s]}
  <2>1. /\ WellPlaced(q) /\ RightsHeld(q, seen[r]) /\ seen[r] \subseteq seen'[r]
        /\ MarkKept(q) /\ RefusedUnless(r, Authorized) /\ RecordedInTurn(r) /\ RowIssued(q)
    BY <1>1, RequestRights DEF RefusalsConsistent
  <2>2. r \in Authorized => r \in T
    BY <2>1 DEF Authorized
  <2>3. q.pc \in {"keyr", "delq"} => q.in # None /\ q.in.request \in KeyOps
    BY <2>1 DEF WellPlaced
  <2>4. q.pc = "delq" => r \in T
    BY <2>1, <2>3 DEF RightsHeld, LetIn
  <2>5. ASSUME q.pc = "keyr", q.row # None
        PROVE  issued[q.kid] # None /\ (Granted(q.in, q.user, q.row) => r \in T)
    BY <2>1, <2>3, <2>5 DEF RowIssued, RightsHeld, Masked, MaskSight, AclSight, Granted, Rights
  <2> HIDE DEF T
  <2>6. PICK U : U = T
    OBVIOUS
  <2>7. /\ MarkKept(reqs[r])' /\ RefusedUnless(r, U)' /\ RecordedInTurn(r)'
        /\ q.masked => reqs'[r].masked
    BY <1>1, <2>1, <2>2, <2>4, <2>5, <2>6, RequestRefused
  <2>8. RefusedUnless(r, Authorized)'
    BY <2>6, <2>7 DEF RefusedUnless, Authorized, T
  <2>9. WantSeen(r)'
    <3>1. CASE q.masked
      BY <1>1, <2>1, <3>1 DEF RefusalsConsistent, WantSeen
    <3>2. ASSUME ~q.masked, reqs'[r].masked PROVE seen'[r] \cap Wants # {}
      <4>1. q.pc = "keyr" /\ q.row # None /\ ~Granted(q.in, q.user, q.row)
        BY <1>1, <3>2, VerdictMarks
      <4> QED
        BY <2>1, <2>3, <4>1 DEF RightsHeld, Masked, MaskSight, AclSight, Granted, Wants
    <3> QED
      BY <3>1, <3>2 DEF WantSeen
  <2> QED
    BY <2>7, <2>8, <2>9
<1>3. DenialsTrue'
  BY <1>1, <1>2, DenialsStayTrue DEF RefusalsConsistent
<1>4. \A r \in Request : RowIssued(reqs[r])'
  BY <1>1, ReadRowsIssued DEF RefusalsConsistent
<1> QED
  BY <1>2, <1>3, <1>4

(* A command moves no request, takes no key away, and writes no denied      *)
(* record.                                                                  *)
LEMMA CommandsKeepRefusals ==
  ASSUME RefusalsConsistent, SeenGrows, AdminNext, UNCHANGED serverVars
  PROVE  /\ \A r \in Request : /\ MarkKept(reqs[r])' /\ RefusedUnless(r, Authorized)'
                               /\ RecordedInTurn(r)' /\ RowIssued(reqs[r])' /\ WantSeen(r)'
         /\ DenialsTrue'
<1>1. RightsKnown /\ CommandsKeep
  BY DEF RightsKnown, RefusalsConsistent, CommandsKeep, SystemConsistent, AdminConsistent,
         SystemTypeOK, ServerTypeOK
<1>2. TablesInOrder /\ (chain' = chain \/ \E e \in AdminEvent : chain' = chain \cup {e})
  BY <1>1, AdminStepKeeps
<1>3. reqs' = reqs /\ issued' = issued /\ chain \subseteq chain'
  BY <1>2 DEF TablesInOrder, serverVars
<1>4. \A e \in chain' : e.type = "denied" => e \in chain
  BY <1>2 DEF AdminEvent, CommandNames
<1>5. DenialsTrue'
  BY <1>3, <1>4 DEF RefusalsConsistent, DenialsTrue
<1>6. ASSUME NEW r \in Request
      PROVE  /\ MarkKept(reqs[r])' /\ RefusedUnless(r, Authorized)'
             /\ RecordedInTurn(r)' /\ RowIssued(reqs[r])' /\ WantSeen(r)'
  <2> DEFINE q == reqs[r]
  <2>1. /\ q \in RequestState /\ WellPlaced(q) /\ seen[r] \subseteq seen'[r]
        /\ MarkKept(q) /\ RefusedUnless(r, Authorized) /\ RecordedInTurn(r) /\ RowIssued(q)
        /\ WantSeen(r)
    BY <1>1, RequestRights DEF RefusalsConsistent
  <2>2. \A k \in Kid : NotThen(k) => NotThen(k)'
    BY <1>2, <1>3 DEF TablesInOrder, NotThen, IssuedHere
  <2>3. q.pc = "keyr" => q.kid \in Kid
    BY <2>1 DEF WellPlaced, RequestState
  <2>4. RefusedUnless(r, Authorized)'
    BY <1>3, <2>1, <2>2, <2>3 DEF RefusedUnless, NotFound, Authorized
  <2>5. OpEvent(r)' = OpEvent(r) /\ DeniedEvent(r)' = DeniedEvent(r)
    BY <1>3 DEF OpEvent, DeniedEvent, ResultKid
  <2> QED
    BY <1>3, <2>1, <2>4, <2>5 DEF MarkKept, RecordedInTurn, RowIssued, WantSeen
<1> QED
  BY <1>5, <1>6

LEMMA StepKeepsRefusals ==
  ASSUME RefusalsConsistent, [SystemNext]_systemVars
  PROVE  RefusalsConsistent'
<1>1. SystemConsistent'
  BY StepKeepsSystem DEF RefusalsConsistent
<1>2. CASE UNCHANGED systemVars
  BY <1>1, <1>2
  DEF RefusalsConsistent, systemVars, vars, dbVars, serverVars, MarkKept, RefusedUnless, NotFound,
      NotThen, IssuedHere, Authorized, RecordedInTurn, RowIssued, WantSeen, DenialsTrue, OpEvent,
      DeniedEvent, ResultKid
<1>3. CASE SystemNext
  <2>1. SeenGrows
    BY <1>3 DEF SystemNext, SeenGrows
  <2> QED
    BY <1>1, <1>3, <2>1, ServerKeepsRefusals, CommandsKeepRefusals
    DEF SystemNext, RefusalsConsistent
<1> QED
  BY <1>2, <1>3

LEMMA AlwaysRefusals == SystemSpec => []RefusalsConsistent
<1>1. SystemInit => RefusalsConsistent
  <2> SUFFICES ASSUME SystemInit PROVE RefusalsConsistent
    OBVIOUS
  <2>1. chain = {} /\ \A r \in Request : reqs[r].pc = "idle" /\ ~reqs[r].masked
    BY DEF SystemInit, Init, DbInit, IdleRequest
  <2> QED
    BY <2>1, SystemInitially
    DEF RefusalsConsistent, MarkKept, RefusedUnless, NotFound, Concluded, RecordedInTurn,
        RowIssued, WantSeen, DenialsTrue
<1> QED
  BY <1>1, StepKeepsRefusals, PTL DEF SystemSpec

(* README, Authorization: a key operation answered ok, or with any error    *)
(* but those of a key that is not there, was granted by the key's ACL and   *)
(* by the user's mask, each at an instant while the request was in flight   *)
(* (authenticate, authorizedKey), whatever update-acl, set-user-data and    *)
(* revoke-token did meanwhile. API.md, Audit: one refused a key that was    *)
(* there all along, and not granted so, left its denied record, and who     *)
(* left one was without one of the two at such an instant (handleApi).      *)
THEOREM AnsweredByRights == SystemSpec => []AnswersFollowRights
<1>1. ASSUME RefusalsConsistent, NEW r \in Request, Answered(r), reqs[r].in.request \in KeyOps
      PROVE  /\ Tells(reqs[r]) => Rights \subseteq seen[r]
             /\ /\ reqs[r].out = "KEY_NOT_FOUND" /\ keys[reqs[r].kid] # None
                /\ ~IssuedHere(reqs[r].kid)
                => Rights \subseteq seen[r] \/ DeniedEvent(r) \in chain
  <2>1. /\ WellPlaced(reqs[r]) /\ RightsSeen(r) /\ RefusedUnless(r, Authorized)
        /\ RecordedInTurn(r)
    BY <1>1 DEF RefusalsConsistent, SystemConsistent, HandlersConsistent
  <2>2. Tells(reqs[r]) => Rights \subseteq seen[r]
    BY <1>1, <2>1 DEF Answered, WellPlaced, RightsSeen
  <2>3. reqs[r].out = "KEY_NOT_FOUND" => NotFound(reqs[r])
    BY <1>1 DEF Answered, NotFound, Concluded
  <2> QED
    BY <1>1, <2>1, <2>2, <2>3 DEF RefusedUnless, NotThen, Authorized, RecordedInTurn, Answered
<1>2. ASSUME RefusalsConsistent, NEW r \in Request, DeniedEvent(r) \in chain
      PROVE  seen[r] \cap Wants # {}
  BY <1>2 DEF RefusalsConsistent, DenialsTrue, DeniedEvent, WantSeen
<1>3. RefusalsConsistent => AnswersFollowRights
  BY <1>1, <1>2 DEF AnswersFollowRights
<1> QED
  BY <1>3, AlwaysRefusals, PTL

(* API.md, Audit: and a denied record is only ever of a key that was issued,*)
(* on top of a key-not-found record of the same request.                    *)
THEOREM DenialsAreRefusals ==
  SystemSpec => [](\A r \in Request : DeniedEvent(r) \in chain =>
                     /\ issued[reqs[r].kid] # None
                     /\ \E e \in chain : e.op = r /\ e.outcome = "KEY_NOT_FOUND")
<1>1. RefusalsConsistent =>
        \A r \in Request : DeniedEvent(r) \in chain =>
           /\ issued[reqs[r].kid] # None
           /\ \E e \in chain : e.op = r /\ e.outcome = "KEY_NOT_FOUND"
  <2> SUFFICES ASSUME RefusalsConsistent, NEW r \in Request, DeniedEvent(r) \in chain
               PROVE  /\ issued[reqs[r].kid] # None
                      /\ \E e \in chain : e.op = r /\ e.outcome = "KEY_NOT_FOUND"
    OBVIOUS
  <2>1. DeniedEvent(r).type = "denied" /\ DeniedEvent(r).op = r
    BY DEF DeniedEvent
  <2> QED
    BY <2>1 DEF RefusalsConsistent, MarkKept, DenialsTrue
<1> QED
  BY <1>1, AlwaysRefusals, PTL

-----------------------------------------------------------------------------
(* The promise to clients                                                   *)

(* No command issues a key, revokes one, or records a client's success.     *)
LEMMA CommandsStutter ==
  ASSUME SystemConsistent, AdminNext, UNCHANGED serverVars
  PROVE  Stutter
<1>1. CommandsKeep
  BY DEF CommandsKeep, SystemConsistent, AdminConsistent, SystemTypeOK, ServerTypeOK
<1>2. TablesInOrder /\ (chain' = chain \/ \E e \in AdminEvent : chain' = chain \cup {e})
  BY <1>1, AdminStepKeeps
<1>3. \A e \in AdminEvent : e.outcome # "ok"
  BY NoAnswerAssumption DEF AdminEvent, Answers, Outcomes
<1>4. Recorded' = Recorded
  BY <1>2, <1>3 DEF Recorded
<1>5. {k \in Kid : keys[k] # None}' = {k \in Kid : keys[k] # None}
  BY <1>2 DEF TablesInOrder
<1>6. \A r \in Request : RequestKind(r)' = RequestKind(r) /\ AnswerSent(r)' = AnswerSent(r)
  BY OthersKept DEF serverVars
<1>7. [r \in Request |-> RequestKind(r)]' = [r \in Request |-> RequestKind(r)]
  BY <1>6
<1>8. [r \in Request |-> AnswerSent(r)]' = [r \in Request |-> AnswerSent(r)]
  BY <1>6
<1> QED
  BY <1>2, <1>4, <1>5, <1>7, <1>8 DEF TablesInOrder, Stutter, Promise!promiseVars, Recorded, serverVars

LEMMA SystemStepMaps ==
  ASSUME SystemConsistent, [SystemNext]_systemVars
  PROVE  [Promise!Next]_(Promise!promiseVars)
<1>1. CASE [Next]_vars
  BY <1>1, StepMaps DEF SystemConsistent
<1>2. CASE AdminNext /\ UNCHANGED serverVars
  BY <1>2, CommandsStutter DEF Stutter
<1> QED
  BY <1>1, <1>2 DEF SystemNext, systemVars

(* The vault keeps VaultPromise to its clients with kv-admin commands at    *)
(* work on its tables: rewraps, new ACLs, removed users and their records   *)
(* never show (server.js, serverhandlers.js, keystore.js, kvadmin.js).      *)
THEOREM SystemKeepsPromise == SystemSpec => KeepsPromise
<1>1. SystemInit => Promise!Init
  BY InitMaps DEF SystemInit
<1>2. SystemConsistent /\ [SystemNext]_systemVars => [Promise!Next]_(Promise!promiseVars)
  BY SystemStepMaps
<1> QED
  BY <1>1, <1>2, SystemStaysConsistent, PTL DEF SystemSpec, KeepsPromise, Promise!Spec

(* The history of who did what is kept by the commands too: their records   *)
(* are of other types.                                                      *)
LEMMA SystemStepKeepsHistory ==
  ASSUME SystemConsistent, EffectsUnique, RecordsTrue, [SystemNext]_systemVars
  PROVE  EffectsUnique' /\ RecordsTrue'
<1>1. HandlersConsistent
  BY DEF SystemConsistent
<1>2. EffectsUnique'
  BY <1>1, SystemStepMaps, EffectsUniqueKept
<1>3. CASE [Next]_vars
  BY <1>1, <1>2, <1>3, RecordsTrueKept
<1>4. CASE AdminNext /\ UNCHANGED serverVars
  <2>1. CommandsKeep
    BY DEF CommandsKeep, SystemConsistent, AdminConsistent, SystemTypeOK, ServerTypeOK
  <2>2. chain' = chain \/ \E e \in AdminEvent : chain' = chain \cup {e}
    BY <1>4, <2>1, AdminStepKeeps
  <2>3. \A e \in AdminEvent : e.type \notin {"generate-key", "revoke-key"}
    BY DEF AdminEvent, CommandNames
  <2>4. Effect' = Effect /\ Kind' = Kind /\ reqs' = reqs
    BY <1>4 DEF Effect, Kind, RequestKind, serverVars
  <2> QED
    BY <1>2, <2>2, <2>3, <2>4 DEF RecordsTrue, KindOf
<1> QED
  BY <1>3, <1>4 DEF SystemNext, systemVars

(* With commands at work, too, one of the requests that revoke a key, or    *)
(* insert it, is recorded as successful, and only of work that was done     *)
(* (keystore.js revoke and generate, handleApi).                            *)
THEOREM OneWinnerAmidCommands == SystemSpec => []OneRevocationPerKey
<1>1. SystemInit => EffectsUnique /\ RecordsTrue
  BY InitiallyNoHistory DEF SystemInit, HistoryConsistent
<1>2. SystemConsistent /\ (EffectsUnique /\ RecordsTrue) /\ [SystemNext]_systemVars
        => (EffectsUnique /\ RecordsTrue)'
  BY SystemStepKeepsHistory
<1>3. SystemConsistent => RecordsPlain
  BY DEF SystemConsistent, SystemTypeOK, RecordsPlain, Event, AdminEvent
<1>4. SystemConsistent /\ (EffectsUnique /\ RecordsTrue) => OneRevocationPerKey
  BY <1>3, RecordsUnique DEF HistoryConsistent, SystemConsistent
<1> QED
  BY <1>1, <1>2, <1>4, SystemStaysConsistent, PTL DEF SystemSpec

(* No copy of a row that a handler or a command holds brings the key back   *)
(* (serverdb.js: updateKeyAcl and updateKeyEmbedding only update a row that *)
(* is there).                                                               *)
THEOREM GoneStaysGoneAmidCommands == SystemSpec => NoResurrection
<1>1. SystemConsistent /\ [SystemNext]_systemVars => [\A k \in Kid : Gone(k) => Gone(k)']_vars
  <2> SUFFICES ASSUME SystemConsistent, [SystemNext]_systemVars, NEW k \in Kid, Gone(k)
               PROVE  Gone(k)'
    OBVIOUS
  <2>1. KidsStay
    BY SystemStepMaps, PromiseStep DEF SystemConsistent
  <2> QED
    BY <2>1 DEF KidsStay, Live, Ever, Gone
<1> QED
  BY <1>1, SystemStaysConsistent, PTL DEF SystemSpec, NoResurrection

-----------------------------------------------------------------------------
(* ACLs                                                                     *)

(* A key that stays keeps its ACL in every statement of the server: it only *)
(* inserts and deletes rows.                                                *)
LEMMA ServerLeavesAcls ==
  ASSUME HandlersConsistent, [Next]_vars, NEW k \in Kid, keys[k] # None, keys'[k] # None
  PROVE  keys'[k] = keys[k]
<1>1. ASSUME NEW K, DeleteKeys(K) PROVE keys'[k] = keys[k]
  BY <1>1 DEF DeleteKeys
<1>2. ASSUME NEW j, NEW row, InsertKey(j, row) PROVE keys'[k] = keys[k]
  BY <1>2 DEF InsertKey, HandlersConsistent, ServerTypeOK, DbTypeOK, KeyTable
<1>3. ASSUME NEW r \in Request, Handle(r) PROVE keys'[k] = keys[k]
  <2>1. CASE DeleteKey(r) \/ InsertNewKey(r) \/ WriteFails(r)
    BY <1>1, <1>2, <2>1 DEF DeleteKey, InsertNewKey, WriteFails
  <2>2. CASE ~(DeleteKey(r) \/ InsertNewKey(r) \/ WriteFails(r))
    BY <1>3, <2>2 DEF Handle, QueryUser, Dispatch, DispatchInherited, QueryKey, Authorize, Crypto,
           QueryMissing, Generate, QueryList, FilterList, ReadFails, Respond, AppendAudit,
           AppendDenied, AppendFails, ServerOnly
  <2> QED
    BY <2>1, <2>2
<1> QED
  BY <1>1, <1>3 DEF Next, ServerNext, Arrive, Sweep, Start, Crash, Tick, vars, dbVars, ServerOnly

(* README, kv-admin: update-acl. The ACL of a key changes in no other       *)
(* statement of any process, rewrap included (updateKeyAcl,                 *)
(* updateKeyEmbedding).                                                     *)
THEOREM AclsOnlyUpdated == SystemSpec => AclOnlySetByUpdateAcl
<1> DEFINE Set(k) == \E c \in Command : /\ cmds[c].pc = "acl" /\ cmds'[c].pc = "audit"
                                        /\ cmds[c].in.kid = k /\ keys'[k].acl = cmds[c].in.acl
<1>1. ASSUME SystemConsistent, [SystemNext]_systemVars, NEW k \in Kid, keys[k] # None,
             keys'[k] # None, keys'[k].acl # keys[k].acl
      PROVE  Set(k)
  <2>1. CASE [Next]_vars
    BY <1>1, <2>1, ServerLeavesAcls DEF SystemConsistent
  <2>2. CASE AdminNext
    <3>1. PICK c \in Command : StartCommand(c) \/ AdminStep(c) \/ Abort(c)
      BY <2>2 DEF AdminNext
    <3>2. keys \in KeyTable /\ keys[k] \in KeyRow /\ cmds \in [Command -> CommandState]
      BY <1>1 DEF SystemConsistent, SystemTypeOK, ServerTypeOK, DbTypeOK, KeyTable, AdminTypeOK
    <3>3. CASE WriteAcl(c)
      <4> DEFINE j == cmds[c].in.kid
                 acl == cmds[c].in.acl
      <4>1. /\ cmds[c].pc = "acl" /\ cmds'[c].pc = "audit"
            /\ keys' = IF keys[j] = None THEN keys ELSE [keys EXCEPT ![j].acl = acl]
        BY <3>2, <3>3 DEF WriteAcl, UpdateKeyAcl, Step, ToCommand, CommandState
      <4> HIDE DEF j, acl
      <4>2. j = k /\ keys'[k] = [keys[k] EXCEPT !.acl = acl]
        BY <1>1, <3>2, <4>1 DEF KeyTable
      <4>3. keys'[k].acl = acl
        BY <3>2, <4>2 DEF KeyRow
      <4> QED
        BY <4>1, <4>2, <4>3 DEF j, acl
    <3>4. CASE RewrapRow(c)
      <4>1. PICK j, kek : keys' = keys \/ keys' = [keys EXCEPT ![j].kek = kek]
        BY <3>4 DEF RewrapRow, UpdateKeyEmbedding
      <4>2. keys'[k] = keys[k] \/ keys'[k] = [keys[k] EXCEPT !.kek = kek]
        BY <3>2, <4>1 DEF KeyTable
      <4> QED
        BY <1>1, <3>2, <4>2 DEF KeyRow
    <3>5. CASE ~WriteAcl(c) /\ ~RewrapRow(c)
      <4>1. keys' = keys
        BY <3>1, <3>5 DEF AdminStep, StartCommand, AddUser, ReadUser, WriteToken, WriteData,
           DeleteUser, ReadOnly, CheckAclUsers, ReadKey, SnapshotRows, RewrapDone, AuditCommand,
           Abort, dbVars
      <4> QED
        BY <1>1, <4>1
    <3> QED
      BY <3>3, <3>4, <3>5
  <2> QED
    BY <1>1, <2>1, <2>2 DEF SystemNext, systemVars
<1>2. SystemConsistent /\ [SystemNext]_systemVars =>
        [\A k \in Kid :
           /\ keys[k] # None /\ keys'[k] # None /\ keys'[k].acl # keys[k].acl
           => \E c \in Command : /\ cmds[c].pc = "acl" /\ cmds'[c].pc = "audit"
                                 /\ cmds[c].in.kid = k /\ keys'[k].acl = cmds[c].in.acl
        ]_<<dbVars, adminVars>>
  BY <1>1
<1> QED
  BY <1>2, SystemStaysConsistent, PTL DEF SystemSpec, AclOnlySetByUpdateAcl

-----------------------------------------------------------------------------
(* Keys that had ended                                                      *)

PastEnd(row) == row.exp # None /\ row.exp <= now

(* What a handler holds of a key that had ended when its request arrived is *)
(* a row past its end, and neither uses nor shows it.                       *)
ShowsNoEnded(q) == \A kr \in q.listed : kr[1] \notin q.ended
Past(q) == \/ q.pc \in {"crypto", "delq"}
           \/ q.pc \in {"auditq", "deniedq", "respond", "done"} /\ q.out = "ok"
UsesNoEnded(q) == q.in # None /\ q.in.request \in KeyOps /\ Past(q) => q.kid \notin q.ended

EndedHeld(q) ==
  /\ q.pc = "idle" => q.listed = {}
  /\ \A k \in q.ended : Ended(k)
  /\ q.pc = "keyr" /\ q.row # None /\ q.kid \in q.ended => PastEnd(q.row)
  /\ q.pc = "listr" => \A kr \in q.listed : kr[1] \in q.ended => PastEnd(kr[2])
  /\ q.pc \notin {"listr", "lost"} => ShowsNoEnded(q)
  /\ UsesNoEnded(q)

EndsConsistent == SystemConsistent /\ \A r \in Request : EndedHeld(reqs[r])

(* A row that stays keeps its end: update-acl and rewrap write their        *)
(* columns only.                                                            *)
LEMMA RowsKeepTheirEnd ==
  ASSUME SystemConsistent, [SystemNext]_systemVars, NEW k \in Kid, keys[k] # None, keys'[k] # None
  PROVE  keys'[k].exp = keys[k].exp
<1>1. CASE [Next]_vars
  BY <1>1, ServerLeavesAcls DEF SystemConsistent
<1>2. CASE AdminNext
  <2>1. PICK c \in Command : StartCommand(c) \/ AdminStep(c) \/ Abort(c)
    BY <1>2 DEF AdminNext
  <2>2. keys \in KeyTable /\ keys[k] \in KeyRow
    BY DEF SystemConsistent, SystemTypeOK, ServerTypeOK, DbTypeOK, KeyTable
  <2>3. CASE WriteAcl(c)
    <3>1. PICK j, acl : keys' = keys \/ keys' = [keys EXCEPT ![j].acl = acl]
      BY <2>3 DEF WriteAcl, UpdateKeyAcl
    <3>2. keys'[k] = keys[k] \/ keys'[k] = [keys[k] EXCEPT !.acl = acl]
      BY <2>2, <3>1 DEF KeyTable
    <3> QED
      BY <2>2, <3>2 DEF KeyRow
  <2>4. CASE RewrapRow(c)
    <3>1. PICK j, kek : keys' = keys \/ keys' = [keys EXCEPT ![j].kek = kek]
      BY <2>4 DEF RewrapRow, UpdateKeyEmbedding
    <3>2. keys'[k] = keys[k] \/ keys'[k] = [keys[k] EXCEPT !.kek = kek]
      BY <2>2, <3>1 DEF KeyTable
    <3> QED
      BY <2>2, <3>2 DEF KeyRow
  <2>5. CASE ~WriteAcl(c) /\ ~RewrapRow(c)
    BY <2>1, <2>5 DEF AdminStep, StartCommand, AddUser, ReadUser, WriteToken, WriteData,
       DeleteUser, ReadOnly, CheckAclUsers, ReadKey, SnapshotRows, RewrapDone, AuditCommand,
       Abort, dbVars
  <2> QED
    BY <2>3, <2>4, <2>5
<1> QED
  BY <1>1, <1>2 DEF SystemNext, systemVars

(* Time only moves on.                                                      *)
LEMMA ClockRuns ==
  ASSUME SystemConsistent, [SystemNext]_systemVars
  PROVE  now \in Nat /\ now' \in Nat /\ now <= now'
<1>1. now \in Nat /\ now' \in Nat
  BY StepKeepsSystem, TimeAssumption
  DEF SystemConsistent, SystemTypeOK, ServerTypeOK, DbTypeOK
<1>2. CASE [Next]_vars
  <2>1. ASSUME NEW r \in Request, Arrive(r) \/ Handle(r) PROVE now' = now
    BY <2>1 DEF Arrive, Handle, QueryUser, Dispatch, DispatchInherited, QueryKey, Authorize, Crypto,
           DeleteKey, QueryMissing, Generate, InsertNewKey, QueryList, FilterList, ReadFails,
           WriteFails, Respond, AppendAudit, AppendDenied, AppendFails, ServerOnly
  <2>2. now' = now \/ now' = now + 1
    BY <1>2, <2>1 DEF Next, ServerNext, Sweep, Crash, Start, Tick, vars, dbVars
  <2> QED
    BY <1>1, <2>2
<1>3. CASE AdminNext
  <2>1. CommandsKeep
    BY DEF CommandsKeep, SystemConsistent, AdminConsistent, SystemTypeOK, ServerTypeOK
  <2> QED
    BY <1>1, <1>3, <2>1, AdminStepKeeps DEF TablesInOrder
<1> QED
  BY <1>1, <1>2, <1>3 DEF SystemNext, systemVars

(* So what ended stays ended, and a row past its end stays so.              *)
EndsStay == /\ \A k \in Kid : Ended(k) => Ended(k)'
            /\ \A row \in KeyRow : PastEnd(row) => PastEnd(row)'

LEMMA EndsDoStay ==
  ASSUME SystemConsistent, [SystemNext]_systemVars
  PROVE  EndsStay
<1>1. now \in Nat /\ now' \in Nat /\ now <= now'
  BY ClockRuns
<1>2. ASSUME NEW row \in KeyRow, PastEnd(row) PROVE PastEnd(row)'
  BY <1>1, <1>2 DEF PastEnd, KeyRow, MaybeTime
<1>3. ASSUME NEW k \in Kid, Ended(k) PROVE Ended(k)'
  <2>1. KidsStay
    BY SystemStepMaps, PromiseStep DEF SystemConsistent
  <2>2. CASE Gone(k)
    BY <2>1, <2>2 DEF KidsStay, Live, Ever, Gone, Ended
  <2>3. CASE keys[k] # None /\ keys'[k] = None
    BY <2>1, <2>3 DEF KidsStay, Live, Ever, Gone, Ended, SystemConsistent, HandlersConsistent,
                      KidsNew
  <2>4. CASE keys[k] # None /\ keys'[k] # None
    <3>1. keys'[k].exp = keys[k].exp
      BY <2>4, RowsKeepTheirEnd
    <3>2. keys[k] \in KeyRow /\ keys[k].exp # None /\ keys[k].exp <= now
      BY <1>3, <2>4 DEF Ended, Gone, SystemConsistent, SystemTypeOK, ServerTypeOK, DbTypeOK, KeyTable
    <3>3. keys[k].exp <= now'
      BY <1>1, <3>2 DEF KeyRow, MaybeTime
    <3> QED
      BY <2>4, <3>1, <3>2, <3>3 DEF Ended
  <2> QED
    BY <1>3, <2>2, <2>3, <2>4 DEF Ended
<1> QED
  BY <1>2, <1>3 DEF EndsStay

(* What is held by a request that does not move.                            *)
LEMMA EndedHeldStays ==
  ASSUME EndsStay, NEW q \in RequestState, EndedHeld(q)
  PROVE  EndedHeld(q)'
<1>1. /\ q.ended \subseteq Kid
      /\ q.row # None => q.row \in KeyRow
      /\ \A kr \in q.listed : kr[2] \in KeyRow
  BY DEF RequestState
<1>2. /\ \A k \in q.ended : Ended(k)'
      /\ q.pc = "keyr" /\ q.row # None /\ q.kid \in q.ended => PastEnd(q.row)'
      /\ q.pc = "listr" => \A kr \in q.listed : kr[1] \in q.ended => PastEnd(kr[2])'
  BY <1>1 DEF EndedHeld, EndsStay
<1> QED
  BY <1>2 DEF EndedHeld, ShowsNoEnded, UsesNoEnded, Past

LEMMA HeldKnown ==
  ASSUME EndsConsistent, NEW r \in Request
  PROVE  /\ reqs[r] \in RequestState /\ WellPlaced(reqs[r]) /\ EndedHeld(reqs[r])
         /\ now \in Nat
         /\ \A p : Update(r, p) => reqs'[r] = p
BY RequestKnown, TimeAssumption
DEF EndsConsistent, SystemConsistent, SystemTypeOK, ServerTypeOK, DbTypeOK, Update

(* A request that moves on with what it listed, to no row, and not to use   *)
(* its key unless it did.                                                   *)
LEMMA HoldsNoMore ==
  ASSUME NEW q, EndedHeld(q), q.pc \notin {"listr", "lost"},
         NEW p, p.ended = q.ended, p.listed = q.listed, p.pc \notin {"idle", "keyr", "listr"},
         UsesNoEnded(p)
  PROVE  EndedHeld(p)
BY DEF EndedHeld, ShowsNoEnded

LEMMA HoldsNothing ==
  ASSUME NEW q, EndedHeld(q), NEW p, p.ended = q.ended, p.pc = "lost"
  PROVE  EndedHeld(p)
BY DEF EndedHeld, UsesNoEnded, Past

(* Up to the key query, and in handlers of no key, no key is used.          *)
LEMMA BeforeKeyHeld ==
  ASSUME EndsConsistent, NEW r \in Request, QueryUser(r) \/ Dispatch(r) \/ DispatchInherited(r)
  PROVE  EndedHeld(reqs'[r])
<1> DEFINE q == reqs[r]
<1>1. /\ q \in RequestState /\ WellPlaced(q) /\ EndedHeld(q) /\ q.pc \in {"authq", "authr"}
      /\ q.in # None
  BY HeldKnown DEF QueryUser, Dispatch, DispatchInherited, WellPlaced
<1>2. CASE QueryUser(r)
  <2>1. PICK user : reqs'[r] = [q EXCEPT !.pc = "authr", !.user = user]
    BY <1>2, HeldKnown DEF QueryUser
  <2>2. reqs'[r].pc = "authr" /\ reqs'[r].ended = q.ended /\ reqs'[r].listed = q.listed
    BY <1>1, <2>1 DEF RequestState
  <2> QED
    BY <1>1, <2>2, HoldsNoMore DEF UsesNoEnded, Past
<1>3. CASE DispatchInherited(r)
  <2>1. PICK out : reqs'[r] = Reply(q, out)
    BY <1>3, HeldKnown DEF DispatchInherited
  <2>2. /\ reqs'[r].in = q.in /\ q.in.request = "inherited" /\ reqs'[r].pc = "respond"
        /\ reqs'[r].ended = q.ended /\ reqs'[r].listed = q.listed
    BY <1>1, <1>3, <2>1 DEF DispatchInherited, Reply, RequestState
  <2> QED
    BY <1>1, <2>2, HoldsNoMore DEF UsesNoEnded, KeyOps, OpClassOf
<1>4. CASE Dispatch(r)
  <2> DEFINE gate == Gate(q.in, q.user)
             anon == [q EXCEPT !.user = None]
             moved(pc, kid, row) == [q EXCEPT !.pc = pc, !.kid = kid, !.row = row]
  <2>1. PICK kid, row :
          \/ reqs'[r] = Reply(anon, "UNAUTHORIZED")
          \/ reqs'[r] = Reply(q, "UNKNOWN_OPERATION")
          \/ /\ Authenticated(q.in, q.user) /\ q.in.request \in Operations
             /\ gate # None /\ reqs'[r] = Conclude(q, gate)
          \/ reqs'[r] = moved(FirstAwait(q.in, q.user), kid, row)
    BY <1>4, HeldKnown DEF Dispatch
  <2>2. FirstAwait(q.in, q.user) \in {"listq", "gen", "missq", "keyq"}
    BY DEF FirstAwait
  <2>3. ASSUME Authenticated(q.in, q.user), q.in.request \in Operations, gate = "ok"
        PROVE  q.in.request \notin KeyOps
    <3>1. q.in \in Input /\ q.user \in AuthUser
      BY <1>1, <2>3, InputAssumption DEF RequestState, Authenticated
    <3>2. q.in.request = "healthcheck"
      BY <2>3, <3>1, GateDecides
    <3> QED
      BY <3>2 DEF KeyOps, OpClassOf
  <2> HIDE DEF gate
  <2>4. /\ reqs'[r].in = q.in /\ reqs'[r].ended = q.ended /\ reqs'[r].listed = q.listed
        /\ \/ reqs'[r].pc \in {"listq", "gen", "missq", "keyq"}
           \/ /\ reqs'[r].pc \in {"auditq", "respond"}
              /\ reqs'[r].out = "ok" => q.in.request \notin KeyOps
    BY <1>1, <2>1, <2>2, <2>3 DEF Reply, Conclude, RequestState
  <2> QED
    BY <1>1, <2>4, HoldsNoMore DEF UsesNoEnded, Past
<1> QED
  BY <1>2, <1>3, <1>4

(* Making a key uses none, and nor does a failed query.                     *)
LEMMA OtherHandlersHeld ==
  ASSUME EndsConsistent, NEW r \in Request,
         QueryMissing(r) \/ Generate(r) \/ InsertNewKey(r) \/ ReadFails(r) \/ WriteFails(r)
  PROVE  EndedHeld(reqs'[r])
<1> DEFINE q == reqs[r]
<1>1. /\ q \in RequestState /\ WellPlaced(q) /\ EndedHeld(q)
      /\ q.pc \in {"missq", "gen", "insq", "delq", "authq", "keyq", "listq"}
  BY HeldKnown DEF QueryMissing, Generate, InsertNewKey, ReadFails, WriteFails, RequestState
<1>2. CASE QueryMissing(r) \/ Generate(r) \/ InsertNewKey(r)
  <2>1. PICK out, row, kid, p :
          /\ p = q \/ p = [q EXCEPT !.did = TRUE]
          /\ \/ reqs'[r] = Conclude(q, out)
             \/ reqs'[r] = [q EXCEPT !.pc = "gen", !.row = row]
             \/ reqs'[r] = [q EXCEPT !.pc = "insq", !.kid = kid]
             \/ reqs'[r] = Resume(p, Conclude(p, out))
    <3>1. CASE QueryMissing(r)
      BY <3>1, HeldKnown DEF QueryMissing
    <3>2. CASE Generate(r)
      BY <3>2, HeldKnown DEF Generate
    <3>3. CASE InsertNewKey(r)
      BY <3>3, HeldKnown DEF InsertNewKey
    <3> QED
      BY <1>2, <3>1, <3>2, <3>3
  <2>2. /\ reqs'[r].in = q.in /\ reqs'[r].ended = q.ended /\ reqs'[r].listed = q.listed
        /\ reqs'[r].pc \in {"auditq", "respond", "gen", "insq", "lost"}
    <3>1. /\ p \in RequestState /\ p.in = q.in /\ p.ended = q.ended /\ p.listed = q.listed
      BY <1>1, <2>1 DEF RequestState
    <3> QED
      BY <1>1, <2>1, <3>1 DEF Conclude, Resume, RequestState
  <2>3. q.in.request = "generate-key"
    BY <1>1, <1>2 DEF QueryMissing, Generate, InsertNewKey, WellPlaced, RequestState
  <2> QED
    BY <1>1, <2>2, <2>3, HoldsNoMore DEF UsesNoEnded, KeyOps, OpClassOf
<1>3. CASE ReadFails(r) \/ WriteFails(r)
  <2>1. PICK p : /\ p = q \/ p = [q EXCEPT !.did = TRUE]
                 /\ \/ reqs'[r] = Reply(p, "INTERNAL_ERROR")
                    \/ reqs'[r] = Conclude(p, "INTERNAL_ERROR")
                    \/ reqs'[r] = Resume(p, Conclude(p, "INTERNAL_ERROR"))
    <3>1. CASE ReadFails(r)
      BY <3>1, HeldKnown DEF ReadFails
    <3>2. CASE WriteFails(r)
      BY <3>2, HeldKnown DEF WriteFails
    <3> QED
      BY <1>3, <3>1, <3>2
  <2>2. /\ reqs'[r].ended = q.ended /\ reqs'[r].listed = q.listed
        /\ \/ reqs'[r].pc = "lost"
           \/ reqs'[r].pc \in {"auditq", "respond"} /\ reqs'[r].out = "INTERNAL_ERROR"
    <3>1. p \in RequestState /\ p.ended = q.ended /\ p.listed = q.listed
      BY <1>1, <2>1 DEF RequestState
    <3> QED
      BY <2>1, <3>1 DEF Reply, Conclude, Resume, RequestState
  <2> QED
    BY <1>1, <2>2, HoldsNoMore DEF UsesNoEnded, Past
<1> QED
  BY <1>2, <1>3

(* The row there is of a key that had ended is past its end.                *)
LEMMA QueryKeyHeld ==
  ASSUME EndsConsistent, NEW r \in Request, QueryKey(r)
  PROVE  EndedHeld(reqs'[r])
<1> DEFINE q == reqs[r]
           p == [q EXCEPT !.pc = "keyr", !.row = keys[q.kid]]
<1>1. q \in RequestState /\ EndedHeld(q) /\ q.pc = "keyq" /\ reqs'[r] = p
  BY HeldKnown DEF QueryKey, KeyById
<1>2. keys[q.kid] # None /\ q.kid \in q.ended => PastEnd(keys[q.kid])
  BY <1>1 DEF EndedHeld, Ended, Gone, PastEnd
<1>3. /\ p.pc = "keyr" /\ p.ended = q.ended /\ p.listed = q.listed /\ p.kid = q.kid
      /\ p.row = keys[q.kid]
  BY <1>1 DEF RequestState
<1> HIDE DEF p
<1> QED
  BY <1>1, <1>2, <1>3 DEF EndedHeld, ShowsNoEnded, UsesNoEnded, Past

(* authorizedKey lets no row past its end through.                          *)
LEMMA AuthorizeHeld ==
  ASSUME EndsConsistent, NEW r \in Request, Authorize(r)
  PROVE  EndedHeld(reqs'[r])
<1> DEFINE q == reqs[r]
           masked == [q EXCEPT !.masked = TRUE]
<1>1. q \in RequestState /\ EndedHeld(q) /\ q.pc = "keyr" /\ now \in Nat
  BY HeldKnown DEF Authorize
<1>2. \/ reqs'[r] = Conclude(q, "KEY_NOT_FOUND") \/ reqs'[r] = Conclude(masked, "KEY_NOT_FOUND")
      \/ /\ q.row # None /\ InWindow(q.row)
         /\ \/ \E out : reqs'[r] = Conclude(q, out)
            \/ \E pc \in {"crypto", "delq"} : reqs'[r] = Goto(q, pc)
  BY HeldKnown DEF Authorize
<1>3. q.row # None /\ InWindow(q.row) => q.kid \notin q.ended
  BY <1>1 DEF EndedHeld, PastEnd, InWindow, RequestState, KeyRow, MaybeTime
<1>4. /\ reqs'[r].ended = q.ended /\ reqs'[r].listed = q.listed /\ reqs'[r].kid = q.kid
      /\ reqs'[r].pc \in {"auditq", "respond", "crypto", "delq"}
      /\ \/ reqs'[r].pc \in {"auditq", "respond"} /\ reqs'[r].out = "KEY_NOT_FOUND"
         \/ q.row # None /\ InWindow(q.row)
  BY <1>1, <1>2 DEF Conclude, Goto, RequestState
<1> QED
  BY <1>1, <1>3, <1>4, HoldsNoMore DEF UsesNoEnded, Past

(* Past it, the key is the one that was let through.                        *)
LEMMA UsedHeld ==
  ASSUME EndsConsistent, NEW r \in Request,
         \/ Crypto(r) \/ DeleteKey(r) \/ AppendAudit(r) \/ AppendDenied(r) \/ AppendFails(r)
         \/ Respond(r)
  PROVE  EndedHeld(reqs'[r])
<1> DEFINE q == reqs[r]
           p(b) == [q EXCEPT !.did = b]
<1>1. /\ q \in RequestState /\ EndedHeld(q)
      /\ q.pc \in {"crypto", "delq", "auditq", "deniedq", "respond"}
  BY HeldKnown DEF Crypto, DeleteKey, AppendAudit, AppendDenied, AppendFails, Respond
<1>2. CASE Crypto(r) \/ DeleteKey(r)
  <2>1. \/ \E out : reqs'[r] = Conclude(q, out)
        \/ \E b \in BOOLEAN : \E out : reqs'[r] = Resume(p(b), Conclude(p(b), out))
    <3>1. CASE Crypto(r)
      BY <3>1, HeldKnown DEF Crypto
    <3>2. CASE DeleteKey(r)
      BY <3>2, HeldKnown DEF DeleteKey
    <3> QED
      BY <1>2, <3>1, <3>2
  <2>2. /\ reqs'[r].in = q.in /\ reqs'[r].kid = q.kid
        /\ reqs'[r].ended = q.ended /\ reqs'[r].listed = q.listed
        /\ reqs'[r].pc \in {"auditq", "respond", "lost"}
    <3>1. ASSUME NEW b \in BOOLEAN
          PROVE  /\ p(b) \in RequestState /\ p(b).in = q.in /\ p(b).kid = q.kid
                 /\ p(b).ended = q.ended /\ p(b).listed = q.listed
      BY <1>1 DEF RequestState
    <3> HIDE DEF p
    <3>2. CASE \E out : reqs'[r] = Conclude(q, out)
      BY <1>1, <3>2 DEF Conclude, RequestState
    <3>3. ASSUME NEW b \in BOOLEAN, NEW out, reqs'[r] = Resume(p(b), Conclude(p(b), out))
          PROVE  /\ reqs'[r].in = q.in /\ reqs'[r].kid = q.kid
                 /\ reqs'[r].ended = q.ended /\ reqs'[r].listed = q.listed
                 /\ reqs'[r].pc \in {"auditq", "respond", "lost"}
      <4> DEFINE d == p(b)
      <4>1. /\ d \in RequestState /\ d.in = q.in /\ d.kid = q.kid
            /\ d.ended = q.ended /\ d.listed = q.listed
        BY <3>1
      <4>2. reqs'[r] = Resume(d, Conclude(d, out))
        BY <3>3
      <4> HIDE DEF d
      <4> QED
        BY <4>1, <4>2 DEF Conclude, Resume, RequestState
    <3> QED
      BY <2>1, <3>2, <3>3
  <2>3. q.pc \in {"crypto", "delq"}
    BY <1>2 DEF Crypto, DeleteKey
  <2> QED
    BY <1>1, <2>2, <2>3, HoldsNoMore DEF EndedHeld, UsesNoEnded, Past
<1>3. CASE AppendAudit(r) \/ AppendDenied(r) \/ AppendFails(r) \/ Respond(r)
  <2>1. \/ reqs'[r] = Resume(q, AfterAppend(q)) \/ reqs'[r] = Resume(q, Goto(q, "respond"))
        \/ reqs'[r] = Resume(q, Reply(q, "INTERNAL_ERROR")) \/ reqs'[r] = Discard(q, "done")
    BY <1>3, HeldKnown DEF AppendAudit, AppendDenied, AppendFails, Respond, AppendFailure
  <2>2. /\ reqs'[r].in = q.in /\ reqs'[r].kid = q.kid
        /\ reqs'[r].ended = q.ended /\ reqs'[r].listed = q.listed
        /\ reqs'[r].out \in {q.out, "INTERNAL_ERROR"}
        /\ reqs'[r].pc \in {"deniedq", "respond", "done", "lost"}
    BY <1>1, <2>1 DEF Resume, AfterAppend, Goto, Reply, Discard, RequestState
  <2>3. q.pc \in {"auditq", "deniedq", "respond"}
    BY <1>3 DEF AppendAudit, AppendDenied, AppendFails, Respond
  <2> QED
    BY <1>1, <2>2, <2>3, HoldsNoMore DEF EndedHeld, UsesNoEnded, Past
<1> QED
  BY <1>2, <1>3

(* list-keys reads rows and shows those not past their end.                 *)
LEMMA ListHeld ==
  ASSUME EndsConsistent, NEW r \in Request, QueryList(r) \/ FilterList(r)
  PROVE  EndedHeld(reqs'[r])
<1> DEFINE q == reqs[r]
<1>1. /\ q \in RequestState /\ EndedHeld(q) /\ now \in Nat
      /\ q.in.request = "list-keys" /\ q.in.request \notin KeyOps
  BY HeldKnown DEF QueryList, FilterList, WellPlaced, KeyOps, OpClassOf
<1>2. CASE QueryList(r)
  <2> DEFINE rows == {<<k, keys[k]>> : k \in KeysByAclUser(q.user.userId)}
             p == [q EXCEPT !.pc = "listr", !.listed = rows]
  <2>1. \A kr \in rows : kr[1] \in q.ended => PastEnd(kr[2])
    BY <1>1 DEF KeysByAclUser, EndedHeld, Ended, Gone, PastEnd
  <2>2. reqs'[r] = p
    BY <1>2, HeldKnown DEF QueryList
  <2> HIDE DEF rows
  <2>3. p.in = q.in /\ p.ended = q.ended /\ p.listed = rows /\ p.pc = "listr"
    BY <1>1 DEF RequestState
  <2> HIDE DEF p
  <2> QED
    BY <1>1, <2>1, <2>2, <2>3 DEF EndedHeld, UsesNoEnded, Past
<1>3. CASE FilterList(r)
  <2> DEFINE visible(row) == /\ InWindow(row)
                             /\ EffectiveAny(q.user.data.allowedOps, row.acl, q.user.userId)
             rows == {kr \in q.listed : visible(kr[2])}
             p == [q EXCEPT !.listed = rows]
  <2>1. reqs'[r] = Conclude(p, "ok") /\ q.pc = "listr"
    BY <1>3, HeldKnown DEF FilterList
  <2>2. ASSUME NEW kr \in rows PROVE kr[1] \notin q.ended
    <3>1. kr \in q.listed /\ InWindow(kr[2]) /\ kr[2] \in KeyRow
      BY <1>1 DEF RequestState
    <3>2. ~PastEnd(kr[2])
      BY <1>1, <3>1 DEF InWindow, PastEnd, KeyRow, MaybeTime
    <3> QED
      BY <1>1, <2>1, <3>1, <3>2 DEF EndedHeld
  <2> HIDE DEF rows
  <2>3. /\ reqs'[r].in = q.in /\ reqs'[r].ended = q.ended /\ reqs'[r].listed = rows
        /\ reqs'[r].pc \in {"auditq", "respond"}
    BY <1>1, <2>1 DEF Conclude, RequestState
  <2> QED
    BY <1>1, <2>2, <2>3 DEF EndedHeld, ShowsNoEnded, UsesNoEnded
<1> QED
  BY <1>2, <1>3

(* A request arrives with the keys that have ended by now.                  *)
LEMMA ArriveHeld ==
  ASSUME EndsConsistent, NEW r \in Request, Arrive(r)
  PROVE  EndedHeld(reqs'[r])
<1> DEFINE ended == {k \in Kid : Ended(k)}
           q(in) == [reqs[r] EXCEPT !.in = in, !.ended = ended]
<1>1. reqs[r] \in RequestState /\ reqs[r].pc = "idle" /\ EndedHeld(reqs[r])
  BY HeldKnown DEF Arrive
<1>2. PICK in \in Inputs : Update(r, IF in.shape = "malformed" THEN Reply(q(in), "MALFORMED_REQUEST")
                                     ELSE Goto(q(in), "authq"))
  BY DEF Arrive
<1>3. reqs'[r] = Reply(q(in), "MALFORMED_REQUEST") \/ reqs'[r] = Goto(q(in), "authq")
  BY <1>2, HeldKnown
<1>4. \A k \in ended : Ended(k)
  OBVIOUS
<1> HIDE DEF ended
<1>5. /\ reqs'[r].ended = ended /\ reqs'[r].listed = {}
      /\ \/ reqs'[r].pc = "respond" /\ reqs'[r].out = "MALFORMED_REQUEST"
         \/ reqs'[r].pc = "authq"
  BY <1>1, <1>3 DEF Reply, Goto, RequestState, EndedHeld
<1> QED
  BY <1>4, <1>5 DEF EndedHeld, ShowsNoEnded, UsesNoEnded, Past

LEMMA CrashHeld ==
  ASSUME EndsConsistent, NEW r \in Request, Crash
  PROVE  EndedHeld(reqs'[r])
<1> DEFINE q == reqs[r]
<1>1. q \in RequestState /\ EndedHeld(q)
  BY HeldKnown
<1>2. reqs'[r] = IF q.pc \in WriteSent THEN [q EXCEPT !.alive = FALSE]
                 ELSE IF q.pc \in InFlight THEN Discard(q, "lost") ELSE q
  BY DEF Crash
<1>3. CASE q.pc \in WriteSent
  <2>1. /\ reqs'[r].in = q.in /\ reqs'[r].pc = q.pc /\ reqs'[r].out = q.out
        /\ reqs'[r].kid = q.kid /\ reqs'[r].ended = q.ended /\ reqs'[r].listed = q.listed
    BY <1>1, <1>2, <1>3 DEF RequestState
  <2> QED
    BY <1>1, <1>3, <2>1 DEF EndedHeld, ShowsNoEnded, UsesNoEnded, Past, WriteSent
<1>4. CASE q.pc \notin WriteSent /\ q.pc \in InFlight
  <2>1. reqs'[r].pc = "lost" /\ reqs'[r].ended = q.ended
    BY <1>1, <1>2, <1>4 DEF Discard, RequestState
  <2> QED
    BY <1>1, <2>1, HoldsNothing
<1> QED
  BY <1>1, <1>2, <1>3, <1>4

LEMMA StepKeepsEnds ==
  ASSUME EndsConsistent, [SystemNext]_systemVars
  PROVE  EndsConsistent'
<1>1. SystemConsistent /\ SystemConsistent'
  BY StepKeepsSystem DEF EndsConsistent
<1>2. ASSUME NEW r \in Request PROVE EndedHeld(reqs'[r])
  <2>1. CASE reqs'[r] = reqs[r]
    BY <2>1, HeldKnown
  <2>2. CASE Handle(r)
    BY <2>2, BeforeKeyHeld, OtherHandlersHeld, QueryKeyHeld, AuthorizeHeld, UsedHeld, ListHeld
    DEF Handle
  <2>3. reqs' = reqs \/ [Next]_vars
    BY DEF SystemNext, systemVars, serverVars
  <2> QED
    BY <1>1, <2>1, <2>2, <2>3, ArriveHeld, CrashHeld, StepOfOne DEF SystemConsistent
<1>3. ASSUME NEW r \in Request PROVE EndedHeld(reqs[r])'
  <2>1. PICK q \in RequestState : q = reqs'[r] /\ EndedHeld(q)
    BY <1>1, <1>2 DEF SystemConsistent, SystemTypeOK, ServerTypeOK
  <2>2. EndedHeld(q)'
    BY <1>1, <2>1, EndsDoStay, EndedHeldStays
  <2> QED
    BY <2>1, <2>2 DEF EndedHeld, ShowsNoEnded, UsesNoEnded, Past
<1> QED
  BY <1>1, <1>3 DEF EndsConsistent

(* README, Key lifecycle: a key revoked or expired before a request arrives *)
(* serves it no more and is not listed to it, whatever update-acl and       *)
(* rewrap write into its row meanwhile (authorizedKey, keystore.js inWindow *)
(* and listKeys).                                                           *)
THEOREM EndedKeysRefusedAmidCommands == SystemSpec => []EndedKeyNeverServed
<1>1. SystemInit => EndsConsistent
  <2> SUFFICES ASSUME SystemInit PROVE EndsConsistent
    OBVIOUS
  <2>1. \A r \in Request : reqs[r] = IdleRequest
    BY DEF SystemInit, Init
  <2>2. EndedHeld(IdleRequest)
    BY DEF IdleRequest, EndedHeld, ShowsNoEnded, UsesNoEnded
  <2> QED
    BY <2>1, <2>2, SystemInitially DEF EndsConsistent
<1>2. EndsConsistent => EndedKeyNeverServed
  <2> SUFFICES ASSUME EndsConsistent, NEW r \in Request, AnsweredOk(r)
               PROVE  /\ reqs[r].in.request \in KeyOps => reqs[r].kid \notin reqs[r].ended
                      /\ \A kr \in reqs[r].listed : kr[1] \notin reqs[r].ended
    BY DEF EndedKeyNeverServed
  <2> QED
    BY HeldKnown DEF EndedHeld, ShowsNoEnded, UsesNoEnded, Past, AnsweredOk, Answered, WellPlaced
<1> QED
  BY <1>1, <1>2, StepKeepsEnds, PTL DEF SystemSpec

-----------------------------------------------------------------------------
(* How keys end                                                             *)

(* The rows a step takes away: those past their end by the database's clock,*)
(* or the one of a revocation that reached its DELETE.                      *)
LEMMA RowsTaken ==
  ASSUME HandlersConsistent, [Next]_vars, NEW k \in Kid, keys[k] # None, keys'[k] = None
  PROVE  k \in Sweepable \/ \E r \in Request : reqs[r].pc = "delq" /\ reqs[r].kid = k
<1>1. ASSUME NEW K, DeleteKeys(K) PROVE k \in K
  BY <1>1 DEF DeleteKeys
<1>2. ASSUME NEW r \in Request, reqs[r].pc = "insq" PROVE ~ InsertKey(reqs[r].kid, reqs[r].row)
  <2>1. reqs[r].kid \in Kid /\ reqs[r].row \in KeyRow
    BY <1>2, RequestKnown DEF WellPlaced, RequestState
  <2> QED
    BY <2>1, InsertKeyTables, NoneAssumption DEF HandlersConsistent
<1>3. ASSUME NEW r \in Request, Arrive(r) \/ Handle(r)
      PROVE  reqs[r].pc = "delq" /\ reqs[r].kid = k
  <2>1. CASE DeleteKey(r) \/ InsertNewKey(r)
    <3>1. reqs[r] \in RequestState
      BY RequestKnown
    <3> QED
      BY <1>1, <1>2, <2>1, <3>1 DEF DeleteKey, InsertNewKey, RequestState
  <2>2. CASE WriteFails(r)
    BY <1>1, <1>2, <2>2 DEF WriteFails
  <2>3. CASE ~(DeleteKey(r) \/ InsertNewKey(r) \/ WriteFails(r))
    BY <1>3, <2>3 DEF Arrive, Handle, QueryUser, Dispatch, DispatchInherited, QueryKey, Authorize,
           Crypto, QueryMissing, Generate, QueryList, FilterList, ReadFails, Respond, AppendAudit,
           AppendDenied, AppendFails, ServerOnly
  <2> QED
    BY <2>1, <2>2, <2>3
<1> QED
  BY <1>1, <1>3 DEF Next, ServerNext, Sweep, Start, Crash, Tick, vars, dbVars

(* README, Key lifecycle: a row disappears after its end, if the grace      *)
(* period covers the lead of the database's clock, or by a revoke-key whose *)
(* caller was seen to hold the class by ACL and by mask while it was in     *)
(* flight, whatever update-acl and set-user-data did between; no command    *)
(* takes one away (keystore.js revoke, serverdb.js sweepExpiredKeys).       *)
THEOREM KeysEndRightlyAmidCommands ==
  ASSUME DbSkew <= Grace
  PROVE  SystemSpec =>
           [][\A k \in Kid : keys[k] # None /\ keys'[k] = None =>
                \/ keys[k].exp # None /\ keys[k].exp <= now
                \/ \E r \in Request : /\ reqs[r].pc = "delq" /\ reqs[r].kid = k
                                      /\ reqs[r].in.request = "revoke-key"
                                      /\ Rights \subseteq seen[r]]_systemVars
<1> DEFINE Reason(k) ==
      \/ keys[k].exp # None /\ keys[k].exp <= now
      \/ \E r \in Request : /\ reqs[r].pc = "delq" /\ reqs[r].kid = k
                            /\ reqs[r].in.request = "revoke-key"
                            /\ Rights \subseteq seen[r]
<1>1. ASSUME SystemConsistent, [SystemNext]_systemVars, NEW k \in Kid, keys[k] # None,
             keys'[k] = None
      PROVE  Reason(k)
  <2>1. HandlersConsistent
    BY <1>1 DEF SystemConsistent
  <2>2. ~ AdminNext
    <3>1. CommandsKeep
      BY <1>1 DEF CommandsKeep, SystemConsistent, AdminConsistent, SystemTypeOK, ServerTypeOK
    <3> QED
      BY <1>1, <3>1, AdminStepKeeps DEF TablesInOrder
  <2>3. [Next]_vars
    BY <1>1, <2>2 DEF SystemNext, systemVars
  <2>4. CASE k \in Sweepable
    <3>1. keys[k].exp # None /\ keys[k].exp < DbNow - Grace
      BY <2>4 DEF Sweepable
    <3>2. keys[k].exp \in Nat /\ now \in Nat
      BY <1>1, <2>1, <3>1, TimeAssumption
      DEF HandlersConsistent, ServerTypeOK, DbTypeOK, KeyTable, KeyRow, MaybeTime
    <3>3. keys[k].exp <= now
      BY <3>1, <3>2, TimeAssumption DEF DbNow
    <3> QED
      BY <3>1, <3>3
  <2>5. ASSUME NEW r \in Request, reqs[r].pc = "delq", reqs[r].kid = k PROVE Reason(k)
    <3>1. WellPlaced(reqs[r]) /\ RightsSeen(r)
      BY <1>1, <2>1, RequestKnown DEF SystemConsistent
    <3>2. /\ reqs[r].in.request = "revoke-key" /\ reqs[r].in.request \in KeyOps
          /\ reqs[r].in # None
      BY <2>5, <3>1 DEF WellPlaced
    <3>3. Rights \subseteq seen[r]
      BY <2>5, <3>1, <3>2 DEF RightsSeen
    <3> QED
      BY <2>5, <3>2, <3>3
  <2> QED
    BY <1>1, <2>1, <2>3, <2>4, <2>5, RowsTaken
<1>2. SystemConsistent /\ [SystemNext]_systemVars =>
        [\A k \in Kid : keys[k] # None /\ keys'[k] = None =>
           \/ keys[k].exp # None /\ keys[k].exp <= now
           \/ \E r \in Request : /\ reqs[r].pc = "delq" /\ reqs[r].kid = k
                                 /\ reqs[r].in.request = "revoke-key"
                                 /\ Rights \subseteq seen[r]]_systemVars
  BY <1>1
<1> QED
  BY <1>2, SystemStaysConsistent, PTL DEF SystemSpec

=============================================================================
