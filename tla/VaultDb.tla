------------------------------ MODULE VaultDb ------------------------------
(* The PostgreSQL state the vault's processes share (serverdb.js and the    *)
(* schema of migrations/0001_init.sql), one operator per SQL statement.     *)
(* Each statement is one transaction of its own: the code never opens a     *)
(* larger one. The audit chain (tr-json-chain, external) lives in the same  *)
(* database; a record's place in the chain plays no part in any property,   *)
(* so the chain is the set of its records.                                  *)
EXTENDS Acl, Integers

CONSTANTS Kid,            \* key UUIDs
          Token,          \* bearer tokens (stands for the stored sha256)
          Ip,             \* client addresses
          Kek,            \* key ids of embedding keys
          MaxTime,        \* the clock stops here
          Grace,          \* --key-expiry-grace, seconds
          DbSkew,         \* clock of the database minus clock of the vault
          InitialTables   \* contents of vault_user and vault_key to start from

VARIABLES users,    \* vault_user, by user_id
          keys,     \* vault_key, by key_id
          chain,    \* records of the audit chain
          now,      \* the vault's clock, seconds
          issued    \* history: each key row as it was first inserted

dbVars == <<users, keys, chain, now, issued>>

MaybeTime == Nat \cup {None}

UserData == [allowedOps : (SUBSET AllowedOpsClasses) \cup {None},
             coOwners   : SUBSET UserId,
             allowedIP  : SUBSET Ip,
             nbf        : MaybeTime,
             exp        : MaybeTime]

User == [token : Token \cup {None}, data : UserData]

(* One representative algorithm of each compatibility class of keygen.js:   *)
(* symmetric and asymmetric signature, symmetric and asymmetric encryption, *)
(* and the direct AES-GCM keys no operation accepts.                        *)
Alg     == {"HS256", "ES256", "A256KW", "RSA-OAEP", "A256GCM"}
OctAlgs == {"HS256", "A256KW", "A256GCM"}
JwtAlgs == {"HS256", "ES256"}
JweAlgs == {"A256KW", "RSA-OAEP"}

KeyRow == [alg : Alg, acl : Acl, nbf : MaybeTime, exp : MaybeTime, kek : Kek]

UserTable == [UserId -> User \cup {None}]
KeyTable  == [Kid -> KeyRow \cup {None}]

(* Absence is none of the things that may be present.                       *)
ASSUME NoneAssumption == /\ None \notin Kid /\ None \notin UserId
                         /\ None \notin User /\ None \notin KeyRow
                         /\ None \notin [userId : UserId, data : UserData]
                         /\ \A S \in SUBSET (OpClasses \cup {"bogus"}) : None # S
ASSUME TimeAssumption == MaxTime \in Nat /\ Grace \in Nat /\ DbSkew \in Int
ASSUME TableAssumption == InitialTables \subseteq [users : UserTable, keys : KeyTable]
(* auth_token is UNIQUE: no two users start with one token.                 *)
ASSUME TokenAssumption ==
  \A tables \in InitialTables : \A u, v \in UserId :
    /\ tables.users[u] # None /\ tables.users[v] # None
    /\ tables.users[u].token # None /\ tables.users[u].token = tables.users[v].token
    => u = v

DbTypeOK == /\ users \in UserTable
            /\ keys \in KeyTable
            /\ issued \in KeyTable
            /\ now \in 0..MaxTime

DbInit == /\ \E tables \in InitialTables : users = tables.users /\ keys = tables.keys
          /\ chain = {}
          /\ now = 0
          /\ issued = keys

-----------------------------------------------------------------------------
(* vault_user                                                               *)

(* The row of the user a token belongs to (auth_token is UNIQUE).           *)
UserByTokenHash(t) ==
  LET holders == {u \in UserId : users[u] # None /\ users[u].token = t}
  IN  IF holders = {} THEN None
      ELSE LET u == CHOOSE v \in holders : TRUE
           IN  [userId |-> u, data |-> users[u].data]

InsertUser(u, data) == /\ users[u] = None
                       /\ users' = [users EXCEPT ![u] = [token |-> None, data |-> data]]

(* An UPDATE of a row that is gone changes nothing.                         *)
SetUserToken(u, t) ==
  users' = IF users[u] = None THEN users ELSE [users EXCEPT ![u].token = t]

SetUserData(u, data) ==
  users' = IF users[u] = None THEN users ELSE [users EXCEPT ![u].data = data]

RemoveUser(u) == users' = [users EXCEPT ![u] = None]

(* Mutation: no user is ever reported missing.                              *)
NoUserMissing(S) == {}

MissingUsers(S) == {u \in S : users[u] = None}

-----------------------------------------------------------------------------
(* vault_key                                                                *)

KeyById(k) == keys[k]

KeysByAclUser(u) == {k \in Kid : keys[k] # None /\ keys[k].acl[u] # None}

InsertKey(k, row) == /\ keys[k] = None
                     /\ keys' = [keys EXCEPT ![k] = row]
                     /\ issued' = [issued EXCEPT ![k] = row]

DeleteKeys(K) == /\ keys' = [k \in Kid |-> IF k \in K THEN None ELSE keys[k]]
                 /\ UNCHANGED issued

UpdateKeyAcl(k, acl) ==
  /\ keys' = IF keys[k] = None THEN keys ELSE [keys EXCEPT ![k].acl = acl]
  /\ UNCHANGED issued

KeysNotEmbeddedWith(kek) == {<<k, keys[k]>> : k \in {j \in Kid : keys[j] # None /\ keys[j].kek # kek}}

(* Mutation: the whole row as it was read is written back, wherever it went.*)
WriteBackRow(k, row, kek) ==
  /\ keys' = [keys EXCEPT ![k] = [row EXCEPT !.kek = kek]]
  /\ UNCHANGED issued

(* The row as read is only where the secret re-embedded comes from; the     *)
(* statement writes the two embedding columns.                              *)
UpdateKeyEmbedding(k, row, kek) ==
  /\ keys' = IF keys[k] = None THEN keys ELSE [keys EXCEPT ![k].kek = kek]
  /\ UNCHANGED issued

DbNow == now + DbSkew

(* Mutation: the sweep forgets the grace period.                            *)
SweepableWithoutGrace ==
  {k \in Kid : keys[k] # None /\ keys[k].exp # None /\ keys[k].exp < DbNow}

(* Mutation: the grace period is taken for milliseconds.                    *)
SweepableLate ==
  {k \in Kid : keys[k] # None /\ keys[k].exp # None /\ keys[k].exp < DbNow - 1000 * Grace}

(* The rows sweepExpiredKeys deletes, by the database's own clock.          *)
Sweepable ==
  {k \in Kid : keys[k] # None /\ keys[k].exp # None /\ keys[k].exp < DbNow - Grace}

-----------------------------------------------------------------------------
(* the audit chain                                                          *)

AppendEvent(e) == chain' = chain \cup {e}

(* Time passes.                                                             *)
Tick == now < MaxTime /\ now' = now + 1 /\ UNCHANGED <<users, keys, chain, issued>>

(* History: the key was issued once and its row is no longer there.         *)
Gone(k) == issued[k] # None /\ keys[k] = None
=============================================================================
