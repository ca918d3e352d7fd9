--------------------------- MODULE MCVaultServer ---------------------------
(* Instances of VaultServer for TLC: two users, a few keys, and for each    *)
(* run the requests its question is about.                                  *)
EXTENDS VaultServer, TLC

CONSTANTS alice, bob, k1, k2, ip, ta, tb, kekA, kekOld

MCUserId == {alice, bob}
MCKid == {k1, k2}
MCToken == {ta, tb}
MCIp == {ip}
MCKek == {kekA, kekOld}
MCKnownKeks == {kekA}

Data(mask) == [allowedOps |-> mask, coOwners |-> {}, allowedIP |-> {ip},
               nbf |-> None, exp |-> None]
WriterMask == {"generate-key", "encrypt", "export-public-key", "revoke-key"}

Users(maskA, maskB) ==
  [u \in MCUserId |-> IF u = alice THEN [token |-> ta, data |-> Data(maskA)]
                      ELSE [token |-> tb, data |-> Data(maskB)]]

(* alice unrestricted; bob with a writer's mask.                            *)
MCUsers == Users(None, WriterMask)
Tables(us, ks) == {[users |-> u, keys |-> k] : u \in us, k \in ks}

Acl1(ops) == [u \in MCUserId |-> IF u = alice THEN ops ELSE None]
Acl2(opsA, opsB) == [u \in MCUserId |-> IF u = alice THEN opsA ELSE opsB]

Row(alg, acl, exp, kek) ==
  [alg |-> alg, acl |-> acl, nbf |-> None, exp |-> exp, kek |-> kek]

OneKey(row) == [k \in MCKid |-> IF k = k1 THEN row ELSE None]

Ask(user, request, kid) ==
  [user |-> user, token |-> IF user = alice THEN ta ELSE tb, ip |-> ip,
   request |-> request, shape |-> "good", kid |-> kid, hdrKid |-> None,
   alg |-> "HS256", nbf |-> None, exp |-> None, acl |-> None]

(* Concurrent revocations and uses of one key that may expire, beside a     *)
(* generation, sweeps and a crash.                                          *)
RevokeRows == {Row("HS256", Acl2({"owner"}, {"sign", "revoke-key"}), exp, kekA) :
                 exp \in {None, 1}}
RevokeTables == Tables({MCUsers}, {OneKey(row) : row \in RevokeRows})
RevokeInputs == {Ask(u, op, k1) : u \in MCUserId, op \in {"revoke-key", "create-jwt"}}
                \cup {Ask(bob, "list-keys", None), Ask(alice, "generate-key", None)}

(* Key generation with submitted ACLs (of existing and removed users, with  *)
(* unknown classes, without an owner) and with co-owners one of whom is no  *)
(* longer there, then use of the new keys.                                  *)
CoOwned == [MCUsers EXCEPT ![alice].data.coOwners = MCUserId]
Removed(us, u) == [us EXCEPT ![u] = None]
GenTables == Tables({CoOwned, Removed(CoOwned, bob), Users({"sign"}, WriterMask)},
                    {[k \in MCKid |-> None]})
GenInputs ==
  {[Ask(u, "generate-key", None) EXCEPT !.acl = acl] :
     u \in MCUserId, acl \in {None, Acl1({"sign"}), Acl2({"owner"}, {"sign"})}}
  \cup {[Ask(alice, "generate-key", None) EXCEPT !.acl = Acl2({}, {"bogus"})]}
  \cup {Ask(bob, op, k1) : op \in {"create-jwe", "revoke-key"}}

(* Either of the two: the state constraint OneScenario keeps a behaviour to *)
(* the requests that go with the tables it started from, and has the crash  *)
(* and the second unit of time in the first.                                *)
BothTables == RevokeTables \cup GenTables
BothInputs == RevokeInputs \cup GenInputs
Asked(inputs) == \A r \in Request : reqs[r].in \in inputs \cup {None}
OneScenario == \/ users = MCUsers /\ Asked(RevokeInputs)
               \/ users # MCUsers /\ Asked(GenInputs) /\ now <= 1 /\ crashes = 0
RequestsAlike == Permutations(Request)

(* One request of every operation on keys of every kind, by holders and     *)
(* others, with and without the KEK, before and after the key becomes       *)
(* valid; tokens that name the key, another key or none, and claim the      *)
(* right algorithm or not. The key may also expire before, after or while   *)
(* it is asked for.                                                         *)
OpsRows == {[Row(alg, Acl2({"owner"}, {"sign", "export-public-key"}), None, kek)
               EXCEPT !.nbf = nbf] : alg \in Alg, kek \in MCKek, nbf \in {None, 1}}
           \cup RevokeRows
OpsTables == Tables({MCUsers}, {OneKey(row) : row \in OpsRows})
OpsInputs ==
  {Ask(u, op, k) : u \in MCUserId, op \in KeyOps \cup {"healthcheck", "list-keys", "no-such-op", "inherited"},
                   k \in {k1, k2, None}}
  \cup {[Ask(alice, op, k) EXCEPT !.hdrKid = h, !.alg = alg] :
          op \in TokenOps, k \in {k1, None}, h \in {k1, k2, None}, alg \in {"ES256", "A256KW"}}
  \cup {[Ask(alice, op, k1) EXCEPT !.shape = shape] :
          op \in Operations, shape \in {"bad", "malformed"}}
  \cup {[Ask(bob, "export-key", k1) EXCEPT !.token = ta], Ask(alice, "generate-key", None)}

UnknownInputs == {Ask(alice, op, None) : op \in {"no-such-op", "inherited"}}
=============================================================================
