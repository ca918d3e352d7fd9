--------------------------- MODULE MCVaultSystem ---------------------------
(* Instances of VaultSystem for TLC.                                        *)
EXTENDS VaultSystem

CONSTANTS alice, bob, carol, k1, k2, ip, ta, tb, tm, tn, kekA, kekOld

MCUserId == {alice, bob, carol}
MCNewUsers == {carol}
MCKid == {k1, k2}
MCToken == {ta, tb, tm, tn}
MCNewTokens == {tm, tn}
MCIp == {ip}
MCKek == {kekA, kekOld}

Data(mask) == [allowedOps |-> mask, coOwners |-> {}, allowedIP |-> {ip},
               nbf |-> None, exp |-> None]

(* alice holds everything; bob may have a mask. carol is not there yet.     *)
UsersWith(mask) == [u \in MCUserId |->
                      CASE u = alice -> [token |-> ta, data |-> Data(None)]
                        [] u = bob   -> [token |-> tb, data |-> Data(mask)]
                        [] u = carol -> None]

AclFor(opsB) == [u \in MCUserId |-> CASE u = alice -> {"owner"}
                                       [] u = bob   -> opsB
                                       [] u = carol -> None]

KeysWith(opsB) ==
  [k \in MCKid |->
     IF k = k1 THEN [alg |-> "HS256", nbf |-> None, exp |-> None, kek |-> kekOld,
                     acl |-> AclFor(opsB)]
     ELSE None]

MCTables == {[users |-> UsersWith(mask), keys |-> KeysWith(ops)] :
               mask \in {None, {"verify"}}, ops \in {{"sign"}, {"verify"}}}

Ask(user, token, request, kid) ==
  [user |-> user, token |-> token, ip |-> ip, request |-> request,
   shape |-> "good", kid |-> kid, hdrKid |-> None, alg |-> "HS256",
   nbf |-> None, exp |-> None, acl |-> None]

Line(command, user) ==
  [command |-> command, user |-> user, kid |-> k1,
   acl |-> AclFor(None), change |-> [f \in {} |-> None],
   active |-> kekA, known |-> {kekA, kekOld}]

SetMask(user, mask) ==
  [Line("set-user-data", user) EXCEPT !.change = [f \in {"allowedOps"} |-> mask]]

SetAcl(ops) ==
  [Line("update-acl", bob) EXCEPT !.acl = AclFor(ops)]

(* bob uses the key while his rights, his token and his account change.     *)
RightsInputs == {Ask(bob, tb, "create-jwt", k1), Ask(bob, tn, "create-jwt", k1),
                 [Ask(bob, tb, "verify-jwt", k1) EXCEPT !.alg = "ES256"]}
RightsLines == {SetMask(bob, None), SetMask(bob, {"verify"}), SetAcl({"sign"}), SetAcl({}),
                Line("revoke-token", bob), Line("set-token", bob), Line("remove-user", bob)}

(* The key is revoked or swept while kv-admin rewrites its row.             *)
RowInputs == {Ask(alice, ta, "revoke-key", k1), Ask(alice, ta, "create-jwt", k1)}
RowLines == {SetAcl({"verify"}), SetAcl({}), Line("rewrap", alice),
             [Line("rewrap", alice) EXCEPT !.known = {kekA}]}

(* Every command.                                                           *)
SetExp(user, exp) == [Line("set-user-data", user) EXCEPT !.change = [f \in {"exp"} |-> exp]]

AllLines == RightsLines \cup RowLines \cup
            {SetExp(bob, 1), Line("list-users", alice), Line("verify-audit", alice),
             Line("add-user", alice),
             [Line("add-user", alice) EXCEPT !.change = [f \in {"allowedIP"} |-> {ip}]]}

AllInputs == RightsInputs \cup RowInputs
Given(inputs, lines) == /\ \A r \in Request : reqs[r].in \in inputs \cup {None}
                        /\ \A c \in Command : cmds[c].in \in lines \cup {None}

(* The state constraint: two commands at once beside a request, of the      *)
(* rights or of the rows, or any two commands one after the other.          *)
OneScenario == \/ Given(RightsInputs, RightsLines)
               \/ Given(RowInputs, RowLines)
               \/ Given({}, AllLines) /\ Cardinality(Running) < 2

(* Two commands on one user at once.                                        *)
OneTable == {[users |-> UsersWith(None), keys |-> KeysWith({"sign"})]}
MaskLines == {SetMask(bob, {"verify"}), Line("set-token", bob)}
NoInputs == {}
=============================================================================
