-------------------------------- MODULE Acl --------------------------------
(* Authorization data of the vault (acl.js): the operation classes of a     *)
(* key's ACL, the per-user capability mask allowedOps, and how the two are  *)
(* combined. Pure operators, no state.                                      *)
(*                                                                          *)
(* An ACL gives each user a set of classes, possibly empty, or None when it *)
(* does not list the user. A mask is a set of classes, or None when the     *)
(* user carries no allowedOps property.                                     *)
EXTENDS FiniteSets

CONSTANTS UserId,   \* the user UUIDs the model talks about
          None      \* absence: SQL NULL, undefined, null

OpClasses == {"owner", "encrypt", "decrypt", "sign", "verify",
              "export-public-key", "export-secret-key", "revoke-key"}

KeyOpClasses == OpClasses \ {"owner"}

AllowedOpsClasses == KeyOpClasses \cup {"generate-key", "list-keys"}

(* An ACL as a caller may submit it: "bogus" stands for any string that is  *)
(* not an operation class.                                                  *)
RawAcl == [UserId -> (SUBSET (OpClasses \cup {"bogus"})) \cup {None}]

(* An ACL as validateAcl returns it and the database holds it.              *)
Acl == [UserId -> (SUBSET OpClasses) \cup {None}]

AclUsers(acl) == {u \in UserId : acl[u] # None}

HasOwner(acl) == \E u \in AclUsers(acl) : "owner" \in acl[u]

(* Whether validateAcl accepts the ACL; its normalisation (lower case,      *)
(* duplicates) is the identity on functions to sets of classes.             *)
ValidateAcl(acl) == /\ \A u \in AclUsers(acl) : acl[u] \subseteq OpClasses
                    /\ HasOwner(acl)

AclAllows(acl, userId, opClass) ==
  /\ acl[userId] # None
  /\ {opClass, "owner"} \cap acl[userId] # {}

AllowedOpsAllows(mask, opClass) == mask # None => opClass \in mask

EffectiveAny(mask, acl, userId) ==
  \E c \in KeyOpClasses : AclAllows(acl, userId, c) /\ AllowedOpsAllows(mask, c)
=============================================================================
