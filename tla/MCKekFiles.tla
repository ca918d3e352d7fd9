----------------------------- MODULE MCKekFiles -----------------------------
(* Instances of KekFiles for TLC.                                           *)
EXTENDS KekFiles

CONSTANTS idA, idB, idC

(* Every shape of a KEK file for a vault with one, and lists of up to three *)
(* files drawn from good and bad ones.                                      *)
KekAlgs == {"A128GCMKW", "A192KW", "A256KW", "RSA-OAEP", "RSA-OAEP-256", "ECDH-ES",
         "ML-KEM-512", "ML-KEM-768", "constructor", "HS256", None}
Jwk(kid, kty, alg, crv, bits, has) ==
  [kid |-> kid, kty |-> kty, alg |-> alg, crv |-> crv, bits |-> bits, has |-> has]
Jwks ==
  {Jwk(kid, "oct", alg, None, bits, has) : kid \in {idA, None}, alg \in KekAlgs,
      bits \in {120, 128, 192, 256, 264}, has \in SUBSET {"k"}}
  \cup {Jwk(kid, "RSA", alg, None, bits, has) : kid \in {idA, None}, alg \in KekAlgs,
      bits \in {2040, 2041, 2047, 2048, 4096}, has \in SUBSET {"n", "e", "d"}}
  \cup {Jwk(kid, "EC", alg, crv, 0, has) : kid \in {idA, None}, alg \in KekAlgs,
      crv \in {"P-256", "P-521", "secp256k1"}, has \in SUBSET {"x", "y", "d"}}
  \cup {Jwk(kid, "AKP", alg, None, 0, has) : kid \in {idA, None}, alg \in KekAlgs,
      has \in SUBSET {"priv", "pub"}}
  \cup {Jwk(idA, "OKP", "ECDH-ES", None, 0, {"x", "d"})}

(* The permissions of a file, as chmod writes them.                         *)
Mode(owner, group, other) == [owner |-> owner, group |-> group, other |-> other]
Mode600 == Mode({"r", "w"}, {}, {})
Mode400 == Mode({"r"}, {}, {})
Mode700 == Mode({"r", "w", "x"}, {}, {})
Mode640 == Mode({"r", "w"}, {"r"}, {})
Mode601 == Mode({"r", "w"}, {}, {"x"})
File(mode, jwk) == [mode |-> mode, jwk |-> jwk]
OneFile == {<<File(mode, jwk)>> : mode \in {Mode600, Mode400, Mode640}, jwk \in Jwks \cup {None}}

EcKek(kid) == Jwk(kid, "EC", None, "P-256", 0, {"x", "y", "d"})
SomeFiles == {File(mode, EcKek(kid)) : mode \in {Mode600, Mode700}, kid \in {idA, idB, idC}}
             \cup {File(Mode601, EcKek(idA)), File(Mode600, None),
                   File(Mode600, Jwk(idB, "RSA", "RSA-OAEP", None, 2048, {"n", "e"})),
                   File(Mode600, Jwk(idC, "oct", "A256KW", None, 256, {"k"}))}
ManyFiles == UNION {[1..n -> SomeFiles] : n \in 1..3}
MCFileLists == OneFile \cup ManyFiles
=============================================================================
