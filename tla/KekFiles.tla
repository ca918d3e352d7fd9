------------------------------ MODULE KekFiles ------------------------------
(* kekInit: the files of the active and the retired embedding keys are      *)
(* loaded one after another, each checked and reduced to a descriptor, and  *)
(* the first that fails ends the process.  A JWK is reduced to what the     *)
(* checks look at: which members are strings, and how long the key is; a    *)
(* file that cannot be read or parsed has none.  What of a key wraps, its   *)
(* public half, is written out per key type and not followed further.       *)
EXTENDS Naturals, Sequences, FiniteSets, Optional

CONSTANTS FileLists \* the files a start may be given, the active one first

(* A symmetric key is a string of octets.                                   *)
IsKeyFile(file) ==
  /\ file.mode \in [{"owner", "group", "other"} -> SUBSET {"r", "w", "x"}]
  /\ file.jwk # None => /\ file.jwk.bits \in Nat
                        /\ file.jwk.kty = "oct" => file.jwk.bits % 8 = 0

ASSUME FilesAssumption ==
  \A list \in FileLists : /\ list \in Seq({list[i] : i \in DOMAIN list})
                          /\ \A i \in DOMAIN list : IsKeyFile(list[i])

VARIABLES files, loaded, status

filesVars == <<files, loaded, status>>

OctBits == [alg \in {"A128GCMKW", "A128KW", "A192GCMKW", "A192KW", "A256GCMKW", "A256KW"} |->
              CASE alg \in {"A128GCMKW", "A128KW"} -> 128
                [] alg \in {"A192GCMKW", "A192KW"} -> 192
                [] alg \in {"A256GCMKW", "A256KW"} -> 256]
RsaAlgs == {"RSA-OAEP", "RSA-OAEP-256"}
EcCurves == {"P-256", "P-384", "P-521"}
MlKemWrap == [alg \in {"ML-KEM-512", "ML-KEM-768", "ML-KEM-1024"} |->
                CASE alg = "ML-KEM-512" -> "ML-KEM-512@spinium.com"
                  [] alg = "ML-KEM-768" -> "ML-KEM-768@spinium.com"
                  [] alg = "ML-KEM-1024" -> "ML-KEM-1024@spinium.com"]
(* The table is a plain object: a name every object inherits is found too,  *)
(* and what is found is the name of no algorithm.                           *)
InheritedAlgs == {"constructor", "toString"}
ModulusMin == 2048

(* The length of a byte string that holds so many bits.                     *)
Octets(bits) == (bits + 7) \div 8

(* What each key type must carry.                                           *)
SecretMembers == [oct |-> {"k"}, RSA |-> {"n", "e", "d"},
                  EC |-> {"x", "y", "d"}, AKP |-> {"priv", "pub"}]

ValidAlg(jwk) ==
  CASE jwk.kty = "oct" -> jwk.alg \in DOMAIN OctBits /\ Octets(jwk.bits) = OctBits[jwk.alg] \div 8
    [] jwk.kty = "RSA" -> jwk.alg \in RsaAlgs /\ Octets(jwk.bits) * 8 >= ModulusMin
    [] jwk.kty = "EC"  -> jwk.crv \in EcCurves /\ jwk.alg \in {None, "ECDH-ES"}
    [] jwk.kty = "AKP" -> jwk.alg \in DOMAIN MlKemWrap \cup InheritedAlgs

Accepts(jwk) == /\ jwk.kid # None
                /\ jwk.kty \in DOMAIN SecretMembers
                /\ SecretMembers[jwk.kty] \subseteq jwk.has
                /\ ValidAlg(jwk)

WrapAlg(jwk) == CASE jwk.kty = "EC" -> "ECDH-ES"
                  [] jwk.kty = "AKP" -> IF jwk.alg \in DOMAIN MlKemWrap
                                          THEN MlKemWrap[jwk.alg] ELSE None
                  [] OTHER -> jwk.alg

ValidateKek(jwk) == [kid |-> jwk.kid, wrapAlg |-> WrapAlg(jwk), secretJwk |-> jwk]

(* A file for the owner alone, that holds JSON, that is a usable KEK.       *)
OwnerOnly(mode) == mode["group"] = {} /\ mode["other"] = {}
Loadable(file) == OwnerOnly(file.mode) /\ file.jwk # None /\ Accepts(file.jwk)

AnyIds(descriptors) == TRUE
DistinctIds(descriptors) == \A i, j \in DOMAIN descriptors :
                              descriptors[i].kid = descriptors[j].kid => i = j

Given(list) == files = list /\ loaded = <<>> /\ status = "loading"

FilesInit == \E list \in FileLists : Given(list)

NextFile == files[Len(loaded) + 1]

Load == /\ status = "loading"
        /\ Len(loaded) < Len(files)
        /\ IF Loadable(NextFile)
           THEN loaded' = Append(loaded, ValidateKek(NextFile.jwk)) /\ UNCHANGED status
           ELSE UNCHANGED loaded /\ status' = "failed"
        /\ UNCHANGED files

Construct == /\ status = "loading"
             /\ Len(loaded) = Len(files)
             /\ status' = IF DistinctIds(loaded) THEN "ready" ELSE "failed"
             /\ UNCHANGED <<files, loaded>>

FilesNext == Load \/ Construct

FilesSpec == FilesInit /\ [][FilesNext]_filesVars

-----------------------------------------------------------------------------
(* The files the README accepts (README.md 274-277): EC and RSA private     *)
(* keys, the latter with a modulus of at least 2048 bits, symmetric keys of *)
(* the algorithm's length and private ML-KEM keys.                          *)
DocumentedKek(jwk) ==
  /\ jwk.kid # None
  /\ \/ jwk.kty = "EC" /\ jwk.crv \in {"P-256", "P-384", "P-521"}
        /\ jwk.alg \in {None, "ECDH-ES"} /\ {"x", "y", "d"} \subseteq jwk.has
     \/ jwk.kty = "RSA" /\ jwk.alg \in {"RSA-OAEP", "RSA-OAEP-256"}
        /\ jwk.bits >= 2048 /\ {"n", "e", "d"} \subseteq jwk.has
     \/ jwk.kty = "oct" /\ "k" \in jwk.has
        /\ \E bits \in {128, 192, 256} :
             /\ jwk.bits = bits
             /\ jwk.alg \in CASE bits = 128 -> {"A128GCMKW", "A128KW"}
                              [] bits = 192 -> {"A192GCMKW", "A192KW"}
                              [] bits = 256 -> {"A256GCMKW", "A256KW"}
     \/ jwk.kty = "AKP" /\ jwk.alg \in {"ML-KEM-512", "ML-KEM-768", "ML-KEM-1024"}
        /\ {"priv", "pub"} \subseteq jwk.has

(* A file that is its owner's alone and holds a key.                        *)
PrivateKeyFile(file) == /\ \A who \in {"group", "other"} : file.mode[who] = {}
                        /\ file.jwk # None

(* Each id names one file, so that what a row says of its KEK does not      *)
(* depend on the order of the files.                                        *)
IdsNameOneFile == Cardinality({files[i].jwk.kid : i \in DOMAIN files}) = Len(files)

(* What validateKek lets pass and its own messages and README.md 275-277    *)
(* rule out: a modulus a few bits short of 2048, whose octets are counted   *)
(* (kek.js 62), and an AKP key of no ML-KEM variant, whose alg is a name    *)
(* every object inherits (kek.js 82).                                       *)
Slips(jwk) ==
  /\ jwk.kid # None
  /\ \/ jwk.kty = "RSA" /\ jwk.alg \in {"RSA-OAEP", "RSA-OAEP-256"}
        /\ jwk.bits \in 2041..2047 /\ {"n", "e", "d"} \subseteq jwk.has
     \/ jwk.kty = "AKP" /\ jwk.alg \in InheritedAlgs /\ {"priv", "pub"} \subseteq jwk.has

(* With documented keys, each in a file of its owner's alone and under an   *)
(* id of its own, the vault comes up; and where it has come up the files    *)
(* were such, but for the two slips (kek.js 94-139).                        *)
UpWithDocumentedKeks ==
  /\ status = "failed" =>
       ~ ( /\ \A i \in DOMAIN files : /\ PrivateKeyFile(files[i])
                                      /\ DocumentedKek(files[i].jwk)
           /\ IdsNameOneFile )
  /\ status = "ready" =>
       /\ \A i \in DOMAIN files : /\ PrivateKeyFile(files[i])
                                  /\ DocumentedKek(files[i].jwk) \/ Slips(files[i].jwk)
       /\ IdsNameOneFile

-----------------------------------------------------------------------------
(* The inductive invariant behind it: what is loaded is the files so far,   *)
(* each reduced, and every end has its reason.                              *)
Descriptors == {ValidateKek(files[i].jwk) : i \in {k \in DOMAIN files : Loadable(files[k])}}

FilesConsistent ==
  /\ files \in FileLists
  /\ status \in {"loading", "ready", "failed"}
  /\ loaded \in Seq(Descriptors) /\ Len(loaded) <= Len(files)
  /\ \A i \in DOMAIN loaded : /\ Loadable(files[i])
                              /\ loaded[i] = ValidateKek(files[i].jwk)
  /\ status = "ready" => Len(loaded) = Len(files) /\ DistinctIds(loaded)
  /\ status = "failed" => IF Len(loaded) = Len(files) THEN ~ DistinctIds(loaded)
                                                      ELSE ~ Loadable(NextFile)
=============================================================================
