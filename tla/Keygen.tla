------------------------------- MODULE Keygen -------------------------------
(* The parameters of a generate-key request and the key made from them      *)
(* (keygen.js): resolved or refused, then handed to the generator of the    *)
(* algorithm's kind, whose output is stamped with what the vault stores.    *)
EXTENDS Naturals, FiniteSets, Optional

CONSTANTS Junk,   \* a length that is no integer, a name nobody knows
          Lengths \* the values of keyLength that requests carry

VARIABLES params, spec, key, answer

keygenVars == <<params, spec, key, answer>>

GcmAlgs == {"A128GCM", "A192GCM", "A256GCM"}
WrapAlgs == {"A128GCMKW", "A192GCMKW", "A256GCMKW", "A128KW", "A192KW", "A256KW"}
HmacAlgs == {"HS256", "HS384", "HS512"}
EcSigAlgs == {"ES256", "ES384", "ES512"}
RsaSigAlgs == {"RS256", "RS384", "RS512"}
RsaEncAlgs == {"RSA-OAEP", "RSA-OAEP-256"}
MlKemAlgs == {"ML-KEM-512@spinium.com", "ML-KEM-768@spinium.com", "ML-KEM-1024@spinium.com"}
Curves == {"P-256", "P-384", "P-521"}

(* KEYGEN_ALGS: what the table says of an algorithm.                        *)
Kind(alg) == CASE alg \in GcmAlgs \cup WrapAlgs -> "aes"
               [] alg \in HmacAlgs -> "hmac"
               [] alg \in EcSigAlgs \cup {"ECDH-ES"} -> "ec"
               [] alg \in RsaSigAlgs \cup RsaEncAlgs -> "rsa"
               [] alg \in MlKemAlgs -> "ml-kem"
               [] OTHER -> None
Kty(alg) == CASE Kind(alg) \in {"aes", "hmac"} -> "oct"
              [] Kind(alg) = "ec" -> "EC"
              [] Kind(alg) = "rsa" -> "RSA"
              [] Kind(alg) = "ml-kem" -> "AKP"
              [] OTHER -> None
Use(alg) == IF alg \in HmacAlgs \cup EcSigAlgs \cup RsaSigAlgs THEN "sig" ELSE "enc"
KeyOps(alg) == CASE alg \in GcmAlgs -> {"encrypt", "decrypt"}
                 [] alg \in WrapAlgs -> {"wrapKey", "unwrapKey"}
                 [] alg \in HmacAlgs -> {"sign", "verify"}
                 [] OTHER -> {}
Size(alg) == CASE alg \in {"A128GCM", "A128GCMKW", "A128KW"} -> 128
               [] alg \in {"A192GCM", "A192GCMKW", "A192KW"} -> 192
               [] alg \in {"A256GCM", "A256GCMKW", "A256KW", "HS256"} -> 256
               [] alg = "HS384" -> 384
               [] alg = "HS512" -> 512
               [] alg \in {"RSA-OAEP", "RS256"} -> 2048
               [] alg = "RS384" -> 3072
               [] alg \in {"RSA-OAEP-256", "RS512"} -> 4096
AlgCurves(alg) == CASE alg = "ES256" -> {"P-256"} [] alg = "ES384" -> {"P-384"}
                    [] alg = "ES512" -> {"P-521"} [] OTHER -> Curves
DefaultCurve(alg) == IF alg = "ECDH-ES" THEN "P-521" ELSE CHOOSE crv \in AlgCurves(alg) : TRUE
Variant(alg) == CASE alg = "ML-KEM-512@spinium.com" -> "ML-KEM-512"
                  [] alg = "ML-KEM-768@spinium.com" -> "ML-KEM-768"
                  [] alg = "ML-KEM-1024@spinium.com" -> "ML-KEM-1024"
OctMaxBits == 4096
RsaModulusMin == 2048
RsaModulusMax == 16384

(* The table is a plain object: a name every object inherits is found in    *)
(* it, with no kind and no key type.                                        *)
Inherited == "constructor"
Algs == GcmAlgs \cup WrapAlgs \cup HmacAlgs \cup EcSigAlgs \cup {"ECDH-ES"}
        \cup RsaSigAlgs \cup RsaEncAlgs \cup MlKemAlgs
InTable(alg) == alg \in Algs \cup {Inherited}

-----------------------------------------------------------------------------
HmacLengthAnyBits(alg, len) == len \in Nat /\ len >= Size(alg) /\ len <= OctMaxBits
HmacLength(alg, len) == len \in Nat /\ len >= Size(alg) /\ len <= OctMaxBits /\ len % 8 = 0
RsaLength(len) == len \in Nat /\ len >= RsaModulusMin /\ len <= RsaModulusMax

LengthFits(alg, len) ==
  CASE Kind(alg) = "aes" -> len = Size(alg)
    [] Kind(alg) = "hmac" -> HmacLength(alg, len)
    [] Kind(alg) = "rsa" -> RsaLength(len)
    [] Kind(alg) \in {"ec", "ml-kem"} -> FALSE
    [] OTHER -> TRUE

Resolvable(p) ==
  /\ InTable(p.alg)
  /\ p.kty \in {None, Kty(p.alg)}
  /\ p.keyLength # None => LengthFits(p.alg, p.keyLength)
  /\ p.crv # None => Kind(p.alg) = "ec" /\ p.crv \in AlgCurves(p.alg)

ResolveKeyGenParams(p) ==
  LET kind == Kind(p.alg) IN
    [alg |-> p.alg, kty |-> Kty(p.alg), kind |-> kind,
     crv |-> IF kind # "ec" THEN None ELSE IF p.crv = None THEN DefaultCurve(p.alg) ELSE p.crv,
     bits |-> IF kind \notin {"aes", "hmac", "rsa"} THEN None
              ELSE IF p.keyLength = None THEN Size(p.alg) ELSE p.keyLength]

(* What the stored JWKs say of themselves: an ML-KEM key carries the name   *)
(* without the suffix.                                                      *)
RequestedName(sp) == sp.alg
JwkAlg(sp) == IF sp.kind = "ml-kem" THEN Variant(sp.alg) ELSE sp.alg

GenerateVaultKey(sp) ==
  [kty |-> sp.kty, alg |-> sp.alg, crv |-> sp.crv, bits |-> sp.bits,
   secret |-> [alg |-> JwkAlg(sp), use |-> Use(sp.alg), keyOps |-> KeyOps(sp.alg)],
   public |-> IF sp.kty = "oct" THEN None ELSE [alg |-> JwkAlg(sp), use |-> Use(sp.alg)]]

JwtAlgs == HmacAlgs \cup EcSigAlgs \cup RsaSigAlgs
JweAlgs == WrapAlgs \cup {"ECDH-ES"} \cup RsaEncAlgs \cup MlKemAlgs

Params == [alg : Algs \cup {Inherited, Junk},
           kty : {None, "oct", "EC", "RSA", "AKP", Junk},
           crv : Curves \cup {None, Junk},
           keyLength : Lengths \cup {None, Junk}]

(* What is absent or nonsense is none of the things a member may be.        *)
ASSUME KeygenAssumption ==
  /\ Lengths \subseteq Nat
  /\ {None, Junk} \cap (Algs \cup {Inherited}) = {} /\ {None, Junk} \cap Curves = {}
  /\ {None, Junk} \cap {"oct", "EC", "RSA", "AKP", "ec", "rsa", "aes", "hmac", "ml-kem"} = {}
  /\ None \notin Lengths /\ Junk \notin Nat /\ Junk # None
  /\ None \notin {"ok", "invalid-request-data", "internal-error"}
  /\ None \notin [alg : Algs \cup {Variant(alg) : alg \in MlKemAlgs}, use : {"sig", "enc"}]

Asked(p) == params = p /\ spec = None /\ key = None /\ answer = None

KeygenInit == \E p \in Params : Asked(p)

Resolve == /\ spec = None /\ answer = None
           /\ IF Resolvable(params)
              THEN spec' = ResolveKeyGenParams(params) /\ UNCHANGED answer
              ELSE answer' = "invalid-request-data" /\ UNCHANGED spec
           /\ UNCHANGED <<params, key>>

(* No generator belongs to a spec without a kind.                           *)
Generate == /\ spec # None /\ answer = None
            /\ IF spec.kind = None
               THEN answer' = "internal-error" /\ UNCHANGED key
               ELSE answer' = "ok" /\ key' = GenerateVaultKey(spec)
            /\ UNCHANGED <<params, spec>>

KeygenNext == Resolve \/ Generate

KeygenSpec == KeygenInit /\ [][KeygenNext]_keygenVars

-----------------------------------------------------------------------------
(* The algorithm matrix (API.md 178-191): the key type and sizes each       *)
(* algorithm may be asked for, absent members included.                     *)
DocumentedParams(p) ==
  LET sizes(least, most, step) == {None} \cup {n \in Lengths : n >= least /\ n <= most /\ n % step = 0}
      row(kty, crvs, lengths) == p.kty \in {None, kty} /\ p.crv \in crvs /\ p.keyLength \in lengths
  IN \/ p.alg \in {"A128GCM", "A128GCMKW", "A128KW"} /\ row("oct", {None}, {None, 128})
     \/ p.alg \in {"A192GCM", "A192GCMKW", "A192KW"} /\ row("oct", {None}, {None, 192})
     \/ p.alg \in {"A256GCM", "A256GCMKW", "A256KW"} /\ row("oct", {None}, {None, 256})
     \/ p.alg = "HS256" /\ row("oct", {None}, sizes(256, 4096, 8))
     \/ p.alg = "HS384" /\ row("oct", {None}, sizes(384, 4096, 8))
     \/ p.alg = "HS512" /\ row("oct", {None}, sizes(512, 4096, 8))
     \/ p.alg = "ECDH-ES" /\ row("EC", {None, "P-256", "P-384", "P-521"}, {None})
     \/ p.alg = "ES256" /\ row("EC", {None, "P-256"}, {None})
     \/ p.alg = "ES384" /\ row("EC", {None, "P-384"}, {None})
     \/ p.alg = "ES512" /\ row("EC", {None, "P-521"}, {None})
     \/ p.alg \in {"RSA-OAEP", "RSA-OAEP-256", "RS256", "RS384", "RS512"}
        /\ row("RSA", {None}, sizes(2048, 16384, 1))
     \/ p.alg \in MlKemAlgs /\ row("AKP", {None}, {None})

(* A key is generated exactly for the documented parameters (keygen.js      *)
(* 56-121); a name that the table inherits is refused too, though as an     *)
(* internal error.                                                          *)
GeneratedIffDocumented == answer # None => (answer = "ok" <=> DocumentedParams(params))

(* A generated key can be used and is no weaker than its name: signing      *)
(* algorithms make signing keys and the others make encryption keys, for    *)
(* the operations that will accept the row (JWT_ALGS, JWE_ALGS); only       *)
(* symmetric keys lack a public half; a hash is not wider than its key; and *)
(* the JWK of an ML-KEM key bears the name tr-jwe asks for (keygen.js       *)
(* 123-176).                                                                *)
Serves(k) ==
  /\ k.secret.use = "sig" <=> k.alg \in JwtAlgs
  /\ k.secret.use = "enc" <=> k.alg \in JweAlgs \cup GcmAlgs
  /\ k.public = None <=> k.kty = "oct"
  /\ k.public # None => k.public = [alg |-> k.secret.alg, use |-> k.secret.use]
  /\ k.secret.keyOps # {} <=> k.kty = "oct"
  /\ k.secret.alg = IF k.kty = "AKP" THEN Variant(k.alg) ELSE k.alg
  /\ k.kty = "oct" => k.bits % 8 = 0 /\ k.bits >= 128
  /\ \E bits \in {256, 384, 512} :
       k.alg \in HmacAlgs =>
         k.bits >= bits /\ k.alg = CASE bits = 256 -> "HS256" [] bits = 384 -> "HS384"
                                     [] bits = 512 -> "HS512"
KeyServesItsAlgorithm == key # None => Serves(key)

-----------------------------------------------------------------------------
(* The inductive invariant behind both: what there is was made from what    *)
(* there was before, and only from that.                                    *)
KeygenConsistent ==
  /\ params \in Params
  /\ answer \in {None, "ok", "invalid-request-data", "internal-error"}
  /\ spec # None => Resolvable(params) /\ spec = ResolveKeyGenParams(params)
  /\ key # None => answer = "ok" /\ key = GenerateVaultKey(spec)
  /\ answer = "ok" => spec # None /\ spec.kind # None
  /\ answer = "invalid-request-data" => ~ Resolvable(params)
  /\ answer = "internal-error" => spec # None /\ spec.kind = None
=============================================================================
