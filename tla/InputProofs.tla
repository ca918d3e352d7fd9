----------------------------- MODULE InputProofs -----------------------------
(* Theorems about KekFiles, Keygen and AddressCheck, for any lists of key   *)
(* files, any lengths asked for and any calls: a vault comes up exactly     *)
(* with the files it should, but for two slips; keys are made exactly       *)
(* for the documented parameters, and serve their algorithms; the vault     *)
(* takes the client for the client and lets it in exactly from where its    *)
(* user may call.                                                           *)
EXTENDS KekFiles, Keygen, AddressCheck, FiniteSetTheorems, WellFoundedInduction, TLAPS

(* What validateKek accepts, spelled out type by type.                      *)
LEMMA AcceptsDocumented ==
  ASSUME NEW file, IsKeyFile(file), file.jwk # None
  PROVE  /\ DocumentedKek(file.jwk) => Accepts(file.jwk)
         /\ Accepts(file.jwk) => DocumentedKek(file.jwk) \/ Slips(file.jwk)
<1> DEFINE jwk == file.jwk
<1>1. jwk.bits \in Nat /\ (jwk.kty = "oct" => jwk.bits % 8 = 0)
  BY DEF IsKeyFile
<1>2. DOMAIN SecretMembers = {"oct", "RSA", "EC", "AKP"}
  BY DEF SecretMembers
<1>3. CASE jwk.kty = "oct"
  <2>1. DocumentedKek(jwk) <=> /\ jwk.kid # None /\ "k" \in jwk.has
                               /\ \E bits \in {128, 192, 256} :
                                    /\ jwk.bits = bits
                                    /\ jwk.alg \in CASE bits = 128 -> {"A128GCMKW", "A128KW"}
                                                     [] bits = 192 -> {"A192GCMKW", "A192KW"}
                                                     [] bits = 256 -> {"A256GCMKW", "A256KW"}
    BY <1>3 DEF DocumentedKek
  <2>2. @ <=> /\ jwk.kid # None /\ "k" \in jwk.has
              /\ \/ jwk.bits = 128 /\ jwk.alg \in {"A128GCMKW", "A128KW"}
                 \/ jwk.bits = 192 /\ jwk.alg \in {"A192GCMKW", "A192KW"}
                 \/ jwk.bits = 256 /\ jwk.alg \in {"A256GCMKW", "A256KW"}
    OBVIOUS
  <2>3. ValidAlg(jwk) <=> jwk.alg \in DOMAIN OctBits /\ Octets(jwk.bits) = OctBits[jwk.alg] \div 8
    BY <1>3 DEF ValidAlg
  <2>4. \A n \in {16, 24, 32} : Octets(jwk.bits) = n <=> jwk.bits = 8 * n
    BY <1>1, <1>3 DEF Octets
  <2>5. /\ DOMAIN OctBits = {"A128GCMKW", "A128KW", "A192GCMKW", "A192KW", "A256GCMKW", "A256KW"}
        /\ \A alg \in {"A128GCMKW", "A128KW"} : OctBits[alg] \div 8 = 16
        /\ \A alg \in {"A192GCMKW", "A192KW"} : OctBits[alg] \div 8 = 24
        /\ \A alg \in {"A256GCMKW", "A256KW"} : OctBits[alg] \div 8 = 32
    BY DEF OctBits
  <2>6. ValidAlg(jwk) <=> \/ jwk.bits = 128 /\ jwk.alg \in {"A128GCMKW", "A128KW"}
                          \/ jwk.bits = 192 /\ jwk.alg \in {"A192GCMKW", "A192KW"}
                          \/ jwk.bits = 256 /\ jwk.alg \in {"A256GCMKW", "A256KW"}
    BY <2>3, <2>4, <2>5
  <2>7. Accepts(jwk) <=> jwk.kid # None /\ "k" \in jwk.has /\ ValidAlg(jwk)
    BY <1>2, <1>3 DEF Accepts, SecretMembers
  <2> QED
    BY <2>1, <2>2, <2>6, <2>7
<1>4. CASE jwk.kty = "RSA"
  <2>1. Octets(jwk.bits) * 8 >= ModulusMin <=> jwk.bits >= 2041
    BY <1>1 DEF Octets, ModulusMin
  <2>2. ValidAlg(jwk) <=> jwk.alg \in RsaAlgs /\ Octets(jwk.bits) * 8 >= ModulusMin
    BY <1>4 DEF ValidAlg
  <2>3. Accepts(jwk) <=> jwk.kid # None /\ {"n", "e", "d"} \subseteq jwk.has /\ ValidAlg(jwk)
    BY <1>2, <1>4 DEF Accepts, SecretMembers
  <2>4. DocumentedKek(jwk) <=> /\ jwk.kid # None /\ jwk.alg \in RsaAlgs
                               /\ jwk.bits >= 2048 /\ {"n", "e", "d"} \subseteq jwk.has
    BY <1>4 DEF DocumentedKek, RsaAlgs
  <2>5. jwk.bits >= 2041 <=> jwk.bits >= 2048 \/ jwk.bits \in 2041..2047
    BY <1>1
  <2> QED
    BY <1>4, <2>1, <2>2, <2>3, <2>4, <2>5 DEF Slips, RsaAlgs
<1>5. CASE jwk.kty = "EC"
  <2>1. ValidAlg(jwk) <=> jwk.crv \in EcCurves /\ jwk.alg \in {None, "ECDH-ES"}
    BY <1>5 DEF ValidAlg
  <2>2. Accepts(jwk) <=> jwk.kid # None /\ {"x", "y", "d"} \subseteq jwk.has /\ ValidAlg(jwk)
    BY <1>2, <1>5 DEF Accepts, SecretMembers
  <2>3. DocumentedKek(jwk) <=> /\ jwk.kid # None /\ {"x", "y", "d"} \subseteq jwk.has
                               /\ jwk.crv \in EcCurves /\ jwk.alg \in {None, "ECDH-ES"}
    BY <1>5 DEF DocumentedKek, EcCurves
  <2> QED
    BY <2>1, <2>2, <2>3
<1>6. CASE jwk.kty = "AKP"
  <2>1. ValidAlg(jwk) <=> \/ jwk.alg \in {"ML-KEM-512", "ML-KEM-768", "ML-KEM-1024"}
                          \/ jwk.alg \in InheritedAlgs
    BY <1>6 DEF ValidAlg, MlKemWrap
  <2>2. Accepts(jwk) <=> jwk.kid # None /\ {"priv", "pub"} \subseteq jwk.has /\ ValidAlg(jwk)
    BY <1>2, <1>6 DEF Accepts, SecretMembers
  <2>3. DocumentedKek(jwk) <=> /\ jwk.kid # None /\ {"priv", "pub"} \subseteq jwk.has
                               /\ jwk.alg \in {"ML-KEM-512", "ML-KEM-768", "ML-KEM-1024"}
    BY <1>6 DEF DocumentedKek
  <2> QED
    BY <1>6, <2>1, <2>2, <2>3 DEF Slips
<1>7. CASE jwk.kty \notin {"oct", "RSA", "EC", "AKP"}
  BY <1>2, <1>7 DEF Accepts, DocumentedKek
<1> QED
  BY <1>3, <1>4, <1>5, <1>6, <1>7

(* The ids of a list are as many as its files if no two are the same.       *)
LEMMA IdsDistinct ==
  ASSUME NEW list, list \in Seq({list[i] : i \in DOMAIN list})
  PROVE  Cardinality({list[i].jwk.kid : i \in DOMAIN list}) = Len(list)
         <=> \A i, j \in DOMAIN list : list[i].jwk.kid = list[j].jwk.kid => i = j
<1> DEFINE ids == {list[i].jwk.kid : i \in DOMAIN list}
           f == [i \in DOMAIN list |-> list[i].jwk.kid]
<1>1. DOMAIN list = 1..Len(list) /\ Len(list) \in Nat
  OBVIOUS
<1>2. IsFiniteSet(DOMAIN list) /\ Cardinality(DOMAIN list) = Len(list)
  BY <1>1, FS_Interval
<1>3. f \in Surjection(DOMAIN list, ids)
  BY DEF Surjection
<1>4. Cardinality(ids) = Cardinality(DOMAIN list) <=> f \in Injection(DOMAIN list, ids)
  BY <1>2, <1>3, FS_Surjection
<1>5. f \in Injection(DOMAIN list, ids)
      <=> \A i, j \in DOMAIN list : list[i].jwk.kid = list[j].jwk.kid => i = j
  BY DEF Injection, IsInjective
<1> QED
  BY <1>2, <1>4, <1>5

-----------------------------------------------------------------------------
(* The files                                                                *)

LEMMA FilesAreSeq ==
  ASSUME FilesConsistent
  PROVE  /\ files \in Seq({files[i] : i \in DOMAIN files})
         /\ \A i \in DOMAIN files : IsKeyFile(files[i])
         /\ DOMAIN files = 1..Len(files) /\ Len(files) \in Nat
         /\ DOMAIN loaded = 1..Len(loaded) /\ Len(loaded) \in Nat
<1>1. /\ files \in Seq({files[i] : i \in DOMAIN files})
      /\ \A i \in DOMAIN files : IsKeyFile(files[i])
  BY FilesAssumption DEF FilesConsistent
<1> QED
  BY <1>1 DEF FilesConsistent

LEMMA FilesStart == FilesInit => FilesConsistent
<1> SUFFICES ASSUME NEW list \in FileLists, Given(list) PROVE FilesConsistent
  BY DEF FilesInit
<1>1. files = list /\ loaded = <<>> /\ status = "loading"
  BY DEF Given
<1>2. list \in Seq({list[i] : i \in DOMAIN list})
  BY FilesAssumption
<1>3. Len(files) \in Nat
  BY <1>1, <1>2
<1> QED
  BY <1>1, <1>3 DEF FilesConsistent

LEMMA LoadKeeps == FilesConsistent /\ Load => FilesConsistent'
<1> SUFFICES ASSUME FilesConsistent, Load PROVE FilesConsistent'
  OBVIOUS
<1> DEFINE n == Len(loaded)
           descriptor == ValidateKek(NextFile.jwk)
<1>1. n \in Nat /\ n < Len(files) /\ DOMAIN loaded = 1..n /\ n + 1 \in DOMAIN files
  BY FilesAreSeq DEF Load
<1>2. UNCHANGED files /\ status = "loading"
  BY DEF Load
<1>3. Descriptors' = Descriptors
  BY <1>2 DEF Descriptors
<1>4. CASE Loadable(NextFile)
  <2>1. loaded' = Append(loaded, descriptor) /\ UNCHANGED status
    BY <1>4 DEF Load
  <2>2. descriptor \in Descriptors
    BY <1>1, <1>4 DEF Descriptors, NextFile
  <2>3. loaded \in Seq(Descriptors)
    BY DEF FilesConsistent
  <2> HIDE DEF descriptor
  <2>4. /\ loaded' \in Seq(Descriptors) /\ Len(loaded') = n + 1 /\ DOMAIN loaded' = 1..(n + 1)
        /\ loaded'[n + 1] = descriptor /\ \A i \in 1..n : loaded'[i] = loaded[i]
    BY <1>1, <2>1, <2>2, <2>3
  <2>5. descriptor = ValidateKek(files[n + 1].jwk) /\ Loadable(files[n + 1])
    BY <1>4 DEF descriptor, NextFile
  <2>6. \A i \in 1..(n + 1) : Loadable(files[i]) /\ loaded'[i] = ValidateKek(files[i].jwk)
    <3> SUFFICES ASSUME NEW i \in 1..(n + 1)
                 PROVE  Loadable(files[i]) /\ loaded'[i] = ValidateKek(files[i].jwk)
      OBVIOUS
    <3>1. CASE i = n + 1
      BY <2>4, <2>5, <3>1
    <3>2. CASE i \in 1..n
      BY <1>1, <2>4, <3>2 DEF FilesConsistent
    <3> QED
      BY <1>1, <3>1, <3>2
  <2> QED
    BY <1>1, <1>2, <1>3, <2>1, <2>4, <2>6 DEF FilesConsistent
<1>5. CASE ~ Loadable(NextFile)
  <2>1. UNCHANGED loaded /\ status' = "failed" /\ NextFile' = NextFile
    BY <1>2, <1>5 DEF Load, NextFile
  <2> QED
    BY <1>1, <1>2, <1>3, <1>5, <2>1 DEF FilesConsistent
<1> QED
  BY <1>4, <1>5

LEMMA ConstructKeeps == FilesConsistent /\ Construct => FilesConsistent'
<1> SUFFICES ASSUME FilesConsistent, Construct PROVE FilesConsistent'
  OBVIOUS
<1>1. /\ UNCHANGED <<files, loaded>> /\ Len(loaded) = Len(files)
      /\ status' = IF DistinctIds(loaded) THEN "ready" ELSE "failed"
  BY DEF Construct
<1>2. Descriptors' = Descriptors
  BY <1>1 DEF Descriptors
<1> QED
  BY <1>1, <1>2 DEF FilesConsistent

LEMMA FilesStep == FilesConsistent /\ [FilesNext]_filesVars => FilesConsistent'
<1> SUFFICES ASSUME FilesConsistent, UNCHANGED filesVars PROVE FilesConsistent'
  BY LoadKeeps, ConstructKeeps DEF FilesNext
<1> QED
  BY DEF filesVars, FilesConsistent, Descriptors, NextFile

(* What is loaded is the files so far, each of them usable and reduced to   *)
(* what the vault keeps of it, and loading ends for no other reason than a  *)
(* file that is not, an id given twice, or the end of the list (kek.js      *)
(* 94-139).                                                                 *)
THEOREM FilesStayConsistent == FilesSpec => []FilesConsistent
<1> QED
  BY FilesStart, FilesStep, PTL DEF FilesSpec

LEMMA ReadyFollows == FilesConsistent => UpWithDocumentedKeks
<1> SUFFICES ASSUME FilesConsistent PROVE UpWithDocumentedKeks
  OBVIOUS
<1> DEFINE distinct == \A i, j \in DOMAIN files : files[i].jwk.kid = files[j].jwk.kid => i = j
<1>1. /\ DOMAIN files = 1..Len(files) /\ Len(files) \in Nat
      /\ DOMAIN loaded = 1..Len(loaded) /\ Len(loaded) \in Nat
  BY FilesAreSeq
<1>2. \A i \in DOMAIN files :
        Loadable(files[i]) <=> PrivateKeyFile(files[i]) /\ Accepts(files[i].jwk)
  BY DEF Loadable, OwnerOnly, PrivateKeyFile
<1>3. \A i \in DOMAIN files : files[i].jwk # None =>
        /\ DocumentedKek(files[i].jwk) => Accepts(files[i].jwk)
        /\ Accepts(files[i].jwk) => DocumentedKek(files[i].jwk) \/ Slips(files[i].jwk)
  BY FilesAreSeq, AcceptsDocumented
<1>4. IdsNameOneFile <=> distinct
  BY FilesAreSeq, IdsDistinct DEF IdsNameOneFile
<1>5. Len(loaded) = Len(files) => (DistinctIds(loaded) <=> distinct)
  <2>1. \A i \in DOMAIN loaded : loaded[i].kid = files[i].jwk.kid
    BY DEF FilesConsistent, ValidateKek
  <2> QED
    BY <1>1, <2>1 DEF DistinctIds
<1>6. status # "loading" => (status = "ready" <=> (\A i \in DOMAIN files : Loadable(files[i])) /\ distinct)
  <2>1. CASE status = "ready"
    BY <1>1, <1>5, <2>1 DEF FilesConsistent
  <2>2. CASE status = "failed" /\ Len(loaded) = Len(files)
    BY <1>5, <2>2 DEF FilesConsistent
  <2>3. CASE status = "failed" /\ Len(loaded) # Len(files)
    <3>1. ~ Loadable(files[Len(loaded) + 1])
      BY <2>3 DEF FilesConsistent, NextFile
    <3>2. Len(loaded) <= Len(files)
      BY DEF FilesConsistent
    <3>3. Len(loaded) + 1 \in 1..Len(files)
      <4> DEFINE n == Len(loaded)
                 m == Len(files)
      <4>1. n \in Nat /\ m \in Nat /\ n <= m /\ n # m
        BY <1>1, <2>3, <3>2
      <4> HIDE DEF n, m
      <4>2. n + 1 \in 1..m
        BY <4>1
      <4> QED
        BY <4>2 DEF n, m
    <3> QED
      BY <1>1, <2>3, <3>1, <3>3
  <2> QED
    BY <2>1, <2>2, <2>3 DEF FilesConsistent
<1> QED
  BY <1>2, <1>3, <1>4, <1>6 DEF UpWithDocumentedKeks, PrivateKeyFile

(* A start with documented keys in files of the owner alone, no two under   *)
(* one id, does not fail, and no other start succeeds, but for a modulus    *)
(* seven bits short and a name the table of algorithms inherits (kek.js     *)
(* 94-139).                                                                 *)
THEOREM VaultComesUpRightly == FilesSpec => []UpWithDocumentedKeks
<1> QED
  BY FilesStayConsistent, ReadyFollows, PTL

-----------------------------------------------------------------------------
(* The parameters                                                           *)

(* The rows of the table.                                                   *)
LEMMA AesRow ==
  ASSUME NEW alg \in GcmAlgs \cup WrapAlgs
  PROVE  /\ Kind(alg) = "aes" /\ Kty(alg) = "oct" /\ Size(alg) \in {128, 192, 256}
         /\ Use(alg) = "enc" /\ KeyOps(alg) # {}
         /\ Size(alg) = 128 <=> alg \in {"A128GCM", "A128GCMKW", "A128KW"}
         /\ Size(alg) = 192 <=> alg \in {"A192GCM", "A192GCMKW", "A192KW"}
         /\ Size(alg) = 256 <=> alg \in {"A256GCM", "A256GCMKW", "A256KW"}
<1>1. alg \in {"A128GCM", "A192GCM", "A256GCM", "A128GCMKW", "A192GCMKW", "A256GCMKW", "A128KW",
              "A192KW", "A256KW"}
  BY DEF GcmAlgs, WrapAlgs
<1>2. alg \notin HmacAlgs \cup EcSigAlgs \cup {"ECDH-ES"} \cup RsaSigAlgs \cup RsaEncAlgs \cup MlKemAlgs
  BY <1>1 DEF HmacAlgs, EcSigAlgs, RsaSigAlgs, RsaEncAlgs, MlKemAlgs
<1>3. Kind(alg) = "aes"
  BY <1>2 DEF Kind
<1>4. Kty(alg) = "oct"
  BY <1>3 DEF Kty
<1>5. Use(alg) = "enc"
  BY <1>2 DEF Use
<1>6. KeyOps(alg) # {}
  BY <1>2 DEF KeyOps
<1>7. /\ alg \in {"A128GCM", "A128GCMKW", "A128KW"} => Size(alg) = 128
      /\ alg \in {"A192GCM", "A192GCMKW", "A192KW"} => Size(alg) = 192
      /\ alg \in {"A256GCM", "A256GCMKW", "A256KW"} => Size(alg) = 256
  BY DEF Size
<1> QED
  BY <1>1, <1>3, <1>4, <1>5, <1>6, <1>7

LEMMA HmacRow ==
  ASSUME NEW alg \in HmacAlgs
  PROVE  /\ Kind(alg) = "hmac" /\ Kty(alg) = "oct" /\ Size(alg) \in {256, 384, 512}
         /\ Use(alg) = "sig" /\ KeyOps(alg) # {}
         /\ Size(alg) = 256 <=> alg = "HS256"
         /\ Size(alg) = 384 <=> alg = "HS384"
         /\ Size(alg) = 512 <=> alg = "HS512"
<1>1. /\ alg \in {"HS256", "HS384", "HS512"}
      /\ alg \notin GcmAlgs \cup WrapAlgs \cup EcSigAlgs \cup {"ECDH-ES"} \cup RsaSigAlgs \cup RsaEncAlgs
                 \cup MlKemAlgs
  BY DEF GcmAlgs, WrapAlgs, HmacAlgs, EcSigAlgs, RsaSigAlgs, RsaEncAlgs, MlKemAlgs
<1>2. Kind(alg) = "hmac"
  BY <1>1 DEF Kind
<1>3. Kty(alg) = "oct"
  BY <1>2 DEF Kty
<1>4. Use(alg) = "sig"
  BY DEF Use
<1>5. KeyOps(alg) # {}
  BY <1>1 DEF KeyOps
<1>6. /\ alg = "HS256" => Size(alg) = 256
      /\ alg = "HS384" => Size(alg) = 384
      /\ alg = "HS512" => Size(alg) = 512
  BY DEF Size
<1> QED
  BY <1>1, <1>2, <1>3, <1>4, <1>5, <1>6

LEMMA EcRow ==
  ASSUME NEW alg \in EcSigAlgs \cup {"ECDH-ES"}
  PROVE  /\ Kind(alg) = "ec" /\ Kty(alg) = "EC" /\ KeyOps(alg) = {}
         /\ Use(alg) = IF alg = "ECDH-ES" THEN "enc" ELSE "sig"
         /\ AlgCurves(alg) = CASE alg = "ES256" -> {"P-256"} [] alg = "ES384" -> {"P-384"}
                               [] alg = "ES512" -> {"P-521"} [] OTHER -> Curves
<1>1. /\ alg \in {"ES256", "ES384", "ES512", "ECDH-ES"}
      /\ alg \notin GcmAlgs \cup WrapAlgs \cup HmacAlgs \cup RsaSigAlgs \cup RsaEncAlgs \cup MlKemAlgs
      /\ alg \in EcSigAlgs <=> alg # "ECDH-ES"
  BY DEF GcmAlgs, WrapAlgs, HmacAlgs, EcSigAlgs, RsaSigAlgs, RsaEncAlgs, MlKemAlgs
<1>2. Kind(alg) = "ec"
  BY <1>1 DEF Kind
<1>3. Kty(alg) = "EC"
  BY <1>2 DEF Kty
<1>4. Use(alg) = IF alg = "ECDH-ES" THEN "enc" ELSE "sig"
  BY <1>1 DEF Use
<1>5. KeyOps(alg) = {}
  BY <1>1 DEF KeyOps
<1> QED
  BY <1>2, <1>3, <1>4, <1>5 DEF AlgCurves

LEMMA RsaRow ==
  ASSUME NEW alg \in RsaSigAlgs \cup RsaEncAlgs
  PROVE  /\ Kind(alg) = "rsa" /\ Kty(alg) = "RSA" /\ KeyOps(alg) = {}
         /\ Use(alg) = IF alg \in RsaSigAlgs THEN "sig" ELSE "enc"
<1>1. alg \notin GcmAlgs \cup WrapAlgs \cup HmacAlgs \cup EcSigAlgs \cup {"ECDH-ES"} \cup MlKemAlgs
  BY DEF GcmAlgs, WrapAlgs, HmacAlgs, EcSigAlgs, RsaSigAlgs, RsaEncAlgs, MlKemAlgs
<1>2. Kind(alg) = "rsa"
  BY <1>1 DEF Kind
<1>3. Kty(alg) = "RSA"
  BY <1>2 DEF Kty
<1>4. Use(alg) = IF alg \in RsaSigAlgs THEN "sig" ELSE "enc"
  BY <1>1 DEF Use
<1>5. KeyOps(alg) = {}
  BY <1>1 DEF KeyOps
<1> QED
  BY <1>2, <1>3, <1>4, <1>5

LEMMA MlKemRow ==
  ASSUME NEW alg \in MlKemAlgs
  PROVE  /\ Kind(alg) = "ml-kem" /\ Kty(alg) = "AKP" /\ KeyOps(alg) = {} /\ Use(alg) = "enc"
BY DEF GcmAlgs, WrapAlgs, HmacAlgs, EcSigAlgs, RsaSigAlgs, RsaEncAlgs, MlKemAlgs, Kind, Kty, Use,
       KeyOps

LEMMA NoRow ==
  ASSUME NEW alg \in {Inherited, Junk}
  PROVE  Kind(alg) = None /\ Kty(alg) = None
BY KeygenAssumption
DEF GcmAlgs, WrapAlgs, HmacAlgs, EcSigAlgs, RsaSigAlgs, RsaEncAlgs, MlKemAlgs, Kind, Kty,
    Inherited, Algs

(* The matrix of API.md, one kind of algorithm at a time.                   *)
LEMMA AesDocumented ==
  ASSUME NEW p \in Params, p.alg \in GcmAlgs \cup WrapAlgs
  PROVE  DocumentedParams(p) <=> Resolvable(p)
<1>1. p.kty \in {None, "oct", "EC", "RSA", "AKP", Junk} /\ p.crv \in Curves \cup {None, Junk}
  BY DEF Params
<1>2. Resolvable(p) <=> /\ p.kty \in {None, "oct"} /\ p.crv = None
                        /\ p.keyLength \in {None, Size(p.alg)}
  BY AesRow DEF Resolvable, InTable, Algs, LengthFits
<1>3. DocumentedParams(p) <=> /\ p.kty \in {None, "oct"} /\ p.crv = None
                              /\ p.keyLength \in {None, Size(p.alg)}
  BY AesRow DEF DocumentedParams, GcmAlgs, WrapAlgs, MlKemAlgs
<1> QED
  BY <1>2, <1>3

LEMMA HmacDocumented ==
  ASSUME NEW p \in Params, p.alg \in HmacAlgs
  PROVE  DocumentedParams(p) <=> Resolvable(p)
<1> DEFINE sizes == {None} \cup {n \in Lengths : n >= Size(p.alg) /\ n <= 4096 /\ n % 8 = 0}
<1>1. p.keyLength \in Lengths \cup {None, Junk}
  BY DEF Params
<1>2. p.keyLength # None => (HmacLength(p.alg, p.keyLength) <=> p.keyLength \in sizes)
  <2>1. CASE p.keyLength \in Lengths
    <3>1. p.keyLength # None /\ p.keyLength \in Nat
      BY <2>1, KeygenAssumption
    <3> QED
      BY <2>1, <3>1 DEF HmacLength, OctMaxBits
  <2>2. CASE p.keyLength = Junk
    <3>1. p.keyLength # None /\ p.keyLength \notin Nat /\ p.keyLength \notin Lengths
      BY <2>2, KeygenAssumption
    <3> QED
      BY <3>1 DEF HmacLength
  <2> QED
    BY <1>1, <2>1, <2>2
<1>3. Resolvable(p) <=> p.kty \in {None, "oct"} /\ p.crv = None /\ p.keyLength \in sizes
  BY <1>2, HmacRow DEF Resolvable, InTable, Algs, LengthFits
<1>4. DocumentedParams(p) <=> p.kty \in {None, "oct"} /\ p.crv = None /\ p.keyLength \in sizes
  <2> HIDE DEF sizes
  <2>1. CASE p.alg = "HS256"
    BY <2>1, HmacRow DEF DocumentedParams, MlKemAlgs, HmacAlgs, sizes
  <2>2. CASE p.alg = "HS384"
    BY <2>2, HmacRow DEF DocumentedParams, MlKemAlgs, HmacAlgs, sizes
  <2>3. CASE p.alg = "HS512"
    BY <2>3, HmacRow DEF DocumentedParams, MlKemAlgs, HmacAlgs, sizes
  <2> QED
    BY <2>1, <2>2, <2>3 DEF HmacAlgs
<1> QED
  BY <1>3, <1>4

LEMMA EcDocumented ==
  ASSUME NEW p \in Params, p.alg \in EcSigAlgs \cup {"ECDH-ES"}
  PROVE  DocumentedParams(p) <=> Resolvable(p)
<1>1. Resolvable(p) <=> /\ p.kty \in {None, "EC"} /\ p.keyLength = None
                        /\ p.crv \in {None} \cup AlgCurves(p.alg)
  BY EcRow DEF Resolvable, InTable, Algs, LengthFits
<1>2. DocumentedParams(p) <=> /\ p.kty \in {None, "EC"} /\ p.keyLength = None
                              /\ p.crv \in {None} \cup AlgCurves(p.alg)
  BY EcRow DEF DocumentedParams, EcSigAlgs, MlKemAlgs, Curves
<1> QED
  BY <1>1, <1>2

LEMMA RsaDocumented ==
  ASSUME NEW p \in Params, p.alg \in RsaSigAlgs \cup RsaEncAlgs
  PROVE  DocumentedParams(p) <=> Resolvable(p)
<1> DEFINE sizes == {None} \cup {n \in Lengths : n >= 2048 /\ n <= 16384 /\ n % 1 = 0}
<1>1. p.keyLength \in Lengths \cup {None, Junk}
  BY DEF Params
<1>2. p.keyLength # None => (RsaLength(p.keyLength) <=> p.keyLength \in sizes)
  <2>1. CASE p.keyLength \in Lengths
    <3>1. p.keyLength # None /\ p.keyLength \in Nat
      BY <2>1, KeygenAssumption
    <3>2. p.keyLength % 1 = 0
      BY <3>1
    <3> QED
      BY <2>1, <3>1, <3>2 DEF RsaLength, RsaModulusMin, RsaModulusMax
  <2>2. CASE p.keyLength = Junk
    <3>1. p.keyLength # None /\ p.keyLength \notin Nat /\ p.keyLength \notin Lengths
      BY <2>2, KeygenAssumption
    <3> QED
      BY <3>1 DEF RsaLength
  <2> QED
    BY <1>1, <2>1, <2>2
<1>3. Resolvable(p) <=> p.kty \in {None, "RSA"} /\ p.crv = None /\ p.keyLength \in sizes
  BY <1>2, RsaRow DEF Resolvable, InTable, Algs, LengthFits
<1>4. DocumentedParams(p) <=> p.kty \in {None, "RSA"} /\ p.crv = None /\ p.keyLength \in sizes
  BY DEF DocumentedParams, RsaSigAlgs, RsaEncAlgs, MlKemAlgs
<1> QED
  BY <1>3, <1>4

LEMMA MlKemDocumented ==
  ASSUME NEW p \in Params, p.alg \in MlKemAlgs
  PROVE  DocumentedParams(p) <=> Resolvable(p)
<1>1. Resolvable(p) <=> p.kty \in {None, "AKP"} /\ p.crv = None /\ p.keyLength = None
  BY MlKemRow DEF Resolvable, InTable, Algs, LengthFits
<1>2. DocumentedParams(p) <=> p.kty \in {None, "AKP"} /\ p.crv = None /\ p.keyLength = None
  BY DEF DocumentedParams, MlKemAlgs
<1> QED
  BY <1>1, <1>2

(* What no row of the matrix is about is not documented, and has no kind.   *)
LEMMA DocumentedIsResolvable ==
  ASSUME NEW p \in Params
  PROVE  DocumentedParams(p) <=> Resolvable(p) /\ Kind(p.alg) # None
<1>1. p.alg \in Algs \cup {Inherited, Junk}
  BY DEF Params
<1>2. CASE p.alg \in GcmAlgs \cup WrapAlgs
  <2>1. Kind(p.alg) = "aes"
    BY <1>2, AesRow
  <2>2. "aes" # None
    BY KeygenAssumption
  <2> QED
    BY <1>2, <2>1, <2>2, AesDocumented
<1>3. CASE p.alg \in HmacAlgs
  <2>1. Kind(p.alg) = "hmac"
    BY <1>3, HmacRow
  <2>2. "hmac" # None
    BY KeygenAssumption
  <2> QED
    BY <1>3, <2>1, <2>2, HmacDocumented
<1>4. CASE p.alg \in EcSigAlgs \cup {"ECDH-ES"}
  BY <1>4, EcRow, EcDocumented, KeygenAssumption
<1>5. CASE p.alg \in RsaSigAlgs \cup RsaEncAlgs
  BY <1>5, RsaRow, RsaDocumented, KeygenAssumption
<1>6. CASE p.alg \in MlKemAlgs
  BY <1>6, MlKemRow, MlKemDocumented, KeygenAssumption
<1>7. CASE p.alg \in {Inherited, Junk}
  <2>1. ~ DocumentedParams(p)
    <3>1. p.alg = "constructor" \/ p.alg \notin Algs
      BY <1>7, KeygenAssumption DEF Inherited
    <3> QED
      BY <3>1
    DEF DocumentedParams, Inherited, Algs, GcmAlgs, WrapAlgs, HmacAlgs, EcSigAlgs, RsaSigAlgs,
        RsaEncAlgs, MlKemAlgs
  <2> QED
    BY <1>7, <2>1, NoRow
<1> QED
  BY <1>1, <1>2, <1>3, <1>4, <1>5, <1>6, <1>7 DEF Algs

LEMMA KeygenStart == KeygenInit => KeygenConsistent
BY KeygenAssumption DEF KeygenInit, Asked, KeygenConsistent

LEMMA KeygenStep == KeygenConsistent /\ [KeygenNext]_keygenVars => KeygenConsistent'
<1> SUFFICES ASSUME KeygenConsistent, [KeygenNext]_keygenVars PROVE KeygenConsistent'
  OBVIOUS
<1>1. CASE Resolve
  BY <1>1, KeygenAssumption DEF Resolve, KeygenConsistent
<1>2. CASE Generate
  BY <1>2, KeygenAssumption DEF Generate, KeygenConsistent
<1>3. CASE UNCHANGED keygenVars
  BY <1>3 DEF keygenVars, KeygenConsistent
<1> QED
  BY <1>1, <1>2, <1>3 DEF KeygenNext

(* A request is refused only for what its parameters are, and a key is made *)
(* only of what they were resolved to (keygen.js 61-176).                   *)
THEOREM KeygenStaysConsistent == KeygenSpec => []KeygenConsistent
<1> QED
  BY KeygenStart, KeygenStep, PTL DEF KeygenSpec

LEMMA GeneratedFollows == KeygenConsistent => GeneratedIffDocumented
<1> SUFFICES ASSUME KeygenConsistent, answer # None
             PROVE  answer = "ok" <=> DocumentedParams(params)
  BY DEF GeneratedIffDocumented
<1>1. DocumentedParams(params) <=> Resolvable(params) /\ Kind(params.alg) # None
  BY DocumentedIsResolvable DEF KeygenConsistent
<1>2. spec # None => Resolvable(params) /\ spec.kind = Kind(params.alg)
  BY DEF KeygenConsistent, ResolveKeyGenParams
<1> QED
  BY <1>1, <1>2 DEF KeygenConsistent

(* A key is made exactly for the parameters the matrix of API.md has, and   *)
(* for no name that the table merely inherits (keygen.js 61-121).           *)
THEOREM GeneratedAsDocumented == KeygenSpec => []GeneratedIffDocumented
<1> QED
  BY KeygenStaysConsistent, GeneratedFollows, PTL

(* What the generated key says of itself.                                   *)
LEMMA KeyMade ==
  ASSUME NEW p
  PROVE  LET k == GenerateVaultKey(ResolveKeyGenParams(p)) IN
           /\ k.alg = p.alg /\ k.kty = Kty(p.alg)
           /\ k.bits = IF Kind(p.alg) \notin {"aes", "hmac", "rsa"} THEN None
                       ELSE IF p.keyLength = None THEN Size(p.alg) ELSE p.keyLength
           /\ k.secret.alg = IF Kind(p.alg) = "ml-kem" THEN Variant(p.alg) ELSE p.alg
           /\ k.secret.use = Use(p.alg) /\ k.secret.keyOps = KeyOps(p.alg)
           /\ k.public = IF Kty(p.alg) = "oct" THEN None
                         ELSE [alg |-> k.secret.alg, use |-> k.secret.use]
BY DEF GenerateVaultKey, ResolveKeyGenParams, JwkAlg

LEMMA SymmetricServes ==
  ASSUME NEW p \in Params, Resolvable(p), p.alg \in GcmAlgs \cup WrapAlgs \cup HmacAlgs
  PROVE  Serves(GenerateVaultKey(ResolveKeyGenParams(p)))
<1> DEFINE k == GenerateVaultKey(ResolveKeyGenParams(p))
<1>1. /\ Kty(p.alg) = "oct" /\ Kind(p.alg) \in {"aes", "hmac"} /\ KeyOps(p.alg) # {}
      /\ Use(p.alg) = IF p.alg \in HmacAlgs THEN "sig" ELSE "enc"
  <2>1. CASE p.alg \in GcmAlgs \cup WrapAlgs
    <3>1. p.alg \notin HmacAlgs
      BY <2>1 DEF GcmAlgs, WrapAlgs, HmacAlgs
    <3> QED
      BY <2>1, <3>1, AesRow
  <2>2. CASE p.alg \in HmacAlgs
    BY <2>2, HmacRow
  <2> QED
    BY <2>1, <2>2
<1>2. /\ k.alg = p.alg /\ k.kty = "oct" /\ k.secret.alg = p.alg /\ k.public = None
      /\ k.secret.use = Use(p.alg) /\ k.secret.keyOps = KeyOps(p.alg)
      /\ k.bits = IF p.keyLength = None THEN Size(p.alg) ELSE p.keyLength
  BY <1>1, KeyMade
<1> HIDE DEF k
<1>3. /\ p.alg \in JwtAlgs <=> p.alg \in HmacAlgs
      /\ p.alg \in JweAlgs \cup GcmAlgs <=> p.alg \notin HmacAlgs
  BY DEF JwtAlgs, JweAlgs, GcmAlgs, WrapAlgs, HmacAlgs, EcSigAlgs, RsaSigAlgs, RsaEncAlgs, MlKemAlgs
<1>4. /\ k.bits \in Nat /\ k.bits % 8 = 0 /\ k.bits >= Size(p.alg) /\ Size(p.alg) \in Nat
      /\ Size(p.alg) >= 128
  <2>1. CASE p.alg \in GcmAlgs \cup WrapAlgs
    <3>1. Size(p.alg) \in {128, 192, 256} /\ Kind(p.alg) = "aes"
      BY <2>1, AesRow
    <3>2. k.bits = Size(p.alg)
      BY <1>2, <3>1 DEF Resolvable, LengthFits
    <3> QED
      BY <3>1, <3>2
  <2>2. CASE p.alg \in HmacAlgs
    <3>1. Size(p.alg) \in {256, 384, 512} /\ Kind(p.alg) = "hmac"
      BY <2>2, HmacRow
    <3>2. p.keyLength # None => HmacLength(p.alg, p.keyLength)
      BY <3>1 DEF Resolvable, LengthFits
    <3> QED
      BY <1>2, <3>1, <3>2 DEF HmacLength
  <2> QED
    BY <2>1, <2>2
<1>5. \E bits \in {256, 384, 512} :
        k.alg \in HmacAlgs =>
          k.bits >= bits /\ k.alg = CASE bits = 256 -> "HS256" [] bits = 384 -> "HS384"
                                      [] bits = 512 -> "HS512"
  <2>1. CASE p.alg \in HmacAlgs
    <3>1. /\ Size(p.alg) \in {256, 384, 512}
          /\ Size(p.alg) = 256 <=> p.alg = "HS256"
          /\ Size(p.alg) = 384 <=> p.alg = "HS384"
          /\ Size(p.alg) = 512 <=> p.alg = "HS512"
      BY <2>1, HmacRow
    <3> QED
      BY <1>2, <1>4, <3>1
  <2> QED
    BY <1>2, <2>1
<1>6. /\ k.secret.use = "sig" <=> k.alg \in JwtAlgs
      /\ k.secret.use = "enc" <=> k.alg \in JweAlgs \cup GcmAlgs
  BY <1>1, <1>2, <1>3
<1>7. /\ k.public = None <=> k.kty = "oct"
      /\ k.public # None => k.public = [alg |-> k.secret.alg, use |-> k.secret.use]
      /\ k.secret.keyOps # {} <=> k.kty = "oct"
      /\ k.secret.alg = IF k.kty = "AKP" THEN Variant(k.alg) ELSE k.alg
      /\ k.kty = "oct" => k.bits % 8 = 0 /\ k.bits >= 128
  BY <1>1, <1>2, <1>4
<1>8. Serves(k)
  BY <1>5, <1>6, <1>7 DEF Serves
<1> QED
  BY <1>8 DEF k

LEMMA AsymmetricServes ==
  ASSUME NEW p \in Params,
         p.alg \in EcSigAlgs \cup {"ECDH-ES"} \cup RsaSigAlgs \cup RsaEncAlgs \cup MlKemAlgs
  PROVE  Serves(GenerateVaultKey(ResolveKeyGenParams(p)))
<1> DEFINE k == GenerateVaultKey(ResolveKeyGenParams(p))
<1>1. /\ Kty(p.alg) \in {"EC", "RSA", "AKP"} /\ KeyOps(p.alg) = {}
      /\ Kty(p.alg) = "AKP" <=> Kind(p.alg) = "ml-kem"
      /\ Use(p.alg) = IF p.alg \in EcSigAlgs \cup RsaSigAlgs THEN "sig" ELSE "enc"
  <2>1. CASE p.alg \in EcSigAlgs \cup {"ECDH-ES"}
    <3>1. p.alg \in EcSigAlgs \cup RsaSigAlgs <=> p.alg # "ECDH-ES"
      BY <2>1 DEF EcSigAlgs, RsaSigAlgs
    <3> QED
      BY <2>1, <3>1, EcRow
  <2>2. CASE p.alg \in RsaSigAlgs \cup RsaEncAlgs
    <3>1. p.alg \notin EcSigAlgs
      BY <2>2 DEF EcSigAlgs, RsaSigAlgs, RsaEncAlgs
    <3> QED
      BY <2>2, <3>1, RsaRow
  <2>3. CASE p.alg \in MlKemAlgs
    <3>1. p.alg \notin EcSigAlgs \cup RsaSigAlgs
      BY <2>3 DEF EcSigAlgs, RsaSigAlgs, MlKemAlgs
    <3> QED
      BY <2>3, <3>1, MlKemRow
  <2> QED
    BY <2>1, <2>2, <2>3
<1>2. /\ k.alg = p.alg /\ k.kty = Kty(p.alg) /\ k.secret.use = Use(p.alg) /\ k.secret.keyOps = {}
      /\ k.secret.alg = IF Kty(p.alg) = "AKP" THEN Variant(p.alg) ELSE p.alg
      /\ k.public = [alg |-> k.secret.alg, use |-> k.secret.use]
  BY <1>1, KeyMade
<1> HIDE DEF k
<1>3. /\ p.alg \in JwtAlgs <=> p.alg \in EcSigAlgs \cup RsaSigAlgs
      /\ p.alg \in JweAlgs \cup GcmAlgs <=> p.alg \notin EcSigAlgs \cup RsaSigAlgs
      /\ p.alg \notin HmacAlgs
  BY DEF JwtAlgs, JweAlgs, GcmAlgs, WrapAlgs, HmacAlgs, EcSigAlgs, RsaSigAlgs, RsaEncAlgs, MlKemAlgs
<1>4. k.public # None
  <2>1. Variant(p.alg) \in {Variant(alg) : alg \in MlKemAlgs} \/ Kty(p.alg) # "AKP"
    <3>1. Kind(p.alg) = "ml-kem" => p.alg \in MlKemAlgs
      BY EcRow, RsaRow
    <3> QED
      BY <1>1, <3>1
  <2>2. p.alg \in Algs
    BY DEF Algs
  <2>3. k.secret.alg \in Algs \cup {Variant(alg) : alg \in MlKemAlgs} /\ k.secret.use \in {"sig", "enc"}
    BY <1>1, <1>2, <2>1, <2>2
  <2>4. k.public \in [alg : Algs \cup {Variant(alg) : alg \in MlKemAlgs}, use : {"sig", "enc"}]
    BY <1>2, <2>3
  <2> QED
    BY <2>4, KeygenAssumption
<1>5. /\ k.secret.use = "sig" <=> k.alg \in JwtAlgs
      /\ k.secret.use = "enc" <=> k.alg \in JweAlgs \cup GcmAlgs
  BY <1>1, <1>2, <1>3
<1>6. \E bits \in {256, 384, 512} :
        k.alg \in HmacAlgs =>
          k.bits >= bits /\ k.alg = CASE bits = 256 -> "HS256" [] bits = 384 -> "HS384"
                                      [] bits = 512 -> "HS512"
  BY <1>2, <1>3
<1>7. /\ k.public = None <=> k.kty = "oct"
      /\ k.public # None => k.public = [alg |-> k.secret.alg, use |-> k.secret.use]
      /\ k.secret.keyOps # {} <=> k.kty = "oct"
      /\ k.secret.alg = IF k.kty = "AKP" THEN Variant(k.alg) ELSE k.alg
      /\ k.kty = "oct" => k.bits % 8 = 0 /\ k.bits >= 128
  BY <1>1, <1>2, <1>4
<1>8. Serves(k)
  BY <1>5, <1>6, <1>7 DEF Serves
<1> QED
  BY <1>8 DEF k

LEMMA ServesFollows == KeygenConsistent => KeyServesItsAlgorithm
<1> SUFFICES ASSUME KeygenConsistent, key # None PROVE Serves(key)
  BY DEF KeyServesItsAlgorithm
<1>1. /\ params \in Params /\ Resolvable(params) /\ Kind(params.alg) # None
      /\ key = GenerateVaultKey(ResolveKeyGenParams(params))
  BY DEF KeygenConsistent, ResolveKeyGenParams
<1>2. params.alg \in Algs
  BY <1>1, NoRow DEF Params
<1> QED
  BY <1>1, <1>2, SymmetricServes, AsymmetricServes DEF Algs

(* Every generated key can be used for what its algorithm is for, by the    *)
(* operations that take it (keygen.js 123-176).                             *)
THEOREM KeysServeTheirAlgorithms == KeygenSpec => []KeyServesItsAlgorithm
<1> QED
  BY KeygenStaysConsistent, ServesFollows, PTL

-----------------------------------------------------------------------------
(* Induction over the naturals, and recursion along a sequence              *)

(* A set of naturals that is not empty has a least element, because the     *)
(* order on the naturals is well founded.                                   *)
LEMMA LeastNat ==
  ASSUME NEW S, S \subseteq Nat, S # {}
  PROVE  \E x \in S : \A y \in S : x <= y
<1> DEFINE R == {ss \in Nat \X Nat : ss[1] < ss[2]}
<1>1. IsWellFoundedOn(R, Nat)
  BY ONLY NatLessThanWellFounded, Zenon DEF OpToRel
<1>2. PICK x \in S : \A y \in S : ~ (<<y, x>> \in R)
  <2> HIDE DEF R
  <2> QED
    BY <1>1, WFMin
<1>3. \A y \in S : x <= y
  <2> SUFFICES ASSUME NEW y \in S, y < x PROVE FALSE
    OBVIOUS
  <2>1. <<y, x>> \in Nat \X Nat /\ <<y, x>>[1] < <<y, x>>[2]
    OBVIOUS
  <2>2. <<y, x>> \in R
    BY ONLY <2>1
  <2> QED
    BY <1>2, <2>2
<1> QED
  BY <1>3

(* Induction over the naturals, about a set instead of a predicate: a set   *)
(* that has 0 and with every number the next one has them all.              *)
LEMMA NatSetInduction ==
  ASSUME NEW S, 0 \in S, \A n \in Nat : n \in S => n + 1 \in S
  PROVE  Nat \subseteq S
<1>1. SUFFICES ASSUME Nat \ S # {} PROVE FALSE
  OBVIOUS
<1>2. PICK x \in Nat \ S : \A y \in Nat \ S : x <= y
  BY <1>1, LeastNat
<1>3. x - 1 \in Nat /\ ~(x <= x - 1)
  BY <1>2
<1> QED
  BY <1>2, <1>3

(* What holds at the start of a recursion and passes from each step to the  *)
(* next holds at every step.                                                *)
LEMMA Along ==
  ASSUME NEW N \in Nat, NEW h, NEW T, h[0] \in T,
         \A i \in 1..N : h[i - 1] \in T => h[i] \in T
  PROVE  \A i \in 0..N : h[i] \in T
<1> DEFINE S == {n \in Nat : n <= N => h[n] \in T}
<1>1. 0 \in S
  OBVIOUS
<1>2. ASSUME NEW n \in Nat, n \in S PROVE n + 1 \in S
  <2>1. CASE n + 1 <= N
    <3>1. n + 1 \in 1..N /\ (n + 1) - 1 = n
      BY <2>1
    <3> QED
      BY <3>1, <1>2
  <2> QED
    BY <2>1
<1>3. Nat \subseteq S
  <2> HIDE DEF S
  <2> QED
    BY <1>1, <1>2, NatSetInduction
<1> QED
  BY <1>3

(* f is the first N rounds of a recursion from base on.                     *)
Iterates(f, T, base, N, step) ==
  f \in [0..N -> T] /\ f[0] = base /\ \A i \in 1..N : f[i] = step[<<i, f[i - 1]>>]

(* Such a recursion has a solution.                                         *)
LEMMA Iteration ==
  ASSUME NEW T, NEW base \in T, NEW N \in Nat, NEW step \in [(1..N) \X T -> T]
  PROVE  \E f : Iterates(f, T, base, N, step)
<1> DEFINE Upto(n, f) == f[0] = base /\ \A i \in 1..n : f[i] = step[<<i, f[i - 1]>>]
           S == {n \in Nat : n <= N => \E f \in [0..n -> T] : Upto(n, f)}
<1>1. 0 \in S
  <2> DEFINE g == [i \in 0..0 |-> base]
  <2>1. g \in [0..0 -> T]
    OBVIOUS
  <2>2. Upto(0, g)
    OBVIOUS
  <2> QED
    BY <2>1, <2>2
<1>2. ASSUME NEW n \in Nat, n \in S PROVE n + 1 \in S
  <2> SUFFICES ASSUME n + 1 <= N PROVE \E f \in [0..(n + 1) -> T] : Upto(n + 1, f)
    OBVIOUS
  <2>1. PICK f \in [0..n -> T] : Upto(n, f)
    BY <1>2
  <2> DEFINE g == [i \in 0..(n + 1) |-> IF i = n + 1 THEN step[<<n + 1, f[n]>>] ELSE f[i]]
  <2>2. g \in [0..(n + 1) -> T]
    OBVIOUS
  <2>3. g[n + 1] = step[<<n + 1, g[n]>>] /\ \A i \in 0..n : g[i] = f[i]
    <3>1. \A i \in 0..n : g[i] = f[i]
      OBVIOUS
    <3>2. g[n + 1] = step[<<n + 1, f[n]>>] /\ n \in 0..n
      OBVIOUS
    <3> HIDE DEF g
    <3> QED
      BY <3>1, <3>2
  <2>4. ASSUME NEW i \in 1..(n + 1) PROVE g[i] = step[<<i, g[i - 1]>>]
    <3> HIDE DEF g
    <3>1. CASE i = n + 1
      <4>1. i - 1 = n
        BY <3>1
      <4> QED
        BY <2>3, <3>1, <4>1
    <3>2. CASE i \in 1..n
      <4>1. i - 1 \in 0..n /\ i \in 0..n
        BY <3>2
      <4> QED
        BY <2>1, <2>3, <3>2, <4>1
    <3> QED
     BY <3>1, <3>2
  <2>5. g[0] = base
    BY <2>1
  <2> QED
    BY <2>2, <2>4, <2>5
<1>3. Nat \subseteq S
  <2> HIDE DEF S
  <2> QED
    BY <1>1, <1>2, NatSetInduction
<1> QED
  BY <1>3 DEF Iterates

-----------------------------------------------------------------------------
(* The route of a call                                                      *)

(* The addresses kept of a header, from the left: blank ones are dropped,   *)
(* the others normalised (clientip.js 23-27).                               *)
LEMMA HopsSteps ==
  ASSUME NEW T, NEW xff \in Seq(T), \A x \in T : NormIp(x) \in T
  PROVE  \E kept \in [0..Len(xff) -> Seq(T)] :
            /\ kept[0] = <<>>
            /\ \A i \in 1..Len(xff) : kept[i] = IF NormIp(xff[i]) = Blank THEN kept[i - 1]
                                                 ELSE Append(kept[i - 1], NormIp(xff[i]))
            /\ Hops(xff) = kept[Len(xff)]
<1> DEFINE N == Len(xff)
           D(f) == [i \in 0..Len(xff) |->
              IF i = 0 THEN <<>>
              ELSE IF NormIp(xff[i]) = Blank THEN f[i - 1]
              ELSE Append(f[i - 1], NormIp(xff[i]))]
           h == CHOOSE f : f = D(f)
<1>1. PICK f \in [0..N -> Seq(T)] : f = D(f)
  <2> DEFINE step == [p \in (1..N) \X Seq(T) |-> IF NormIp(xff[p[1]]) = Blank THEN p[2]
                                               ELSE Append(p[2], NormIp(xff[p[1]]))]
  <2>1. step \in [(1..N) \X Seq(T) -> Seq(T)]
    <3>1. ASSUME NEW p \in (1..N) \X Seq(T) PROVE xff[p[1]] \in T /\ p[2] \in Seq(T)
      OBVIOUS
    <3> QED
      BY <3>1
  <2>2. \A i \in 1..N, s \in Seq(T) : step[<<i, s>>] = IF NormIp(xff[i]) = Blank THEN s
                                                       ELSE Append(s, NormIp(xff[i]))
    OBVIOUS
  <2> HIDE DEF step
  <2>3. PICK f \in [0..N -> Seq(T)] : f[0] = <<>> /\ \A i \in 1..N : f[i] = step[<<i, f[i - 1]>>]
    <3>1. N \in Nat /\ <<>> \in Seq(T)
      OBVIOUS
    <3> HIDE DEF N
    <3>2. PICK f : Iterates(f, Seq(T), <<>>, N, step)
      BY <2>1, <3>1, Iteration
    <3> QED
      BY <3>2 DEF Iterates
  <2>4. ASSUME NEW i \in 0..N PROVE f[i] = D(f)[i]
    <3>1. CASE i = 0
      BY <3>1, <2>3
    <3>2. CASE i # 0
      <4>1. i \in 1..N /\ i - 1 \in 0..N
        BY <3>2
      <4> QED
        BY <4>1, <2>2, <2>3, <3>2
    <3> QED
      BY <3>1, <3>2
  <2>5. f = D(f)
    BY <2>4
  <2> QED
    BY <2>5
<1>2. h = D(h)
  <2> HIDE DEF D
  <2> QED
    BY <1>1, Zenon
<1>3. Hops(xff) = h[Len(xff)]
  BY Zenon DEF Hops
<1> HIDE DEF h
<1>4. /\ h[0] = <<>>
      /\ \A i \in 1..N : h[i] = IF NormIp(xff[i]) = Blank THEN h[i - 1]
                                ELSE Append(h[i - 1], NormIp(xff[i]))
  <2>1. \A i \in 0..N : h[i] = D(h)[i]
    BY <1>2
  <2>2. \A i \in 1..N : i \in 0..N /\ i # 0
    OBVIOUS
  <2> QED
    BY <2>1, <2>2
<1>5. h = [i \in 0..N |-> h[i]]
  BY <1>2
<1>6. \A i \in 0..N : h[i] \in Seq(T)
  <2>1. N \in Nat /\ <<>> \in Seq(T)
    OBVIOUS
  <2>2. ASSUME NEW i \in 1..N, h[i - 1] \in Seq(T) PROVE h[i] \in Seq(T)
    <3>1. NormIp(xff[i]) \in T
      OBVIOUS
    <3> HIDE DEF D
    <3>2. h[i] = h[i - 1] \/ h[i] = Append(h[i - 1], NormIp(xff[i]))
      BY <1>4
    <3>3. \A s \in Seq(T), x \in T : Append(s, x) \in Seq(T)
      OBVIOUS
    <3> QED
      BY ONLY <2>2, <3>1, <3>2, <3>3
  <2> HIDE DEF D
  <2> QED
    BY ONLY <1>4, <2>1, <2>2, Along
<1> QED
  BY <1>3, <1>4, <1>5, <1>6

(* An address added to a header is the last one kept of it, unless it is    *)
(* blank.                                                                   *)
LEMMA HopsAppend ==
  ASSUME NEW T, \A x \in T : NormIp(x) \in T, NEW xff \in Seq(T), NEW x \in T
  PROVE  /\ Hops(xff) \in Seq(T)
         /\ Hops(Append(xff, x)) = IF NormIp(x) = Blank THEN Hops(xff)
                                   ELSE Append(Hops(xff), NormIp(x))
<1> DEFINE y == Append(xff, x)
           n == Len(xff)
<1>1. /\ y \in Seq(T) /\ n \in Nat /\ Len(y) = n + 1 /\ y[n + 1] = x
      /\ \A i \in 1..n : y[i] = xff[i]
  OBVIOUS
<1>2. PICK k \in [0..n -> Seq(T)] :
            /\ k[0] = <<>>
            /\ \A i \in 1..n : k[i] = IF NormIp(xff[i]) = Blank THEN k[i - 1]
                                      ELSE Append(k[i - 1], NormIp(xff[i]))
            /\ Hops(xff) = k[n]
  BY HopsSteps
<1>3. PICK l \in [0..Len(y) -> Seq(T)] :
            /\ l[0] = <<>>
            /\ \A i \in 1..Len(y) : l[i] = IF NormIp(y[i]) = Blank THEN l[i - 1]
                                           ELSE Append(l[i - 1], NormIp(y[i]))
            /\ Hops(y) = l[Len(y)]
  <2> HIDE DEF y
  <2> QED
    BY <1>1, HopsSteps
<1> HIDE DEF y, n
<1>4. \A i \in 0..n : l[i] = k[i]
  <2> DEFINE S == {i \in Nat : i <= n => l[i] = k[i]}
  <2>1. 0 \in S
    BY <1>2, <1>3
  <2>2. ASSUME NEW i \in Nat, i \in S PROVE i + 1 \in S
    <3>1. CASE i + 1 <= n
      <4>1. i + 1 \in 1..n /\ i + 1 \in 1..Len(y) /\ (i + 1) - 1 = i
        BY <1>1, <3>1
      <4>2. l[i] = k[i] /\ y[i + 1] = xff[i + 1]
        BY <1>1, <2>2, <4>1
      <4>3. l[i + 1] = k[i + 1]
        BY <1>2, <1>3, <4>1, <4>2
      <4> QED
        BY <4>3
    <3> QED
      BY <3>1, <1>1
  <2>3. Nat \subseteq S
    <3> HIDE DEF S
    <3> QED
      BY <2>1, <2>2, NatSetInduction
  <2> QED
    BY <2>3, <1>1
<1>5. n + 1 \in 1..Len(y) /\ (n + 1) - 1 = n /\ n \in 0..n
  BY <1>1
<1>6. Hops(y) = IF NormIp(x) = Blank THEN k[n] ELSE Append(k[n], NormIp(x))
  BY <1>1, <1>3, <1>4, <1>5
<1> QED
  BY <1>2, <1>5, <1>6 DEF y

(* Normalising a text yields a text, and none that is blank of one that is  *)
(* not (clientip.js 39-47).                                                 *)
LEMMA NormText ==
  ASSUME NEW text \in Text
  PROVE  NormIp(text) \in Text /\ (NormIp(text) = Blank <=> text = Blank)
<1>1. text \in Seq(Field) /\ text # <<>>
  BY DEF Text
<1>2. CASE IsMapped(text)
  <2>1. Len(text) = 4 /\ text[4] \in Field /\ text[4].t = "quad" /\ NormIp(text) = <<text[4]>>
    <3>1. Len(text) = 4 /\ text[4].t = "quad"
      BY <1>2 DEF IsMapped
    <3>2. text[4] \in Field
      <4>1. \A i \in 1..Len(text) : text[i] \in Field
        BY <1>1
      <4> QED
        BY <3>1, <4>1
    <3> QED
      BY <1>2, <3>1, <3>2 DEF NormIp
  <2>2. text[4] # Empty
    BY <2>1 DEF Empty
  <2>3. <<text[4]>> \in Seq(Field) /\ <<text[4]>> # <<>> /\ <<text[4]>> # Blank
    BY <2>1, <2>2 DEF Blank
  <2>4. text # Blank
    BY <2>1 DEF Blank
  <2> QED
    BY <2>1, <2>3, <2>4 DEF Text
<1>3. CASE ~ IsMapped(text)
  BY <1>3 DEF NormIp
<1> QED
  BY <1>2, <1>3

(* The header ends with what the proxies so far were called from, the       *)
(* client's address first of these.                                         *)
HeaderTrue ==
  passed > 0 => LET kept == Hops(header) IN
                  /\ peer = Proxy
                  /\ Len(kept) >= passed
                  /\ kept[Len(kept) - passed + 1] = NormIp(client)

(* What makes the route inductive: the header tells the truth from the      *)
(* client's own address on.                                                 *)
RouteConsistent ==
  /\ client \in Text /\ peer \in Text /\ header \in Seq(Text)
  /\ chain \in Nat /\ passed \in 0..chain /\ hops = chain
  /\ chain > 0 => client # Blank
  /\ passed = 0 => peer = client
  /\ HeaderTrue
  /\ RouteYieldsClient

(* Whoever sends whatever header through however many proxies, the vault    *)
(* takes the client's own address for the client, if it is told the true    *)
(* length of the chain and a connection through a proxy has an address      *)
(* (clientip.js 21-37).                                                     *)
THEOREM ClientIsDerived ==
  ASSUME \A call \in Calls : call.hops = call.chain /\ (call.chain > 0 => call.client # Blank)
  PROVE  AddressSpec => []RouteYieldsClient
<1>1. ASSUME AddressInit PROVE RouteConsistent
  <2>1. PICK call \in Calls : Sent(call)
    BY <1>1 DEF AddressInit
  <2>2. /\ call.client \in Text /\ call.header \in Seq(Text) /\ call.chain \in Nat
        /\ call.hops = call.chain /\ (call.chain > 0 => call.client # Blank)
    BY CallsAssumption
  <2> QED
    BY <2>1, <2>2 DEF Sent, RouteConsistent, HeaderTrue, RouteYieldsClient
<1>2. ASSUME RouteConsistent, [AddressNext]_addressVars PROVE RouteConsistent'
  <2> USE <1>2 DEF RouteConsistent
  <2>1. CASE Forward
    <3>1. /\ passed' = passed + 1 /\ header' = Append(header, peer) /\ peer' = Proxy
          /\ passed < chain /\ Proxy \in Text /\ Proxy # Blank
          /\ UNCHANGED <<client, chain, hops, derived, verdict>>
      BY <2>1, CallsAssumption DEF Forward, Blank
    <3>2. peer # Blank
      BY <3>1, CallsAssumption DEF HeaderTrue
    <3> DEFINE kept == Hops(header)
    <3>3. kept \in Seq(Text) /\ Hops(header') = Append(kept, NormIp(peer)) /\ NormIp(peer) \in Text
      BY <3>1, <3>2, NormText, HopsAppend
    <3>4. HeaderTrue'
      <4> HIDE DEF kept
      <4> DEFINE more == Append(kept, NormIp(peer))
      <4>1. /\ Len(more) = Len(kept) + 1 /\ more[Len(kept) + 1] = NormIp(peer)
            /\ \A i \in 1..Len(kept) : more[i] = kept[i]
        BY <3>3
      <4>2. CASE passed = 0
        BY <3>1, <3>3, <4>1, <4>2 DEF HeaderTrue
      <4>3. CASE passed > 0
        <5>1. Len(kept) >= passed /\ kept[Len(kept) - passed + 1] = NormIp(client)
          BY <4>3 DEF HeaderTrue, kept
        <5>2. Len(kept) - passed + 1 \in 1..Len(kept)
          BY <3>3, <4>3, <5>1
        <5>3. Len(more) - passed' + 1 = Len(kept) - passed + 1 /\ Len(more) >= passed'
          BY <3>1, <3>3, <4>1, <5>1
        <5> HIDE DEF more
        <5>4. more[Len(more) - passed' + 1] = NormIp(client)
          BY <4>1, <5>1, <5>2, <5>3
        <5> QED
          BY <3>1, <3>3, <5>3, <5>4 DEF HeaderTrue, more
      <4> QED
        BY <4>2, <4>3
    <3>5. header' \in Seq(Text)
      BY <3>1
    <3> QED
      BY <3>1, <3>4, <3>5 DEF RouteYieldsClient
  <2>2. CASE Judge
    <3> DEFINE kept == Hops(header)
               list == Hopwise(peer, header)
    <3>1. /\ passed = chain /\ derived' = DeriveClientIp(peer, header, chain)
          /\ UNCHANGED <<client, chain, hops, passed, peer, header>>
      BY <2>2 DEF Judge
    <3>2. kept \in Seq(Text)
      BY <3>1, NormText, HopsAppend
    <3>3. list = <<NormIp(peer)>> \o Reverse(kept) /\ NormIp(peer) \in Text
      BY NormText DEF Hopwise
    <3> HIDE DEF kept
    <3>4. Reverse(kept) \in Seq(Text) /\ Len(Reverse(kept)) = Len(kept)
      BY <3>2 DEF Reverse
    <3>5. /\ Len(list) = Len(kept) + 1 /\ list[1] = NormIp(peer)
          /\ \A i \in 1..Len(kept) : list[i + 1] = Reverse(kept)[i]
      BY <3>2, <3>3, <3>4
    <3> HIDE DEF list
    <3>6. chain <= Len(kept)
      BY <3>1, <3>2 DEF HeaderTrue, kept
    <3>7. derived' = list[chain + 1]
      <4>1. ~(chain > Len(list) - 1)
        BY <3>2, <3>5, <3>6
      <4> QED
        BY <3>1, <4>1 DEF DeriveClientIp, list
    <3>8. derived' = NormIp(client)
      <4>1. CASE chain = 0
        BY <3>1, <3>5, <3>7, <4>1
      <4>2. CASE chain > 0
        <5>1. chain \in 1..Len(kept)
          BY <3>2, <3>6, <4>2
        <5>2. Reverse(kept)[chain] = kept[(Len(kept) - chain) + 1]
          BY <3>2, <5>1 DEF Reverse
        <5>3. kept[Len(kept) - chain + 1] = NormIp(client)
          BY <3>1, <4>2 DEF HeaderTrue, kept
        <5> QED
          BY <3>5, <3>7, <5>1, <5>2, <5>3
      <4> QED
        BY <4>1, <4>2
    <3> QED
      BY <3>1, <3>8 DEF RouteYieldsClient, HeaderTrue
  <2>3. CASE UNCHANGED addressVars
    BY <2>3 DEF addressVars, RouteYieldsClient, HeaderTrue
  <2> QED
    BY <2>1, <2>2, <2>3 DEF AddressNext
<1>3. RouteConsistent => RouteYieldsClient
  BY DEF RouteConsistent
<1> QED
  BY <1>1, <1>2, <1>3, PTL DEF AddressSpec

-----------------------------------------------------------------------------
(* Numbers                                                                  *)

(* A positive multiple of b is at least b.                                  *)
LEMMA ScaledUp == ASSUME NEW a \in Nat, NEW b \in Nat \ {0}, a > 0 PROVE a * b >= b
<1>1. a * b = (a - 1) * b + b
  OBVIOUS
<1>2. (a - 1) * b >= 0
  OBVIOUS
<1> QED
  BY <1>1, <1>2

(* Quotient and remainder make up the number.                               *)
LEMMA DivMod ==
  ASSUME NEW a \in Nat, NEW b \in Nat \ {0}
  PROVE  /\ a \div b \in Nat /\ a % b \in 0..(b - 1)
         /\ a = (a \div b) * b + (a % b)
OBVIOUS

(* They are the only ones that do.                                          *)
LEMMA DivUnique ==
  ASSUME NEW b \in Nat \ {0}, NEW q \in Nat, NEW r \in Nat, r < b
  PROVE  (q * b + r) \div b = q /\ (q * b + r) % b = r
<1> DEFINE a == q * b + r
           p == a \div b
           s == a % b
<1>1. a \in Nat /\ p \in Nat /\ s \in 0..(b - 1) /\ a = p * b + s
  <2>1. a \in Nat
    OBVIOUS
  <2> HIDE DEF a
  <2> QED
    BY <2>1, DivMod
<1> HIDE DEF p, s
<1>2. (p - q) * b = r - s /\ (q - p) * b = s - r
  BY <1>1
<1>3. ~(p > q)
  <2>1. SUFFICES ASSUME p > q PROVE FALSE
    OBVIOUS
  <2>2. (p - q) * b >= b
    BY <2>1, <1>1, ScaledUp
  <2> QED
    BY <1>1, <1>2, <2>2
<1>4. ~(q > p)
  <2>1. SUFFICES ASSUME q > p PROVE FALSE
    OBVIOUS
  <2>2. (q - p) * b >= b
    BY <2>1, <1>1, ScaledUp
  <2> QED
    BY <1>1, <1>2, <2>2
<1>5. p = q
  BY <1>1, <1>3, <1>4
<1>6. s = r
  BY <1>1, <1>2, <1>5
<1> QED
  BY <1>5, <1>6 DEF p, s

(* Dividing twice is dividing by the product.                               *)
LEMMA DivDiv ==
  ASSUME NEW a \in Nat, NEW b \in Nat \ {0}, NEW c \in Nat \ {0}
  PROVE  (a \div b) \div c = a \div (b * c)
<1> DEFINE p == a \div b
           r == a % b
           q == p \div c
           t == p % c
<1>1. p \in Nat /\ r \in 0..(b - 1) /\ a = p * b + r
  BY DivMod
<1>2. q \in Nat /\ t \in 0..(c - 1) /\ p = q * c + t
  <2> HIDE DEF p
  <2> QED
    BY <1>1, DivMod
<1> HIDE DEF p, r, q, t
<1>3. a = q * (b * c) + (t * b + r)
  BY <1>1, <1>2
<1>4. b * c \in Nat \ {0} /\ t * b + r \in Nat
  BY <1>1, <1>2
<1>5. t * b + r < b * c
  <2>1. b * c = (c - t) * b + t * b
    BY <1>2
  <2>2. (c - t) * b >= b
    BY <1>2, ScaledUp
  <2>3. b * c \in Nat /\ t * b \in Nat /\ (c - t) * b \in Nat
    BY <1>2
  <2> QED
    BY <1>1, <2>1, <2>2, <2>3
<1>6. a \div (b * c) = q
  <2> DEFINE bc == b * c
             rest == t * b + r
  <2>1. bc \in Nat \ {0} /\ rest \in Nat /\ rest < bc
    BY <1>4, <1>5
  <2> HIDE DEF bc, rest
  <2>2. (q * bc + rest) \div bc = q
    BY <1>2, <2>1, DivUnique
  <2> QED
    BY <1>3, <2>2 DEF bc, rest
<1> QED
  BY <1>6 DEF q, p

(* The quotient of a number below c * b is below c.                         *)
LEMMA DivBelow ==
  ASSUME NEW a \in Nat, NEW b \in Nat \ {0}, NEW c \in Nat, a < c * b
  PROVE  a \div b < c
<1> DEFINE p == a \div b
<1>1. p \in Nat /\ a % b \in 0..(b - 1) /\ a = p * b + (a % b)
  BY DivMod
<1> HIDE DEF p
<1>2. SUFFICES ASSUME p >= c PROVE FALSE
  BY <1>1 DEF p
<1>3. p * b = (p - c) * b + c * b /\ (p - c) * b >= 0
  BY <1>1, <1>2
<1>4. p * b \in Nat /\ c * b \in Nat
  BY <1>1
<1> QED
  BY <1>1, <1>3, <1>4

(* f repeats step from base on, without an end.                             *)
RepeatsOn(f, T, base, step) ==
  f \in [Nat -> T] /\ f[0] = base /\ \A n \in Nat : f[n + 1] = step[f[n]]

(* Such a repetition exists.                                                *)
LEMMA NatIteration ==
  ASSUME NEW T, NEW base \in T, NEW step \in [T -> T]
  PROVE  \E f : RepeatsOn(f, T, base, step)
<1> DEFINE Good(n, f) == f \in [0..n -> T] /\ f[0] = base /\ \A i \in 1..n : f[i] = step[f[i - 1]]
           F(n) == CHOOSE f : Good(n, f)
           g == [n \in Nat |-> F(n)[n]]
<1>1. ASSUME NEW n \in Nat PROVE \E f : Good(n, f)
  <2> DEFINE st == [p \in (1..n) \X T |-> step[p[2]]]
  <2>1. st \in [(1..n) \X T -> T] /\ \A i \in 1..n, x \in T : st[<<i, x>>] = step[x]
    OBVIOUS
  <2> HIDE DEF st
  <2>2. PICK f : Iterates(f, T, base, n, st)
    BY <2>1, Iteration
  <2>3. f \in [0..n -> T] /\ f[0] = base /\ \A i \in 1..n : f[i] = st[<<i, f[i - 1]>>]
    BY <2>2 DEF Iterates
  <2>4. ASSUME NEW i \in 1..n PROVE f[i] = step[f[i - 1]]
    <3>1. i - 1 \in 0..n
      OBVIOUS
    <3>2. f[i - 1] \in T
      BY <2>3, <3>1
    <3> QED
      BY <2>1, <2>3, <3>2
  <2>5. Good(n, f)
    BY <2>3, <2>4
  <2> HIDE DEF Good
  <2> QED
    BY <2>5
<1>2. ASSUME NEW n \in Nat PROVE Good(n, F(n))
  <2> HIDE DEF Good
  <2> QED
    BY <1>1
<1>3. ASSUME NEW n \in Nat PROVE \A i \in 0..n : F(n)[i] = F(n + 1)[i]
  <2>1. Good(n, F(n)) /\ Good(n + 1, F(n + 1))
    <3>1. n + 1 \in Nat
      OBVIOUS
    <3> HIDE DEF Good, F
    <3> QED
      BY <1>2, <3>1
  <2> HIDE DEF F
  <2> DEFINE S == {i \in Nat : i <= n => F(n)[i] = F(n + 1)[i]}
  <2>2. 0 \in S
    BY <2>1
  <2>3. ASSUME NEW i \in Nat, i \in S PROVE i + 1 \in S
    <3>1. CASE i + 1 <= n
      <4>1. i + 1 \in 1..n /\ i + 1 \in 1..(n + 1) /\ (i + 1) - 1 = i
        BY <3>1
      <4>2. F(n)[i] = F(n + 1)[i]
        BY <2>3, <3>1
      <4>3. F(n)[i + 1] = F(n + 1)[i + 1]
        BY <2>1, <4>1, <4>2
      <4> QED
        BY <4>3
    <3> QED
      BY <3>1
  <2>4. Nat \subseteq S
    <3> HIDE DEF S
    <3> QED
      BY <2>2, <2>3, NatSetInduction
  <2> QED
    BY <2>4
<1>4. g \in [Nat -> T]
  <2>1. \A n \in Nat : F(n)[n] \in T
    <3> HIDE DEF F
    <3> QED
      BY <1>2
  <2> QED
    BY <2>1
<1>5. g[0] = base
  <2> HIDE DEF F
  <2> QED
    BY <1>2
<1>6. ASSUME NEW n \in Nat PROVE g[n + 1] = step[g[n]]
  <2> HIDE DEF F
  <2>1. n + 1 \in 1..(n + 1) /\ (n + 1) - 1 = n /\ n \in 0..n /\ n + 1 \in Nat
    OBVIOUS
  <2>2. F(n + 1)[n + 1] = step[F(n + 1)[n]]
    BY <1>2, <2>1
  <2>3. F(n + 1)[n] = F(n)[n]
    BY <1>3, <2>1
  <2> QED
    BY <2>1, <2>2, <2>3
<1> QED
  BY <1>4, <1>5, <1>6 DEF RepeatsOn

(* What the recursive definition of Pow2 says, and that it defines a        *)
(* function.                                                                *)
LEMMA Powers ==
  /\ Pow2 \in [Nat -> Nat \ {0}]
  /\ Pow2[0] = 1
  /\ \A n \in Nat : Pow2[n + 1] = 2 * Pow2[n]
<1> DEFINE D(f) == [n \in Nat |-> IF n = 0 THEN 1 ELSE 2 * f[n - 1]]
<1>1. PICK f \in [Nat -> Nat \ {0}] : f[0] = 1 /\ \A n \in Nat : f[n + 1] = 2 * f[n]
  <2> DEFINE step == [x \in Nat \ {0} |-> 2 * x]
  <2>1. step \in [Nat \ {0} -> Nat \ {0}] /\ 1 \in Nat \ {0}
    OBVIOUS
  <2>2. \A x \in Nat \ {0} : step[x] = 2 * x
    OBVIOUS
  <2> HIDE DEF step
  <2>3. PICK f : RepeatsOn(f, Nat \ {0}, 1, step)
    BY <2>1, NatIteration
  <2> QED
    BY <2>2, <2>3 DEF RepeatsOn
<1>2. f = D(f)
  <2>1. ASSUME NEW n \in Nat PROVE f[n] = D(f)[n]
    <3>1. CASE n = 0
      BY <3>1, <1>1
    <3>2. CASE n # 0
      <4>1. n - 1 \in Nat /\ (n - 1) + 1 = n
        BY <3>2
      <4>2. f[n] = 2 * f[n - 1]
        BY <4>1, <1>1
      <4> QED
        BY <3>2, <4>2
    <3> QED
      BY <3>1, <3>2
  <2> QED
    BY <2>1
<1>3. Pow2 = D(Pow2)
  <2>1. Pow2 = CHOOSE h : h = D(h)
    BY Zenon DEF Pow2
  <2> HIDE DEF D
  <2> QED
    BY <1>2, <2>1, Zenon
<1>4. Pow2[0] = 1 /\ \A n \in Nat : Pow2[n + 1] = 2 * Pow2[n]
  <2>1. \A n \in Nat : Pow2[n] = D(Pow2)[n]
    BY <1>3
  <2>2. \A n \in Nat : n + 1 \in Nat /\ n + 1 # 0 /\ (n + 1) - 1 = n
    OBVIOUS
  <2> QED
    BY <2>1, <2>2
<1>5. Nat \subseteq {n \in Nat : Pow2[n] \in Nat \ {0}}
  <2> DEFINE S == {n \in Nat : Pow2[n] \in Nat \ {0}}
  <2>1. 0 \in S /\ \A n \in Nat : n \in S => n + 1 \in S
    BY <1>4
  <2> HIDE DEF S
  <2>2. Nat \subseteq S
    BY <2>1, NatSetInduction
  <2> QED
    BY <2>2 DEF S
<1>6. Pow2 = [n \in Nat |-> Pow2[n]]
  BY <1>3
<1> QED
  BY <1>4, <1>5, <1>6

(* The power of a sum is the product of the powers.                         *)
LEMMA PowerSum ==
  ASSUME NEW a \in Nat, NEW b \in Nat
  PROVE  Pow2[a + b] = Pow2[a] * Pow2[b]
<1> DEFINE S == {n \in Nat : Pow2[a + n] = Pow2[a] * Pow2[n]}
<1>1. 0 \in S
  BY Powers
<1>2. ASSUME NEW n \in Nat, n \in S PROVE n + 1 \in S
  <2>1. Pow2[a + (n + 1)] = 2 * Pow2[a + n]
    <3>1. a + n \in Nat /\ a + (n + 1) = (a + n) + 1
      OBVIOUS
    <3> QED
      BY <3>1, Powers
  <2>2. Pow2[n + 1] = 2 * Pow2[n] /\ Pow2[n] \in Nat /\ Pow2[a] \in Nat
    BY Powers
  <2>3. Pow2[a + n] = Pow2[a] * Pow2[n]
    BY <1>2
  <2>4. 2 * (Pow2[a] * Pow2[n]) = Pow2[a] * (2 * Pow2[n])
    BY <2>2
  <2> QED
    BY <2>1, <2>2, <2>3, <2>4
<1>3. Nat \subseteq S
  <2> HIDE DEF S
  <2> QED
    BY <1>1, <1>2, NatSetInduction
<1> QED
  BY <1>3

(* Every power of two is a positive number.                                 *)
LEMMA PowerIn == ASSUME NEW n \in Nat PROVE Pow2[n] \in Nat \ {0}
BY Powers

(* Multiplying keeps the order.                                             *)
LEMMA Monotone ==
  ASSUME NEW a \in Nat, NEW b \in Nat, a <= b, NEW c \in Nat
  PROVE  a * c <= b * c
<1>1. b * c = (b - a) * c + a * c
  OBVIOUS
<1>2. (b - a) * c \in Nat /\ a * c \in Nat /\ b * c \in Nat
  OBVIOUS
<1> QED
  BY <1>1, <1>2

-----------------------------------------------------------------------------
(* Digits                                                                   *)

(* A sequence is the function of its elements, ...                          *)
LEMMA Elements ==
  ASSUME NEW T, NEW s \in Seq(T)
  PROVE  Len(s) \in Nat /\ s = [i \in 1..Len(s) |-> s[i]] /\ \A i \in 1..Len(s) : s[i] \in T
OBVIOUS

(* ... and such a function is a sequence.                                   *)
LEMMA FromElements ==
  ASSUME NEW T, NEW N \in Nat, NEW s, s = [i \in 1..N |-> s[i]], \A i \in 1..N : s[i] \in T
  PROVE  s \in Seq(T) /\ Len(s) = N
OBVIOUS

(* Digits are numbers.                                                      *)
LEMMA DigitsAreNat ==
  ASSUME NEW P \in Nat, NEW s \in Seq(0..(P - 1))
  PROVE  s \in Seq(Nat)
<1>1. \A i \in 1..Len(s) : s[i] \in Nat
  <2>1. \A i \in 1..Len(s) : s[i] \in 0..(P - 1)
    BY Elements
  <2>2. \A d \in 0..(P - 1) : d \in Nat
    OBVIOUS
  <2> QED
    BY <2>1, <2>2
<1> QED
  BY <1>1, Elements, FromElements

(* v are the values of the first digits, of none, of one and so on up to    *)
(* all of them.                                                             *)
Accumulates(v, digits, bits) ==
  /\ v \in [0..Len(digits) -> Nat] /\ v[0] = 0
  /\ \A i \in 1..Len(digits) : v[i] = v[i - 1] * Pow2[bits] + digits[i]
  /\ Value(digits, bits) = v[Len(digits)]

(* Value adds one digit at a time (ipmatch.js 26-33, 73-79).                *)
LEMMA ValueSteps ==
  ASSUME NEW digits \in Seq(Nat), NEW bits \in Nat
  PROVE  \E v : Accumulates(v, digits, bits)
<1> DEFINE N == Len(digits)
           P == Pow2[bits]
           D(f) == [i \in 0..Len(digits) |-> IF i = 0 THEN 0 ELSE f[i - 1] * Pow2[bits] + digits[i]]
           h == CHOOSE f : f = D(f)
<1>1. N \in Nat /\ P \in Nat /\ \A i \in 1..N : digits[i] \in Nat
  BY PowerIn, Elements
<1>2. PICK f \in [0..N -> Nat] : f = D(f)
  <2> DEFINE step == [p \in (1..N) \X Nat |-> p[2] * P + digits[p[1]]]
  <2>1. step \in [(1..N) \X Nat -> Nat]
    <3>1. ASSUME NEW p \in (1..N) \X Nat PROVE p[2] * P + digits[p[1]] \in Nat
      <4> HIDE DEF N, P
      <4>1. digits[p[1]] \in Nat /\ p[2] \in Nat
        BY <1>1
      <4>2. \A a, b, c \in Nat : a * b + c \in Nat
        OBVIOUS
      <4> QED
        BY <1>1, <4>1, <4>2
    <3> QED
      BY <3>1
  <2>2. \A i \in 1..N, s \in Nat : step[<<i, s>>] = s * P + digits[i]
    OBVIOUS
  <2> HIDE DEF step, N
  <2>3. PICK f : Iterates(f, Nat, 0, N, step)
    BY <2>1, <1>1, Iteration
  <2>4. f \in [0..N -> Nat] /\ f[0] = 0 /\ \A i \in 1..N : f[i] = step[<<i, f[i - 1]>>]
    BY <2>3 DEF Iterates
  <2>5. ASSUME NEW i \in 0..N PROVE f[i] = IF i = 0 THEN 0 ELSE f[i - 1] * Pow2[bits] + digits[i]
    <3>1. CASE i = 0
      BY <3>1, <2>4
    <3>2. CASE i # 0
      <4>1. i \in 1..N /\ i - 1 \in 0..N
        BY <3>2, <1>1
      <4>2. f[i - 1] \in Nat
        BY <2>4, <4>1
      <4> QED
        BY <2>2, <2>4, <3>2, <4>1, <4>2
    <3> QED
      BY <3>1, <3>2
  <2> QED
    BY <2>4, <2>5 DEF N
<1>3. h = D(h)
  <2> HIDE DEF D
  <2> QED
    BY <1>2, Zenon
<1>4. Value(digits, bits) = h[N]
  BY Zenon DEF Value
<1> HIDE DEF h
<1>5. /\ h[0] = 0
      /\ \A i \in 1..N : h[i] = h[i - 1] * P + digits[i]
  <2>1. \A i \in 0..N : h[i] = D(h)[i]
    BY <1>3
  <2>2. \A i \in 1..N : i \in 0..N /\ i # 0
    OBVIOUS
  <2> QED
    BY <2>1, <2>2
<1>6. h = [i \in 0..N |-> h[i]]
  BY <1>3
<1> HIDE DEF D, P
<1>7. \A i \in 0..N : h[i] \in Nat
  <2>1. ASSUME NEW i \in 1..N, h[i - 1] \in Nat PROVE h[i] \in Nat
    <3> HIDE DEF N
    <3>1. \A a, b, c \in Nat : a * b + c \in Nat
      OBVIOUS
    <3>2. h[i] = h[i - 1] * P + digits[i] /\ digits[i] \in Nat /\ P \in Nat
      BY <1>1, <1>5
    <3> QED
      BY ONLY <2>1, <3>1, <3>2
  <2>2. N \in Nat /\ h[0] \in Nat
    BY <1>1, <1>5
  <2> HIDE DEF N
  <2> QED
    BY ONLY <2>1, <2>2, Along
<1> QED
  BY <1>4, <1>5, <1>6, <1>7 DEF Accumulates, P

(* Digits below the base: what they make is bounded ...                     *)
LEMMA ValueBound ==
  ASSUME NEW bits \in Nat, NEW digits \in Seq(0..(Pow2[bits] - 1))
  PROVE  Value(digits, bits) \in Nat /\ Value(digits, bits) < Pow2[bits * Len(digits)]
<1> DEFINE N == Len(digits)
           P == Pow2[bits]
<1>1. P \in Nat \ {0}
  BY Powers
<1>2. N \in Nat /\ \A i \in 1..N : digits[i] \in 0..(P - 1)
  <2> HIDE DEF P
  <2> QED
    BY Elements DEF P
<1>3. digits \in Seq(Nat)
  BY <1>1, DigitsAreNat
<1>4. PICK v : Accumulates(v, digits, bits)
  BY <1>3, ValueSteps
<1>5. /\ v \in [0..N -> Nat] /\ v[0] = 0
      /\ \A i \in 1..N : v[i] = v[i - 1] * P + digits[i]
      /\ Value(digits, bits) = v[N]
  BY <1>4 DEF Accumulates
<1> DEFINE S == {i \in Nat : i <= N => v[i] < Pow2[bits * i]}
<1>6. 0 \in S
  BY <1>5, Powers
<1>7. ASSUME NEW i \in Nat, i \in S PROVE i + 1 \in S
  <2> SUFFICES ASSUME i + 1 <= N PROVE v[i + 1] < Pow2[bits * (i + 1)]
    OBVIOUS
  <2> HIDE DEF N
  <2>1. i + 1 \in 1..N /\ (i + 1) - 1 = i /\ i \in 0..N
    BY <1>2
  <2>2. v[i] \in Nat /\ v[i + 1] = v[i] * P + digits[i + 1] /\ digits[i + 1] \in 0..(P - 1)
    BY <1>2, <1>5, <2>1
  <2> DEFINE Q == Pow2[bits * i]
  <2>3. Q \in Nat /\ v[i] < Q
    <3>1. bits * i \in Nat
      OBVIOUS
    <3> QED
      BY <1>7, <2>1, <1>2, <3>1, Powers
  <2>4. Pow2[bits * (i + 1)] = Q * P
    <3>1. bits * i \in Nat /\ bits * (i + 1) = bits * i + bits
      OBVIOUS
    <3> QED
      BY <3>1, PowerSum
  <2> HIDE DEF P, Q
  <2>5. v[i + 1] < (v[i] + 1) * P
    BY <2>2, <1>1
  <2>6. (v[i] + 1) * P <= Q * P
    <3> DEFINE w == v[i]
    <3> HIDE DEF w
    <3>1. w \in Nat /\ w < Q
      BY <2>2, <2>3 DEF w
    <3>2. (w + 1) * P <= Q * P
      BY <3>1, <2>3, <1>1, Monotone
    <3> QED
      BY <3>2 DEF w
  <2> DEFINE low == v[i + 1]
             mid == (v[i] + 1) * P
             high == Q * P
  <2>7. low \in Nat /\ mid \in Nat /\ high \in Nat
    <3>1. low \in Nat
      BY <1>2, <1>5, <2>1
    <3>2. high \in Nat
      BY <2>3, <1>1
    <3>3. mid \in Nat
      <4> DEFINE w == v[i]
      <4>1. w \in Nat
        BY <2>2
      <4> HIDE DEF w
      <4>2. (w + 1) * P \in Nat
        BY <4>1, <1>1
      <4> QED
        BY <4>2 DEF w
    <3> QED
      BY <3>1, <3>2, <3>3
  <2> HIDE DEF low, mid, high
  <2>8. low < high
    BY <2>5, <2>6, <2>7 DEF low, mid, high
  <2> QED
    BY <2>4, <2>8 DEF low, high
<1>8. Nat \subseteq S
  <2> HIDE DEF S
  <2> QED
    BY <1>6, <1>7, NatSetInduction
<1> QED
  BY <1>2, <1>5, <1>8

(* ... and they can be read off it again, ...                               *)
LEMMA DigitsOfValue ==
  ASSUME NEW bits \in Nat, NEW digits \in Seq(0..(Pow2[bits] - 1)), NEW i \in 1..Len(digits)
  PROVE  (Value(digits, bits) \div Pow2[bits * (Len(digits) - i)]) % Pow2[bits] = digits[i]
<1> DEFINE N == Len(digits)
           P == Pow2[bits]
           x == Value(digits, bits)
<1>1. P \in Nat \ {0}
  BY Powers
<1>2. N \in Nat /\ (\A j \in 1..N : digits[j] \in 0..(P - 1)) /\ x \in Nat
  <2>1. x \in Nat
    BY ValueBound
  <2> HIDE DEF P, x
  <2> QED
    BY <2>1, Elements DEF P
<1>3. digits \in Seq(Nat)
  BY <1>1, DigitsAreNat
<1>4. PICK v : Accumulates(v, digits, bits)
  BY <1>3, ValueSteps
<1>5. /\ v \in [0..N -> Nat] /\ v[0] = 0
      /\ \A j \in 1..N : v[j] = v[j - 1] * P + digits[j]
      /\ x = v[N]
  BY <1>4 DEF Accumulates
<1> HIDE DEF N, x
<1>6. ASSUME NEW j \in 1..N PROVE v[j] \div P = v[j - 1] /\ v[j] % P = digits[j]
  <2>1. j - 1 \in 0..N
    BY <1>2
  <2> HIDE DEF P
  <2>2. v[j - 1] \in Nat /\ digits[j] \in Nat /\ digits[j] < P
    <3>1. \A d \in 0..(P - 1) : d \in Nat /\ d < P
      BY <1>1
    <3> QED
      BY <1>2, <1>5, <2>1, <3>1
  <2>3. (v[j - 1] * P + digits[j]) \div P = v[j - 1] /\ (v[j - 1] * P + digits[j]) % P = digits[j]
    BY <1>1, <2>2, DivUnique
  <2> QED
    BY <1>5, <2>3
<1> DEFINE S == {k \in Nat : k <= N => x \div Pow2[bits * k] = v[N - k]}
<1>7. 0 \in S
  <2>1. Pow2[bits * 0] = 1 /\ x \div 1 = x
    BY <1>2, Powers
  <2> QED
    BY <1>2, <1>5, <2>1
<1>8. ASSUME NEW k \in Nat, k \in S PROVE k + 1 \in S
  <2> SUFFICES ASSUME k + 1 <= N PROVE x \div Pow2[bits * (k + 1)] = v[N - (k + 1)]
    OBVIOUS
  <2>1. N - k \in 1..N /\ (N - k) - 1 = N - (k + 1)
    BY <1>2
  <2> DEFINE Q == Pow2[bits * k]
  <2>2. Q \in Nat \ {0} /\ Pow2[bits * (k + 1)] = Q * P
    <3>1. bits * k \in Nat /\ bits * (k + 1) = bits * k + bits
      OBVIOUS
    <3> QED
      BY <3>1, PowerSum, Powers
  <2>3. x \div Q = v[N - k]
    BY <1>8, <1>2
  <2> HIDE DEF Q, P
  <2>4. x \div (Q * P) = (x \div Q) \div P
    BY <1>1, <1>2, <2>2, DivDiv
  <2> QED
    BY <1>6, <2>1, <2>2, <2>3, <2>4
<1>9. Nat \subseteq S
  <2> HIDE DEF S
  <2> QED
    BY <1>7, <1>8, NatSetInduction
<1>10. N - i \in Nat /\ N - i <= N /\ N - (N - i) = i /\ i \in 1..N
  BY <1>2 DEF N
<1>11. x \div Pow2[bits * (N - i)] = v[i]
  BY <1>9, <1>10
<1> QED
  BY <1>6, <1>10, <1>11 DEF N, x

(* The last N digits of x, the first of them first.                         *)
IsDigits(digits, x, N, bits) ==
  digits = [i \in 1..N |-> (x \div Pow2[bits * (N - i)]) % Pow2[bits]]

(* ... and every number below the power is what its digits make.            *)
LEMMA ValueOfDigits ==
  ASSUME NEW bits \in Nat, NEW N \in Nat, NEW x \in Nat, x < Pow2[bits * N],
         NEW digits, IsDigits(digits, x, N, bits)
  PROVE  digits \in Seq(0..(Pow2[bits] - 1)) /\ Len(digits) = N /\ Value(digits, bits) = x
<1> DEFINE P == Pow2[bits]
           w(k) == x \div Pow2[bits * k]
<1>1. P \in Nat \ {0} /\ \A k \in Nat : Pow2[bits * k] \in Nat \ {0}
  <2>1. \A k \in Nat : bits * k \in Nat
    OBVIOUS
  <2> QED
    BY <2>1, PowerIn
<1>2. ASSUME NEW k \in Nat PROVE w(k) \in Nat
  BY <1>1, DivMod
<1>3. ASSUME NEW i \in 1..N PROVE digits[i] = w(N - i) % P /\ digits[i] \in 0..(P - 1)
  <2>1. N - i \in Nat /\ digits[i] = w(N - i) % P
    BY DEF IsDigits
  <2>2. w(N - i) \in Nat
    BY <1>2, <2>1
  <2> DEFINE y == w(N - i)
  <2> HIDE DEF P, w, y
  <2>3. y % P \in 0..(P - 1)
    BY <1>1, <2>2, DivMod DEF y
  <2> QED
    BY <2>1, <2>3 DEF y
<1>4. digits \in Seq(0..(P - 1)) /\ Len(digits) = N
  <2>1. digits = [i \in 1..N |-> digits[i]]
    BY DEF IsDigits
  <2> DEFINE T == 0..(P - 1)
  <2>2. \A i \in 1..N : digits[i] \in T
    BY <1>3
  <2> HIDE DEF T
  <2>3. digits \in Seq(T) /\ Len(digits) = N
    BY ONLY <2>1, <2>2, N \in Nat, FromElements
  <2> QED
    BY <2>3 DEF T
<1>5. digits \in Seq(Nat)
  <2> HIDE DEF P
  <2> QED
    BY <1>1, <1>4, DigitsAreNat
<1>6. PICK v : Accumulates(v, digits, bits)
  BY <1>5, ValueSteps
<1>7. /\ v \in [0..N -> Nat] /\ v[0] = 0
      /\ \A j \in 1..N : v[j] = v[j - 1] * P + digits[j]
      /\ Value(digits, bits) = v[N]
  BY <1>4, <1>6 DEF Accumulates
<1> DEFINE S == {i \in Nat : i <= N => v[i] = w(N - i)}
<1>8. 0 \in S
  <2>1. x \div Pow2[bits * N] = 0
    <3> DEFINE Q == Pow2[bits * N]
    <3>1. Q \in Nat \ {0} /\ x < Q
      BY <1>1
    <3> HIDE DEF Q
    <3>2. (0 * Q + x) \div Q = 0
      BY <3>1, DivUnique
    <3>3. 0 * Q + x = x
      BY <3>1
    <3> QED
      BY <3>2, <3>3 DEF Q
  <2> QED
    BY <1>7, <2>1
<1>9. ASSUME NEW i \in Nat, i \in S PROVE i + 1 \in S
  <2> SUFFICES ASSUME i + 1 <= N PROVE v[i + 1] = w(N - (i + 1))
    OBVIOUS
  <2> DEFINE k == N - (i + 1)
  <2>1. i + 1 \in 1..N /\ (i + 1) - 1 = i /\ k \in Nat /\ N - i = k + 1
    OBVIOUS
  <2>2. v[i] = w(k + 1)
    BY <1>9, <2>1
  <2>3. w(k + 1) = w(k) \div P
    <3> DEFINE Q == Pow2[bits * k]
    <3> HIDE DEF k
    <3>1. bits * k \in Nat /\ bits * (k + 1) = bits * k + bits
      BY <2>1
    <3>2. Q \in Nat \ {0} /\ Pow2[bits * (k + 1)] = Q * P
      BY <3>1, PowerSum, Powers
    <3> HIDE DEF Q, P
    <3>3. x \div (Q * P) = (x \div Q) \div P
      BY <1>1, <3>2, DivDiv
    <3> QED
      BY <3>2, <3>3 DEF Q
  <2>4. w(k) = (w(k) \div P) * P + (w(k) % P)
    <3> HIDE DEF w, k, P
    <3> QED
      BY <1>1, <1>2, <2>1, DivMod
  <2>5. v[i + 1] = v[i] * P + digits[i + 1] /\ digits[i + 1] = w(k) % P
    BY <1>3, <1>7, <2>1
  <2> HIDE DEF w, k, P
  <2> QED
    BY <2>2, <2>3, <2>4, <2>5 DEF k
<1>10. Nat \subseteq S
  <2> HIDE DEF S
  <2> QED
    BY <1>8, <1>9, NatSetInduction
<1>11. v[N] = w(0)
  BY <1>10
<1>12. w(0) = x
  BY Powers
<1> QED
  BY <1>4, <1>7, <1>11, <1>12

-----------------------------------------------------------------------------
(* IPv4 addresses and masks                                                 *)

(* The widths are positive and the quad has the bits of two groups.         *)
LEMMA Widths ==
  /\ OctetBits \in Nat \ {0} /\ NOctets \in Nat \ {0} /\ GroupBits \in Nat \ {0} /\ NGroups \in Nat \ {0}
  /\ V4Bits \in Nat /\ V6Bits \in Nat
  /\ V4Bits = OctetBits * NOctets /\ V4Bits = GroupBits * 2 /\ V6Bits = GroupBits * NGroups
BY WidthAssumption DEF V4Bits, V6Bits

(* A text is a sequence of at least one field.                              *)
LEMMA TextFields ==
  ASSUME NEW text \in Text
  PROVE  /\ text \in Seq(Field) /\ Len(text) \in Nat /\ Len(text) >= 1 /\ DOMAIN text = 1..Len(text)
         /\ \A i \in 1..Len(text) : text[i] \in Field
BY DEF Text

(* The kinds of a field and their values.                                   *)
LEMMA Fields ==
  ASSUME NEW f \in Field
  PROVE  /\ f.t = "hex" => f = Hex(f.v) /\ f.v \in 0..(Pow2[GroupBits] - 1)
         /\ f.t = "quad" => f = Quad(f.v) /\ f.v \in [1..NOctets -> Nat]
         /\ f.t \in {"hex", "quad"} \/ f = Empty \/ f = Other
         /\ f = Empty => f.t = "empty"
BY DEF Field, Hex, Quad, Empty, Other

(* Octets that fit make an address that fits.                               *)
LEMMA QuadValue ==
  ASSUME NEW v \in [1..NOctets -> Nat], \A o \in 1..NOctets : v[o] < Pow2[OctetBits]
  PROVE  Value(v, OctetBits) \in 0..(Pow2[V4Bits] - 1)
<1>1. v = [i \in 1..NOctets |-> v[i]] /\ \A i \in 1..NOctets : v[i] \in 0..(Pow2[OctetBits] - 1)
  <2>1. Pow2[OctetBits] \in Nat
    BY Widths, PowerIn
  <2> QED
    BY <2>1
<1>2. v \in Seq(0..(Pow2[OctetBits] - 1)) /\ Len(v) = NOctets
  <2> DEFINE T == 0..(Pow2[OctetBits] - 1)
  <2>1. v = [i \in 1..NOctets |-> v[i]] /\ \A i \in 1..NOctets : v[i] \in T
    BY <1>1
  <2> HIDE DEF T
  <2> QED
    BY <2>1, Widths, FromElements DEF T
<1>3. Value(v, OctetBits) \in Nat /\ Value(v, OctetBits) < Pow2[V4Bits]
  BY <1>2, Widths, ValueBound
<1> QED
  BY <1>3, Widths, PowerIn

(* The parser reads an IPv4 address exactly from the texts that mean one,   *)
(* and the one they mean (ipmatch.js 18-35).                                *)
LEMMA V4Parsed ==
  ASSUME NEW text \in Text
  PROVE  ParseIPv4(text) = MeantV4(text) /\ MeantV4(text) \subseteq 0..(Pow2[V4Bits] - 1)
<1> DEFINE f == text[1]
<1>1. CASE Len(text) = 1 /\ f.t = "quad"
  <2>1. DOMAIN text = {1} /\ Range(text) = {f} /\ f \in Field
    BY <1>1, TextFields DEF Range
  <2>2. f.v \in [1..NOctets -> Nat] /\ DOMAIN f.v = 1..NOctets
    BY <1>1, <2>1, Fields
  <2>3. GoodQuads(text) <=> \A i \in 1..NOctets : f.v[i] < Pow2[OctetBits]
    BY <1>1, <2>1, <2>2 DEF GoodQuads
  <2>4. ParseIPv4(text) = IF GoodQuads(text) THEN {Value(f.v, OctetBits)} ELSE {}
    BY <1>1, <2>1, <2>3 DEF ParseIPv4
  <2>5. GoodQuads(text) => Value(f.v, OctetBits) \in 0..(Pow2[V4Bits] - 1)
    BY <2>2, <2>3, QuadValue
  <2> QED
    BY <1>1, <2>4, <2>5 DEF MeantV4
<1>2. CASE ~(Len(text) = 1 /\ f.t = "quad")
  <2>1. ParseIPv4(text) = {}
    <3>1. ASSUME NEW g \in Range(text), Len(text) = 1, g.t = "quad" PROVE FALSE
      <4>1. g = f
        BY <3>1, TextFields DEF Range
      <4> QED
        BY <1>2, <3>1, <4>1
    <3> QED
      BY <3>1 DEF ParseIPv4
  <2> QED
    BY <1>2, <2>1 DEF MeantV4
<1> QED
  BY <1>1, <1>2

-----------------------------------------------------------------------------
(* A greater exponent makes no smaller power.                               *)
LEMMA PowerGrows ==
  ASSUME NEW a \in Nat, NEW b \in Nat, a <= b
  PROVE  Pow2[a] <= Pow2[b]
<1>1. b - a \in Nat /\ a + (b - a) = b
  OBVIOUS
<1>2. Pow2[b] = Pow2[b - a] * Pow2[a]
  <2>1. Pow2[b] = Pow2[a] * Pow2[b - a]
    BY <1>1, PowerSum
  <2> QED
    BY <2>1, <1>1, PowerIn
<1> QED
  BY <1>1, <1>2, PowerIn, ScaledUp

(* Twice a number is even, and what precedes it is odd.                     *)
LEMMA Halves ==
  ASSUME NEW x \in Nat
  PROVE  /\ (x * 2) % 2 = 0
         /\ x > 0 => (2 * x - 1) % 2 = 1
OBVIOUS

(* The mask of a prefix has exactly its leading bits set (ipmatch.js 147).  *)
LEMMA MaskBits ==
  ASSUME NEW len \in 0..V4Bits
  PROVE  OneBits(Mask(len)) = (V4Bits - len)..(V4Bits - 1)
<1> DEFINE w == V4Bits
           k == w - len
           m == Mask(len)
<1>1. w \in Nat /\ k \in Nat /\ k <= w
  BY Widths
<1>2. m = Pow2[w] - Pow2[k] /\ Pow2[w] \in Nat \ {0} /\ Pow2[k] \in Nat \ {0}
  <2>1. Pow2[w] \in Nat \ {0} /\ Pow2[k] \in Nat \ {0}
    BY <1>1, PowerIn
  <2> QED
    BY <2>1 DEF Mask
<1> HIDE DEF m
<1>3. ASSUME NEW i \in 0..(w - 1) PROVE (m \div Pow2[i]) % 2 = 1 <=> i >= k
  <2> HIDE DEF w, k
  <2>1. i \in Nat /\ w - i \in Nat \ {0} /\ (w - i) - 1 \in Nat /\ i + (w - i) = w
    BY <1>1
  <2> DEFINE p == Pow2[i]
             a == Pow2[w - i]
  <2>2. p \in Nat \ {0} /\ a \in Nat \ {0} /\ Pow2[w] = a * p
    <3>1. Pow2[w] = p * a /\ p \in Nat \ {0} /\ a \in Nat \ {0}
      BY <2>1, PowerSum, PowerIn
    <3> QED
      BY <3>1
  <2>3. a = 2 * Pow2[(w - i) - 1] /\ Pow2[(w - i) - 1] \in Nat \ {0}
    BY <2>1, Powers
  <2>4. CASE i >= k
    <3>1. Pow2[k] <= p
      BY <1>1, <2>1, <2>4, PowerGrows
    <3> DEFINE r == p - Pow2[k]
    <3>2. r \in Nat /\ r < p /\ a - 1 \in Nat
      BY <1>2, <2>2, <3>1
    <3>3. m = (a - 1) * p + r
      <4>1. \A x, y \in Nat : (x - 1) * y = x * y - y /\ x * y \in Nat
        OBVIOUS
      <4>2. a \in Nat /\ p \in Nat
        BY <2>2
      <4> HIDE DEF a, p
      <4>3. (a - 1) * p = a * p - p /\ a * p \in Nat
        BY <4>1, <4>2
      <4> QED
        BY <1>2, <2>2, <4>2, <4>3
    <3> HIDE DEF p, a, r
    <3>4. m \div p = a - 1
      BY <2>2, <3>2, <3>3, DivUnique
    <3>5. (a - 1) % 2 = 1
      BY <2>3, Halves
    <3> QED
      BY <2>4, <3>4, <3>5 DEF p
  <2>5. CASE ~(i >= k)
    <3>1. k - i \in Nat \ {0} /\ (k - i) - 1 \in Nat /\ i + (k - i) = k /\ (k - i) - 1 <= (w - i) - 1
      BY <1>1, <2>1, <2>5
    <3> DEFINE b == Pow2[k - i]
    <3>2. b \in Nat \ {0} /\ Pow2[k] = b * p
      <4>1. Pow2[k] = p * b /\ b \in Nat \ {0}
        BY <2>1, <3>1, PowerSum, PowerIn
      <4> QED
        BY <2>2, <4>1
    <3>3. b = 2 * Pow2[(k - i) - 1] /\ Pow2[(k - i) - 1] \in Nat
      BY <3>1, Powers
    <3>4. Pow2[(k - i) - 1] <= Pow2[(w - i) - 1]
      BY <2>1, <3>1, PowerGrows
    <3> DEFINE h == Pow2[(w - i) - 1] - Pow2[(k - i) - 1]
    <3>5. h \in Nat /\ a - b = h * 2
      BY <2>3, <3>3, <3>4
    <3>6. m = (a - b) * p
      BY <1>2, <2>2, <3>2
    <3> HIDE DEF p, a, b, h
    <3>7. a - b \in Nat /\ 0 < p /\ m = (a - b) * p + 0
      BY <2>2, <3>2, <3>5, <3>6
    <3>8. m \div p = a - b
      BY <2>2, <3>7, DivUnique
    <3>9. (a - b) % 2 = 0
      BY <3>5, Halves
    <3> QED
      BY <2>5, <3>8, <3>9 DEF p
  <2> QED
    BY <2>4, <2>5
<1>4. \A i : i \in OneBits(m) <=> i \in k..(w - 1)
  BY <1>1, <1>3 DEF OneBits
<1> QED
  BY <1>4 DEF m

(* Shifting in two parts.                                                   *)
LEMMA Shifted ==
  ASSUME NEW a \in Nat, NEW k \in Nat, NEW i \in Nat, k <= i
  PROVE  a \div Pow2[i] = (a \div Pow2[k]) \div Pow2[i - k]
<1>1. i - k \in Nat /\ k + (i - k) = i
  OBVIOUS
<1>2. Pow2[i] = Pow2[k] * Pow2[i - k]
  BY <1>1, PowerSum
<1> QED
  BY <1>1, <1>2, PowerIn, DivDiv

(* Two numbers with the same leading bits have the same leading part, from  *)
(* the leftmost bit to the last one compared.                               *)
LEMMA SameHighBits ==
  ASSUME NEW w \in Nat, NEW a \in Nat, NEW b \in Nat, a < Pow2[w], b < Pow2[w],
         NEW k \in 0..w,
         \A i \in k..(w - 1) : (a \div Pow2[i]) % 2 = 1 <=> (b \div Pow2[i]) % 2 = 1
  PROVE  a \div Pow2[k] = b \div Pow2[k]
<1> DEFINE S == {n \in Nat : n <= w - k => a \div Pow2[w - n] = b \div Pow2[w - n]}
<1>1. 0 \in S
  <2>1. ASSUME NEW x \in Nat, x < Pow2[w] PROVE x \div Pow2[w] = 0
    <3> DEFINE P == Pow2[w]
    <3>1. P \in Nat \ {0} /\ x < 1 * P
      BY <2>1, PowerIn
    <3> HIDE DEF P
    <3>2. x \div P \in Nat /\ x \div P < 1
      BY <3>1, DivBelow, DivMod
    <3> QED
      BY <3>2 DEF P
  <2> QED
    BY <2>1
<1>2. ASSUME NEW n \in Nat, n \in S PROVE n + 1 \in S
  <2> SUFFICES ASSUME n + 1 <= w - k PROVE a \div Pow2[w - (n + 1)] = b \div Pow2[w - (n + 1)]
    OBVIOUS
  <2> DEFINE j == w - (n + 1)
             q(x) == x \div Pow2[j]
  <2>1. j \in k..(w - 1) /\ j \in Nat /\ w - n = j + 1 /\ (j + 1) - j = 1 /\ j + 1 \in Nat
    OBVIOUS
  <2>2. a \div Pow2[j + 1] = b \div Pow2[j + 1]
    BY <1>2, <2>1
  <2> HIDE DEF j
  <2>3. Pow2[1] = 2
    <3>1. 1 = 0 + 1
      OBVIOUS
    <3> QED
      BY <3>1, Powers
  <2>4. ASSUME NEW x \in Nat PROVE q(x) \in Nat /\ x \div Pow2[j + 1] = q(x) \div 2
    <3>1. x \div Pow2[j + 1] = q(x) \div Pow2[(j + 1) - j]
      BY <2>1, Shifted
    <3>2. q(x) \in Nat
      BY <2>1, PowerIn, DivMod
    <3> QED
      BY <2>1, <2>3, <3>1, <3>2
  <2>5. q(a) % 2 = 1 <=> q(b) % 2 = 1
    BY <2>1
  <2>6. q(a) \in Nat /\ q(b) \in Nat /\ q(a) \div 2 = q(b) \div 2
    BY <2>2, <2>4
  <2> HIDE DEF q
  <2>7. q(a) = q(b)
    BY <2>5, <2>6
  <2> QED
    BY <2>7 DEF q, j
<1>3. Nat \subseteq S
  <2> HIDE DEF S
  <2> QED
    BY <1>1, <1>2, NatSetInduction
<1>4. w - k \in Nat /\ w - (w - k) = k
  OBVIOUS
<1>5. w - k \in S
  BY <1>3, <1>4
<1> QED
  BY <1>4, <1>5

(* Comparing under the mask is comparing the leading parts, whatever the    *)
(* length of the prefix (ipmatch.js 147-148).                               *)
LEMMA MaskedNet ==
  ASSUME NEW a \in 0..(Pow2[V4Bits] - 1), NEW b \in 0..(Pow2[V4Bits] - 1), NEW len \in 0..V4Bits
  PROVE  Masked(a, len) = Masked(b, len)
         <=> a \div Pow2[V4Bits - len] = b \div Pow2[V4Bits - len]
<1> DEFINE w == V4Bits
           k == w - len
           Bit(x, i) == (x \div Pow2[i]) % 2 = 1
<1>1. w \in Nat /\ k \in 0..w /\ Pow2[w] \in Nat /\ a \in Nat /\ b \in Nat /\ a < Pow2[w] /\ b < Pow2[w]
  BY Widths, PowerIn
<1>2. Masked(a, len) = Masked(b, len) <=> \A i \in k..(w - 1) : Bit(a, i) <=> Bit(b, i)
  <2>1. \A x : Masked(x, len) = {i \in k..(w - 1) : Bit(x, i)}
    <3>1. \A i : i \in k..(w - 1) => i \in 0..(w - 1)
      BY <1>1
    <3> HIDE DEF Bit
    <3> QED
      BY <3>1, MaskBits DEF Masked, OneBits, Bit
  <2> HIDE DEF Bit, k, w
  <2> QED
    BY <2>1
<1>3. ASSUME a \div Pow2[k] = b \div Pow2[k], NEW i \in k..(w - 1) PROVE Bit(a, i) <=> Bit(b, i)
  <2>1. i \in Nat /\ k \in Nat /\ k <= i
    BY <1>1
  <2>2. a \div Pow2[i] = (a \div Pow2[k]) \div Pow2[i - k] /\ b \div Pow2[i] = (b \div Pow2[k]) \div Pow2[i - k]
    BY <1>1, <2>1, Shifted
  <2> QED
    BY <1>3, <2>2
<1>4. ASSUME \A i \in k..(w - 1) : Bit(a, i) <=> Bit(b, i) PROVE a \div Pow2[k] = b \div Pow2[k]
  <2> HIDE DEF k, w
  <2> QED
    BY <1>1, <1>4, SameHighBits
<1> QED
  BY <1>2, <1>3, <1>4

-----------------------------------------------------------------------------
(* IPv6 addresses                                                           *)

(* Sequences with the same elements are equal.                              *)
LEMMA Equal ==
  ASSUME NEW T, NEW s \in Seq(T), NEW u \in Seq(T), Len(s) = Len(u),
         \A i \in 1..Len(s) : s[i] = u[i]
  PROVE  s = u
<1>1. s = [i \in 1..Len(s) |-> s[i]] /\ u = [i \in 1..Len(u) |-> u[i]]
  BY Elements
<1> QED
  BY <1>1

(* p is the piece of s from m to n.                                         *)
IsPiece(p, s, m, n, T) ==
  p \in Seq(T) /\ Len(p) = n - m + 1 /\ \A i \in 1..(n - m + 1) : p[i] = s[m + i - 1]

(* r is a followed by c.                                                    *)
IsJoin(r, a, c, T) ==
  /\ r \in Seq(T) /\ Len(r) = Len(a) + Len(c)
  /\ \A i \in 1..Len(a) : r[i] = a[i]
  /\ \A i \in 1..Len(c) : r[Len(a) + i] = c[i]

(* SubSeq takes such a piece.                                               *)
LEMMA Piece ==
  ASSUME NEW T, NEW s \in Seq(T), NEW m \in 1..(Len(s) + 1), NEW n \in 0..Len(s), m <= n + 1
  PROVE  IsPiece(SubSeq(s, m, n), s, m, n, T)
<1>1. Len(s) \in Nat /\ \A i \in 1..Len(s) : s[i] \in T
  BY Elements
<1>2. SubSeq(s, m, n) = [i \in 1..(1 + n - m) |-> s[i + m - 1]]
  OBVIOUS
<1>3. \A i \in 1..(n - m + 1) : i + m - 1 \in 1..Len(s) /\ i + m - 1 = m + i - 1
  BY <1>1
<1>4. n - m + 1 \in Nat /\ 1 + n - m = n - m + 1
  BY <1>1
<1> DEFINE p == SubSeq(s, m, n)
<1>5. p = [i \in 1..(n - m + 1) |-> p[i]] /\ \A i \in 1..(n - m + 1) : p[i] = s[m + i - 1]
  BY <1>2, <1>3, <1>4
<1> HIDE DEF p
<1>6. \A i \in 1..(n - m + 1) : p[i] \in T
  BY <1>1, <1>3, <1>5
<1>7. p \in Seq(T) /\ Len(p) = n - m + 1
  BY <1>4, <1>5, <1>6, FromElements
<1> QED
  BY <1>5, <1>7 DEF p, IsPiece

(* \o joins two sequences so, ...                                           *)
LEMMA Joined2 ==
  ASSUME NEW T, NEW a \in Seq(T), NEW c \in Seq(T), NEW r, r = a \o c
  PROVE  IsJoin(r, a, c, T)
BY DEF IsJoin

(* r is a, the one element z, and c.                                        *)
IsJoin3(r, a, z, c, T) ==
  /\ r \in Seq(T) /\ Len(r) = Len(a) + 1 + Len(c)
  /\ \A i \in 1..Len(a) : r[i] = a[i]
  /\ r[Len(a) + 1] = z
  /\ \A i \in 1..Len(c) : r[Len(a) + 1 + i] = c[i]

(* ... or two with one element between them.                                *)
LEMMA Joined3 ==
  ASSUME NEW T, NEW a \in Seq(T), NEW z \in T, NEW c \in Seq(T), NEW r, r = a \o <<z>> \o c
  PROVE  IsJoin3(r, a, z, c, T)
<1> DEFINE b == a \o <<z>>
           y == <<z>>
<1>1. y \in Seq(T) /\ Len(y) = 1 /\ y[1] = z /\ b = a \o y /\ r = b \o c
  OBVIOUS
<1> HIDE DEF b, y
<1>2. IsJoin(b, a, y, T)
  BY <1>1, Joined2
<1>3. IsJoin(r, b, c, T)
  <2>1. b \in Seq(T)
    BY <1>2 DEF IsJoin
  <2> QED
    BY <1>1, <2>1, Joined2
<1>4. Len(a) \in Nat /\ Len(c) \in Nat
  BY Elements
<1>5. Len(b) = Len(a) + 1 /\ (\A i \in 1..Len(a) : b[i] = a[i]) /\ b[Len(a) + 1] = z
  <2>1. 1 \in 1..Len(y)
    BY <1>1
  <2> QED
    BY <1>1, <1>2, <2>1 DEF IsJoin
<1>6. (\A i \in 1..Len(a) : i \in 1..Len(b)) /\ Len(a) + 1 \in 1..Len(b)
  BY <1>4, <1>5
<1>7. /\ r \in Seq(T) /\ Len(r) = Len(b) + Len(c)
      /\ \A i \in 1..Len(b) : r[i] = b[i]
      /\ \A i \in 1..Len(c) : r[Len(b) + i] = c[i]
  BY <1>3 DEF IsJoin
<1> QED
  BY <1>5, <1>6, <1>7 DEF IsJoin3

(* The hexadecimal groups, ...                                              *)
HexField == [t : {"hex"}, v : 0..(Pow2[GroupBits] - 1)]
(* ... and as many of them as an IPv6 address has.                          *)
HexGroups == [1..NGroups -> HexField]

(* A hexadecimal group is a field and not an empty one.                     *)
LEMMA HexKnown ==
  ASSUME NEW f \in HexField
  PROVE  f \in Field /\ f.t = "hex" /\ f # Empty /\ f = Hex(f.v) /\ f.v \in 0..(Pow2[GroupBits] - 1)
BY DEF HexField, Field, Hex, Empty

(* A field that is one is known by its kind.                                *)
LEMMA HexOnly ==
  ASSUME NEW f \in Field, f.t = "hex"
  PROVE  f \in HexField
BY Fields DEF HexField, Hex

(* The groups of an address are fields in sequence.                         *)
LEMMA HexGroupsKnown ==
  ASSUME NEW g \in HexGroups
  PROVE  /\ g \in Seq(Field) /\ Len(g) = NGroups /\ NGroups \in Nat \ {0} /\ DOMAIN g = 1..NGroups
         /\ \A i \in 1..NGroups : g[i] \in HexField
<1>1. g = [i \in 1..NGroups |-> g[i]] /\ \A i \in 1..NGroups : g[i] \in HexField
  BY DEF HexGroups
<1>2. \A i \in 1..NGroups : g[i] \in Field
  BY <1>1, HexKnown
<1> QED
  BY <1>1, <1>2, Widths, FromElements DEF HexGroups

(* What stands beside a double colon at the end of a text is one empty      *)
(* field.                                                                   *)
LEMMA Padded ==
  ASSUME NEW s \in Seq(HexField)
  PROVE  /\ OrEmpty(s) \in Seq(Field) /\ Len(OrEmpty(s)) = IF s = <<>> THEN 1 ELSE Len(s)
         /\ s = <<>> => OrEmpty(s)[1] = Empty
         /\ s # <<>> => Len(s) >= 1 /\ OrEmpty(s) = s
         /\ \A i \in 1..Len(s) : OrEmpty(s)[i] = s[i] /\ s[i] \in HexField
<1>1. CASE s = <<>>
  <2>1. OrEmpty(s) = <<Empty>> /\ Len(s) = 0
    BY <1>1 DEF OrEmpty
  <2>2. Empty \in Field
    BY DEF Field
  <2> QED
    BY <1>1, <2>1, <2>2
<1>2. CASE s # <<>>
  <2>1. OrEmpty(s) = s
    BY <1>2 DEF OrEmpty
  <2>2. Len(s) \in Nat /\ Len(s) # 0 /\ \A i \in 1..Len(s) : s[i] \in HexField
    BY <1>2, Elements
  <2>3. s \in Seq(Field)
    BY Elements, FromElements, HexKnown
  <2> QED
    BY <1>2, <2>1, <2>2, <2>3
<1> QED
  BY <1>1, <1>2

(* Numbers strictly inside an interval leave room for another.              *)
LEMMA Within ==
  ASSUME NEW n \in Nat
  PROVE  /\ \A i \in 2..n : i \in 1..n /\ n # 1
         /\ \A i \in 1..(n - 1) : i \in 1..n /\ n # 1
OBVIOUS

(* A text of hexadecimal groups with a double colon has one gap, and what   *)
(* stands before and after it are the groups it was written from            *)
(* (ipmatch.js 54-72).                                                      *)
LEMMA GapOf ==
  ASSUME NEW before \in Seq(HexField), NEW after \in Seq(HexField), NEW s,
         s = OrEmpty(before) \o <<Empty>> \o OrEmpty(after)
  PROVE  LET gap == Len(OrEmpty(before)) + 1 IN
           /\ s \in Seq(Field) /\ Gaps(s) = {gap}
           /\ Before(s, gap) = before /\ After(s, gap) = after
<1> DEFINE a == OrEmpty(before)
           c == OrEmpty(after)
           gap == Len(a) + 1
<1>1. /\ a \in Seq(Field) /\ Len(a) \in Nat /\ Len(a) >= 1
      /\ c \in Seq(Field) /\ Len(c) \in Nat /\ Len(c) >= 1
  BY Padded, Elements
<1>2. /\ s \in Seq(Field) /\ Len(s) = Len(a) + 1 + Len(c)
      /\ \A i \in 1..Len(a) : s[i] = a[i]
      /\ s[gap] = Empty
      /\ \A i \in 1..Len(c) : s[gap + i] = c[i]
  <2>1. s = a \o <<Empty>> \o c /\ Empty \in Field
    BY DEF Field
  <2> HIDE DEF a, c
  <2>2. IsJoin3(s, a, Empty, c, Field)
    BY <1>1, <2>1, Joined3
  <2> QED
    BY <2>2 DEF IsJoin3
<1>3. ASSUME NEW i \in 2..Len(a) PROVE s[i] # Empty
  <2>1. i \in 1..Len(a) /\ Len(a) # 1
    <3> HIDE DEF a
    <3>1. Len(a) \in Nat
      BY <1>1
    <3> QED
      BY <3>1, Within
  <2>2. before # <<>> /\ a = before
    BY <2>1, Padded
  <2>3. s[i] = before[i] /\ before[i] \in HexField
    BY <1>2, <2>1, <2>2, Elements
  <2> QED
    BY <2>3, HexKnown
<1>4. ASSUME NEW i \in 1..(Len(c) - 1) PROVE s[gap + i] # Empty
  <2>1. i \in 1..Len(c) /\ Len(c) # 1
    <3> HIDE DEF c
    <3>1. Len(c) \in Nat
      BY <1>1
    <3> QED
      BY <3>1, Within
  <2>2. after # <<>> /\ c = after
    BY <2>1, Padded
  <2>3. s[gap + i] = after[i] /\ after[i] \in HexField
    BY <1>2, <2>1, <2>2, Elements
  <2> QED
    BY <2>3, HexKnown
<1>5. Gaps(s) = {gap}
  <2> HIDE DEF a, c
  <2>1. ASSUME NEW i \in 2..(Len(s) - 1), i # gap PROVE s[i] # Empty
    <3>1. i \in 2..Len(a) \/ (i - gap \in 1..(Len(c) - 1) /\ gap + (i - gap) = i)
      <4>1. Len(s) = Len(a) + 1 + Len(c) /\ Len(a) \in Nat /\ Len(c) \in Nat
        BY <1>1, <1>2
      <4> QED
        BY ONLY <2>1, <4>1, i \in 2..(Len(s) - 1)
    <3> QED
      BY <1>3, <1>4, <3>1
  <2>2. gap \in 2..(Len(s) - 1)
    BY <1>1, <1>2
  <2> HIDE DEF gap
  <2> QED
    BY <1>2, <2>1, <2>2 DEF Gaps
<1>6. Before(s, gap) = before
  <2>1. CASE before = <<>>
    <3>1. gap = 2 /\ s[1] = Empty
      <4>1. Len(a) = 1 /\ a[1] = Empty
        BY <2>1, Padded
      <4> HIDE DEF a, c
      <4> QED
        BY <1>1, <1>2, <4>1
    <3> QED
      BY <2>1, <3>1 DEF Before
  <2>2. CASE before # <<>>
    <3>1. a = before /\ before \in Seq(Field) /\ Len(before) >= 1 /\ before[1] \in HexField
      BY <1>1, <2>2, Padded, Elements
    <3>2. s[1] # Empty
      BY <1>1, <1>2, <3>1, HexKnown
    <3> HIDE DEF a, c
    <3>3. 1 \in 1..(Len(s) + 1) /\ gap - 1 \in 0..Len(s) /\ gap - 1 = Len(a) /\ 1 <= (gap - 1) + 1
      BY <1>1, <1>2
    <3> DEFINE p == SubSeq(s, 1, gap - 1)
               n == gap - 1
    <3>4. p \in Seq(Field) /\ Len(p) = n - 1 + 1 /\ \A i \in 1..(n - 1 + 1) : p[i] = s[1 + i - 1]
      <4> HIDE DEF gap
      <4>1. IsPiece(p, s, 1, n, Field)
        BY <1>2, <3>3, Piece
      <4> QED
        BY <4>1 DEF IsPiece
    <3>5. Len(p) = Len(before) /\ \A i \in 1..Len(p) : p[i] = before[i]
      <4> HIDE DEF p
      <4>1. n - 1 + 1 = Len(a) /\ \A i \in 1..Len(a) : 1 + i - 1 = i
        BY <1>1, <3>3
      <4> QED
        BY <1>2, <3>1, <3>4, <4>1
    <3> HIDE DEF p
    <3>6. p = before
      BY <3>1, <3>4, <3>5, Equal
    <3> QED
      BY <3>2, <3>6 DEF Before, p
  <2> QED
    BY <2>1, <2>2
<1>7. After(s, gap) = after
  <2>1. Last(s) = s[Len(s)] /\ s[Len(s)] = c[Len(c)]
    <3> HIDE DEF a, c
    <3>1. Len(c) \in 1..Len(c) /\ gap + Len(c) = Len(s)
      BY <1>1, <1>2
    <3> QED
      BY <1>2, <3>1 DEF Last
  <2>2. CASE after = <<>>
    <3>1. gap = Len(s) - 1 /\ Last(s) = Empty
      <4>1. Len(c) = 1 /\ c[1] = Empty
        BY <2>2, Padded
      <4> HIDE DEF a, c
      <4> QED
        BY <1>1, <1>2, <2>1, <4>1
    <3> QED
      BY <2>2, <3>1 DEF After
  <2>3. CASE after # <<>>
    <3>1. c = after /\ after \in Seq(Field) /\ Len(after) >= 1 /\ after[Len(after)] \in HexField
      BY <1>1, <2>3, Padded, Elements
    <3>2. Last(s) # Empty
      BY <2>1, <3>1, HexKnown
    <3> HIDE DEF a, c
    <3> DEFINE m == gap + 1
               n == Len(s)
               p == SubSeq(s, gap + 1, Len(s))
    <3>3. m \in 1..(Len(s) + 1) /\ n \in 0..Len(s) /\ m <= n + 1 /\ n - m + 1 = Len(c)
      BY <1>1, <1>2
    <3>4. p \in Seq(Field) /\ Len(p) = n - m + 1 /\ \A i \in 1..(n - m + 1) : p[i] = s[m + i - 1]
      <4> HIDE DEF gap
      <4>1. IsPiece(p, s, m, n, Field)
        BY <1>2, <3>3, Piece
      <4> QED
        BY <4>1 DEF IsPiece
    <3>5. Len(p) = Len(after) /\ \A i \in 1..Len(p) : p[i] = after[i]
      <4> HIDE DEF p
      <4>1. \A i \in 1..Len(c) : m + i - 1 = gap + i
        BY <1>1
      <4>2. Len(p) = Len(c) /\ \A i \in 1..Len(c) : p[i] = s[m + i - 1]
        BY <3>3, <3>4
      <4> HIDE DEF m, gap
      <4> QED
        BY <1>2, <3>1, <4>1, <4>2
    <3> HIDE DEF p
    <3>6. p = after
      BY <3>1, <3>4, <3>5, Equal
    <3> QED
      BY <3>2, <3>6 DEF After, p
  <2> QED
    BY <2>2, <2>3
<1> QED
  BY <1>2, <1>5, <1>6, <1>7

(* r is a, z and c, one after the other.                                    *)
IsJoinOf3(r, a, z, c, T) ==
  /\ r \in Seq(T) /\ Len(r) = Len(a) + Len(z) + Len(c)
  /\ \A i \in 1..Len(a) : r[i] = a[i]
  /\ \A i \in 1..Len(z) : r[Len(a) + i] = z[i]
  /\ \A i \in 1..Len(c) : r[Len(a) + Len(z) + i] = c[i]

(* \o joins three sequences so.                                             *)
LEMMA JoinedOf3 ==
  ASSUME NEW T, NEW a \in Seq(T), NEW z \in Seq(T), NEW c \in Seq(T), NEW r, r = a \o z \o c
  PROVE  IsJoinOf3(r, a, z, c, T)
<1> DEFINE b == a \o z
<1>1. b = a \o z /\ r = b \o c
  OBVIOUS
<1> HIDE DEF b
<1>2. IsJoin(b, a, z, T)
  BY <1>1, Joined2
<1>3. IsJoin(r, b, c, T)
  <2>1. b \in Seq(T)
    BY <1>2 DEF IsJoin
  <2> QED
    BY <1>1, <2>1, Joined2
<1>4. Len(a) \in Nat /\ Len(z) \in Nat /\ Len(c) \in Nat
  BY Elements
<1>5. Len(b) = Len(a) + Len(z) /\ (\A i \in 1..Len(a) : b[i] = a[i])
      /\ \A i \in 1..Len(z) : b[Len(a) + i] = z[i]
  BY <1>2 DEF IsJoin
<1>6. /\ \A i \in 1..Len(a) : i \in 1..Len(b)
      /\ \A i \in 1..Len(z) : Len(a) + i \in 1..Len(b)
  BY <1>4, <1>5
<1>7. /\ r \in Seq(T) /\ Len(r) = Len(b) + Len(c)
      /\ \A i \in 1..Len(b) : r[i] = b[i]
      /\ \A i \in 1..Len(c) : r[Len(b) + i] = c[i]
  BY <1>3 DEF IsJoin
<1> QED
  BY <1>5, <1>6, <1>7 DEF IsJoinOf3

(* A text is what stands before its double colon, the colons, and the rest. *)
LEMMA SplitAtGap ==
  ASSUME NEW s \in Seq(Field), NEW gap \in Gaps(s)
  PROVE  /\ Before(s, gap) \in Seq(Field) /\ After(s, gap) \in Seq(Field)
         /\ s = OrEmpty(Before(s, gap)) \o <<Empty>> \o OrEmpty(After(s, gap))
<1> DEFINE l == SubSeq(s, 1, gap - 1)
           r == SubSeq(s, gap + 1, Len(s))
           x == l \o <<Empty>> \o r
<1>1. Len(s) \in Nat /\ gap \in 2..(Len(s) - 1) /\ s[gap] = Empty
  BY Elements DEF Gaps
<1>2. gap \in Nat /\ gap - 1 \in Nat /\ gap - 1 >= 1 /\ gap + 1 <= Len(s) /\ Len(s) - gap >= 1
      /\ 1 \in 1..(Len(s) + 1) /\ gap - 1 \in 0..Len(s) /\ gap + 1 \in 1..(Len(s) + 1)
      /\ Len(s) \in 0..Len(s)
  BY <1>1
<1>3. IsPiece(l, s, 1, gap - 1, Field)
  BY <1>2, Piece
<1>4. IsPiece(r, s, gap + 1, Len(s), Field)
  BY <1>2, Piece
<1> HIDE DEF l, r
<1>5. /\ l \in Seq(Field) /\ Len(l) = gap - 1 /\ \A i \in 1..Len(l) : l[i] = s[i]
      /\ r \in Seq(Field) /\ Len(r) = Len(s) - gap /\ \A i \in 1..Len(r) : r[i] = s[gap + i]
  <2>1. l \in Seq(Field) /\ Len(l) = gap - 1 /\ \A i \in 1..(gap - 1) : l[i] = s[1 + i - 1]
    BY <1>2, <1>3 DEF IsPiece
  <2>2. /\ r \in Seq(Field) /\ Len(r) = Len(s) - gap
        /\ \A i \in 1..(Len(s) - gap) : r[i] = s[(gap + 1) + i - 1]
    BY <1>2, <1>4 DEF IsPiece
  <2>3. /\ \A i \in 1..(gap - 1) : 1 + i - 1 = i
        /\ \A i \in 1..(Len(s) - gap) : (gap + 1) + i - 1 = gap + i
    BY <1>2
  <2> QED
    BY <2>1, <2>2, <2>3
<1>6. x = s
  <2>1. IsJoin3(x, l, Empty, r, Field)
    <3>1. Empty \in Field
      BY DEF Field
    <3> HIDE DEF x
    <3> QED
      BY <1>5, <3>1, Joined3 DEF x
  <2> HIDE DEF x
  <2>2. /\ x \in Seq(Field) /\ Len(x) = Len(l) + 1 + Len(r)
        /\ \A i \in 1..Len(l) : x[i] = l[i]
        /\ x[Len(l) + 1] = Empty
        /\ \A i \in 1..Len(r) : x[Len(l) + 1 + i] = r[i]
    BY <2>1 DEF IsJoin3
  <2>3. Len(x) = Len(s) /\ Len(l) + 1 = gap
    BY <1>2, <1>5, <2>2
  <2>4. ASSUME NEW i \in 1..Len(x) PROVE x[i] = s[i]
    <3>1. CASE i \in 1..Len(l)
      BY <1>5, <2>2, <3>1
    <3>2. CASE i = gap
      BY <1>1, <2>2, <2>3, <3>2
    <3>3. CASE i - gap \in 1..Len(r)
      <4>1. x[gap + (i - gap)] = r[i - gap] /\ r[i - gap] = s[gap + (i - gap)]
        BY <1>5, <2>2, <2>3, <3>3
      <4>2. gap + (i - gap) = i
        BY <1>2
      <4> QED
        BY <4>1, <4>2
    <3>4. i \in 1..Len(l) \/ i = gap \/ i - gap \in 1..Len(r)
      <4>1. Len(l) = gap - 1 /\ Len(r) = Len(s) - gap /\ Len(x) = Len(s)
        BY <1>5, <2>3
      <4>2. i \in Nat /\ i >= 1 /\ i <= Len(s)
        BY <1>2, <4>1
      <4> QED
        BY <1>2, <4>1, <4>2
    <3> QED
      BY <3>1, <3>2, <3>3, <3>4
  <2> QED
    BY <2>2, <2>3, <2>4, Equal
<1>7. Before(s, gap) \in Seq(Field) /\ OrEmpty(Before(s, gap)) = l
  <2>1. CASE gap = 2 /\ s[1] = Empty
    <3>1. Before(s, gap) = <<>> /\ OrEmpty(<<>>) = <<Empty>>
      BY <2>1 DEF Before, OrEmpty
    <3>2. l = <<Empty>>
      <4>1. Len(l) = 1 /\ l[1] = Empty
        BY <1>5, <2>1
      <4>2. l = [i \in 1..1 |-> l[i]]
        BY <4>1, <1>5, Elements
      <4> QED
        BY <4>1, <4>2
    <3> QED
      BY <3>1, <3>2
  <2>2. CASE ~(gap = 2 /\ s[1] = Empty)
    <3>1. Before(s, gap) = l
      BY <2>2 DEF Before, l
    <3>2. l # <<>>
      BY <1>2, <1>5
    <3> QED
      BY <1>5, <3>1, <3>2 DEF OrEmpty
  <2> QED
    BY <2>1, <2>2
<1>8. After(s, gap) \in Seq(Field) /\ OrEmpty(After(s, gap)) = r
  <2>1. CASE gap = Len(s) - 1 /\ Last(s) = Empty
    <3>1. After(s, gap) = <<>> /\ OrEmpty(<<>>) = <<Empty>>
      BY <2>1 DEF After, OrEmpty
    <3>2. r = <<Empty>>
      <4>1. Len(r) = 1 /\ gap + 1 = Len(s)
        BY <1>2, <1>5, <2>1
      <4>2. r[1] = Empty
        BY <1>5, <2>1, <4>1 DEF Last
      <4>3. r = [i \in 1..1 |-> r[i]]
        BY <4>1, <1>5, Elements
      <4> QED
        BY <4>1, <4>2, <4>3
    <3> QED
      BY <3>1, <3>2
  <2>2. CASE ~(gap = Len(s) - 1 /\ Last(s) = Empty)
    <3>1. After(s, gap) = r
      BY <2>2 DEF After, r
    <3>2. r # <<>>
      BY <1>2, <1>5
    <3> QED
      BY <1>5, <3>1, <3>2 DEF OrEmpty
  <2> QED
    BY <2>1, <2>2
<1> QED
  BY <1>6, <1>7, <1>8

(* g are groups with a run of zeros between before and after.               *)
IsFilled(g, before, after) ==
  \E i \in 0..NGroups, j \in 1..(NGroups + 1) :
     /\ g \in HexGroups /\ ZeroRun(g, i, j)
     /\ SubSeq(g, 1, i) = before /\ SubSeq(g, j, NGroups) = after

(* What the parser fills a gap with is at least one zero group.             *)
LEMMA FilledGroups ==
  ASSUME NEW before \in Seq(Field), NEW after \in Seq(Field), NEW g \in Filled(before, after),
         \A i \in DOMAIN g : g[i].t = "hex"
  PROVE  IsFilled(g, before, after)
<1>1. PICK n \in 0..NGroups : /\ n + Len(before) + Len(after) = NGroups
                              /\ NGroups - n <= GroupsBesideGap
                              /\ g = before \o [i \in 1..n |-> Hex(0)] \o after
  BY DEF Filled
<1> DEFINE z == [k \in 1..n |-> Hex(0)]
           i == Len(before)
           j == i + n + 1
<1>2. /\ NGroups \in Nat \ {0} /\ n \in Nat /\ i \in Nat /\ Len(after) \in Nat
      /\ i + n + Len(after) = NGroups /\ n >= 1
  <2>1. NGroups \in Nat \ {0} /\ i \in Nat /\ Len(after) \in Nat
    BY Widths, Elements
  <2> QED
    BY <1>1, <2>1 DEF GroupsBesideGap
<1>3. z \in Seq(HexField) /\ Len(z) = n /\ \A k \in 1..n : z[k] = Hex(0)
  <2>1. Hex(0) \in HexField
    <3>1. Pow2[GroupBits] \in Nat \ {0}
      BY Widths, PowerIn
    <3> QED
      BY <3>1 DEF Hex, HexField
  <2>2. z = [k \in 1..n |-> z[k]] /\ \A k \in 1..n : z[k] = Hex(0)
    OBVIOUS
  <2> HIDE DEF z
  <2> QED
    BY <1>2, <2>1, <2>2, FromElements
<1>4. z \in Seq(Field)
  <2> HIDE DEF z
  <2>1. \A k \in 1..Len(z) : z[k] \in Field
    BY <1>3, Elements, HexKnown
  <2> QED
    BY <1>3, <2>1, Elements, FromElements
<1>5. IsJoinOf3(g, before, z, after, Field)
  <2>1. g = before \o z \o after
    BY <1>1
  <2> HIDE DEF z
  <2> QED
    BY <1>4, <2>1, JoinedOf3
<1> HIDE DEF z
<1>6. /\ g \in Seq(Field) /\ Len(g) = NGroups
      /\ \A k \in 1..i : g[k] = before[k]
      /\ \A k \in 1..n : g[i + k] = Hex(0)
      /\ \A k \in 1..Len(after) : g[i + n + k] = after[k]
  <2>1. /\ g \in Seq(Field) /\ Len(g) = Len(before) + Len(z) + Len(after)
        /\ \A k \in 1..Len(before) : g[k] = before[k]
        /\ \A k \in 1..Len(z) : g[Len(before) + k] = z[k]
        /\ \A k \in 1..Len(after) : g[Len(before) + Len(z) + k] = after[k]
    BY <1>5 DEF IsJoinOf3
  <2> QED
    BY <1>2, <1>3, <2>1
<1> HIDE DEF i
<1>7. g \in HexGroups
  <2>1. g = [k \in 1..NGroups |-> g[k]] /\ \A k \in 1..NGroups : g[k] \in Field
    BY <1>6, Elements
  <2>2. \A k \in 1..NGroups : g[k] \in HexField
    BY <2>1, HexOnly
  <2> QED
    BY <2>1, <2>2 DEF HexGroups
<1>8. i \in 0..NGroups /\ j \in 1..(NGroups + 1) /\ i + 1 < j
  BY <1>2
<1>9. ZeroRun(g, i, j)
  <2>1. ASSUME NEW k \in (i + 1)..(j - 1) PROVE g[k] = Hex(0)
    <3>1. k - i \in 1..n /\ i + (k - i) = k
      BY <1>2
    <3> QED
      BY <1>6, <3>1
  <2> QED
    BY <1>8, <2>1 DEF ZeroRun
<1>10. SubSeq(g, 1, i) = before
  <2> DEFINE p == SubSeq(g, 1, i)
  <2>1. IsPiece(p, g, 1, i, Field)
    <3>1. 1 \in 1..(Len(g) + 1) /\ i \in 0..Len(g) /\ 1 <= i + 1
      BY <1>2, <1>6, <1>8
    <3> QED
      BY <1>6, <3>1, Piece
  <2> HIDE DEF p
  <2>2. p \in Seq(Field) /\ Len(p) = i - 1 + 1 /\ \A k \in 1..(i - 1 + 1) : p[k] = g[1 + k - 1]
    BY <2>1 DEF IsPiece
  <2>3. i - 1 + 1 = i /\ (\A k \in 1..i : 1 + k - 1 = k) /\ Len(before) = i
    BY <1>2 DEF i
  <2>4. p = before
    BY <1>6, <2>2, <2>3, Equal
  <2> QED
    BY <2>4 DEF p
<1>11. SubSeq(g, j, NGroups) = after
  <2> DEFINE p == SubSeq(g, j, NGroups)
  <2> HIDE DEF j
  <2>0. j = i + n + 1
    BY DEF j
  <2>1. IsPiece(p, g, j, NGroups, Field)
    <3>1. j \in 1..(Len(g) + 1) /\ NGroups \in 0..Len(g) /\ j <= NGroups + 1
      BY <1>2, <1>6, <1>8, <2>0
    <3> QED
      BY <1>6, <3>1, Piece
  <2> HIDE DEF p
  <2>2. /\ p \in Seq(Field) /\ Len(p) = NGroups - j + 1
        /\ \A k \in 1..(NGroups - j + 1) : p[k] = g[j + k - 1]
    BY <2>1 DEF IsPiece
  <2>3. NGroups - j + 1 = Len(after) /\ \A k \in 1..Len(after) : j + k - 1 = i + n + k
    BY <1>2, <2>0
  <2>4. Len(p) = Len(after) /\ \A k \in 1..Len(p) : p[k] = after[k]
    <3>1. Len(p) = Len(after) /\ \A k \in 1..Len(after) : p[k] = g[j + k - 1]
      BY <2>2, <2>3
    <3>2. \A k \in 1..Len(after) : p[k] = g[i + n + k]
      BY <2>3, <3>1
    <3> QED
      BY <1>6, <3>1, <3>2
  <2>5. p = after
    BY <2>2, <2>4, Equal
  <2> QED
    BY <2>5 DEF p
<1> QED
  BY <1>7, <1>8, <1>9, <1>10, <1>11 DEF IsFilled

(* s is a way to write the groups g: in full, or with a run of zero groups  *)
(* left out.                                                                *)
WrittenAs(s, g) ==
  \/ s = g
  \/ \E i \in 0..NGroups, j \in 1..(NGroups + 1) : ZeroRun(g, i, j) /\ s = Shortened(g, i, j)

(* The parser takes s for the groups g.                                     *)
IsReading(g, s) == g \in AllGroups(s) /\ \A i \in DOMAIN g : g[i].t = "hex"

(* What the parser takes a text for is groups that are written so.          *)
LEMMA ReadGroups ==
  ASSUME NEW s \in Seq(Field), NEW g, IsReading(g, s)
  PROVE  g \in HexGroups /\ WrittenAs(s, g)
<1>1. CASE Gaps(s) = {}
  <2>1. s = g /\ Len(g) = NGroups
    BY <1>1 DEF IsReading, AllGroups
  <2>2. g = [i \in 1..NGroups |-> g[i]] /\ \A i \in 1..NGroups : g[i] \in Field
    BY <2>1, Elements
  <2>3. \A i \in 1..NGroups : g[i] \in HexField
    BY <2>2, HexOnly DEF IsReading
  <2> QED
    BY <2>1, <2>2, <2>3 DEF HexGroups, WrittenAs
<1>2. CASE Gaps(s) # {}
  <2>1. PICK gap \in Gaps(s) : g \in Filled(Before(s, gap), After(s, gap))
    BY <1>2 DEF IsReading, AllGroups
  <2> DEFINE before == Before(s, gap)
             after == After(s, gap)
  <2>2. /\ before \in Seq(Field) /\ after \in Seq(Field)
        /\ s = OrEmpty(before) \o <<Empty>> \o OrEmpty(after)
    BY SplitAtGap
  <2> HIDE DEF before, after
  <2>3. g \in Filled(before, after) /\ \A i \in DOMAIN g : g[i].t = "hex"
    BY <2>1 DEF before, after, IsReading
  <2>4. PICK i \in 0..NGroups, j \in 1..(NGroups + 1) :
            /\ g \in HexGroups /\ ZeroRun(g, i, j)
            /\ SubSeq(g, 1, i) = before /\ SubSeq(g, j, NGroups) = after
    <3>1. IsFilled(g, before, after)
      BY <2>2, <2>3, FilledGroups
    <3> QED
      BY <3>1 DEF IsFilled
  <2>5. s = Shortened(g, i, j)
    BY <2>2, <2>4 DEF Shortened
  <2> QED
    BY <2>4, <2>5 DEF WrittenAs
<1> QED
  BY <1>1, <1>2

(* The groups of an address are a sequence of hexadecimal groups.           *)
LEMMA HexGroupsSeq ==
  ASSUME NEW g \in HexGroups
  PROVE  g \in Seq(HexField) /\ Len(g) = NGroups /\ \A i \in 1..NGroups : g[i] = Hex(g[i].v)
<1>1. g = [i \in 1..NGroups |-> g[i]] /\ \A i \in 1..NGroups : g[i] \in HexField
  BY DEF HexGroups
<1> QED
  BY <1>1, Widths, FromElements, HexKnown

(* Groups written in full are read as what they are.                        *)
LEMMA WrittenInFull ==
  ASSUME NEW g \in HexGroups
  PROVE  IsReading(g, g)
<1>1. Len(g) = NGroups /\ DOMAIN g = 1..NGroups /\ NGroups \in Nat /\ \A i \in 1..NGroups : g[i] \in HexField
  BY HexGroupsKnown
<1>2. \A i \in 1..NGroups : g[i] # Empty /\ g[i].t = "hex"
  BY <1>1, HexKnown
<1>3. Gaps(g) = {}
  BY <1>1, <1>2 DEF Gaps
<1> QED
  BY <1>1, <1>2, <1>3 DEF IsReading, AllGroups

(* What is before and after a run of zeros.                                 *)
LEMMA PiecesOf ==
  ASSUME NEW g \in HexGroups, NEW i \in 0..NGroups, NEW j \in 1..(NGroups + 1), i + 1 < j
  PROVE  /\ SubSeq(g, 1, i) \in Seq(HexField) /\ Len(SubSeq(g, 1, i)) = i
         /\ SubSeq(g, j, NGroups) \in Seq(HexField) /\ Len(SubSeq(g, j, NGroups)) = NGroups + 1 - j
         /\ \A k \in 1..i : SubSeq(g, 1, i)[k] = g[k]
         /\ \A k \in 1..(NGroups + 1 - j) : SubSeq(g, j, NGroups)[k] = g[(j - 1) + k]
<1>1. g \in Seq(HexField) /\ Len(g) = NGroups /\ NGroups \in Nat
  BY HexGroupsSeq, Widths
<1>2. /\ 1 \in 1..(Len(g) + 1) /\ i \in 0..Len(g) /\ 1 <= i + 1
      /\ j \in 1..(Len(g) + 1) /\ NGroups \in 0..Len(g) /\ j <= NGroups + 1
  BY <1>1
<1> DEFINE p == SubSeq(g, 1, i)
           q == SubSeq(g, j, NGroups)
<1>3. IsPiece(p, g, 1, i, HexField)
  BY <1>1, <1>2, Piece
<1>4. IsPiece(q, g, j, NGroups, HexField)
  BY <1>1, <1>2, Piece
<1> HIDE DEF p, q
<1>5. p \in Seq(HexField) /\ Len(p) = i /\ \A k \in 1..i : p[k] = g[k]
  <2>1. p \in Seq(HexField) /\ Len(p) = i - 1 + 1 /\ \A k \in 1..(i - 1 + 1) : p[k] = g[1 + k - 1]
    BY <1>3 DEF IsPiece
  <2>2. i - 1 + 1 = i /\ \A k \in 1..i : 1 + k - 1 = k
    BY <1>1
  <2> QED
    BY <2>1, <2>2
<1>6. q \in Seq(HexField) /\ Len(q) = NGroups + 1 - j /\ \A k \in 1..(NGroups + 1 - j) : q[k] = g[(j - 1) + k]
  <2>1. /\ q \in Seq(HexField) /\ Len(q) = NGroups - j + 1
        /\ \A k \in 1..(NGroups - j + 1) : q[k] = g[j + k - 1]
    BY <1>4 DEF IsPiece
  <2>2. NGroups - j + 1 = NGroups + 1 - j /\ \A k \in 1..(NGroups + 1 - j) : j + k - 1 = (j - 1) + k
    BY <1>1
  <2> QED
    BY <2>1, <2>2
<1> QED
  BY <1>5, <1>6 DEF p, q

(* Groups with a run of zeros left out are read as what they were, wherever *)
(* the run is, at an end of the text or as all of it.                       *)
LEMMA WrittenShort ==
  ASSUME NEW g \in HexGroups, NEW i \in 0..NGroups, NEW j \in 1..(NGroups + 1), ZeroRun(g, i, j)
  PROVE  Shortened(g, i, j) \in Seq(Field) /\ IsReading(g, Shortened(g, i, j))
<1> DEFINE s == Shortened(g, i, j)
           before == SubSeq(g, 1, i)
           after == SubSeq(g, j, NGroups)
           n == j - i - 1
           z == [k \in 1..n |-> Hex(0)]
           gap == Len(OrEmpty(before)) + 1
<1>1. i + 1 < j /\ NGroups \in Nat \ {0} /\ \A k \in (i + 1)..(j - 1) : g[k] = Hex(0)
  BY Widths DEF ZeroRun
<1>2. /\ before \in Seq(HexField) /\ Len(before) = i /\ after \in Seq(HexField)
      /\ Len(after) = NGroups + 1 - j /\ \A k \in 1..i : before[k] = g[k]
      /\ \A k \in 1..(NGroups + 1 - j) : after[k] = g[(j - 1) + k]
  BY <1>1, PiecesOf
<1>3. s = OrEmpty(before) \o <<Empty>> \o OrEmpty(after)
  BY DEF Shortened
<1>4. n \in 0..NGroups /\ n >= 1 /\ n + i + (NGroups + 1 - j) = NGroups /\ NGroups - n <= NGroups - 1
      /\ i + n = j - 1
  BY <1>1
<1>5. z \in Seq(HexField) /\ Len(z) = n /\ \A k \in 1..n : z[k] = Hex(0)
  <2>1. Hex(0) \in HexField
    <3>1. Pow2[GroupBits] \in Nat \ {0}
      BY Widths, PowerIn
    <3> QED
      BY <3>1 DEF Hex, HexField
  <2>2. z = [k \in 1..n |-> z[k]] /\ \A k \in 1..n : z[k] = Hex(0)
    OBVIOUS
  <2> HIDE DEF z, n
  <2>3. n \in Nat /\ \A k \in 1..n : z[k] \in HexField
    BY <1>1, <1>4, <2>1, <2>2
  <2> QED
    BY <2>2, <2>3, FromElements
<1>6. /\ s \in Seq(Field) /\ Gaps(s) = {gap}
      /\ Before(s, gap) = before /\ After(s, gap) = after
  <2> HIDE DEF before, after, s
  <2> QED
    BY <1>2, <1>3, GapOf
<1> HIDE DEF s, before, after, z, n
<1>7. g = before \o z \o after
  <2> DEFINE r == before \o z \o after
  <2>1. IsJoinOf3(r, before, z, after, HexField)
    BY <1>2, <1>5, JoinedOf3
  <2> HIDE DEF r
  <2>2. /\ r \in Seq(HexField) /\ Len(r) = i + n + (NGroups + 1 - j)
        /\ \A k \in 1..i : r[k] = before[k]
        /\ \A k \in 1..n : r[i + k] = z[k]
        /\ \A k \in 1..(NGroups + 1 - j) : r[i + n + k] = after[k]
    BY <1>2, <1>5, <2>1 DEF IsJoinOf3
  <2>3. g \in Seq(HexField) /\ Len(g) = NGroups
    BY HexGroupsSeq
  <2>4. Len(r) = NGroups
    BY <1>1, <1>4, <2>2
  <2>5. ASSUME NEW k \in 1..NGroups PROVE r[k] = g[k]
    <3>1. CASE k \in 1..i
      BY <1>2, <2>2, <3>1
    <3>2. CASE k - i \in 1..n
      <4>1. i + (k - i) = k /\ k \in (i + 1)..(j - 1)
        BY <1>1, <1>4, <3>2
      <4>2. r[i + (k - i)] = z[k - i] /\ z[k - i] = Hex(0)
        BY <1>5, <2>2, <3>2
      <4> QED
        BY <1>1, <4>1, <4>2
    <3>3. CASE k - (j - 1) \in 1..(NGroups + 1 - j)
      <4>1. i + n + (k - (j - 1)) = k /\ (j - 1) + (k - (j - 1)) = k
        BY <1>1, <1>4
      <4>2. r[i + n + (k - (j - 1))] = after[k - (j - 1)]
        BY <2>2, <3>3
      <4>3. after[k - (j - 1)] = g[(j - 1) + (k - (j - 1))]
        BY <1>2, <3>3
      <4> QED
        BY <4>1, <4>2, <4>3
    <3>4. k \in 1..i \/ k - i \in 1..n \/ k - (j - 1) \in 1..(NGroups + 1 - j)
      BY <1>1, <1>4
    <3> QED
      BY <3>1, <3>2, <3>3, <3>4
  <2>6. r = g
    BY <2>2, <2>3, <2>4, <2>5, Equal
  <2> QED
    BY <2>6 DEF r
<1>8. g \in Filled(before, after)
  <2>1. n + Len(before) + Len(after) = NGroups /\ NGroups - n <= GroupsBesideGap
    BY <1>2, <1>4 DEF GroupsBesideGap
  <2>2. g = before \o [k \in 1..n |-> Hex(0)] \o after
    BY <1>7 DEF z
  <2> QED
    BY <1>4, <2>1, <2>2 DEF Filled
<1>9. g \in AllGroups(s)
  <2> HIDE DEF gap
  <2> QED
    BY <1>6, <1>8 DEF AllGroups
<1>10. \A k \in DOMAIN g : g[k].t = "hex"
  BY HexGroupsKnown, HexKnown
<1> QED
  BY <1>6, <1>9, <1>10 DEF IsReading, s

(* However groups are written, the parser reads them again, and there is no *)
(* quad in the text.                                                        *)
LEMMA NoQuads ==
  ASSUME NEW g \in HexGroups, NEW s, WrittenAs(s, g)
  PROVE  s \in Seq(Field) /\ IsReading(g, s) /\ \A k \in 1..Len(s) : s[k].t # "quad"
<1>1. CASE s = g
  BY <1>1, WrittenInFull, HexGroupsKnown, HexKnown
<1>2. ASSUME NEW i \in 0..NGroups, NEW j \in 1..(NGroups + 1), ZeroRun(g, i, j), s = Shortened(g, i, j)
      PROVE  \A k \in 1..Len(s) : s[k].t # "quad"
  <2> DEFINE before == SubSeq(g, 1, i)
             after == SubSeq(g, j, NGroups)
             a == OrEmpty(before)
             c == OrEmpty(after)
  <2>1. before \in Seq(HexField) /\ after \in Seq(HexField)
    BY <1>2, PiecesOf DEF ZeroRun
  <2> HIDE DEF before, after
  <2>2. ASSUME NEW b \in Seq(HexField)
        PROVE  OrEmpty(b) \in Seq(Field) /\ \A k \in 1..Len(OrEmpty(b)) : OrEmpty(b)[k].t # "quad"
    <3>1. CASE b = <<>>
      <4>1. OrEmpty(b) = <<Empty>>
        BY <3>1 DEF OrEmpty
      <4> QED
        BY <4>1, <2>2, Padded DEF Empty
    <3>2. CASE b # <<>>
      BY <3>2, <2>2, Padded, HexKnown
    <3> QED
      BY <3>1, <3>2
  <2>3. /\ a \in Seq(Field) /\ \A k \in 1..Len(a) : a[k].t # "quad"
        /\ c \in Seq(Field) /\ \A k \in 1..Len(c) : c[k].t # "quad"
    BY <2>1, <2>2
  <2>4. s = a \o <<Empty>> \o c /\ Empty \in Field /\ Empty.t # "quad"
    BY <1>2 DEF Shortened, before, after, Field, Empty
  <2> HIDE DEF a, c
  <2>5. IsJoin3(s, a, Empty, c, Field)
    BY <2>3, <2>4, Joined3
  <2>6. /\ Len(s) = Len(a) + 1 + Len(c)
        /\ \A k \in 1..Len(a) : s[k] = a[k]
        /\ s[Len(a) + 1] = Empty
        /\ \A k \in 1..Len(c) : s[Len(a) + 1 + k] = c[k]
    BY <2>5 DEF IsJoin3
  <2>7. Len(a) \in Nat /\ Len(c) \in Nat
    BY <2>3, Elements
  <2>8. ASSUME NEW k \in 1..Len(s) PROVE s[k].t # "quad"
    <3>1. \/ k \in 1..Len(a) \/ k = Len(a) + 1
          \/ k - (Len(a) + 1) \in 1..Len(c) /\ Len(a) + 1 + (k - (Len(a) + 1)) = k
      BY <2>6, <2>7
    <3>2. CASE k \in 1..Len(a)
      BY <3>2, <2>3, <2>6
    <3>3. CASE k = Len(a) + 1
      BY <3>3, <2>4, <2>6
    <3>4. CASE k - (Len(a) + 1) \in 1..Len(c) /\ Len(a) + 1 + (k - (Len(a) + 1)) = k
      <4>1. s[Len(a) + 1 + (k - (Len(a) + 1))] = c[k - (Len(a) + 1)]
        BY <2>6, <3>4
      <4> QED
        BY <2>3, <3>4, <4>1
    <3> QED
      BY <3>1, <3>2, <3>3, <3>4
  <2> QED
    BY <2>8
<1>3. ASSUME NEW i \in 0..NGroups, NEW j \in 1..(NGroups + 1), ZeroRun(g, i, j), s = Shortened(g, i, j)
      PROVE  s \in Seq(Field) /\ IsReading(g, s)
  BY <1>3, WrittenShort
<1> QED
  BY <1>1, <1>2, <1>3 DEF WrittenAs

(* The number the groups of an address make.                                *)
GroupValue(g) == Value([i \in DOMAIN g |-> g[i].v], GroupBits)

(* It fits, and the groups can be read off it.                              *)
LEMMA ValueOfGroups ==
  ASSUME NEW g \in HexGroups
  PROVE  GroupValue(g) \in 0..(Pow2[V6Bits] - 1) /\ HexSeq(GroupValue(g)) = g
<1> DEFINE digits == [i \in DOMAIN g |-> g[i].v]
           x == Value(digits, GroupBits)
<1>1. DOMAIN g = 1..NGroups /\ NGroups \in Nat /\ GroupBits \in Nat /\ \A i \in 1..NGroups : g[i] \in HexField
  BY HexGroupsKnown, Widths
<1>2. digits \in Seq(0..(Pow2[GroupBits] - 1)) /\ Len(digits) = NGroups
      /\ \A i \in 1..NGroups : digits[i] = g[i].v
  <2>1. digits = [i \in 1..NGroups |-> digits[i]] /\ \A i \in 1..NGroups : digits[i] = g[i].v
    BY <1>1
  <2> HIDE DEF digits
  <2>2. ASSUME NEW i \in 1..NGroups PROVE digits[i] \in 0..(Pow2[GroupBits] - 1)
    <3>1. g[i].v \in 0..(Pow2[GroupBits] - 1)
      BY <1>1, HexKnown
    <3> QED
      BY <2>1, <3>1
  <2>3. digits \in Seq(0..(Pow2[GroupBits] - 1)) /\ Len(digits) = NGroups
    <3> DEFINE T == 0..(Pow2[GroupBits] - 1)
    <3>1. \A i \in 1..NGroups : digits[i] \in T
      BY <2>2
    <3> HIDE DEF T
    <3>2. digits \in Seq(T) /\ Len(digits) = NGroups
      BY <1>1, <2>1, <3>1, FromElements
    <3> QED
      BY <3>2 DEF T
  <2> QED
    BY <2>1, <2>3
<1> HIDE DEF digits
<1>3. x \in Nat /\ x < Pow2[V6Bits]
  BY <1>1, <1>2, ValueBound, Widths
<1>4. Pow2[V6Bits] \in Nat
  BY Widths, PowerIn
<1>5. ASSUME NEW i \in 1..NGroups
      PROVE Hex((x \div Pow2[GroupBits * (NGroups - i)]) % Pow2[GroupBits]) = g[i]
  <2>1. (x \div Pow2[GroupBits * (NGroups - i)]) % Pow2[GroupBits] = digits[i]
    BY <1>1, <1>2, DigitsOfValue
  <2>2. g[i] = Hex(g[i].v) /\ digits[i] = g[i].v
    BY <1>1, <1>2, HexKnown
  <2> QED
    BY <2>1, <2>2
<1>6. HexSeq(x) = g
  <2>1. g = [i \in 1..NGroups |-> g[i]]
    BY DEF HexGroups
  <2> HIDE DEF x
  <2> QED
    BY <1>5, <2>1 DEF HexSeq
<1> QED
  BY <1>3, <1>4, <1>6 DEF GroupValue, digits

(* The groups of a number make that number.                                 *)
LEMMA GroupsOfValue ==
  ASSUME NEW x \in 0..(Pow2[V6Bits] - 1)
  PROVE  HexSeq(x) \in HexGroups /\ GroupValue(HexSeq(x)) = x
<1> DEFINE digits == [i \in 1..NGroups |-> (x \div Pow2[GroupBits * (NGroups - i)]) % Pow2[GroupBits]]
           g == HexSeq(x)
<1>1. /\ GroupBits \in Nat /\ NGroups \in Nat /\ x \in Nat /\ x < Pow2[GroupBits * NGroups]
      /\ V6Bits = GroupBits * NGroups
  BY Widths, PowerIn
<1>2. digits \in Seq(0..(Pow2[GroupBits] - 1)) /\ Len(digits) = NGroups /\ Value(digits, GroupBits) = x
  <2> DEFINE d == digits
  <2>1. d = [i \in 1..NGroups |-> (x \div Pow2[GroupBits * (NGroups - i)]) % Pow2[GroupBits]]
    OBVIOUS
  <2> HIDE DEF d
  <2>2. d \in Seq(0..(Pow2[GroupBits] - 1)) /\ Len(d) = NGroups /\ Value(d, GroupBits) = x
    <3>1. IsDigits(d, x, NGroups, GroupBits)
      BY <2>1 DEF IsDigits
    <3> QED
      BY <1>1, <3>1, ValueOfDigits
  <2> QED
    BY <2>2 DEF d
<1>3. \A i \in 1..NGroups : digits[i] \in 0..(Pow2[GroupBits] - 1)
  <2> HIDE DEF digits
  <2> QED
    BY <1>2, Elements
<1>4. DOMAIN g = 1..NGroups /\ g = [i \in 1..NGroups |-> g[i]] /\ \A i \in 1..NGroups : g[i] = Hex(digits[i])
  BY DEF HexSeq
<1>5. g \in HexGroups
  <2>1. \A i \in 1..NGroups : Hex(digits[i]) \in HexField
    <3> HIDE DEF digits
    <3> QED
      BY <1>3 DEF Hex, HexField
  <2> HIDE DEF g, digits
  <2> QED
    BY <1>4, <2>1 DEF HexGroups
<1>6. [i \in DOMAIN g |-> g[i].v] = digits
  <2>1. digits = [i \in 1..NGroups |-> digits[i]]
    OBVIOUS
  <2> HIDE DEF g, digits
  <2>2. \A i \in 1..NGroups : g[i].v = digits[i]
    BY <1>4 DEF Hex
  <2> QED
    BY <1>4, <2>1, <2>2
<1>7. GroupValue(g) = x
  <2> HIDE DEF g, digits
  <2> QED
    BY <1>2, <1>6 DEF GroupValue
<1> QED
  BY <1>5, <1>7

(* The writings of a number are those of its groups.                        *)
LEMMA InWritings ==
  ASSUME NEW v, NEW s
  PROVE  s \in WritingsOf(v) <=> WrittenAs(s, HexSeq(v))
<1> DEFINE g == HexSeq(v)
           R == {p \in (0..NGroups) \X (1..NGroups + 1) : ZeroRun(g, p[1], p[2])}
<1> HIDE DEF g
<1>1. ASSUME NEW i \in 0..NGroups, NEW j \in 1..(NGroups + 1), ZeroRun(g, i, j), s = Shortened(g, i, j)
      PROVE  s \in {Shortened(g, run[1], run[2]) : run \in R}
  <2> DEFINE p == <<i, j>>
  <2>1. p \in (0..NGroups) \X (1..NGroups + 1) /\ p[1] = i /\ p[2] = j
    OBVIOUS
  <2> HIDE DEF p
  <2>2. p \in R
    BY <1>1, <2>1
  <2> HIDE DEF R
  <2> QED
    BY <1>1, <2>1, <2>2
<1>2. ASSUME s \in {Shortened(g, run[1], run[2]) : run \in R}
      PROVE  \E i \in 0..NGroups, j \in 1..(NGroups + 1) : ZeroRun(g, i, j) /\ s = Shortened(g, i, j)
  <2>1. PICK run \in R : s = Shortened(g, run[1], run[2])
    BY <1>2
  <2>2. run[1] \in 0..NGroups /\ run[2] \in 1..(NGroups + 1) /\ ZeroRun(g, run[1], run[2])
    BY <2>1
  <2> QED
    BY <2>1, <2>2
<1>3. WritingsOf(v) = {g} \cup {Shortened(g, run[1], run[2]) : run \in R}
  BY DEF WritingsOf, g
<1> HIDE DEF R
<1>4. s \in WritingsOf(v) <=> s = g \/ s \in {Shortened(g, run[1], run[2]) : run \in R}
  BY <1>3
<1> QED
  BY <1>1, <1>2, <1>4 DEF WrittenAs, g

(* The parser reads a number from a text exactly if the text is one of its  *)
(* writings.                                                                *)
LEMMA ReadingsOf ==
  ASSUME NEW s \in Seq(Field), NEW v
  PROVE  (\E g : IsReading(g, s) /\ v = GroupValue(g))
         <=> v \in 0..(Pow2[V6Bits] - 1) /\ s \in Writings[v]
<1>1. ASSUME NEW g, IsReading(g, s), v = GroupValue(g)
      PROVE  v \in 0..(Pow2[V6Bits] - 1) /\ s \in Writings[v]
  <2>1. g \in HexGroups /\ WrittenAs(s, g)
    BY <1>1, ReadGroups
  <2>2. v \in 0..(Pow2[V6Bits] - 1) /\ HexSeq(v) = g
    BY <1>1, <2>1, ValueOfGroups
  <2>3. s \in WritingsOf(v)
    BY <2>1, <2>2, InWritings
  <2> QED
    BY <2>2, <2>3 DEF Writings
<1>2. ASSUME v \in 0..(Pow2[V6Bits] - 1), s \in Writings[v]
      PROVE  IsReading(HexSeq(v), s) /\ v = GroupValue(HexSeq(v))
  <2>1. WrittenAs(s, HexSeq(v))
    BY <1>2, InWritings DEF Writings
  <2>2. HexSeq(v) \in HexGroups /\ GroupValue(HexSeq(v)) = v
    BY <1>2, GroupsOfValue
  <2> QED
    BY <2>1, <2>2, NoQuads
<1> QED
  BY <1>1, <1>2

(* There is no quad in a writing.                                           *)
LEMMA WritingHasNoQuad ==
  ASSUME NEW v \in 0..(Pow2[V6Bits] - 1), NEW s \in Writings[v]
  PROVE  \A k \in 1..Len(s) : s[k].t # "quad"
BY InWritings, GroupsOfValue, NoQuads DEF Writings

(* A text that ends with a quad after a colon.                              *)
HasTail(text) == Len(text) > 1 /\ Last(text).t = "quad"

(* The parser replaces such a quad by the two groups it stands for, if its  *)
(* octets fit, and reads nothing otherwise (ipmatch.js 45-53).              *)
LEMMA TailGone ==
  ASSUME NEW text \in Text, HasTail(text)
  PROVE  LET q == Last(text).v
             good == \A o \in DOMAIN q : q[o] < Pow2[OctetBits] IN
           /\ WithoutTail(text) = IF good THEN {WithoutQuad(text)} ELSE {}
           /\ good => WithoutQuad(text) \in Seq(Field)
           /\ ~good => ~GoodQuads(text)
           /\ good /\ (\A k \in 1..Len(WithoutQuad(text)) : WithoutQuad(text)[k].t # "quad")
              => GoodQuads(text)
<1> DEFINE n == Len(text)
           f == text[n]
           q == f.v
           good == \A o \in DOMAIN q : q[o] < Pow2[OctetBits]
           P == Pow2[GroupBits]
           front == Front(text)
           x == Value(q, OctetBits)
           y == <<Hex(x \div P), Hex(x % P)>>
           z == [i \in 1..2 |-> Hex((x \div Pow2[GroupBits * (2 - i)]) % P)]
<1>1. /\ text \in Seq(Field) /\ n \in Nat /\ n > 1 /\ DOMAIN text = 1..n /\ Last(text) = f /\ n \in 1..n
      /\ f \in Field /\ f.t = "quad" /\ q \in [1..NOctets -> Nat] /\ DOMAIN q = 1..NOctets
  <2>1. text \in Seq(Field) /\ n \in Nat /\ n > 1 /\ DOMAIN text = 1..n /\ Last(text) = f
    BY TextFields DEF HasTail, Last
  <2>2. f \in Field /\ f.t = "quad"
    BY <2>1, TextFields DEF HasTail
  <2>3. q \in [1..NOctets -> Nat]
    BY <2>2, Fields
  <2> QED
    BY <2>1, <2>2, <2>3
<1>2. IsPiece(front, text, 1, n - 1, Field)
  <2>1. front = SubSeq(text, 1, n - 1)
    BY DEF Front
  <2>2. 1 \in 1..(Len(text) + 1) /\ n - 1 \in 0..Len(text) /\ 1 <= (n - 1) + 1
    BY <1>1
  <2> HIDE DEF front
  <2>3. n - 1 \in Nat
    BY <1>1
  <2> QED
    BY <1>1, <2>1, <2>2, Piece
<1> HIDE DEF front
<1>3. front \in Seq(Field) /\ Len(front) = n - 1 /\ \A k \in 1..(n - 1) : front[k] = text[k]
  <2>1. /\ front \in Seq(Field) /\ Len(front) = (n - 1) - 1 + 1
        /\ \A k \in 1..((n - 1) - 1 + 1) : front[k] = text[1 + k - 1]
    BY <1>2 DEF IsPiece
  <2>2. (n - 1) - 1 + 1 = n - 1 /\ \A k \in 1..(n - 1) : 1 + k - 1 = k
    BY <1>1
  <2> QED
    BY <2>1, <2>2
<1>4. ParseIPv4(<<f>>) = IF good THEN {x} ELSE {}
  <2> DEFINE t == <<f>>
  <2>1. t \in Seq(Field) /\ t # <<>> /\ Len(t) = 1 /\ t[1] = f /\ DOMAIN t = {1}
    BY <1>1
  <2> HIDE DEF t, f
  <2>2. t \in Text
    BY <2>1 DEF Text
  <2>3. ParseIPv4(t) = MeantV4(t)
    BY <2>2, V4Parsed
  <2>4. GoodQuads(t) <=> good
    BY <1>1, <2>1 DEF GoodQuads
  <2> HIDE DEF good
  <2> QED
    BY <1>1, <2>1, <2>3, <2>4 DEF MeantV4, t
<1>5. WithoutQuad(text) = front \o z
  BY <1>1 DEF WithoutQuad, HasTail, front
<1>6. ASSUME good PROVE y = z /\ z \in Seq(Field)
  <2>1. x \in 0..(Pow2[V4Bits] - 1)
    BY <1>1, <1>6, QuadValue
  <2>2. Pow2[V4Bits] = P * P /\ P \in Nat \ {0} /\ Pow2[GroupBits * 1] = P /\ Pow2[GroupBits * 0] = 1
    <3>1. GroupBits \in Nat /\ GroupBits * 1 = GroupBits /\ GroupBits * 0 = 0 /\ V4Bits = GroupBits + GroupBits
      BY Widths
    <3> QED
      BY <3>1, PowerSum, Powers
  <2> HIDE DEF x, P
  <2>3. x \in Nat /\ x < P * P
    BY <2>1, <2>2
  <2>4. x \div P \in Nat /\ x \div P < P /\ x % P \in 0..(P - 1)
    BY <2>2, <2>3, DivBelow, DivMod
  <2>5. (x \div P) % P = x \div P /\ x \div 1 = x
    <3> DEFINE d == x \div P
    <3>1. d \in Nat /\ d < P
      BY <2>4
    <3> HIDE DEF d
    <3>2. d % P = d
      BY <2>2, <3>1
    <3> QED
      BY <2>3, <3>2 DEF d
  <2>6. z = [i \in 1..2 |-> y[i]]
    <3>1. 2 - 1 = 1 /\ 2 - 2 = 0 /\ 1..2 = {1, 2}
      OBVIOUS
    <3> QED
      BY <2>2, <2>5, <3>1
  <2>7. y = [i \in 1..2 |-> y[i]] /\ Hex(x \div P) \in Field /\ Hex(x % P) \in Field
    BY <2>2, <2>4 DEF Hex, Field, P
  <2> QED
    BY <2>6, <2>7
<1>7. WithoutTail(text) = IF good THEN {front \o y} ELSE {}
  <2>1. WithoutTail(text) = {front \o <<Hex(v4 \div P), Hex(v4 % P)>> : v4 \in ParseIPv4(<<f>>)}
    BY <1>1 DEF WithoutTail, HasTail, front
  <2> HIDE DEF good, x, f, P
  <2> QED
    BY <1>4, <2>1
<1>8. ASSUME ~good PROVE ~GoodQuads(text)
  BY <1>1, <1>8 DEF GoodQuads
<1>9. ASSUME good, \A k \in 1..Len(front \o z) : (front \o z)[k].t # "quad" PROVE GoodQuads(text)
  <2> DEFINE w == front \o z
  <2>1. IsJoin(w, front, z, Field)
    <3>1. z \in Seq(Field)
      BY <1>6, <1>9
    <3> HIDE DEF w, z
    <3> QED
      BY <1>3, <3>1, Joined2 DEF w
  <2>2. Len(w) >= n - 1 /\ \A k \in 1..(n - 1) : w[k] = text[k]
    <3>1. Len(z) \in Nat
      BY <1>6, <1>9, Elements
    <3> HIDE DEF w, z, f
    <3> QED
      BY <1>1, <1>3, <2>1, <3>1 DEF IsJoin
  <2>3. ASSUME NEW k \in 1..(n - 1) PROVE text[k].t # "quad"
    <3> HIDE DEF w, z
    <3>1. k \in 1..Len(w)
      <4>1. Len(w) \in Nat
        BY <2>1, Elements DEF IsJoin
      <4> QED
        BY <1>1, <2>2, <4>1
    <3> QED
      BY <1>9, <2>2, <3>1 DEF w
  <2>4. \A k \in 1..n : k \in 1..(n - 1) \/ k = n
    <3>1. n \in Nat
      BY <1>1
    <3> QED
      BY ONLY <3>1
  <2> QED
    BY <1>1, <1>9, <2>3, <2>4 DEF GoodQuads
<1>10. Last(text).v = q
  BY <1>1
<1> HIDE DEF q, x, y, z, f
<1>11. good => WithoutQuad(text) \in Seq(Field)
  <2> SUFFICES ASSUME good PROVE front \o z \in Seq(Field)
    BY <1>5
  <2> HIDE DEF good
  <2> QED
    BY <1>3, <1>6, Joined2 DEF IsJoin
<1>12. WithoutTail(text) = IF good THEN {WithoutQuad(text)} ELSE {}
  BY <1>5, <1>6, <1>7
<1> QED
  BY <1>5, <1>8, <1>9, <1>10, <1>11, <1>12

(* The parser reads an IPv6 address exactly from the texts that mean one,   *)
(* and the one they mean (ipmatch.js 37-81).                                *)
LEMMA V6Parsed ==
  ASSUME NEW text \in Text
  PROVE  ParseIPv6(text) = MeantV6(text) /\ MeantV6(text) \subseteq 0..(Pow2[V6Bits] - 1)
<1> DEFINE w == WithoutQuad(text)
           R == 0..(Pow2[V6Bits] - 1)
           G == {g \in UNION {AllGroups(s) : s \in WithoutTail(text)} : \A i \in DOMAIN g : g[i].t = "hex"}
<1>1. ParseIPv6(text) = {GroupValue(g) : g \in G}
  BY DEF ParseIPv6, GroupValue
<1>2. \A v : v \in MeantV6(text) <=> v \in R /\ GoodQuads(text) /\ w \in Writings[v]
  BY DEF MeantV6
<1>3. \/ WithoutTail(text) = {} /\ ~GoodQuads(text)
      \/ WithoutTail(text) = {w} /\ w \in Seq(Field)
         /\ ((\A k \in 1..Len(w) : w[k].t # "quad") => GoodQuads(text))
  <2>1. CASE HasTail(text)
    BY <2>1, TailGone
  <2>2. CASE ~HasTail(text)
    <3>1. WithoutTail(text) = {text} /\ w = text
      BY <2>2 DEF HasTail, WithoutTail, WithoutQuad
    <3> QED
      BY <3>1, TextFields DEF GoodQuads
  <2> QED
    BY <2>1, <2>2
<1>4. CASE WithoutTail(text) = {} /\ ~GoodQuads(text)
  BY <1>1, <1>2, <1>4
<1>5. CASE WithoutTail(text) = {w} /\ w \in Seq(Field)
           /\ ((\A k \in 1..Len(w) : w[k].t # "quad") => GoodQuads(text))
  <2> HIDE DEF w
  <2>1. \A g : g \in G <=> IsReading(g, w)
    BY <1>5 DEF IsReading
  <2> HIDE DEF G
  <2>2. \A v : v \in ParseIPv6(text) <=> \E g : IsReading(g, w) /\ v = GroupValue(g)
    BY <1>1, <2>1
  <2>3. ASSUME NEW v PROVE v \in ParseIPv6(text) <=> v \in R /\ w \in Writings[v]
    BY <1>5, <2>2, ReadingsOf
  <2>4. ASSUME NEW v \in R, w \in Writings[v] PROVE GoodQuads(text)
    BY <1>5, <2>4, WritingHasNoQuad
  <2>6. MeantV6(text) \subseteq R
    BY <1>2
  <2> HIDE DEF R
  <2>5. \A v : v \in ParseIPv6(text) <=> v \in MeantV6(text)
    BY <1>2, <2>3, <2>4
  <2> QED
    BY <2>5, <2>6 DEF R
<1> QED
  BY <1>2, <1>3, <1>4, <1>5

-----------------------------------------------------------------------------
(* Entries                                                                  *)

(* The same for both families together.                                     *)
LEMMA Meanings ==
  ASSUME NEW text \in Text
  PROVE  /\ \A family \in {4, 6} : Meant(family, text) \subseteq 0..(Pow2[Bits(family)] - 1)
         /\ \A p \in Parsed(text) : p.family \in {4, 6} /\ p.addr \in Meant(p.family, text)
         /\ \A family \in {4, 6} : \A v \in Meant(family, text) :
              \E p \in Parsed(text) : p.family = family /\ p.addr = v
<1>1. ParseIPv4(text) = Meant(4, text) /\ ParseIPv6(text) = Meant(6, text)
  BY V4Parsed, V6Parsed DEF Meant
<1>2. \A family \in {4, 6} : Meant(family, text) \subseteq 0..(Pow2[Bits(family)] - 1)
  BY V4Parsed, V6Parsed DEF Meant, Bits
<1>3. Parsed(text) = {[family |-> 4, addr |-> v] : v \in Meant(4, text)}
                     \cup {[family |-> 6, addr |-> v] : v \in Meant(6, text)}
  BY <1>1 DEF Parsed
<1>4. ASSUME NEW family \in {4, 6}, NEW v \in Meant(family, text)
      PROVE  \E p \in Parsed(text) : p.family = family /\ p.addr = v
  <2> DEFINE p == [family |-> family, addr |-> v]
  <2>1. p \in Parsed(text)
    BY <1>3, <1>4
  <2> QED
    BY <2>1
<1>5. ASSUME NEW p \in Parsed(text) PROVE p.family \in {4, 6} /\ p.addr \in Meant(p.family, text)
  BY <1>3
<1> QED
  BY <1>2, <1>4, <1>5

(* With a prefix of no length every address has the same leading part.      *)
LEMMA WholeSpace ==
  ASSUME NEW w \in Nat, NEW a \in 0..(Pow2[w] - 1)
  PROVE  a \div Pow2[w] = 0
<1> DEFINE P == Pow2[w]
<1>1. P \in Nat \ {0} /\ a \in Nat /\ a < P
  BY PowerIn
<1> HIDE DEF P
<1>2. 0 * P + a = a
  BY <1>1
<1>3. (0 * P + a) \div P = 0
  BY <1>1, DivUnique
<1> QED
  BY <1>2, <1>3 DEF P

(* An entry lets an address of a family in.                                 *)
Matches(entry, family, addr) == \E desc \in ParseEntry(entry) : MatchEntry(desc, family, addr)

(* The three forms of an entry and what they are made of.                   *)
LEMMA EntryForms ==
  ASSUME NEW entry \in Entry
  PROVE  \/ entry.form = "addr" /\ entry.text \in Text
         \/ entry.form = "cidr" /\ entry.text \in Text /\ entry.len \in Nat
         \/ entry.form = "range" /\ entry.start \in Text /\ entry.end \in Text
BY DEF Entry

(* An address matches a prefix exactly if it is in the net (ipmatch.js      *)
(* 142-155).                                                                *)
LEMMA SameNetMatches ==
  ASSUME NEW family \in {4, 6}, NEW a \in 0..(Pow2[Bits(family)] - 1),
         NEW addr \in 0..(Pow2[Bits(family)] - 1), NEW len \in Nat, len <= Bits(family),
         NEW desc, desc = [type |-> "cidr", family |-> family, addr |-> a, len |-> len]
  PROVE  MatchEntry(desc, family, addr) <=> addr \in SameNet(family, a, len)
<1> DEFINE w == Bits(family)
           k == w - len
           same == addr \div Pow2[k] = a \div Pow2[k]
<1>1. w \in Nat /\ k \in Nat /\ len \in 0..w
  BY Widths DEF Bits
<1>2. addr \in SameNet(family, a, len) <=> same
  BY DEF SameNet
<1>3. MatchEntry(desc, family, addr)
      <=> \/ len = 0
          \/ family = 4 /\ Masked(addr, len) = Masked(a, len)
          \/ family = 6 /\ addr \div Pow2[V6Bits - len] = a \div Pow2[V6Bits - len]
  BY DEF MatchEntry
<1>4. len = 0 => same
  <2> SUFFICES ASSUME len = 0 PROVE same
    OBVIOUS
  <2>1. k = w
    BY <1>1
  <2> HIDE DEF w, k
  <2>2. addr \div Pow2[w] = 0 /\ a \div Pow2[w] = 0
    BY <1>1, WholeSpace DEF w
  <2> QED
    BY <2>1, <2>2
<1>5. family = 4 => (Masked(addr, len) = Masked(a, len) <=> same)
  <2> SUFFICES ASSUME family = 4 PROVE Masked(addr, len) = Masked(a, len) <=> same
    OBVIOUS
  <2>1. w = V4Bits
    BY DEF Bits
  <2> QED
    BY <1>1, <2>1, MaskedNet
<1>6. family = 6 => (addr \div Pow2[V6Bits - len] = a \div Pow2[V6Bits - len] <=> same)
  BY DEF Bits
<1> HIDE DEF same
<1> QED
  BY <1>2, <1>3, <1>4, <1>5, <1>6

(* An entry lets in exactly the addresses it stands for (ipmatch.js         *)
(* 83-159).                                                                 *)
LEMMA EntryDenotes ==
  ASSUME NEW entry \in Entry, NEW family \in {4, 6}, NEW addr \in 0..(Pow2[Bits(family)] - 1)
  PROVE  Matches(entry, family, addr) <=> addr \in Denoted(family, entry)
<1>1. CASE entry.form = "addr"
  <2> DEFINE text == entry.text
             D(p) == [type |-> "addr", family |-> p.family, addr |-> p.addr]
  <2>1. text \in Text
    BY <1>1, EntryForms
  <2>2. ParseEntry(entry) = {D(a) : a \in Parsed(text)}
    BY <1>1 DEF ParseEntry
  <2>3. Denoted(family, entry) = Meant(family, text)
    BY <1>1 DEF Denoted
  <2>4. \A p : MatchEntry(D(p), family, addr) <=> p.family = family /\ p.addr = addr
    BY DEF MatchEntry
  <2> HIDE DEF D
  <2>5. Matches(entry, family, addr) <=> \E p \in Parsed(text) : p.family = family /\ p.addr = addr
    BY <2>2, <2>4 DEF Matches
  <2> HIDE DEF text
  <2> QED
    BY <2>1, <2>3, <2>5, Meanings
<1>2. CASE entry.form = "cidr"
  <2> DEFINE text == entry.text
             len == entry.len
             D(a) == [type |-> "cidr", family |-> a.family, addr |-> a.addr, len |-> len]
  <2>1. text \in Text /\ len \in Nat
    BY <1>2, EntryForms
  <2>2. ParseEntry(entry) = {D(a) : a \in {p \in Parsed(text) : len <= Bits(p.family)}}
    BY <1>2 DEF ParseEntry
  <2>3. Denoted(family, entry) = UNION {SameNet(family, a, len) : a \in Meant(family, text)}
    BY <1>2 DEF Denoted
  <2>4. ASSUME NEW p \in Parsed(text), p.family = family, len <= Bits(family)
        PROVE  MatchEntry(D(p), family, addr) <=> addr \in SameNet(family, p.addr, len)
    <3>1. p.addr \in 0..(Pow2[Bits(family)] - 1)
      BY <2>1, <2>4, Meanings
    <3> DEFINE desc == D(p)
    <3>2. desc = [type |-> "cidr", family |-> family, addr |-> p.addr, len |-> len]
      BY <2>4
    <3> HIDE DEF desc, len
    <3> QED
      BY <2>1, <2>4, <3>1, <3>2, SameNetMatches DEF desc
  <2>5. ASSUME NEW p, p.family # family PROVE ~MatchEntry(D(p), family, addr)
    BY <2>5 DEF MatchEntry
  <2>6. \A a : addr \in SameNet(family, a, len) => len <= Bits(family)
    BY DEF SameNet
  <2> HIDE DEF text, len, D
  <2>7. ASSUME Matches(entry, family, addr) PROVE addr \in Denoted(family, entry)
    <3>1. PICK p \in Parsed(text) : len <= Bits(p.family) /\ MatchEntry(D(p), family, addr)
      BY <2>2, <2>7 DEF Matches
    <3>2. p.family = family
      BY <2>5, <3>1
    <3>3. addr \in SameNet(family, p.addr, len)
      BY <2>4, <3>1, <3>2
    <3>4. p.addr \in Meant(family, text)
      BY <2>1, <3>2, Meanings
    <3> QED
      BY <2>3, <3>3, <3>4
  <2>8. ASSUME addr \in Denoted(family, entry) PROVE Matches(entry, family, addr)
    <3>1. PICK a \in Meant(family, text) : addr \in SameNet(family, a, len)
      BY <2>3, <2>8
    <3>2. PICK p \in Parsed(text) : p.family = family /\ p.addr = a
      BY <2>1, <3>1, Meanings
    <3>3. MatchEntry(D(p), family, addr) /\ len <= Bits(p.family)
      BY <2>4, <2>6, <3>1, <3>2
    <3> QED
      BY <2>2, <3>3 DEF Matches
  <2> QED
    BY <2>7, <2>8
<1>3. CASE entry.form = "range"
  <2> DEFINE S == MeantV4(entry.start)
             E == MeantV4(entry.end)
             D(e) == [type |-> "range", family |-> 4, start |-> e[1], end |-> e[2]]
  <2>1. /\ ParseIPv4(entry.start) = S /\ ParseIPv4(entry.end) = E
        /\ S \subseteq Nat /\ E \subseteq Nat
    BY <1>3, EntryForms, V4Parsed
  <2>2. ParseEntry(entry) = {D(e) : e \in {e \in ParseIPv4(entry.start) \X ParseIPv4(entry.end) : Ordered(e[1], e[2])}}
    BY <1>3 DEF ParseEntry
  <2> HIDE DEF S, E
  <2>3. ParseEntry(entry) = {D(e) : e \in {e \in S \X E : e[1] <= e[2]}}
    BY <2>1, <2>2 DEF Ordered
  <2>4. addr \in Denoted(family, entry)
        <=> addr \in 0..(Pow2[V4Bits] - 1) /\ family = 4 /\ \E a \in S, b \in E : addr \in a..b
    BY <1>3 DEF Denoted, S, E
  <2>5. \A e : MatchEntry(D(e), family, addr) <=> family = 4 /\ addr >= e[1] /\ addr <= e[2]
    BY DEF MatchEntry
  <2> HIDE DEF D
  <2>6. ASSUME Matches(entry, family, addr) PROVE addr \in Denoted(family, entry)
    <3>1. PICK e \in S \X E : e[1] <= e[2] /\ MatchEntry(D(e), family, addr)
      BY <2>3, <2>6 DEF Matches
    <3>2. family = 4 /\ addr >= e[1] /\ addr <= e[2] /\ e[1] \in S /\ e[2] \in E
      BY <2>5, <3>1
    <3>3. addr \in e[1]..e[2]
      BY <2>1, <3>2
    <3>4. addr \in 0..(Pow2[V4Bits] - 1)
      BY <3>2 DEF Bits
    <3> QED
      BY <2>4, <3>2, <3>3, <3>4
  <2>7. ASSUME addr \in Denoted(family, entry) PROVE Matches(entry, family, addr)
    <3>1. family = 4
      BY <2>4, <2>7
    <3>2. PICK a \in S, b \in E : addr \in a..b
      BY <2>4, <2>7, <3>1
    <3> DEFINE e == <<a, b>>
    <3>3. e \in S \X E /\ e[1] = a /\ e[2] = b
      OBVIOUS
    <3> HIDE DEF e
    <3>4. e[1] <= e[2] /\ addr >= e[1] /\ addr <= e[2]
      BY <2>1, <3>2, <3>3
    <3>5. D(e) \in ParseEntry(entry) /\ MatchEntry(D(e), family, addr)
      BY <2>3, <2>5, <3>1, <3>3, <3>4
    <3> QED
      BY <3>5 DEF Matches
  <2> QED
    BY <2>6, <2>7
<1> QED
  BY <1>1, <1>2, <1>3, EntryForms

(* An entry stands for addresses only.                                      *)
LEMMA DenotedIn ==
  ASSUME NEW entry \in Entry, NEW family \in {4, 6}
  PROVE  Denoted(family, entry) \subseteq 0..(Pow2[Bits(family)] - 1)
<1>1. CASE entry.form = "addr"
  BY <1>1, EntryForms, Meanings DEF Denoted
<1>2. CASE entry.form = "cidr"
  <2>1. Denoted(family, entry) = UNION {SameNet(family, a, entry.len) : a \in Meant(family, entry.text)}
    BY <1>2 DEF Denoted
  <2>2. \A a : SameNet(family, a, entry.len) \subseteq 0..(Pow2[Bits(family)] - 1)
    BY DEF SameNet
  <2> QED
    BY <2>1, <2>2
<1>3. CASE entry.form = "range"
  <2>1. family = 4 => Bits(family) = V4Bits
    BY DEF Bits
  <2>2. \A v \in Denoted(family, entry) : v \in 0..(Pow2[V4Bits] - 1) /\ family = 4
    BY <1>3 DEF Denoted
  <2> QED
    BY <2>1, <2>2
<1> QED
  BY <1>1, <1>2, <1>3, EntryForms

(* An entry is refused exactly if it stands for nothing.                    *)
LEMMA InvalidEntry ==
  ASSUME NEW entry \in Entry
  PROVE  ParseEntry(entry) = {} <=> Denoted(4, entry) \cup Denoted(6, entry) = {}
<1>1. ASSUME ParseEntry(entry) = {}, NEW family \in {4, 6} PROVE Denoted(family, entry) = {}
  BY <1>1, DenotedIn, EntryDenotes DEF Matches
<1>2. ASSUME NEW desc \in ParseEntry(entry)
      PROVE  \E family \in {4, 6} : Denoted(family, entry) # {}
  <2>1. CASE entry.form = "addr"
    <3>1. PICK p \in Parsed(entry.text) : TRUE
      BY <1>2, <2>1 DEF ParseEntry
    <3>2. p.family \in {4, 6} /\ p.addr \in Meant(p.family, entry.text)
      BY <2>1, EntryForms, Meanings
    <3> QED
      BY <2>1, <3>2 DEF Denoted
  <2>2. CASE entry.form = "cidr"
    <3>1. PICK p \in Parsed(entry.text) : entry.len <= Bits(p.family)
      BY <1>2, <2>2 DEF ParseEntry
    <3>2. /\ p.family \in {4, 6} /\ p.addr \in Meant(p.family, entry.text)
          /\ p.addr \in 0..(Pow2[Bits(p.family)] - 1)
      BY <2>2, EntryForms, Meanings
    <3>3. p.addr \in SameNet(p.family, p.addr, entry.len)
      BY <3>1, <3>2 DEF SameNet
    <3>4. Denoted(p.family, entry)
          = UNION {SameNet(p.family, a, entry.len) : a \in Meant(p.family, entry.text)}
      BY <2>2 DEF Denoted
    <3> QED
      BY <3>2, <3>3, <3>4
  <2>3. CASE entry.form = "range"
    <3>1. PICK e \in ParseIPv4(entry.start) \X ParseIPv4(entry.end) : Ordered(e[1], e[2])
      BY <1>2, <2>3 DEF ParseEntry
    <3>2. /\ e[1] \in MeantV4(entry.start) /\ e[2] \in MeantV4(entry.end)
          /\ e[1] \in 0..(Pow2[V4Bits] - 1) /\ e[2] \in 0..(Pow2[V4Bits] - 1)
      BY <2>3, <3>1, EntryForms, V4Parsed
    <3>3. e[1] \in e[1]..e[2]
      BY <3>1, <3>2 DEF Ordered
    <3>4. e[1] \in Denoted(4, entry)
      BY <2>3, <3>2, <3>3 DEF Denoted
    <3> QED
      BY <3>4
  <2> QED
    BY <2>1, <2>2, <2>3, EntryForms
<1> QED
  BY <1>1, <1>2

(* No address is no address.                                                *)
LEMMA BlankMeansNothing == \A family \in {4, 6} : Meant(family, Blank) = {}
<1>1. Blank \in Text /\ Len(Blank) = 1 /\ Blank[1] = Empty /\ DOMAIN Blank = {1} /\ Empty.t = "empty"
  BY DEF Blank, Text, Field, Empty
<1>2. MeantV4(Blank) = {}
  BY <1>1 DEF MeantV4
<1>3. ParseIPv6(Blank) = {}
  <2>1. WithoutTail(Blank) = {Blank} /\ Gaps(Blank) = {}
    BY <1>1 DEF WithoutTail, Gaps
  <2>2. \A g \in AllGroups(Blank) : g = Blank
    BY <2>1 DEF AllGroups
  <2> QED
    BY <1>1, <2>1, <2>2 DEF ParseIPv6
<1> QED
  BY <1>1, <1>2, <1>3, V6Parsed DEF Meant

(* A caller is let in exactly if some entry stands for its address          *)
(* (ipmatch.js 161-187).                                                    *)
LEMMA AllowedDenoted ==
  ASSUME NEW text \in Text, NEW entries, entries \subseteq Entry
  PROVE  text # Blank /\ IpAllowed(text, entries)
         <=> \E entry \in entries, family \in {4, 6} : Meant(family, text) \cap Denoted(family, entry) # {}
<1>1. IpAllowed(text, entries)
      <=> \E caller \in Parsed(text), entry \in entries : Matches(entry, caller.family, caller.addr)
  BY DEF IpAllowed, Matches
<1>2. ASSUME NEW caller \in Parsed(text), NEW entry \in entries, Matches(entry, caller.family, caller.addr)
      PROVE  caller.family \in {4, 6} /\ caller.addr \in Meant(caller.family, text) \cap Denoted(caller.family, entry)
  BY <1>2, Meanings, EntryDenotes
<1>3. ASSUME NEW entry \in entries, NEW family \in {4, 6}, NEW v \in Meant(family, text) \cap Denoted(family, entry)
      PROVE  text # Blank /\ \E caller \in Parsed(text) : Matches(entry, caller.family, caller.addr)
  <2>1. text # Blank
    BY <1>3, BlankMeansNothing
  <2>2. PICK caller \in Parsed(text) : caller.family = family /\ caller.addr = v
    BY Meanings
  <2>3. v \in 0..(Pow2[Bits(family)] - 1)
    BY Meanings
  <2>4. Matches(entry, family, v)
    BY <2>3, EntryDenotes
  <2> QED
    BY <2>1, <2>2, <2>4
<1>4. text = Blank => ~ \E entry \in entries, family \in {4, 6} : Meant(family, text) \cap Denoted(family, entry) # {}
  BY BlankMeansNothing
<1> QED
  BY <1>1, <1>2, <1>3, <1>4

(* What the theorems about entries rest on: every text is one, and a        *)
(* verdict is right when it is given.                                       *)
AddressConsistent ==
  /\ client \in Text /\ peer \in Text /\ header \in Seq(Text)
  /\ chain \in Nat /\ hops \in Nat /\ allowed \subseteq Entry
  /\ AllowedIffDenoted

(* What is derived is a text, with too short a header as well.              *)
LEMMA DerivedIsText ==
  ASSUME NEW sender \in Text, NEW xff \in Seq(Text), NEW n \in Nat
  PROVE  DeriveClientIp(sender, xff, n) \in Text
<1> DEFINE kept == Hops(xff)
           r == Reverse(kept)
           list == Hopwise(sender, xff)
           first == <<NormIp(sender)>>
<1>1. kept \in Seq(Text)
  BY NormText, HopsAppend
<1>2. list = first \o r /\ first \in Seq(Text) /\ Len(first) = 1
  BY NormText DEF Hopwise
<1>3. r \in Seq(Text)
  <2> HIDE DEF kept
  <2> QED
    BY <1>1 DEF Reverse
<1> HIDE DEF kept, r, first
<1> HIDE DEF list
<1>4. list \in Seq(Text) /\ Len(list) = 1 + Len(r) /\ Len(r) \in Nat
  <2>1. IsJoin(list, first, r, Text)
    BY <1>2, <1>3, Joined2
  <2> QED
    BY <1>2, <1>3, <2>1, Elements DEF IsJoin
<1>5. Len(list) \in 1..Len(list) /\ (n <= Len(list) - 1 => n + 1 \in 1..Len(list))
  BY <1>4
<1>6. \A i \in 1..Len(list) : list[i] \in Text
  BY <1>4, Elements
<1> QED
  BY <1>4, <1>5, <1>6 DEF DeriveClientIp, Last, list

(* No step of a call disturbs it.                                           *)
LEMMA AddressKeeps == AddressSpec => []AddressConsistent
<1>1. ASSUME AddressInit PROVE AddressConsistent
  <2>1. PICK call \in Calls : Sent(call)
    BY <1>1 DEF AddressInit
  <2>2. /\ call.client \in Text /\ call.header \in Seq(Text) /\ call.chain \in Nat
        /\ call.hops \in Nat /\ call.allowed \subseteq Entry
    BY CallsAssumption
  <2> QED
    BY <2>1, <2>2 DEF Sent, AddressConsistent, AllowedIffDenoted
<1>2. ASSUME AddressConsistent, [AddressNext]_addressVars PROVE AddressConsistent'
  <2>1. CASE Forward
    <3>1. Proxy \in Text
      BY CallsAssumption
    <3> QED
      BY <1>2, <2>1, <3>1 DEF Forward, AddressConsistent, AllowedIffDenoted
  <2>2. CASE Judge
    <3>1. /\ derived' = DeriveClientIp(peer, header, hops)
          /\ verdict' = (derived' # Blank /\ IpAllowed(derived', allowed))
          /\ UNCHANGED <<client, allowed, chain, hops, passed, peer, header>>
      BY <2>2 DEF Judge
    <3>2. derived' \in Text
      BY <1>2, <3>1, DerivedIsText DEF AddressConsistent
    <3>3. verdict' <=> \E entry \in allowed, family \in {4, 6} :
                         Meant(family, derived') \cap Denoted(family, entry) # {}
      BY <1>2, <3>1, <3>2, AllowedDenoted DEF AddressConsistent
    <3>4. AllowedIffDenoted'
      BY <3>1, <3>3 DEF AllowedIffDenoted
    <3> QED
      BY <1>2, <3>1, <3>4 DEF AddressConsistent
  <2>3. CASE UNCHANGED addressVars
    BY <1>2, <2>3 DEF addressVars, AddressConsistent, AllowedIffDenoted
  <2> QED
    BY <1>2, <2>1, <2>2, <2>3 DEF AddressNext
<1> QED
  BY <1>1, <1>2, PTL DEF AddressSpec

(* A caller is let in exactly if its address is one that some entry of its  *)
(* user's allowedIP stands for, for every text of either, and for addresses *)
(* of any width (ipmatch.js 161-187).                                       *)
THEOREM AllowedMeansDenoted == AddressSpec => []AllowedIffDenoted
<1>1. AddressConsistent => AllowedIffDenoted
  BY DEF AddressConsistent
<1> QED
  BY <1>1, AddressKeeps, PTL

(* kv-admin refuses exactly the entries that stand for no address, of every *)
(* text there is (ipmatch.js 189-196).                                      *)
THEOREM InvalidMeansNothing == AddressSpec => []InvalidIffNothing
<1>1. ASSUME AddressConsistent PROVE InvalidIffNothing
  <2>1. allowed \subseteq Entry
    BY <1>1 DEF AddressConsistent
  <2> QED
    BY <2>1, InvalidEntry DEF InvalidIffNothing, InvalidEntries
<1> QED
  BY <1>1, AddressKeeps, PTL
=============================================================================
