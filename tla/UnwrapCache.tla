----------------------------- MODULE UnwrapCache ----------------------------
(* The unwrap cache of keystore.js: a Map from key id to an unwrapped       *)
(* secret, kept in insertion order, bounded in size and in age, shared by   *)
(* every request being handled.  The event loop runs one piece of code up   *)
(* to its next await, so an action is such a piece: unwrap up to the        *)
(* extraction, and the rest of it once the extraction has finished.         *)
EXTENDS Naturals, Sequences, SequencesExt

CONSTANTS Kids,       \* key ids
          Keks,       \* ids of embedding keys
          Configured, \* those this process was started with
          Callers,    \* requests being handled
          NoRow,
          Bounds,     \* values of --key-cache-max-entries
          Ttl,        \* --key-cache-ttl
          MaxTime,    \* bound on the clock
          MaxWraps    \* bound on the embeddings made of one key

ASSUME CacheAssumption == Bounds \subseteq Nat /\ Ttl \in Nat

VARIABLES rows,     \* the table of keys: the embedding in each row
          calls,    \* what each request is doing
          cache,    \* the Map, oldest insertion first
          now,      \* Date.now()
          wraps,    \* embeddings made so far of each key
          maxEntries, \* what this process was started with
          forgotten \* history: keys revoked here with no call holding their row

cacheVars == <<rows, calls, cache, now, wraps, maxEntries, forgotten>>

(* An embedding is a JWE text: made with one KEK, it holds the secret of    *)
(* one key; the text tells embeddings apart, as their hashes do.            *)
Embedding(kid, kek, ver) == [of |-> kid, kek |-> kek, ver |-> ver]

Idle == [pc |-> "idle"]
Loaded(kid, emb) == [pc |-> "loaded", kid |-> kid, emb |-> emb]
Done(kid, emb, out) == [pc |-> "done", kid |-> kid, emb |-> emb, out |-> out]
Extracting(kid, emb, since) ==
  [pc |-> "extracting", kid |-> kid, emb |-> emb, since |-> since]
Deleted(kid) == [pc |-> "deleted", kid |-> kid]

Entry(kid, emb, jwk, since) ==
  [kid |-> kid, hash |-> emb, jwk |-> jwk, expires |-> since + Ttl, begun |-> since]

(* KekManager.extract on the embedding in the row of kid: the secret it     *)
(* holds, named by the embedding.                                           *)
Unavailable == [error |-> "unavailable"]
Mismatch == [error |-> "mismatch"]
Failures == {Unavailable, Mismatch}
Extract(kid, emb) == IF emb.kek \notin Configured THEN Unavailable
                     ELSE IF emb.of # kid THEN Mismatch ELSE emb

CachedKids == {cache[i].kid : i \in DOMAIN cache}
Place(k) == CHOOSE i \in DOMAIN cache : cache[i].kid = k

(* Map.delete.                                                              *)
Without(k) == IF k \in CachedKids THEN RemoveAt(cache, Place(k)) ELSE cache

(* Map.set: a key that is there already keeps its place.                    *)
With(entry) == IF entry.kid \in CachedKids
               THEN [cache EXCEPT ![Place(entry.kid)] = entry]
               ELSE Append(cache, entry)

(* The eviction loop: the first in insertion order goes until the size is   *)
(* within the bound.                                                        *)
BoundedOffByOne(s) == IF Len(s) > maxEntries + 1 THEN Tail(s) ELSE s
Bounded(s) == IF Len(s) > maxEntries
              THEN SubSeq(s, Len(s) - maxEntries + 1, Len(s)) ELSE s

(* The calls that may still put the secret of key k into the cache.         *)
Holds(c, k) == calls[c].pc \in {"loaded", "extracting"} /\ calls[c].kid = k

CacheInit == /\ rows = [k \in Kids |-> NoRow]
             /\ calls = [c \in Callers |-> Idle]
             /\ cache = <<>>
             /\ now = 0
             /\ wraps = [k \in Kids |-> 0]
             /\ maxEntries \in Bounds
             /\ forgotten = {}

-----------------------------------------------------------------------------
(* What happens to the table: keys are stored, rewrapped by kv-admin,       *)
(* reaped by the sweep, which leaves the cache alone; and a table restored  *)
(* or edited by hand may hold an embedding in the row of another key.       *)
NewEmbedding(k) == /\ wraps[k] < MaxWraps
                   /\ \E kek \in Keks :
                        rows' = [rows EXCEPT ![k] = Embedding(k, kek, wraps[k])]
                   /\ wraps' = [wraps EXCEPT ![k] = @ + 1]
                   /\ UNCHANGED <<calls, cache, now, maxEntries, forgotten>>

Store(k) == wraps[k] = 0 /\ NewEmbedding(k)
Rewrap(k) == rows[k] # NoRow /\ rows[k].of = k /\ NewEmbedding(k)

SetRow(k, row) == /\ rows[k] # NoRow
                  /\ rows' = [rows EXCEPT ![k] = row]
                  /\ UNCHANGED <<calls, cache, now, wraps, maxEntries, forgotten>>
SweepRow(k) == SetRow(k, NoRow)
Misplace(k, other) == other # k /\ rows[other] # NoRow /\ SetRow(k, rows[other])

Tick == /\ now < MaxTime
        /\ now' = now + 1
        /\ UNCHANGED <<rows, calls, cache, wraps, maxEntries, forgotten>>

-----------------------------------------------------------------------------
(* A request that needs a secret.                                           *)
Step(c, call) == /\ calls' = [calls EXCEPT ![c] = call]
                 /\ UNCHANGED <<rows, now, wraps>>

LoadRow(c, k) == /\ calls[c] = Idle
                 /\ rows[k] # NoRow
                 /\ Step(c, Loaded(k, rows[k]))
                 /\ UNCHANGED <<cache, maxEntries, forgotten>>

FinishCall(c) == /\ calls[c].pc = "done"
                 /\ Step(c, Idle)
                 /\ UNCHANGED <<cache, maxEntries, forgotten>>

(* With the cache off every call extracts.                                  *)
Bypass(c) ==
  /\ calls[c].pc = "loaded"
  /\ maxEntries < 1
  /\ Step(c, Done(calls[c].kid, calls[c].emb, Extract(calls[c].kid, calls[c].emb)))
  /\ UNCHANGED <<cache, maxEntries, forgotten>>

ValidAnyRow(entry, emb) == entry.expires > now
Valid(entry, emb) == entry.hash = emb /\ entry.expires > now

TouchedRenewed(k) == Append(Without(k), [cache[Place(k)] EXCEPT !.expires = now + Ttl])
Touched(k) == Append(Without(k), cache[Place(k)])

(* A valid entry is taken out, put back as the last and served.             *)
Hit(c) ==
  /\ calls[c].pc = "loaded"
  /\ maxEntries >= 1
  /\ LET k == calls[c].kid IN
       /\ k \in CachedKids
       /\ LET entry == cache[Place(k)] IN
            /\ Valid(entry, calls[c].emb)
            /\ cache' = Touched(k)
            /\ Step(c, Done(k, calls[c].emb, entry.jwk))
  /\ UNCHANGED <<maxEntries, forgotten>>

(* An entry of another embedding or past its time is dropped, and the row's *)
(* own embedding extracted; the entry to come is dated from now.            *)
Miss(c) ==
  /\ calls[c].pc = "loaded"
  /\ maxEntries >= 1
  /\ LET k == calls[c].kid IN
       /\ k \in CachedKids => ~ Valid(cache[Place(k)], calls[c].emb)
       /\ cache' = Without(k)
       /\ Step(c, Extracting(k, calls[c].emb, now))
  /\ UNCHANGED <<maxEntries, forgotten>>

(* extract throws where it has no secret to return.                         *)
CacheableAlways(out) == TRUE
Cacheable(out) == out \notin Failures

(* The extraction is over: its secret enters the cache, wherever the cache  *)
(* stands by now, and the oldest entry may have to go.                      *)
Extracted(c) ==
  /\ calls[c].pc = "extracting"
  /\ LET kid == calls[c].kid
         emb == calls[c].emb
         out == Extract(kid, emb)
     IN /\ IF Cacheable(out)
           THEN cache' = Bounded(With(Entry(kid, emb, out, calls[c].since)))
           ELSE UNCHANGED cache
        /\ Step(c, Done(kid, emb, out))
  /\ UNCHANGED <<maxEntries, forgotten>>

-----------------------------------------------------------------------------
(* A revocation: the DELETE, then, unless its reply is lost, cache.delete.  *)
DeleteRow(c, k) == /\ calls[c] = Idle
                   /\ rows[k] # NoRow
                   /\ rows' = [rows EXCEPT ![k] = NoRow]
                   /\ calls' = [calls EXCEPT ![c] = Deleted(k)]
                   /\ UNCHANGED <<cache, now, wraps, maxEntries, forgotten>>

ClearedNothing(k) == cache
Cleared(k) == Without(k)

ForgetKey(c) == /\ calls[c].pc = "deleted"
                /\ LET k == calls[c].kid IN
                     /\ cache' = Cleared(k)
                     /\ forgotten' = IF \E d \in Callers : Holds(d, k) THEN forgotten
                                     ELSE forgotten \cup {k}
                /\ Step(c, Idle)
                /\ UNCHANGED maxEntries

LoseReply(c) == /\ calls[c].pc = "deleted"
                /\ Step(c, Idle)
                /\ UNCHANGED <<cache, maxEntries, forgotten>>

CacheNext ==
  \/ Tick
  \/ \E k \in Kids : Store(k) \/ Rewrap(k) \/ SweepRow(k) \/ \E other \in Kids : Misplace(k, other)
  \/ \E c \in Callers :
       \/ \E k \in Kids : LoadRow(c, k) \/ DeleteRow(c, k)
       \/ Bypass(c) \/ Hit(c) \/ Miss(c) \/ Extracted(c) \/ FinishCall(c)
       \/ ForgetKey(c) \/ LoseReply(c)

CacheSpec == CacheInit /\ [][CacheNext]_cacheVars

-----------------------------------------------------------------------------
(* The types.                                                               *)
Embeddings == [of : Kids, kek : Keks, ver : Nat]
Calls == [pc : {"idle"}]
         \cup [pc : {"deleted"}, kid : Kids]
         \cup [pc : {"loaded"}, kid : Kids, emb : Embeddings]
         \cup [pc : {"extracting"}, kid : Kids, emb : Embeddings, since : Nat]
         \cup [pc : {"done"}, kid : Kids, emb : Embeddings, out : Embeddings \cup Failures]
Entries == [kid : Kids, hash : Embeddings, jwk : Embeddings, expires : Nat, begun : Nat]

CacheTypeOK ==
  /\ rows \in [Kids -> Embeddings \cup {NoRow}]
  /\ calls \in [Callers -> Calls]
  /\ cache \in Seq(Entries)
  /\ now \in Nat /\ maxEntries \in Nat
  /\ wraps \in [Kids -> Nat]
  /\ forgotten \subseteq Kids

(* The Map holds one entry of a key and never more entries than             *)
(* --key-cache-max-entries between two pieces of code, however many         *)
(* extractions end in whatever order (keystore.js 111-114).                 *)
CacheWithinBound == /\ Len(cache) <= maxEntries
                    /\ \A i, j \in DOMAIN cache : cache[i].kid = cache[j].kid => i = j

(* No caller can tell that there is a cache: a call gets what extracting    *)
(* the row it loaded gives, through rewraps, misplaced embeddings, deleted  *)
(* and re-read rows and overlapping extractions (keystore.js 11-16).        *)
SeenAs(call) == CASE call.pc = "extracting" -> Loaded(call.kid, call.emb)
                  [] call.pc = "deleted" -> Idle
                  [] OTHER -> call
Seen == [c \in Callers |-> SeenAs(calls[c])]
Direct == INSTANCE UnwrapDirect WITH calls <- Seen
CacheTransparent == Direct!Spec

(* A secret is served out of the cache only while its extraction began less *)
(* than the TTL ago: being served does not lengthen its life, and neither   *)
(* does a slow extraction (keystore.js 101-111).                            *)
ServedWithinTtl ==
  [][\A c \in Callers :
       (maxEntries >= 1 /\ calls[c].pc = "loaded" /\ calls'[c].pc = "done")
       => now < cache[Place(calls[c].kid)].begun + Ttl]_cacheVars

(* Once this process has revoked a key with no other request holding its    *)
(* row, the secret of the key does not come back into memory                *)
(* (keystore.js 123-127).                                                   *)
RevokedStaysForgotten == forgotten \cap CachedKids = {}

(* What the three above rest on: an entry holds the secret of the embedding *)
(* it names, made for its key with a configured KEK, dated from the start   *)
(* of its extraction; a revoked key has no row again and no request that    *)
(* holds one once it is forgotten (keystore.js 93-127).                     *)
Sound(entry) == /\ entry.jwk = entry.hash
                /\ entry.hash.of = entry.kid /\ entry.hash.kek \in Configured
                /\ entry.expires = entry.begun + Ttl
Gone(k) == rows[k] = NoRow /\ wraps[k] > 0
CacheConsistent ==
  /\ CacheTypeOK
  /\ CacheWithinBound
  /\ \A i \in DOMAIN cache : Sound(cache[i])
  /\ \A k \in Kids : rows[k] # NoRow => wraps[k] > 0
  /\ \A c \in Callers : calls[c].pc = "deleted" => Gone(calls[c].kid)
  /\ \A k \in forgotten : Gone(k) /\ \A c \in Callers : ~ Holds(c, k)
  /\ RevokedStaysForgotten
=============================================================================
