-------------------------- MODULE UnwrapCacheProofs -------------------------
(* For any keys, requests, size and age of the cache, and whatever happens  *)
(* to the table: the Map keeps its bound, nobody can tell that it is there, *)
(* it serves nothing too old, and a revoked key does not come back into it. *)
EXTENDS UnwrapCache, SequenceTheorems, TLAPS

SoundEntries == {entry \in Entries : Sound(entry)}
Distinct(s) == \A i, j \in DOMAIN s : s[i].kid = s[j].kid => i = j
KidsOf(s) == {s[i].kid : i \in DOMAIN s}
Fine(s) == s \in Seq(SoundEntries) /\ Distinct(s)

-----------------------------------------------------------------------------
(* The operations of the Map.                                               *)
LEMMA RemoveAtElements ==
  ASSUME NEW S, NEW s \in Seq(S), NEW i \in 1..Len(s)
  PROVE  /\ RemoveAt(s, i) \in Seq(S)
         /\ Len(RemoveAt(s, i)) = Len(s) - 1
         /\ \A j \in 1..(Len(s) - 1) : RemoveAt(s, i)[j] = IF j < i THEN s[j] ELSE s[j + 1]
<1> DEFINE n == Len(s)
           before == SubSeq(s, 1, i - 1)
           after == SubSeq(s, i + 1, n)
<1>0. n \in Nat /\ i \in Int /\ 1 <= i /\ i <= n /\ \A j \in 1..n : s[j] \in S
  BY LenProperties, ElementOfSeq
<1>1. /\ before \in Seq(S) /\ Len(before) = i - 1
      /\ \A j \in 1..(i - 1) : before[j] = s[j]
  <2>1. /\ before \in Seq(S)
        /\ Len(before) = IF 1 <= i - 1 THEN (i - 1) - 1 + 1 ELSE 0
        /\ \A j \in 1..((i - 1) - 1 + 1) : before[j] = s[1 + j - 1]
    BY <1>0, SubSeqProperties
  <2> QED
    BY <1>0, <2>1
<1>2. /\ after \in Seq(S) /\ Len(after) = n - i
      /\ \A j \in 1..(n - i) : after[j] = s[i + j]
  <2>1. /\ after \in Seq(S)
        /\ Len(after) = IF i + 1 <= n THEN n - (i + 1) + 1 ELSE 0
        /\ \A j \in 1..(n - (i + 1) + 1) : after[j] = s[(i + 1) + j - 1]
    BY <1>0, SubSeqProperties
  <2> QED
    BY <1>0, <2>1
<1>3. RemoveAt(s, i) = before \o after
  BY DEF RemoveAt
<1> HIDE DEF before, after
<1>4. /\ before \o after \in Seq(S) /\ Len(before \o after) = (i - 1) + (n - i)
      /\ \A j \in 1..((i - 1) + (n - i)) :
           (before \o after)[j] = IF j <= i - 1 THEN before[j] ELSE after[j - (i - 1)]
  <2>1. /\ before \o after \in Seq(S)
        /\ Len(before \o after) = Len(before) + Len(after)
        /\ \A j \in 1..(Len(before) + Len(after)) :
             (before \o after)[j] = IF j <= Len(before) THEN before[j] ELSE after[j - Len(before)]
    BY <1>1, <1>2, ConcatProperties
  <2>2. Len(before) = i - 1 /\ Len(after) = n - i
    BY <1>1, <1>2
  <2> QED
    BY <2>1, <2>2
<1>5. ASSUME NEW j \in 1..(n - 1)
      PROVE  (before \o after)[j] = IF j < i THEN s[j] ELSE s[j + 1]
  <2>1. j \in 1..((i - 1) + (n - i))
    BY <1>0
  <2>2. CASE j < i
    <3>1. j <= i - 1 /\ j \in 1..(i - 1)
      BY <1>0, <2>2
    <3> QED
      BY <1>1, <1>4, <2>1, <2>2, <3>1
  <2>3. CASE ~ (j < i)
    <3>1. ~ (j <= i - 1) /\ j - (i - 1) \in 1..(n - i) /\ i + (j - (i - 1)) = j + 1
      BY <1>0, <2>3
    <3> QED
      BY <1>2, <1>4, <2>1, <2>3, <3>1
  <2> QED
    BY <2>2, <2>3
<1> QED
  BY <1>0, <1>3, <1>4, <1>5

LEMMA WithoutFine ==
  ASSUME Fine(cache), NEW k
  PROVE  /\ Fine(Without(k))
         /\ KidsOf(Without(k)) \subseteq CachedKids \ {k}
         /\ Len(Without(k)) = IF k \in CachedKids THEN Len(cache) - 1 ELSE Len(cache)
<1> DEFINE p == Place(k)
           s == Without(k)
           n == Len(cache)
<1>0. cache \in Seq(SoundEntries) /\ DOMAIN cache = 1..n /\ n \in Nat
  BY DEF Fine
<1>1. CASE k \notin CachedKids
  BY <1>1 DEF Without, Fine, KidsOf, CachedKids
<1>2. CASE k \in CachedKids
  <2>1. p \in 1..n /\ cache[p].kid = k
    BY <1>0, <1>2 DEF CachedKids, Place
  <2> HIDE DEF p
  <2>2. s = RemoveAt(cache, p)
    BY <1>2 DEF Without, p
  <2>3. /\ s \in Seq(SoundEntries) /\ Len(s) = n - 1
        /\ \A j \in 1..(n - 1) : s[j] = IF j < p THEN cache[j] ELSE cache[j + 1]
    BY <1>0, <2>1, <2>2, RemoveAtElements
  <2> HIDE DEF s
  <2>4. DOMAIN s = 1..(n - 1)
    BY <2>3
  <2>5. ASSUME NEW i \in 1..(n - 1), NEW j \in 1..(n - 1), s[i].kid = s[j].kid PROVE i = j
    <3> DEFINE a == IF i < p THEN i ELSE i + 1
               b == IF j < p THEN j ELSE j + 1
    <3>1. a \in 1..n /\ b \in 1..n /\ s[i] = cache[a] /\ s[j] = cache[b]
      BY <1>0, <2>1, <2>3
    <3>2. a = b
      BY <1>0, <2>5, <3>1 DEF Fine, Distinct
    <3> QED
      BY <1>0, <2>1, <3>2
  <2>6. ASSUME NEW j \in 1..(n - 1) PROVE s[j].kid \in CachedKids \ {k}
    <3> DEFINE b == IF j < p THEN j ELSE j + 1
    <3>1. b \in 1..n /\ s[j] = cache[b] /\ b # p
      BY <1>0, <2>1, <2>3
    <3>2. cache[b].kid # k
      BY <1>0, <2>1, <3>1 DEF Fine, Distinct
    <3> HIDE DEF b
    <3> QED
      BY <1>0, <3>1, <3>2 DEF CachedKids
  <2> QED
    BY <1>2, <2>3, <2>4, <2>5, <2>6 DEF Fine, Distinct, KidsOf, s
<1> QED
  BY <1>1, <1>2

LEMMA AppendFine ==
  ASSUME NEW s, Fine(s), NEW entry \in SoundEntries, entry.kid \notin KidsOf(s)
  PROVE  /\ Fine(Append(s, entry))
         /\ KidsOf(Append(s, entry)) = KidsOf(s) \cup {entry.kid}
         /\ Len(Append(s, entry)) = Len(s) + 1
<1> DEFINE t == Append(s, entry)
<1>1. /\ t \in Seq(SoundEntries) /\ Len(t) = Len(s) + 1 /\ DOMAIN t = 1..(Len(s) + 1)
      /\ Len(s) \in Nat /\ DOMAIN s = 1..Len(s)
      /\ t[Len(s) + 1] = entry /\ \A i \in 1..Len(s) : t[i] = s[i]
  BY DEF Fine
<1> HIDE DEF t
<1>2. Distinct(t)
  <2> SUFFICES ASSUME NEW i \in 1..(Len(s) + 1), NEW j \in 1..(Len(s) + 1), t[i].kid = t[j].kid
               PROVE  i = j
    BY <1>1 DEF Distinct
  <2>1. \A l \in 1..Len(s) : t[l].kid # entry.kid
    BY <1>1 DEF KidsOf
  <2>2. CASE i \in 1..Len(s) /\ j \in 1..Len(s)
    BY <1>1, <2>2 DEF Fine, Distinct
  <2>3. CASE i = Len(s) + 1 \/ j = Len(s) + 1
    BY <1>1, <2>1, <2>3
  <2> QED
    BY <1>1, <2>2, <2>3
<1>3. KidsOf(t) = KidsOf(s) \cup {entry.kid}
  <2>1. ASSUME NEW i \in 1..(Len(s) + 1) PROVE t[i].kid \in KidsOf(s) \cup {entry.kid}
    BY <1>1 DEF KidsOf
  <2>2. ASSUME NEW i \in 1..Len(s) PROVE s[i].kid \in KidsOf(t)
    <3>1. t[i] = s[i] /\ i \in DOMAIN t
      BY <1>1
    <3> QED
      BY <3>1 DEF KidsOf
  <2>3. entry.kid \in KidsOf(t)
    BY <1>1 DEF KidsOf
  <2> QED
    BY <1>1, <2>1, <2>2, <2>3 DEF KidsOf
<1> QED
  BY <1>1, <1>2, <1>3 DEF Fine, t

LEMMA WithFine ==
  ASSUME Fine(cache), NEW entry \in SoundEntries
  PROVE  /\ Fine(With(entry))
         /\ KidsOf(With(entry)) \subseteq CachedKids \cup {entry.kid}
<1> DEFINE p == Place(entry.kid)
           n == Len(cache)
<1>0. cache \in Seq(SoundEntries) /\ DOMAIN cache = 1..n /\ n \in Nat /\ KidsOf(cache) = CachedKids
  BY DEF Fine, KidsOf, CachedKids
<1>1. CASE entry.kid \notin CachedKids
  BY <1>0, <1>1, AppendFine DEF With
<1>2. CASE entry.kid \in CachedKids
  <2>1. p \in 1..n /\ cache[p].kid = entry.kid
    BY <1>0, <1>2 DEF CachedKids, Place
  <2>2. With(entry) = [cache EXCEPT ![p] = entry]
    BY <1>2 DEF With
  <2> DEFINE t == [cache EXCEPT ![p] = entry]
  <2> HIDE DEF p
  <2>3. /\ t \in Seq(SoundEntries) /\ DOMAIN t = 1..n
        /\ \A j \in 1..n : t[j] = IF j = p THEN entry ELSE cache[j]
    BY <1>0, <2>1, ExceptSeq
  <2> HIDE DEF t
  <2>4. \A j \in 1..n : t[j].kid = cache[j].kid
    BY <2>1, <2>3
  <2> QED
    BY <1>0, <2>2, <2>3, <2>4 DEF Fine, Distinct, KidsOf, CachedKids, t
<1> QED
  BY <1>1, <1>2

LEMMA BoundedFine ==
  ASSUME maxEntries \in Nat, NEW s, Fine(s)
  PROVE  /\ Fine(Bounded(s)) /\ Len(Bounded(s)) <= maxEntries
         /\ KidsOf(Bounded(s)) \subseteq KidsOf(s)
<1> DEFINE n == Len(s)
           m == n - maxEntries + 1
           t == SubSeq(s, m, n)
<1>0. s \in Seq(SoundEntries) /\ DOMAIN s = 1..n /\ n \in Nat /\ maxEntries \in Nat
      /\ \A i \in 1..n : s[i] \in SoundEntries
  BY CacheAssumption, ElementOfSeq DEF Fine
<1>1. CASE n <= maxEntries
  BY <1>0, <1>1 DEF Bounded
<1>2. CASE n > maxEntries
  <2>1. Bounded(s) = t
    BY <1>2 DEF Bounded
  <2>2. m \in Int /\ 1 <= m /\ m <= n + 1
    BY <1>0, <1>2
  <2>3. /\ t \in Seq(SoundEntries)
        /\ Len(t) = IF m <= n THEN n - m + 1 ELSE 0
        /\ \A i \in 1..(n - m + 1) : t[i] = s[m + i - 1]
    <3>1. \A i \in m..n : s[i] \in SoundEntries
      BY <1>0, <2>2
    <3> HIDE DEF m
    <3> QED
      BY <1>0, <2>2, <3>1, SubSeqProperties
  <2> HIDE DEF t
  <2>4. Len(t) = maxEntries /\ DOMAIN t = 1..maxEntries
    BY <1>0, <1>2, <2>3
  <2>5. \A i \in 1..maxEntries : t[i] = s[m + i - 1] /\ m + i - 1 \in 1..n
    BY <1>0, <1>2, <2>3
  <2>6. Distinct(t)
    <3> SUFFICES ASSUME NEW i \in 1..maxEntries, NEW j \in 1..maxEntries, t[i].kid = t[j].kid
                 PROVE  i = j
      BY <2>4 DEF Distinct
    <3> DEFINE a == m + i - 1
               b == m + j - 1
    <3>1. a \in DOMAIN s /\ b \in DOMAIN s /\ s[a].kid = s[b].kid
      BY <1>0, <2>5
    <3> HIDE DEF a, b
    <3>2. a = b
      BY <3>1 DEF Fine, Distinct
    <3> QED
      BY <1>0, <2>2, <3>2 DEF a, b
  <2>7. KidsOf(t) \subseteq KidsOf(s)
    <3> SUFFICES ASSUME NEW i \in 1..maxEntries PROVE t[i].kid \in KidsOf(s)
      BY <2>4 DEF KidsOf
    <3>1. PICK a \in DOMAIN s : t[i] = s[a]
      BY <1>0, <2>5
    <3> QED
      BY <3>1 DEF KidsOf
  <2> QED
    BY <1>0, <2>1, <2>3, <2>4, <2>6, <2>7 DEF Fine
<1> QED
  BY <1>0, <1>1, <1>2

-----------------------------------------------------------------------------
(* The inductive invariant in the parts the proofs use: the Map, and the    *)
(* table with the calls on it.                                              *)
MapOK == Fine(cache) /\ maxEntries \in Nat /\ Len(cache) <= maxEntries
TableOK ==
  /\ rows \in [Kids -> Embeddings \cup {NoRow}]
  /\ calls \in [Callers -> Calls]
  /\ now \in Nat
  /\ wraps \in [Kids -> Nat]
  /\ forgotten \subseteq Kids
  /\ \A k \in Kids : rows[k] # NoRow => wraps[k] > 0
  /\ \A c \in Callers : calls[c].pc = "deleted" => Gone(calls[c].kid)
  /\ \A k \in forgotten : Gone(k) /\ \A c \in Callers : ~ Holds(c, k)

LEMMA SoundSequence ==
  ASSUME NEW s
  PROVE  s \in Seq(SoundEntries) <=> s \in Seq(Entries) /\ \A i \in DOMAIN s : Sound(s[i])
<1>1. ASSUME s \in Seq(SoundEntries)
      PROVE  s \in Seq(Entries) /\ \A i \in DOMAIN s : Sound(s[i])
  <2>1. /\ s \in [1..Len(s) -> SoundEntries] /\ Len(s) \in Nat
        /\ \A i \in 1..Len(s) : s[i] \in SoundEntries
    BY <1>1, LenProperties, ElementOfSeq
  <2>2. s \in [1..Len(s) -> Entries] /\ \A i \in DOMAIN s : Sound(s[i])
    BY <2>1 DEF SoundEntries
  <2> QED
    BY <2>1, <2>2, SeqDef
<1>2. ASSUME s \in Seq(Entries), \A i \in DOMAIN s : Sound(s[i])
      PROVE  s \in Seq(SoundEntries)
  <2>1. s \in [1..Len(s) -> Entries] /\ Len(s) \in Nat
    BY <1>2, LenProperties
  <2>2. s \in [1..Len(s) -> SoundEntries]
    BY <1>2, <2>1 DEF SoundEntries
  <2> QED
    BY <2>1, <2>2, SeqDef
<1> QED
  BY <1>1, <1>2

LEMMA ConsistentParts == CacheConsistent <=> MapOK /\ TableOK /\ RevokedStaysForgotten
BY SoundSequence
DEF CacheConsistent, CacheTypeOK, CacheWithinBound, MapOK, TableOK, Fine, Distinct

LEMMA ConsistentPartsPrime ==
  CacheConsistent' <=> MapOK' /\ TableOK' /\ RevokedStaysForgotten'
<1>1. cache' \in Seq(SoundEntries)
      <=> cache' \in Seq(Entries) /\ \A i \in DOMAIN cache' : Sound(cache'[i])
  BY SoundSequence
<1> QED
  BY <1>1
  DEF CacheConsistent, CacheTypeOK, CacheWithinBound, MapOK, TableOK, Fine, Distinct, Sound

LEMMA CallFields ==
  ASSUME TableOK, NEW c \in Callers
  PROVE  /\ calls[c] \in Calls
         /\ calls[c].pc = "deleted" => calls[c].kid \in Kids
         /\ calls[c].pc \in {"loaded", "extracting"} =>
              calls[c].kid \in Kids /\ calls[c].emb \in Embeddings
         /\ calls[c].pc = "extracting" => calls[c].since \in Nat
BY DEF TableOK, Calls

LEMMA InitConsistent == CacheInit => CacheConsistent
<1> SUFFICES ASSUME CacheInit PROVE MapOK /\ TableOK /\ RevokedStaysForgotten
  BY ConsistentParts
<1>1. MapOK
  BY CacheAssumption DEF CacheInit, MapOK, Fine, Distinct
<1>2. TableOK
  BY DEF CacheInit, TableOK, Calls, Idle, Holds
<1>3. RevokedStaysForgotten
  BY DEF CacheInit, RevokedStaysForgotten
<1> QED
  BY <1>1, <1>2, <1>3

-----------------------------------------------------------------------------
(* Actions that leave the Map alone.                                        *)
LEMMA CacheKept ==
  ASSUME CacheConsistent, cache' = cache, maxEntries' = maxEntries,
         forgotten' = forgotten, TableOK'
  PROVE  CacheConsistent'
BY ConsistentParts, ConsistentPartsPrime DEF MapOK, RevokedStaysForgotten, CachedKids

LEMMA NewEmbeddingConsistent ==
  ASSUME CacheConsistent, NEW k \in Kids, NewEmbedding(k), rows[k] # NoRow \/ wraps[k] = 0
  PROVE  CacheConsistent'
<1>1. TableOK
  BY ConsistentParts
<1>2. PICK kek \in Keks : rows' = [rows EXCEPT ![k] = Embedding(k, kek, wraps[k])]
  BY DEF NewEmbedding
<1>3. wraps' = [wraps EXCEPT ![k] = @ + 1] /\ wraps[k] \in Nat
  BY <1>1 DEF NewEmbedding, TableOK
<1>4. Embedding(k, kek, wraps[k]) \in Embeddings
  BY <1>3 DEF Embedding, Embeddings
<1>5. ~ Gone(k)
  BY <1>3 DEF Gone
<1>6. \A kk \in Kids : Gone(kk) => Gone(kk)'
  BY <1>1, <1>2, <1>3, <1>5 DEF Gone, TableOK
<1>7. TableOK'
  <2>1. rows' \in [Kids -> Embeddings \cup {NoRow}] /\ wraps' \in [Kids -> Nat]
    BY <1>1, <1>2, <1>3, <1>4 DEF TableOK
  <2>2. \A kk \in Kids : rows'[kk] # NoRow => wraps'[kk] > 0
    BY <1>1, <1>2, <1>3 DEF TableOK
  <2>3. calls' = calls /\ now' = now /\ forgotten' = forgotten
    BY DEF NewEmbedding
  <2>4. \A c \in Callers : calls'[c].pc = "deleted" =>
                       rows'[calls'[c].kid] = NoRow /\ wraps'[calls'[c].kid] > 0
    BY <1>1, <1>6, <2>3, CallFields DEF TableOK, Gone
  <2>5. \A kk \in forgotten' : Gone(kk)' /\ \A c \in Callers : ~ Holds(c, kk)'
    BY <1>1, <1>6, <2>3 DEF TableOK, Holds
  <2> QED
    BY <1>1, <2>1, <2>2, <2>3, <2>4, <2>5 DEF TableOK, Gone
<1> QED
  BY <1>7, CacheKept DEF NewEmbedding

LEMMA SetRowConsistent ==
  ASSUME CacheConsistent, NEW k \in Kids, NEW row \in Embeddings \cup {NoRow}, SetRow(k, row)
  PROVE  CacheConsistent'
<1>1. TableOK /\ rows' = [rows EXCEPT ![k] = row] /\ rows[k] # NoRow /\ wraps' = wraps
  BY ConsistentParts DEF SetRow
<1>2. calls' = calls /\ now' = now /\ forgotten' = forgotten
  BY DEF SetRow
<1>3. \A kk \in Kids : Gone(kk) => Gone(kk)'
  BY <1>1 DEF Gone, TableOK
<1>4. TableOK'
  <2>1. rows' \in [Kids -> Embeddings \cup {NoRow}]
    BY <1>1 DEF TableOK
  <2>2. \A kk \in Kids : rows'[kk] # NoRow => wraps'[kk] > 0
    BY <1>1 DEF TableOK
  <2>3. \A c \in Callers : calls'[c].pc = "deleted" =>
                       rows'[calls'[c].kid] = NoRow /\ wraps'[calls'[c].kid] > 0
    BY <1>1, <1>2, <1>3, CallFields DEF TableOK, Gone
  <2>4. \A kk \in forgotten' : Gone(kk)' /\ \A c \in Callers : ~ Holds(c, kk)'
    BY <1>1, <1>2, <1>3 DEF TableOK, Holds
  <2> QED
    BY <1>1, <1>2, <2>1, <2>2, <2>3, <2>4 DEF TableOK, Gone
<1> QED
  BY <1>4, CacheKept DEF SetRow

LEMMA TickConsistent ==
  ASSUME CacheConsistent, Tick
  PROVE  CacheConsistent'
<1>1. TableOK'
  BY ConsistentParts DEF Tick, TableOK, Gone, Holds
<1> QED
  BY <1>1, CacheKept DEF Tick

(* A call that moves on, or lets go of what it holds.                       *)
LEMMA StepTable ==
  ASSUME TableOK, NEW c \in Callers, NEW call \in Calls, Step(c, call), forgotten' = forgotten,
         call.pc = "deleted" => Gone(call.kid),
         call.pc \in {"loaded", "extracting"} => call.kid \notin forgotten
  PROVE  TableOK'
<1>1. /\ calls' = [calls EXCEPT ![c] = call] /\ rows' = rows /\ now' = now /\ wraps' = wraps
      /\ calls \in [Callers -> Calls]
  BY DEF Step, TableOK
<1>2. calls' \in [Callers -> Calls] /\ calls'[c] = call
      /\ \A d \in Callers \ {c} : calls'[d] = calls[d]
  BY <1>1
<1>3. \A d \in Callers : calls'[d].pc = "deleted" =>
                       rows'[calls'[d].kid] = NoRow /\ wraps'[calls'[d].kid] > 0
  BY <1>1, <1>2 DEF TableOK, Gone
<1>4. \A kk \in forgotten' : Gone(kk)' /\ \A d \in Callers : ~ Holds(d, kk)'
  BY <1>1, <1>2 DEF TableOK, Gone, Holds
<1> QED
  BY <1>1, <1>2, <1>3, <1>4 DEF TableOK, Gone

LEMMA ExtractFacts ==
  ASSUME NEW kid \in Kids, NEW emb \in Embeddings
  PROVE  /\ Extract(kid, emb) \in Embeddings \cup Failures
         /\ Cacheable(Extract(kid, emb)) =>
              Extract(kid, emb) = emb /\ emb.of = kid /\ emb.kek \in Configured
BY DEF Extract, Cacheable, Failures, Unavailable, Mismatch

LEMMA LoadRowConsistent ==
  ASSUME CacheConsistent, NEW c \in Callers, NEW k \in Kids, LoadRow(c, k)
  PROVE  CacheConsistent'
<1>1. TableOK /\ rows[k] # NoRow /\ rows[k] \in Embeddings
  BY ConsistentParts DEF LoadRow, TableOK
<1>2. Loaded(k, rows[k]) \in Calls /\ k \notin forgotten
  BY <1>1 DEF Loaded, Calls, TableOK, Gone
<1>3. TableOK'
  BY <1>1, <1>2, StepTable DEF LoadRow, Loaded
<1> QED
  BY <1>3, CacheKept DEF LoadRow

LEMMA LetGoConsistent ==
  ASSUME CacheConsistent, NEW c \in Callers, FinishCall(c) \/ LoseReply(c)
  PROVE  CacheConsistent'
<1>1. /\ TableOK /\ Idle \in Calls /\ Step(c, Idle)
      /\ cache' = cache /\ forgotten' = forgotten /\ maxEntries' = maxEntries
  BY ConsistentParts DEF FinishCall, LoseReply, Calls, Idle
<1>2. TableOK'
  BY <1>1, StepTable DEF Idle
<1> QED
  BY <1>1, <1>2, CacheKept

LEMMA BypassConsistent ==
  ASSUME CacheConsistent, NEW c \in Callers, Bypass(c)
  PROVE  CacheConsistent'
<1> DEFINE call == Done(calls[c].kid, calls[c].emb, Extract(calls[c].kid, calls[c].emb))
<1>1. TableOK /\ calls[c].kid \in Kids /\ calls[c].emb \in Embeddings
  BY ConsistentParts, CallFields DEF Bypass
<1>2. call \in Calls /\ call.pc = "done"
  BY <1>1, ExtractFacts DEF Done, Calls
<1>3. TableOK'
  BY <1>1, <1>2, StepTable DEF Bypass
<1> QED
  BY <1>3, CacheKept DEF Bypass

LEMMA DeleteRowConsistent ==
  ASSUME CacheConsistent, NEW c \in Callers, NEW k \in Kids, DeleteRow(c, k)
  PROVE  CacheConsistent'
<1>1. /\ TableOK /\ rows' = [rows EXCEPT ![k] = NoRow] /\ calls' = [calls EXCEPT ![c] = Deleted(k)]
      /\ rows[k] # NoRow /\ wraps' = wraps /\ now' = now /\ forgotten' = forgotten
  BY ConsistentParts DEF DeleteRow
<1>2. Deleted(k) \in Calls /\ wraps[k] > 0 /\ Deleted(k).pc = "deleted" /\ Deleted(k).kid = k
  BY <1>1 DEF TableOK, Deleted, Calls
<1>3. rows' \in [Kids -> Embeddings \cup {NoRow}] /\ calls' \in [Callers -> Calls]
  BY <1>1, <1>2 DEF TableOK
<1>4. \A kk \in Kids : Gone(kk) => Gone(kk)'
  BY <1>1 DEF TableOK, Gone
<1>5. \A d \in Callers : calls'[d].pc = "deleted" =>
                       rows'[calls'[d].kid] = NoRow /\ wraps'[calls'[d].kid] > 0
  <2>1. rows'[k] = NoRow /\ wraps'[k] > 0 /\ calls'[c] = Deleted(k)
    BY <1>1, <1>2 DEF TableOK
  <2>2. \A d \in Callers \ {c} : calls'[d] = calls[d]
    BY <1>1 DEF TableOK
  <2> QED
    BY <1>1, <1>2, <1>4, <2>1, <2>2, CallFields DEF TableOK, Gone
<1>6. \A kk \in forgotten' : Gone(kk)' /\ \A d \in Callers : ~ Holds(d, kk)'
  BY <1>1, <1>2, <1>4 DEF TableOK, Holds
<1>7. \A kk \in Kids : rows'[kk] # NoRow => wraps'[kk] > 0
  BY <1>1 DEF TableOK
<1>8. TableOK'
  BY <1>1, <1>3, <1>5, <1>6, <1>7 DEF TableOK, Gone
<1> QED
  BY <1>8, CacheKept DEF DeleteRow

-----------------------------------------------------------------------------
(* Actions on the Map.                                                      *)
LEMMA PlaceOf ==
  ASSUME Fine(cache), NEW k \in CachedKids
  PROVE  /\ cache[Place(k)] \in SoundEntries /\ cache[Place(k)].kid = k
         /\ Place(k) \in DOMAIN cache
<1>1. cache \in Seq(SoundEntries) /\ \A i \in DOMAIN cache : cache[i] \in SoundEntries
  BY ElementOfSeq DEF Fine
<1>2. Place(k) \in DOMAIN cache /\ cache[Place(k)].kid = k
  BY DEF CachedKids, Place
<1> QED
  BY <1>1, <1>2

LEMMA MapChanged ==
  ASSUME CacheConsistent, TableOK', Fine(cache'), maxEntries' = maxEntries,
         Len(cache') <= maxEntries,
         forgotten' \cap KidsOf(cache') = {}
  PROVE  CacheConsistent'
BY ConsistentParts, ConsistentPartsPrime
DEF MapOK, RevokedStaysForgotten, CachedKids, KidsOf, Fine, Distinct

LEMMA HitConsistent ==
  ASSUME CacheConsistent, NEW c \in Callers, Hit(c)
  PROVE  CacheConsistent'
<1> DEFINE k == calls[c].kid
           entry == cache[Place(k)]
<1>1. /\ calls[c].pc = "loaded" /\ k \in CachedKids /\ cache' = Append(Without(k), entry)
      /\ Step(c, Done(k, calls[c].emb, entry.jwk))
      /\ forgotten' = forgotten /\ maxEntries' = maxEntries
  BY DEF Hit, Touched
<1>2. /\ TableOK /\ Fine(cache) /\ Len(cache) <= maxEntries /\ Len(cache) \in Nat
      /\ forgotten \cap CachedKids = {}
  BY ConsistentParts DEF MapOK, RevokedStaysForgotten, Fine
<1>3. entry \in SoundEntries /\ entry.kid = k /\ k \in Kids /\ calls[c].emb \in Embeddings
  BY <1>1, <1>2, PlaceOf, CallFields
<1>4. /\ Fine(cache') /\ KidsOf(cache') \subseteq CachedKids
      /\ Len(cache') = Len(cache)
  <2>1. /\ Fine(Without(k)) /\ KidsOf(Without(k)) \subseteq CachedKids \ {k}
        /\ Len(Without(k)) = Len(cache) - 1
    BY <1>1, <1>2, WithoutFine
  <2> HIDE DEF k, entry
  <2> QED
    BY <1>1, <1>2, <1>3, <2>1, AppendFine
<1>5. TableOK'
  <2>1. Done(k, calls[c].emb, entry.jwk) \in Calls /\ Done(k, calls[c].emb, entry.jwk).pc = "done"
    BY <1>3 DEF Done, Calls, SoundEntries, Entries
  <2> QED
    BY <1>1, <1>2, <2>1, StepTable
<1> QED
  BY <1>1, <1>2, <1>4, <1>5, MapChanged

LEMMA MissConsistent ==
  ASSUME CacheConsistent, NEW c \in Callers, Miss(c)
  PROVE  CacheConsistent'
<1> DEFINE k == calls[c].kid
           call == Extracting(k, calls[c].emb, now)
<1>1. /\ calls[c].pc = "loaded" /\ cache' = Without(k)
      /\ Step(c, call) /\ forgotten' = forgotten /\ maxEntries' = maxEntries
  BY DEF Miss
<1>2. /\ TableOK /\ Fine(cache) /\ Len(cache) <= maxEntries /\ Len(cache) \in Nat
      /\ forgotten \cap CachedKids = {} /\ maxEntries \in Nat
  BY ConsistentParts DEF MapOK, RevokedStaysForgotten, Fine
<1>3. k \in Kids /\ calls[c].emb \in Embeddings /\ k \notin forgotten
  BY <1>1, <1>2, CallFields DEF TableOK, Holds
<1>4. call \in Calls /\ call.pc = "extracting" /\ call.kid = k
  BY <1>2, <1>3 DEF Extracting, Calls, TableOK
<1>5. TableOK'
  <2> HIDE DEF k, call
  <2> QED
    BY <1>1, <1>2, <1>3, <1>4, StepTable
<1>6. Fine(cache') /\ Len(cache') <= maxEntries /\ KidsOf(cache') \subseteq CachedKids
  BY <1>1, <1>2, WithoutFine
<1> QED
  BY <1>1, <1>2, <1>5, <1>6, MapChanged

LEMMA ExtractedConsistent ==
  ASSUME CacheConsistent, NEW c \in Callers, Extracted(c)
  PROVE  CacheConsistent'
<1> DEFINE kid == calls[c].kid
           emb == calls[c].emb
           out == Extract(kid, emb)
           entry == Entry(kid, emb, out, calls[c].since)
<1>1. /\ calls[c].pc = "extracting" /\ Step(c, Done(kid, emb, out))
      /\ forgotten' = forgotten /\ maxEntries' = maxEntries
      /\ IF Cacheable(out) THEN cache' = Bounded(With(entry)) ELSE cache' = cache
  BY DEF Extracted
<1>2. /\ TableOK /\ Fine(cache) /\ maxEntries \in Nat /\ Len(cache) <= maxEntries
      /\ forgotten \cap CachedKids = {} /\ KidsOf(cache) = CachedKids
  BY ConsistentParts DEF MapOK, RevokedStaysForgotten, KidsOf, CachedKids
<1>3. /\ kid \in Kids /\ emb \in Embeddings /\ calls[c].since \in Nat /\ kid \notin forgotten
      /\ out \in Embeddings \cup Failures
  <2>1. kid \in Kids /\ emb \in Embeddings /\ calls[c].since \in Nat
    BY <1>1, <1>2, CallFields
  <2>2. kid \notin forgotten
    BY <1>1, <1>2 DEF TableOK, Holds
  <2> QED
    BY <2>1, <2>2, ExtractFacts
<1>4. TableOK'
  <2>1. Done(kid, emb, out) \in Calls /\ Done(kid, emb, out).pc = "done"
    BY <1>3 DEF Done, Calls
  <2> QED
    BY <1>1, <1>2, <2>1, StepTable
<1>5. CASE Cacheable(out)
  <2>1. entry \in SoundEntries /\ entry.kid = kid
    <3>1. out = emb /\ emb.of = kid /\ emb.kek \in Configured
      BY <1>3, <1>5, ExtractFacts
    <3> QED
      BY <1>3, <3>1, CacheAssumption DEF Entry, SoundEntries, Entries, Sound
  <2> HIDE DEF kid, emb, out, entry
  <2>2. Fine(With(entry)) /\ KidsOf(With(entry)) \subseteq CachedKids \cup {kid}
    BY <1>2, <2>1, WithFine
  <2>3. /\ Fine(cache') /\ Len(cache') <= maxEntries
        /\ KidsOf(cache') \subseteq CachedKids \cup {kid}
    BY <1>1, <1>2, <1>5, <2>2, BoundedFine
  <2> QED
    BY <1>1, <1>2, <1>3, <1>4, <2>3, MapChanged
<1>6. CASE ~ Cacheable(out)
  BY <1>1, <1>4, <1>6, CacheKept
<1> QED
  BY <1>5, <1>6

LEMMA ForgetKeyConsistent ==
  ASSUME CacheConsistent, NEW c \in Callers, ForgetKey(c)
  PROVE  CacheConsistent'
<1> DEFINE k == calls[c].kid
<1>1. /\ calls[c].pc = "deleted" /\ cache' = Without(k) /\ Step(c, Idle)
      /\ maxEntries' = maxEntries
      /\ forgotten' = IF \E d \in Callers : Holds(d, k) THEN forgotten ELSE forgotten \cup {k}
  BY DEF ForgetKey, Cleared
<1>2. /\ TableOK /\ Fine(cache) /\ Len(cache) <= maxEntries /\ Len(cache) \in Nat
      /\ forgotten \cap CachedKids = {} /\ maxEntries \in Nat
  BY ConsistentParts DEF MapOK, RevokedStaysForgotten, Fine
<1>3. k \in Kids /\ Gone(k)
  BY <1>1, <1>2, CallFields DEF TableOK
<1>4. /\ Fine(cache') /\ Len(cache') <= maxEntries
      /\ KidsOf(cache') \subseteq CachedKids \ {k}
  BY <1>1, <1>2, WithoutFine
<1>5. TableOK'
  <2>1. /\ calls' = [calls EXCEPT ![c] = Idle] /\ rows' = rows /\ now' = now /\ wraps' = wraps
        /\ calls \in [Callers -> Calls] /\ Idle \in Calls /\ Idle.pc = "idle"
    BY <1>1, <1>2 DEF Step, TableOK, Idle, Calls
  <2>2. calls' \in [Callers -> Calls] /\ calls'[c] = Idle
        /\ \A d \in Callers \ {c} : calls'[d] = calls[d]
    BY <2>1
  <2>3. \A d \in Callers : calls'[d].pc = "deleted" =>
                       rows'[calls'[d].kid] = NoRow /\ wraps'[calls'[d].kid] > 0
    BY <1>2, <2>1, <2>2 DEF TableOK, Gone
  <2>4. forgotten' \subseteq Kids
    BY <1>1, <1>2, <1>3 DEF TableOK
  <2>5. \A kk \in forgotten' : Gone(kk) /\ \A d \in Callers : ~ Holds(d, kk)
    BY <1>1, <1>2, <1>3 DEF TableOK
  <2>6. \A kk \in forgotten' : Gone(kk)' /\ \A d \in Callers : ~ Holds(d, kk)'
    BY <2>1, <2>2, <2>5 DEF Gone, Holds
  <2> QED
    BY <1>2, <2>1, <2>2, <2>3, <2>4, <2>6 DEF TableOK, Gone
<1>6. forgotten' \cap KidsOf(cache') = {}
  BY <1>1, <1>2, <1>4
<1> QED
  BY <1>1, <1>4, <1>5, <1>6, MapChanged

-----------------------------------------------------------------------------
LEMMA NextConsistent == CacheConsistent /\ [CacheNext]_cacheVars => CacheConsistent'
<1> SUFFICES ASSUME CacheConsistent, [CacheNext]_cacheVars PROVE CacheConsistent'
  OBVIOUS
<1>0. TableOK
  BY ConsistentParts
<1>1. CASE UNCHANGED cacheVars
  <2>1. TableOK'
    BY <1>0, <1>1 DEF cacheVars, TableOK, Gone, Holds
  <2> QED
    BY <1>1, <2>1, CacheKept DEF cacheVars
<1>2. CASE Tick
  BY <1>2, TickConsistent
<1>3. ASSUME NEW k \in Kids, Store(k) PROVE CacheConsistent'
  BY <1>3, NewEmbeddingConsistent DEF Store
<1>4. ASSUME NEW k \in Kids, Rewrap(k) PROVE CacheConsistent'
  BY <1>4, NewEmbeddingConsistent DEF Rewrap
<1>5. ASSUME NEW k \in Kids, SweepRow(k) PROVE CacheConsistent'
  BY <1>5, SetRowConsistent DEF SweepRow
<1>6. ASSUME NEW k \in Kids, NEW other \in Kids, Misplace(k, other) PROVE CacheConsistent'
  <2>1. rows[other] \in Embeddings \cup {NoRow}
    BY <1>0 DEF TableOK
  <2> QED
    BY <1>6, <2>1, SetRowConsistent DEF Misplace
<1>7. ASSUME NEW c \in Callers, NEW k \in Kids, LoadRow(c, k) PROVE CacheConsistent'
  BY <1>7, LoadRowConsistent
<1>8. ASSUME NEW c \in Callers, NEW k \in Kids, DeleteRow(c, k) PROVE CacheConsistent'
  BY <1>8, DeleteRowConsistent
<1>9. ASSUME NEW c \in Callers, Bypass(c) PROVE CacheConsistent'
  BY <1>9, BypassConsistent
<1>10. ASSUME NEW c \in Callers, Hit(c) PROVE CacheConsistent'
  BY <1>10, HitConsistent
<1>11. ASSUME NEW c \in Callers, Miss(c) PROVE CacheConsistent'
  BY <1>11, MissConsistent
<1>12. ASSUME NEW c \in Callers, Extracted(c) PROVE CacheConsistent'
  BY <1>12, ExtractedConsistent
<1>13. ASSUME NEW c \in Callers, FinishCall(c) \/ LoseReply(c) PROVE CacheConsistent'
  BY <1>13, LetGoConsistent
<1>14. ASSUME NEW c \in Callers, ForgetKey(c) PROVE CacheConsistent'
  BY <1>14, ForgetKeyConsistent
<1> QED
  BY <1>1, <1>2, <1>3, <1>4, <1>5, <1>6, <1>7, <1>8, <1>9, <1>10, <1>11, <1>12, <1>13, <1>14
  DEF CacheNext

(* The cache, the calls and the table stay consistent with each other, for  *)
(* any number of keys and requests (keystore.js 93-127).                    *)
THEOREM CacheStaysConsistent == CacheSpec => []CacheConsistent
<1>1. CacheInit => CacheConsistent
  BY InitConsistent
<1>2. CacheConsistent /\ [CacheNext]_cacheVars => CacheConsistent'
  BY NextConsistent
<1> QED
  BY <1>1, <1>2, PTL DEF CacheSpec

(* The Map never exceeds --key-cache-max-entries and has one entry of a key *)
(* (keystore.js 111-114).                                                   *)
THEOREM CacheIsBounded == CacheSpec => []CacheWithinBound
<1>1. CacheConsistent => CacheWithinBound
  BY DEF CacheConsistent
<1> QED
  BY <1>1, CacheStaysConsistent, PTL

(* A key revoked here with nobody holding its row does not come back into   *)
(* memory (keystore.js 123-127).                                            *)
THEOREM RevokedIsForgotten == CacheSpec => []RevokedStaysForgotten
<1>1. CacheConsistent => RevokedStaysForgotten
  BY DEF CacheConsistent
<1> QED
  BY <1>1, CacheStaysConsistent, PTL

-----------------------------------------------------------------------------
(* What one step does to the call of c, seen from outside.                  *)
LEMMA StepOf ==
  ASSUME TableOK, NEW c \in Callers, NEW call, calls' = [calls EXCEPT ![c] = call]
  PROVE  /\ calls'[c] = call
         /\ \A d \in Callers \ {c} : calls'[d] = calls[d]
         /\ Seen' = [Seen EXCEPT ![c] = SeenAs(call)]
         /\ Seen[c] = SeenAs(calls[c])
BY DEF TableOK, Seen, SeenAs

LEMMA SeenKept ==
  ASSUME TableOK, NEW c \in Callers, NEW call, calls' = [calls EXCEPT ![c] = call],
         SeenAs(call) = SeenAs(calls[c])
  PROVE  Seen' = Seen
<1>1. Seen' = [Seen EXCEPT ![c] = SeenAs(calls[c])] /\ Seen[c] = SeenAs(calls[c])
  BY StepOf
<1>2. Seen = [d \in Callers |-> Seen[d]]
  BY DEF Seen
<1> QED
  BY <1>1, <1>2

(* A secret comes out of the cache by Hit alone, whose entry is valid.      *)
LEMMA ServedYoung ==
  ASSUME CacheConsistent, [CacheNext]_cacheVars, NEW c \in Callers,
         maxEntries >= 1, calls[c].pc = "loaded", calls'[c].pc = "done"
  PROVE  now < cache[Place(calls[c].kid)].begun + Ttl
<1>1. TableOK /\ Fine(cache) /\ maxEntries \in Nat
  BY ConsistentParts DEF MapOK
<1>2. CASE Hit(c)
  <2> DEFINE k == calls[c].kid
             entry == cache[Place(k)]
  <2>1. k \in CachedKids /\ entry.expires > now
    BY <1>2 DEF Hit, Valid
  <2>2. entry.expires = entry.begun + Ttl /\ entry.begun \in Nat
    BY <1>1, <2>1, PlaceOf DEF SoundEntries, Sound, Entries
  <2> QED
    BY <1>1, <2>1, <2>2, CacheAssumption DEF TableOK
<1>3. CASE calls' = calls
  BY <1>3
<1>4. ASSUME NEW d \in Callers, NEW call, calls' = [calls EXCEPT ![d] = call],
             calls[d].pc = "loaded" => call.pc # "done"
      PROVE  FALSE
  BY <1>1, <1>4, StepOf
<1>5. ASSUME NEW d \in Callers, d # c, NEW call, calls' = [calls EXCEPT ![d] = call]
      PROVE  FALSE
  BY <1>1, <1>5, StepOf
<1>6. ASSUME NEW d \in Callers, NEW k \in Kids, LoadRow(d, k) PROVE FALSE
  BY <1>4, <1>6 DEF LoadRow, Step, Idle
<1>7. ASSUME NEW d \in Callers, NEW k \in Kids, DeleteRow(d, k) PROVE FALSE
  BY <1>4, <1>7 DEF DeleteRow, Idle
<1>8. ASSUME NEW d \in Callers, Bypass(d) PROVE FALSE
  BY <1>1, <1>8 DEF Bypass
<1>9. ASSUME NEW d \in Callers, d # c, Hit(d) PROVE FALSE
  BY <1>5, <1>9 DEF Hit, Step
<1>10. ASSUME NEW d \in Callers, Miss(d) PROVE FALSE
  BY <1>4, <1>10 DEF Miss, Step, Extracting
<1>11. ASSUME NEW d \in Callers, Extracted(d) PROVE FALSE
  BY <1>4, <1>11 DEF Extracted, Step
<1>12. ASSUME NEW d \in Callers, FinishCall(d) \/ LoseReply(d) PROVE FALSE
  BY <1>4, <1>12 DEF FinishCall, LoseReply, Step
<1>13. ASSUME NEW d \in Callers, ForgetKey(d) PROVE FALSE
  BY <1>4, <1>13 DEF ForgetKey, Step
<1>14. CASE \/ Tick \/ UNCHANGED cacheVars
            \/ \E k \in Kids : Store(k) \/ Rewrap(k) \/ SweepRow(k)
                               \/ \E other \in Kids : Misplace(k, other)
  BY <1>3, <1>14 DEF Tick, cacheVars, Store, Rewrap, NewEmbedding, SweepRow, Misplace, SetRow
<1> QED
  BY <1>2, <1>6, <1>7, <1>8, <1>9, <1>10, <1>11, <1>12, <1>13, <1>14 DEF CacheNext

(* Being served does not lengthen the life of an entry, and neither does a  *)
(* slow extraction (keystore.js 101-111).                                   *)
THEOREM NothingServedTooOld == CacheSpec => ServedWithinTtl
<1>1. CacheConsistent /\ [CacheNext]_cacheVars
      => [\A c \in Callers :
            (maxEntries >= 1 /\ calls[c].pc = "loaded" /\ calls'[c].pc = "done")
            => now < cache[Place(calls[c].kid)].begun + Ttl]_cacheVars
  BY ServedYoung
<1> QED
  BY <1>1, CacheStaysConsistent, PTL DEF CacheSpec, ServedWithinTtl

-----------------------------------------------------------------------------
(* The refinement: nobody can tell that there is a cache.                   *)
LEMMA DirectInit == CacheInit => Direct!Init
BY DEF CacheInit, Direct!Init, Seen, SeenAs, Idle, Direct!Idle

LEMMA HitAnswers ==
  ASSUME CacheConsistent, NEW c \in Callers, Hit(c)
  PROVE  Direct!Answer(c)
<1> DEFINE k == calls[c].kid
           emb == calls[c].emb
           entry == cache[Place(k)]
<1>1. /\ TableOK /\ Fine(cache) /\ calls[c].pc = "loaded" /\ k \in CachedKids /\ entry.hash = emb
      /\ rows' = rows /\ calls' = [calls EXCEPT ![c] = Done(k, emb, entry.jwk)]
  BY ConsistentParts DEF Hit, Valid, Step, MapOK
<1>2. entry.jwk = Direct!Extraction(k, emb)
  BY <1>1, PlaceOf DEF SoundEntries, Sound, Direct!Extraction
<1>3. Seen[c] = calls[c] /\ Seen' = [Seen EXCEPT ![c] = Done(k, emb, entry.jwk)]
  <2>1. SeenAs(calls[c]) = calls[c]
    BY <1>1 DEF SeenAs
  <2>2. SeenAs(Done(k, emb, entry.jwk)) = Done(k, emb, entry.jwk)
    BY DEF SeenAs, Done
  <2> HIDE DEF k, emb, entry
  <2> QED
    BY <1>1, <2>1, <2>2, StepOf
<1> QED
  BY <1>1, <1>2, <1>3 DEF Direct!Answer, Direct!Done, Done

LEMMA ExtractAnswers ==
  ASSUME TableOK, NEW c \in Callers, calls[c].pc \in {"loaded", "extracting"}, rows' = rows,
         calls' = [calls EXCEPT ![c] = Done(calls[c].kid, calls[c].emb,
                                            Extract(calls[c].kid, calls[c].emb))]
  PROVE  Direct!Answer(c)
<1> DEFINE kid == calls[c].kid
           emb == calls[c].emb
           out == Extract(kid, emb)
<1>1. out = Direct!Extraction(kid, emb)
  BY DEF Extract, Direct!Extraction, Unavailable, Mismatch
<1>2. Seen[c].pc = "loaded" /\ Seen[c].kid = kid /\ Seen[c].emb = emb
  <2>1. Seen[c] = SeenAs(calls[c])
    BY DEF Seen
  <2> QED
    BY <2>1 DEF SeenAs, Loaded
<1>3. Seen' = [Seen EXCEPT ![c] = Done(kid, emb, out)]
  <2>1. SeenAs(Done(kid, emb, out)) = Done(kid, emb, out)
    BY DEF SeenAs, Done
  <2> HIDE DEF kid, emb, out
  <2>2. calls' = [calls EXCEPT ![c] = Done(kid, emb, out)]
    BY DEF kid, emb, out
  <2>3. Seen' = [Seen EXCEPT ![c] = SeenAs(Done(kid, emb, out))]
    BY <2>2, StepOf
  <2> QED
    BY <2>1, <2>3
<1> QED
  BY <1>1, <1>2, <1>3 DEF Direct!Answer, Direct!Done, Done

LEMMA DirectNext ==
  ASSUME CacheConsistent, [CacheNext]_cacheVars
  PROVE  [Direct!Next]_(Direct!directVars)
<1>0. TableOK
  BY ConsistentParts
<1>1. ASSUME calls' = calls, rows' \in [Kids -> Embeddings \cup {NoRow}]
      PROVE  Direct!ChangeRows
  BY <1>1 DEF Direct!ChangeRows, Direct!Embeddings, Embeddings, Seen
<1>2. ASSUME Seen' = Seen, rows' = rows PROVE UNCHANGED Direct!directVars
  BY <1>2 DEF Direct!directVars
<1>3. CASE Tick \/ UNCHANGED cacheVars
  BY <1>2, <1>3 DEF Tick, cacheVars, Seen
<1>4. CASE \E k \in Kids : Store(k) \/ Rewrap(k) \/ SweepRow(k)
                           \/ \E other \in Kids : Misplace(k, other)
  <2>1. TableOK'
    BY <1>4, NextConsistent, ConsistentPartsPrime DEF CacheNext
  <2>2. calls' = calls
    BY <1>4 DEF Store, Rewrap, NewEmbedding, SweepRow, Misplace, SetRow
  <2>3. Direct!ChangeRows
    BY <1>1, <2>1, <2>2 DEF TableOK
  <2> QED
    BY <2>3 DEF Direct!Next
<1>5. ASSUME NEW c \in Callers, NEW k \in Kids, LoadRow(c, k) PROVE Direct!Next
  <2>1. /\ calls[c] = Idle /\ rows[k] # NoRow /\ rows' = rows
        /\ calls' = [calls EXCEPT ![c] = Loaded(k, rows[k])]
    BY <1>5 DEF LoadRow, Step
  <2>2. SeenAs(Idle) = Idle /\ SeenAs(Loaded(k, rows[k])) = Loaded(k, rows[k])
    BY DEF SeenAs, Idle, Loaded
  <2>3. Seen[c] = Idle /\ Seen' = [Seen EXCEPT ![c] = Loaded(k, rows[k])]
    <3>1. Seen[c] = SeenAs(calls[c]) /\ Seen' = [Seen EXCEPT ![c] = SeenAs(Loaded(k, rows[k]))]
      BY <1>0, <2>1, StepOf
    <3> QED
      BY <2>1, <2>2, <3>1
  <2>4. Direct!Load(c, k)
    BY <2>1, <2>3 DEF Direct!Load, Direct!Idle, Direct!Loaded, Idle, Loaded
  <2> QED
    BY <2>4 DEF Direct!Next
<1>6. ASSUME NEW c \in Callers, NEW k \in Kids, DeleteRow(c, k) PROVE Direct!Next
  <2>1. calls[c] = Idle /\ calls' = [calls EXCEPT ![c] = Deleted(k)]
    BY <1>6 DEF DeleteRow
  <2>2. SeenAs(Idle) = Idle /\ SeenAs(Deleted(k)) = Idle
    BY DEF SeenAs, Idle, Deleted
  <2>3. Seen' = Seen
    BY <1>0, <2>1, <2>2, SeenKept
  <2>4. TableOK'
    BY <1>6, DeleteRowConsistent, ConsistentPartsPrime
  <2>5. Direct!ChangeRows
    BY <2>3, <2>4 DEF Direct!ChangeRows, Direct!Embeddings, Embeddings, TableOK
  <2> QED
    BY <2>5 DEF Direct!Next
<1>7. ASSUME NEW c \in Callers, Bypass(c) PROVE Direct!Next
  <2>1. Direct!Answer(c)
    BY <1>0, <1>7, ExtractAnswers DEF Bypass, Step
  <2> QED
    BY <2>1 DEF Direct!Next
<1>8. ASSUME NEW c \in Callers, Hit(c) PROVE Direct!Next
  BY <1>8, HitAnswers DEF Direct!Next
<1>9. ASSUME NEW c \in Callers, Miss(c) PROVE UNCHANGED Direct!directVars
  <2> DEFINE call == Extracting(calls[c].kid, calls[c].emb, now)
  <2>1. /\ calls[c].pc = "loaded" /\ calls[c] \in Calls
        /\ rows' = rows /\ calls' = [calls EXCEPT ![c] = call]
    BY <1>0, <1>9 DEF Miss, Step, TableOK
  <2>2. SeenAs(call) = SeenAs(calls[c])
    BY <2>1 DEF SeenAs, Extracting, Loaded, Calls
  <2> HIDE DEF call
  <2> QED
    BY <1>0, <1>2, <2>1, <2>2, SeenKept
<1>10. ASSUME NEW c \in Callers, Extracted(c) PROVE Direct!Next
  <2>1. Direct!Answer(c)
    BY <1>0, <1>10, ExtractAnswers DEF Extracted, Step
  <2> QED
    BY <2>1 DEF Direct!Next
<1>11. ASSUME NEW c \in Callers, FinishCall(c) PROVE Direct!Next
  <2>1. calls[c].pc = "done" /\ rows' = rows /\ calls' = [calls EXCEPT ![c] = Idle]
    BY <1>11 DEF FinishCall, Step
  <2>2. SeenAs(Idle) = Idle /\ SeenAs(calls[c]) = calls[c]
    BY <2>1 DEF SeenAs, Idle
  <2>3. Seen[c] = calls[c] /\ Seen' = [Seen EXCEPT ![c] = Idle]
    <3>1. Seen[c] = SeenAs(calls[c]) /\ Seen' = [Seen EXCEPT ![c] = SeenAs(Idle)]
      BY <1>0, <2>1, StepOf
    <3> QED
      BY <2>2, <3>1
  <2>4. Direct!Finish(c)
    BY <2>1, <2>3 DEF Direct!Finish, Direct!Idle, Idle
  <2> QED
    BY <2>4 DEF Direct!Next
<1>12. ASSUME NEW c \in Callers, ForgetKey(c) \/ LoseReply(c) PROVE UNCHANGED Direct!directVars
  <2>1. calls[c].pc = "deleted" /\ rows' = rows /\ calls' = [calls EXCEPT ![c] = Idle]
    BY <1>12 DEF ForgetKey, LoseReply, Step
  <2>2. SeenAs(Idle) = SeenAs(calls[c])
    BY <2>1 DEF SeenAs, Idle
  <2> QED
    BY <1>0, <1>2, <2>1, <2>2, SeenKept
<1> QED
  BY <1>3, <1>4, <1>5, <1>6, <1>7, <1>8, <1>9, <1>10, <1>11, <1>12 DEF CacheNext

(* A call gets what extracting the row it loaded gives, whatever the cache  *)
(* does meanwhile: the cached store implements the direct one               *)
(* (keystore.js 93-120).                                                    *)
THEOREM CacheImplementsDirect == CacheSpec => CacheTransparent
<1>1. CacheInit => Direct!Init
  BY DirectInit
<1>2. CacheConsistent /\ [CacheNext]_cacheVars => [Direct!Next]_(Direct!directVars)
  BY DirectNext
<1> QED
  BY <1>1, <1>2, CacheStaysConsistent, PTL DEF CacheSpec, CacheTransparent, Direct!Spec
=============================================================================
