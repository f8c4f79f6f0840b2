-------------------------- MODULE TaskPagesProofs --------------------------
(* Theorems about TaskPages, for all tasks, pages, requests and texts.       *)
EXTENDS TaskPages, FiniteSetTheorems, SequenceTheorems, WellFoundedInduction, TLAPS

-----------------------------------------------------------------------------
(* Lists: what the operators on them keep.                                   *)

LEMMA LeastNatural ==
    ASSUME NEW T \in SUBSET Nat, T # {}
    PROVE  \E x \in T : \A y \in T : x <= y
<1> DEFINE R == OpToRel(<, Nat)
<1>1. IsWellFoundedOn(R, Nat)
  BY NatLessThanWellFounded
<1>2. \A x, y \in Nat : x < y => <<x, y>> \in R
  BY DEF OpToRel
<1> HIDE DEF R
<1>3. PICK x \in T : \A y \in T : ~ (<<y, x>> \in R)
  BY <1>1, WFMin
<1>4. \A y \in T : ~ (y < x)
  BY <1>2, <1>3
<1>5. QED
  BY <1>4

LEMMA ListRange ==
    ASSUME NEW S, NEW s \in Seq(S)
    PROVE  /\ DOMAIN s = 1 .. Len(s) /\ Len(s) \in Nat
           /\ Range(s) \subseteq S
           /\ \A x : (x \in Range(s) <=> (\E i \in 1 .. Len(s) : s[i] = x))
<1>1. DOMAIN s = 1 .. Len(s) /\ Len(s) \in Nat
  BY LenProperties
<1>2. \A i \in 1 .. Len(s) : s[i] \in S
  BY ElementOfSeq
<1>3. Range(s) = {s[i] : i \in 1 .. Len(s)}
  BY <1>1 DEF Range
<1>4. QED
  BY <1>1, <1>2, <1>3

\* Without one row, a list has no row it had not, and stays distinct.
LEMMA RowRemoved ==
    ASSUME NEW S, NEW s \in Seq(S), NEW e \in Range(s),
           NEW r, r = RemoveFirst(s, e)
    PROVE  /\ r \in Seq(S) /\ Len(r) = Len(s) - 1
           /\ Range(r) \subseteq Range(s)
           /\ IsInjective(s) => IsInjective(r)
<1> DEFINE I == {i \in 1 .. Len(s) : s[i] = e}
           n == Len(s)
<1>1. n \in Nat /\ DOMAIN s = 1 .. n /\ I \in SUBSET Nat /\ I # {}
  <2>1. \E i \in 1 .. n : s[i] = e
    BY ListRange
  <2>2. n \in Nat /\ DOMAIN s = 1 .. n
    BY ListRange
  <2>3. QED
    BY <2>1, <2>2
<1>2. Min(I) \in I
  BY <1>1, LeastNatural DEF Min
<1>3. SelectInSeq(s, LAMBDA v : v = e) = Min(I)
  BY <1>1 DEF SelectInSeq
<1>4. r = RemoveAt(s, Min(I))
  BY <1>1, <1>3 DEF RemoveFirst
<1>5. PICK k \in 1 .. n : r = RemoveAt(s, k)
  BY <1>2, <1>4
<1> DEFINE a == SubSeq(s, 1, k - 1)
           b == SubSeq(s, k + 1, n)
<1>6. r = a \o b
  BY <1>5 DEF RemoveAt
<1>7. a \in Seq(S) /\ Len(a) = k - 1 /\ \A i \in 1 .. k - 1 : a[i] = s[i]
  BY <1>1, SubSeqProperties
<1>8. b \in Seq(S) /\ Len(b) = n - k /\ \A i \in 1 .. n - k : b[i] = s[i + k]
  <2>1. \A i \in k + 1 .. n : s[i] \in S
    BY <1>1
  <2>2. k + 1 \in Int /\ n \in Int
    BY <1>1
  <2>3. /\ b \in Seq(S) /\ Len(b) = IF k + 1 <= n THEN n - (k + 1) + 1 ELSE 0
        /\ \A i \in 1 .. n - (k + 1) + 1 : b[i] = s[(k + 1) + i - 1]
    BY <2>1, <2>2, SubSeqProperties
  <2> HIDE DEF b
  <2>4. Len(b) = n - k /\ n - (k + 1) + 1 = n - k
    <3> HIDE DEF n
    <3>1. n - (k + 1) + 1 = n - k /\ (k + 1 > n => n - k = 0) /\ n \in Nat
      BY <1>1
    <3>2. QED
      BY <2>3, <3>1
  <2>5. ASSUME NEW i \in 1 .. n - k
        PROVE  b[i] = s[i + k]
    <3>1. (k + 1) + i - 1 = i + k
      BY <1>1
    <3>2. QED
      BY <2>3, <2>4, <3>1
  <2>6. QED
    BY <2>3, <2>4, <2>5
<1> HIDE DEF a, b, I
<1>9. /\ r \in Seq(S) /\ Len(r) = n - 1
      /\ \A i \in 1 .. n - 1 : r[i] = IF i < k THEN s[i] ELSE s[i + 1]
  <2>1. /\ r \in Seq(S) /\ Len(r) = (k - 1) + (n - k)
        /\ \A i \in 1 .. (k - 1) + (n - k) : r[i] = IF i <= k - 1 THEN a[i] ELSE b[i - (k - 1)]
    <3>1. /\ a \o b \in Seq(S) /\ Len(a \o b) = Len(a) + Len(b)
          /\ \A i \in 1 .. Len(a) + Len(b) :
               (a \o b)[i] = IF i <= Len(a) THEN a[i] ELSE b[i - Len(a)]
      BY <1>7, <1>8, ConcatProperties
    <3>2. QED
      BY <1>6, <1>7, <1>8, <3>1, Zenon
  <2>2. (k - 1) + (n - k) = n - 1
    BY <1>1
  <2>3. ASSUME NEW i \in 1 .. n - 1
        PROVE  r[i] = IF i < k THEN s[i] ELSE s[i + 1]
    <3>1. CASE i < k
      <4>1. i \in 1 .. k - 1 /\ i <= k - 1
        BY <1>1, <3>1
      <4>2. QED
        BY <1>7, <2>1, <2>2, <3>1, <4>1
    <3>2. CASE ~ (i < k)
      <4>1. i - (k - 1) \in 1 .. n - k /\ ~ (i <= k - 1) /\ i - (k - 1) + k = i + 1
        BY <1>1, <3>2
      <4>2. b[i - (k - 1)] = s[i - (k - 1) + k]
        BY <1>8, <4>1
      <4>3. QED
        BY <2>1, <2>2, <3>2, <4>1, <4>2
    <3>3. QED
      BY <3>1, <3>2
  <2>4. QED
    BY <2>1, <2>2, <2>3
<1>10. DOMAIN r = 1 .. n - 1
  BY <1>9
<1>11. Range(r) \subseteq Range(s)
  BY <1>1, <1>9, <1>10 DEF Range
<1>12. IsInjective(s) => IsInjective(r)
  BY <1>1, <1>9, <1>10, SMTT(30) DEF IsInjective
<1>13. QED
  BY <1>9, <1>11, <1>12

\* Unseen gives the rows that are not in seen and no others, each once if the
\* list has it once.
LEMMA UnseenRows ==
    ASSUME NEW S, NEW s \in Seq(S), NEW seen, NEW r, r = Unseen(s, seen)
    PROVE  /\ r \in Seq(S)
           /\ Range(r) \subseteq Range(s) \ seen
           /\ IsInjective(s) => IsInjective(r)
<1> DEFINE at == {i \in DOMAIN s : s[i] \notin seen}
           upto(i) == {j \in at : j <= i}
           n == Cardinality(at)
           f == [i \in at |-> Cardinality(upto(i))]
<1>1. DOMAIN s = 1 .. Len(s) /\ Len(s) \in Nat
  BY ListRange
<1>2. IsFiniteSet(at) /\ n \in Nat /\ at \subseteq Nat
  <2>1. IsFiniteSet(1 .. Len(s))
    BY <1>1, FS_Interval
  <2>2. at \subseteq 1 .. Len(s)
    BY <1>1
  <2>3. IsFiniteSet(at)
    BY <2>1, <2>2, FS_Subset
  <2>4. QED
    BY <1>1, <2>2, <2>3, FS_CardinalityType
<1>3. ASSUME NEW i \in at
      PROVE  IsFiniteSet(upto(i)) /\ Cardinality(upto(i)) \in 1 .. n
  <2>1. IsFiniteSet(upto(i)) /\ Cardinality(upto(i)) <= n
    BY <1>2, FS_Subset
  <2>2. i \in upto(i)
    BY <1>2
  <2>3. Cardinality(upto(i)) \in Nat /\ Cardinality(upto(i)) # 0
    BY <2>1, <2>2, FS_CardinalityType, FS_EmptySet
  <2>4. QED
    BY <1>2, <2>1, <2>3
<1>4. ASSUME NEW i \in at, NEW j \in at, i < j
      PROVE  Cardinality(upto(i)) # Cardinality(upto(j))
  <2>1. upto(i) \subseteq upto(j) /\ j \in upto(j) /\ j \notin upto(i)
    BY <1>2, <1>4
  <2>2. IsFiniteSet(upto(j))
    BY <1>3
  <2>3. QED
    BY <2>1, <2>2, FS_Subset
<1>5. f \in [at -> 1 .. n]
  BY <1>3
<1>6. IsInjective(f)
  <2> SUFFICES ASSUME NEW i \in at, NEW j \in at, f[i] = f[j], i # j PROVE FALSE
    BY <1>5 DEF IsInjective
  <2>1. i < j \/ j < i
    BY <1>2
  <2>2. QED
    BY <1>4, <2>1
<1>7. f \in Surjection(at, 1 .. n)
  <2>1. IsFiniteSet(1 .. n) /\ Cardinality(1 .. n) = n
    BY <1>2, FS_Interval
  <2>2. f \in Injection(at, 1 .. n)
    BY <1>5, <1>6 DEF Injection
  <2>3. QED
    BY <2>1, <2>2, FS_Injection
<1> DEFINE pick(k) == CHOOSE i \in at : Cardinality(upto(i)) = k
<1>8. ASSUME NEW k \in 1 .. n
      PROVE  pick(k) \in at /\ Cardinality(upto(pick(k))) = k
  <2>1. \E i \in at : f[i] = k
    BY <1>7 DEF Surjection
  <2>2. \E i \in at : Cardinality(upto(i)) = k
    BY <2>1
  <2>3. QED
    BY <2>2
<1>9. r = [k \in 1 .. n |-> s[pick(k)]]
  BY DEF Unseen
<1>10. \A k \in 1 .. n : s[pick(k)] \in S /\ s[pick(k)] \in Range(s) \ seen
  <2>1. ASSUME NEW i \in at
        PROVE  s[i] \in S /\ s[i] \in Range(s) \ seen
    <3>1. i \in 1 .. Len(s) /\ s[i] \notin seen
      BY <1>1
    <3>2. s[i] \in S /\ s[i] \in Range(s)
      BY <3>1, ElementOfSeq, ListRange
    <3>3. QED
      BY <3>1, <3>2
  <2>2. QED
    BY <1>8, <2>1
<1> HIDE DEF at, pick
<1>11. r \in Seq(S)
  <2>1. r \in [1 .. n -> S]
    BY <1>9, <1>10
  <2>2. QED
    BY <1>2, <2>1, SeqDef
<1>12. Range(r) \subseteq Range(s) \ seen
  BY <1>9, <1>10 DEF Range
<1>13. IsInjective(s) => IsInjective(r)
  <2> SUFFICES ASSUME IsInjective(s), NEW k \in 1 .. n, NEW l \in 1 .. n, r[k] = r[l] PROVE k = l
    BY <1>9 DEF IsInjective
  <2>1. s[pick(k)] = s[pick(l)]
    BY <1>9
  <2>2. pick(k) \in DOMAIN s /\ pick(l) \in DOMAIN s
    BY <1>8 DEF at
  <2>3. pick(k) = pick(l)
    BY <2>1, <2>2 DEF IsInjective
  <2>4. QED
    BY <1>8, <2>3
<1>14. QED
  BY <1>11, <1>12, <1>13

LEMMA DistinctJoined ==
    ASSUME NEW S, NEW s \in Seq(S), NEW r \in Seq(S), IsInjective(s), IsInjective(r),
           Range(s) \cap Range(r) = {}
    PROVE  /\ s \o r \in Seq(S) /\ IsInjective(s \o r)
<1> DEFINE c == s \o r
<1>1. /\ c \in Seq(S) /\ Len(c) = Len(s) + Len(r)
      /\ \A i \in 1 .. Len(s) + Len(r) : c[i] = IF i <= Len(s) THEN s[i] ELSE r[i - Len(s)]
  BY ConcatProperties
<1>2. /\ Len(s) \in Nat /\ Len(r) \in Nat /\ DOMAIN s = 1 .. Len(s) /\ DOMAIN r = 1 .. Len(r)
      /\ DOMAIN c = 1 .. Len(s) + Len(r)
  BY <1>1
<1> HIDE DEF c
<1>3. \A i \in 1 .. Len(s), j \in 1 .. Len(r) : s[i] # r[j]
  BY <1>2 DEF Range
<1>4. IsInjective(c)
  <2> SUFFICES ASSUME NEW i \in 1 .. Len(s) + Len(r), NEW j \in 1 .. Len(s) + Len(r), c[i] = c[j]
               PROVE  i = j
    BY <1>2 DEF IsInjective
  <2>1. CASE i <= Len(s) /\ j <= Len(s)
    <3>1. i \in 1 .. Len(s) /\ j \in 1 .. Len(s) /\ s[i] = s[j]
      BY <1>1, <1>2, <2>1
    <3>2. QED
      BY <1>2, <3>1 DEF IsInjective
  <2>2. CASE i > Len(s) /\ j > Len(s)
    <3>1. i - Len(s) \in 1 .. Len(r) /\ j - Len(s) \in 1 .. Len(r) /\ r[i - Len(s)] = r[j - Len(s)]
      BY <1>1, <1>2, <2>2
    <3>2. i - Len(s) = j - Len(s)
      BY <1>2, <3>1 DEF IsInjective
    <3>3. QED
      BY <1>2, <3>2
  <2>3. CASE i <= Len(s) /\ j > Len(s)
    <3>1. i \in 1 .. Len(s) /\ j - Len(s) \in 1 .. Len(r) /\ s[i] = r[j - Len(s)]
      BY <1>1, <1>2, <2>3
    <3>2. QED
      BY <1>3, <3>1
  <2>4. CASE i > Len(s) /\ j <= Len(s)
    <3>1. j \in 1 .. Len(s) /\ i - Len(s) \in 1 .. Len(r) /\ s[j] = r[i - Len(s)]
      BY <1>1, <1>2, <2>4
    <3>2. QED
      BY <1>3, <3>1
  <2>5. QED
    BY <1>2, <2>1, <2>2, <2>3, <2>4
<1>5. QED
  BY <1>1, <1>4 DEF c

LEMMA DistinctSlice ==
    ASSUME NEW S, NEW s \in Seq(S), IsInjective(s), NEW m \in Nat, NEW l \in Nat, l <= Len(s)
    PROVE  /\ SubSeq(s, m + 1, l) \in Seq(S) /\ IsInjective(SubSeq(s, m + 1, l))
<1> DEFINE r == SubSeq(s, m + 1, l)
<1>1. DOMAIN s = 1 .. Len(s) /\ Len(s) \in Nat
  BY ListRange
<1>2. \A i \in m + 1 .. l : s[i] \in S
  BY <1>1
<1>3. /\ r \in Seq(S) /\ Len(r) = IF m + 1 <= l THEN l - (m + 1) + 1 ELSE 0
      /\ \A i \in 1 .. l - (m + 1) + 1 : r[i] = s[(m + 1) + i - 1]
  BY <1>2, SubSeqProperties
<1> HIDE DEF r
<1>4. /\ DOMAIN r \subseteq 1 .. l - m
      /\ \A i \in DOMAIN r : r[i] = s[m + i] /\ m + i \in DOMAIN s
  <2>1. l - (m + 1) + 1 = l - m /\ (m + 1 > l => 1 .. l - m = {})
    OBVIOUS
  <2>2. DOMAIN r = 1 .. Len(r)
    BY <1>3, LenProperties
  <2>3. DOMAIN r = 1 .. l - m
    <3>1. CASE m + 1 <= l
      BY <1>3, <2>1, <2>2, <3>1
    <3>2. CASE m + 1 > l
      <4>1. Len(r) = 0
        BY <1>3, <3>2
      <4>2. QED
        BY <2>1, <2>2, <3>2, <4>1
    <3>3. QED
      BY <3>1, <3>2
  <2>4. \A i \in 1 .. l - m : (m + 1) + i - 1 = m + i /\ m + i \in 1 .. Len(s)
    BY <1>1
  <2>5. QED
    BY <1>1, <1>3, <2>1, <2>3, <2>4
<1>5. IsInjective(r)
  <2> SUFFICES ASSUME NEW i \in DOMAIN r, NEW j \in DOMAIN r, r[i] = r[j] PROVE i = j
    BY DEF IsInjective
  <2>1. m + i = m + j
    BY <1>4 DEF IsInjective
  <2>2. QED
    BY <1>4, <2>1
<1>6. QED
  BY <1>3, <1>5 DEF r

LEMMA MinOfTwo ==
    ASSUME NEW a \in Nat, NEW b \in Nat
    PROVE  Min({a, b}) \in Nat /\ Min({a, b}) <= b
<1>1. \E x \in {a, b} : \A y \in {a, b} : x <= y
  OBVIOUS
<1>2. Min({a, b}) \in {a, b} /\ \A y \in {a, b} : Min({a, b}) <= y
  BY <1>1 DEF Min
<1>3. QED
  BY <1>2

-----------------------------------------------------------------------------
(* The list of the tasks.                                                    *)

LEMMA EmptyList == ASSUME NEW S PROVE <<>> \in Seq(S) /\ IsInjective(<<>>) /\ Range(<<>>) = {}
<1>1. <<>> \in Seq(S) /\ Len(<<>>) = 0
  BY EmptySeq
<1>2. DOMAIN <<>> = 1 .. 0
  BY <1>1, LenProperties
<1>3. 1 .. 0 = {}
  OBVIOUS
<1>4. QED
  BY <1>1, <1>2, <1>3 DEF IsInjective, Range

CacheType == [rows : Seq(1 .. created), total : 0 .. MaxTasks, arg : Nat, error : BOOLEAN]
RequestType == [offset : Nat, read : BOOLEAN, items : Seq(1 .. created), total : 0 .. MaxTasks,
                active : BOOLEAN]

\* A request just asked for has no answer yet.
LEMMA AskedFits ==
    ASSUME NEW at \in Nat
    PROVE  /\ Asked(at) \in RequestType /\ NoRequest \in RequestType
           /\ IsInjective(Asked(at).items) /\ IsInjective(NoRequest.items)
           /\ Asked(at).active /\ ~NoRequest.active
<1>1. <<>> \in Seq(1 .. created) /\ IsInjective(<<>>)
  BY EmptyList
<1>2. /\ NoRequest \in RequestType /\ IsInjective(NoRequest.items)
      /\ NoRequest.items = <<>> /\ ~NoRequest.active
  BY <1>1, FeedAssumption DEF NoRequest, RequestType
<1>3. /\ Asked(at) \in RequestType /\ Asked(at).active /\ Asked(at).items = NoRequest.items
  BY <1>2 DEF Asked, RequestType
<1>4. QED
  BY <1>2, <1>3

LEMMA FeedInitHolds == FeedInit => FeedInv
<1> SUFFICES ASSUME FeedInit PROVE FeedInv
  OBVIOUS
<1> USE FeedAssumption
<1>1. \A S : <<>> \in Seq(S) /\ IsInjective(<<>>) /\ Range(<<>>) = {}
  BY EmptyList
<1>2. Len(<<>>) = 0
  BY EmptySeq
<1>3. request \in RequestType /\ request.active /\ IsInjective(request.items)
  BY AskedFits DEF FeedInit
<1>4. FeedTypes
  <2>1. created \in 0 .. MaxTasks /\ server \in Seq(1 .. created) /\ offset \in Nat
    BY <1>1 DEF FeedInit
  <2>2. cache \in CacheType
    BY <1>1 DEF FeedInit, CacheType
  <2>3. /\ {stale, armed, stream} \subseteq BOOLEAN /\ told \subseteq 1 .. created
        /\ banner \in [ids : SUBSET (1 .. created), dismissed : SUBSET (1 .. created)]
    BY DEF FeedInit
  <2>4. QED
    BY <1>3, <2>1, <2>2, <2>3 DEF FeedTypes, CacheType, RequestType
<1>5. ServerFits /\ WatchFits
  BY <1>2, <1>3 DEF FeedInit, ServerFits, WatchFits
<1>6. ListsDistinct /\ DrawnIsDismissed /\ AnnouncedIsStored
  BY <1>1, <1>3 DEF FeedInit, ListsDistinct, NoDuplicateRows, DrawnIsDismissed, AnnouncedIsStored, Visible
<1>7. QED
  BY <1>4, <1>5, <1>6 DEF FeedInv

\* Asking changes neither the rows nor the counts of the cache.
LEMMA AskKeeps ==
    ASSUME FeedTypes, ListsDistinct, NEW at \in Nat, Ask(at)
    PROVE  /\ cache' \in CacheType /\ cache'.rows = cache.rows /\ HasMore(cache') = HasMore(cache)
           /\ request' \in RequestType /\ IsInjective(request'.items) /\ request'.active
<1>1. cache \in CacheType /\ request \in RequestType /\ IsInjective(request.items)
  BY DEF FeedTypes, CacheType, RequestType, ListsDistinct
<1>2. CASE request.active
  BY <1>1, <1>2 DEF Ask
<1>3. CASE ~request.active
  <2>1. request' = Asked(at) /\ cache' = [cache EXCEPT !.arg = at]
    BY <1>3 DEF Ask
  <2>2. /\ cache' \in CacheType /\ cache'.rows = cache.rows
        /\ cache'.error = cache.error /\ cache'.total = cache.total
    BY <1>1, <2>1 DEF CacheType
  <2>3. HasMore(cache') = HasMore(cache)
    BY <2>2 DEF HasMore
  <2>4. QED
    BY <2>1, <2>2, <2>3, AskedFits
<1>4. QED
  BY <1>2, <1>3

\* The effect leaves the observer watching only a list that has more and is idle.
LEMMA RearmFits ==
    ASSUME FeedTypes, WatchFits, NEW c, NEW r, Rearm(c, r)
    PROVE  armed' \in BOOLEAN /\ (armed' => HasMore(c) /\ ~r.active)
<1>1. CASE <<HasMore(c), r.active>> # <<HasMore(cache), request.active>>
  BY <1>1 DEF Rearm
<1>2. CASE <<HasMore(c), r.active>> = <<HasMore(cache), request.active>>
  <2>1. armed' = armed /\ armed \in BOOLEAN
    BY <1>2 DEF Rearm, FeedTypes
  <2>2. HasMore(c) = HasMore(cache) /\ r.active = request.active
    BY <1>2
  <2>3. QED
    BY <2>1, <2>2 DEF WatchFits
<1>3. QED
  BY <1>1, <1>2

\* One step of the list keeps the invariant, action by action.
LEMMA TaskEntersKeeps == FeedInv /\ TaskEnters => FeedInv'
<1> SUFFICES ASSUME FeedInv, TaskEnters PROVE FeedInv'
  OBVIOUS
<1> USE FeedAssumption
<1> DEFINE n == created + 1
<1>1. FeedTypes /\ ServerFits /\ ListsDistinct /\ WatchFits /\ DrawnIsDismissed /\ AnnouncedIsStored
  BY DEF FeedInv
<1>2. /\ created \in Nat /\ created < MaxTasks /\ created' = n /\ server' = <<n>> \o server
      /\ banner' = Announce(n) /\ told' = told \cup {n} /\ Rearm(cache', request')
      /\ offset' = offset /\ stream' = stream
  BY <1>1 DEF TaskEnters, FeedTypes
<1>3. 1 .. created \subseteq 1 .. n /\ n \in 1 .. n /\ n \in Nat /\ n \in 0 .. MaxTasks /\ n \notin 1 .. created
  BY <1>2
<1>4. /\ cache \in CacheType /\ request \in RequestType /\ server \in Seq(1 .. created)
      /\ {stale, armed, stream} \subseteq BOOLEAN /\ offset \in Nat
  BY <1>1 DEF FeedTypes, CacheType, RequestType
<1>5. /\ cache' \in CacheType /\ cache'.rows = cache.rows
      /\ request' \in RequestType /\ IsInjective(request'.items)
      /\ stale' \in BOOLEAN /\ (stale' => request'.active)
  <2>1. CASE stream
    <3>1. Ask(cache.arg) /\ stale' = (stale \/ request.active) /\ cache.arg \in Nat
      BY <1>4, <2>1 DEF TaskEnters, Invalidate, CacheType
    <3>2. QED
      BY <1>1, <1>4, <3>1, AskKeeps DEF RequestType
  <2>2. CASE ~stream
    BY <1>1, <1>4, <2>2 DEF TaskEnters, ListsDistinct, WatchFits
  <2>3. QED
    BY <2>1, <2>2
<1>6. \A s \in Seq(1 .. created) : s \in Seq(1 .. n)
  BY <1>3, SeqMonotonic
<1>7. cache' \in CacheType' /\ request' \in RequestType'
  <2>1. cache'.rows \in Seq(1 .. n) /\ request'.items \in Seq(1 .. n)
    BY <1>5, <1>6 DEF CacheType, RequestType
  <2>2. QED
    BY <1>2, <1>5, <2>1 DEF CacheType, RequestType
<1>8. server' \in Seq(1 .. n) /\ IsInjective(server') /\ Len(server') <= n
  <2>1. <<n>> \in Seq(1 .. n) /\ Len(<<n>>) = 1 /\ IsInjective(<<n>>) /\ Range(<<n>>) = {n}
    <3>1. <<n>> \in Seq(1 .. n) /\ Len(<<n>>) = 1 /\ <<n>>[1] = n
      BY <1>3
    <3>2. DOMAIN <<n>> = {1}
      BY <3>1, LenProperties
    <3>3. QED
      BY <3>1, <3>2 DEF IsInjective, Range
  <2>2. /\ server \in Seq(1 .. n) /\ IsInjective(server) /\ Range(server) \subseteq 1 .. created
        /\ Len(server) \in Nat /\ Len(server) <= created
    BY <1>1, <1>4, <1>6, ListRange DEF ListsDistinct, ServerFits
  <2>3. <<n>> \o server \in Seq(1 .. n) /\ IsInjective(<<n>> \o server)
    BY <1>3, <2>1, <2>2, DistinctJoined
  <2>4. Len(<<n>> \o server) = 1 + Len(server)
    BY <2>1, <2>2, ConcatProperties
  <2>5. QED
    BY <1>2, <2>2, <2>3, <2>4
<1>9. /\ banner' \in [ids : SUBSET (1 .. n), dismissed : SUBSET (1 .. n)]
      /\ banner'.dismissed = banner.dismissed
      /\ banner.ids \cup {n} \subseteq banner.dismissed \cup banner'.ids
  <2>1. banner \in [ids : SUBSET (1 .. created), dismissed : SUBSET (1 .. created)]
    BY <1>1 DEF FeedTypes
  <2>2. banner \in [ids : SUBSET (1 .. n), dismissed : SUBSET (1 .. n)]
    BY <1>3, <2>1
  <2>3. Visible(cache) \subseteq banner.dismissed
    BY <1>1 DEF DrawnIsDismissed
  <2>4. CASE n \in Visible(cache)
    BY <1>2, <2>2, <2>3, <2>4 DEF Announce
  <2>5. CASE n \notin Visible(cache)
    <3>1. banner' = [banner EXCEPT !.ids = (banner.ids \ (banner.dismissed \cup Visible(cache))) \cup {n}]
      BY <1>2, <2>5 DEF Announce
    <3>2. QED
      BY <1>3, <2>2, <2>3, <3>1
  <2>6. QED
    BY <2>4, <2>5
<1>10. armed' \in BOOLEAN /\ (armed' => HasMore(cache') /\ ~request'.active)
  BY <1>1, <1>2, RearmFits
<1>11. FeedTypes'
  <2>1. told' \subseteq 1 .. created'
    BY <1>1, <1>2, <1>3 DEF FeedTypes
  <2>2. QED
    BY <1>2, <1>3, <1>4, <1>5, <1>7, <1>8, <1>9, <1>10, <2>1 DEF FeedTypes, CacheType, RequestType
<1>12. ServerFits'
  BY <1>2, <1>8 DEF ServerFits
<1>13. ListsDistinct'
  BY <1>1, <1>5, <1>8 DEF ListsDistinct, NoDuplicateRows
<1>14. WatchFits'
  BY <1>5, <1>10 DEF WatchFits, HasMore
<1>15. DrawnIsDismissed'
  BY <1>1, <1>5, <1>9 DEF DrawnIsDismissed, Visible
<1>16. AnnouncedIsStored'
  BY <1>1, <1>2, <1>9 DEF AnnouncedIsStored
<1>17. QED
  BY <1>11, <1>12, <1>13, <1>14, <1>15, <1>16 DEF FeedInv

LEMMA TaskLeavesKeeps ==
    ASSUME FeedInv, NEW t \in 1 .. created, NEW announced \in BOOLEAN, TaskLeaves(t, announced)
    PROVE  FeedInv'
<1> USE FeedAssumption
<1>1. FeedTypes /\ ServerFits /\ ListsDistinct /\ WatchFits /\ DrawnIsDismissed /\ AnnouncedIsStored
  BY DEF FeedInv
<1>2. /\ t \in Range(server) /\ server' = RemoveFirst(server, t) /\ Rearm(cache', request)
      /\ UNCHANGED <<created, request, stale, offset, stream, banner, told>>
  BY DEF TaskLeaves
<1>3. server \in Seq(1 .. created) /\ cache \in CacheType /\ created \in Nat
  BY <1>1 DEF FeedTypes, CacheType
<1>4. /\ server' \in Seq(1 .. created) /\ Len(server') = Len(server) - 1
      /\ (IsInjective(server) => IsInjective(server'))
  BY <1>2, <1>3, RowRemoved
<1>5. Len(server') <= created
  BY <1>1, <1>3, <1>4, LenProperties DEF ServerFits
<1>6. cache' \in CacheType /\ IsInjective(cache'.rows) /\ Visible(cache') \subseteq Visible(cache)
  <2>1. CASE announced /\ stream /\ t \in Visible(cache)
    <3>1. cache' = [cache EXCEPT !.rows = RemoveFirst(cache.rows, t),
                                 !.total = IF cache.total = 0 THEN 0 ELSE cache.total - 1]
      BY <2>1 DEF TaskLeaves
    <3>2. cache.rows \in Seq(1 .. created) /\ t \in Range(cache.rows) /\ IsInjective(cache.rows)
      BY <1>1, <1>3, <2>1 DEF CacheType, Visible, ListsDistinct, NoDuplicateRows
    <3> DEFINE left == RemoveFirst(cache.rows, t)
    <3>3. left \in Seq(1 .. created) /\ IsInjective(left) /\ Range(left) \subseteq Range(cache.rows)
      BY <3>2, RowRemoved
    <3> HIDE DEF left
    <3>4. (IF cache.total = 0 THEN 0 ELSE cache.total - 1) \in 0 .. MaxTasks
      BY <1>3 DEF CacheType
    <3>5. cache' \in CacheType /\ cache'.rows = left
      BY <1>3, <3>1, <3>3, <3>4 DEF CacheType, left
    <3>6. QED
      BY <3>3, <3>5 DEF Visible
  <2>2. CASE ~(announced /\ stream /\ t \in Visible(cache))
    <3>1. cache' = cache
      BY <2>2 DEF TaskLeaves
    <3>2. QED
      BY <1>1, <1>3, <3>1 DEF ListsDistinct, NoDuplicateRows
  <2>3. QED
    BY <2>1, <2>2
<1>7. armed' \in BOOLEAN /\ (armed' => HasMore(cache') /\ ~request.active)
  BY <1>1, <1>2, RearmFits
<1>8. FeedTypes'
  BY <1>1, <1>2, <1>4, <1>6, <1>7 DEF FeedTypes, CacheType
<1>9. ServerFits' /\ ListsDistinct'
  BY <1>1, <1>2, <1>4, <1>5, <1>6 DEF ServerFits, ListsDistinct, NoDuplicateRows
<1>10. WatchFits'
  BY <1>1, <1>2, <1>7 DEF WatchFits, HasMore
<1>11. DrawnIsDismissed' /\ AnnouncedIsStored'
  BY <1>1, <1>2, <1>6 DEF DrawnIsDismissed, AnnouncedIsStored, Visible
<1>12. QED
  BY <1>8, <1>9, <1>10, <1>11 DEF FeedInv

LEMMA ServerReadsKeeps == FeedInv /\ ServerReads => FeedInv'
<1> SUFFICES ASSUME FeedInv, ServerReads PROVE FeedInv'
  OBVIOUS
<1> USE FeedAssumption
<1>1. FeedTypes /\ ServerFits /\ ListsDistinct /\ WatchFits /\ DrawnIsDismissed /\ AnnouncedIsStored
  BY DEF FeedInv
<1>2. /\ request' = [request EXCEPT !.read = TRUE, !.total = Len(server), !.items = Page(request.offset)]
      /\ UNCHANGED <<server, created, cache, stale, offset, armed, stream, banner, told>>
  BY DEF ServerReads
<1>3. /\ server \in Seq(1 .. created) /\ request \in RequestType /\ created \in Nat
      /\ created <= MaxTasks /\ Len(server) \in Nat /\ IsInjective(server)
  BY <1>1, LenProperties DEF FeedTypes, RequestType, ListsDistinct
<1>4. Page(request.offset) \in Seq(1 .. created) /\ IsInjective(Page(request.offset))
  <2> DEFINE l == Min({request.offset + PageSize, Len(server)})
  <2>1. request.offset \in Nat /\ request.offset + PageSize \in Nat
    BY <1>3 DEF RequestType
  <2>2. l \in Nat /\ l <= Len(server)
    BY <1>3, <2>1, MinOfTwo
  <2> HIDE DEF l
  <2>3. /\ SubSeq(server, request.offset + 1, l) \in Seq(1 .. created)
        /\ IsInjective(SubSeq(server, request.offset + 1, l))
    BY <1>3, <2>1, <2>2, DistinctSlice
  <2>4. QED
    BY <2>3 DEF Page, l
<1>5. Len(server) \in 0 .. MaxTasks
  BY <1>1, <1>3 DEF ServerFits
<1> DEFINE p == Page(request.offset)
<1> HIDE DEF p
<1>6. request' \in RequestType /\ request'.items = p /\ request'.active = request.active
  <2>1. p \in Seq(1 .. created)
    BY <1>4 DEF p
  <2>2. request' = [request EXCEPT !.read = TRUE, !.total = Len(server), !.items = p]
    BY <1>2 DEF p
  <2>3. QED
    BY <1>3, <1>5, <2>1, <2>2 DEF RequestType
<1>7. FeedTypes'
  BY <1>1, <1>2, <1>6 DEF FeedTypes, RequestType
<1>8. ServerFits' /\ ListsDistinct'
  BY <1>1, <1>2, <1>4, <1>6 DEF ServerFits, ListsDistinct, NoDuplicateRows, p
<1>9. WatchFits' /\ DrawnIsDismissed' /\ AnnouncedIsStored'
  BY <1>1, <1>2, <1>6 DEF WatchFits, HasMore, DrawnIsDismissed, AnnouncedIsStored, Visible
<1>10. QED
  BY <1>7, <1>8, <1>9 DEF FeedInv

\* Rows taken over from an answer are distinct and the server's.
LEMMA MergeFits ==
    ASSUME FeedTypes, ListsDistinct
    PROVE  /\ Merge(cache, request) \in CacheType /\ IsInjective(Merge(cache, request).rows)
<1>1. cache \in CacheType /\ request \in RequestType /\ IsInjective(cache.rows) /\ IsInjective(request.items)
  BY DEF FeedTypes, CacheType, RequestType, ListsDistinct, NoDuplicateRows
<1>2. cache.rows \in Seq(1 .. created) /\ request.items \in Seq(1 .. created) /\ request.total \in 0 .. MaxTasks
  BY <1>1 DEF CacheType, RequestType
<1> DEFINE rest == Unseen(request.items, Visible(cache))
           rows == IF request.offset = 0 THEN request.items ELSE cache.rows \o rest
<1>3. Merge(cache, request) = [cache EXCEPT !.rows = rows, !.total = request.total, !.error = FALSE]
  BY DEF Merge
<1>4. rest \in Seq(1 .. created) /\ IsInjective(rest) /\ Range(cache.rows) \cap Range(rest) = {}
  <2>1. /\ rest \in Seq(1 .. created) /\ Range(rest) \subseteq Range(request.items) \ Visible(cache)
        /\ (IsInjective(request.items) => IsInjective(rest))
    BY <1>2, UnseenRows
  <2>2. QED
    BY <1>1, <2>1 DEF Visible
<1> HIDE DEF rest
<1>5. rows \in Seq(1 .. created) /\ IsInjective(rows)
  <2>1. cache.rows \o rest \in Seq(1 .. created) /\ IsInjective(cache.rows \o rest)
    BY <1>1, <1>2, <1>4, DistinctJoined
  <2>2. QED
    BY <1>1, <1>2, <2>1
<1> HIDE DEF rows
<1>6. QED
  BY <1>1, <1>2, <1>3, <1>5 DEF CacheType

\* Whatever the cache is after an answer, the request after it fits.
LEMMA AfterAnswerFits ==
    ASSUME FeedTypes, WatchFits, NEW c, AfterAnswer(c)
    PROVE  /\ request' \in RequestType /\ IsInjective(request'.items) /\ stale' = FALSE /\ cache' = c
           /\ armed' \in BOOLEAN /\ (armed' => HasMore(cache') /\ ~request'.active)
           /\ UNCHANGED <<server, created, offset, stream>>
<1>1. /\ request' = IF stale THEN Asked(cache.arg) ELSE NoRequest
      /\ stale' = FALSE /\ cache' = c /\ Rearm(cache', request')
      /\ UNCHANGED <<server, created, offset, stream>>
  BY DEF AfterAnswer
<1>2. cache.arg \in Nat
  BY DEF FeedTypes
<1>3. request' \in RequestType /\ IsInjective(request'.items)
  BY <1>1, <1>2, AskedFits
<1>4. armed' \in BOOLEAN /\ (armed' => HasMore(cache') /\ ~request'.active)
  BY <1>1, RearmFits
<1>5. QED
  BY <1>1, <1>3, <1>4

LEMMA AnswerArrivesKeeps == FeedInv /\ AnswerArrives => FeedInv'
<1> SUFFICES ASSUME FeedInv, AnswerArrives PROVE FeedInv'
  OBVIOUS
<1> DEFINE c == Merge(cache, request)
<1>1. FeedTypes /\ ServerFits /\ ListsDistinct /\ WatchFits /\ DrawnIsDismissed /\ AnnouncedIsStored
  BY DEF FeedInv
<1>2. AfterAnswer(c) /\ Draw(c, banner) /\ told' = told
  BY DEF AnswerArrives
<1>3. c \in CacheType /\ IsInjective(c.rows)
  BY <1>1, MergeFits
<1> HIDE DEF c
<1>4. /\ request' \in RequestType /\ IsInjective(request'.items) /\ stale' = FALSE /\ cache' = c
      /\ armed' \in BOOLEAN /\ (armed' => HasMore(cache') /\ ~request'.active)
      /\ UNCHANGED <<server, created, offset, stream>>
  BY <1>1, <1>2, AfterAnswerFits
<1>5. /\ banner' \in [ids : SUBSET (1 .. created), dismissed : SUBSET (1 .. created)]
      /\ banner'.ids = banner.ids /\ banner'.dismissed = banner.dismissed \cup Visible(c)
  <2>1. Visible(c) \subseteq 1 .. created
    BY <1>3, ListRange DEF CacheType, Visible
  <2>2. banner' = [banner EXCEPT !.dismissed = banner.dismissed \cup Visible(c)]
    BY <1>2 DEF Draw
  <2>3. banner \in [ids : SUBSET (1 .. created), dismissed : SUBSET (1 .. created)]
    BY <1>1 DEF FeedTypes
  <2>4. QED
    BY <2>1, <2>2, <2>3
<1>6. FeedTypes'
  BY <1>1, <1>2, <1>3, <1>4, <1>5 DEF FeedTypes, CacheType, RequestType
<1>7. ServerFits' /\ ListsDistinct'
  BY <1>1, <1>3, <1>4 DEF ServerFits, ListsDistinct, NoDuplicateRows
<1>8. WatchFits'
  BY <1>4 DEF WatchFits, HasMore
<1>9. DrawnIsDismissed' /\ AnnouncedIsStored'
  BY <1>1, <1>2, <1>4, <1>5 DEF DrawnIsDismissed, AnnouncedIsStored, Visible
<1>10. QED
  BY <1>6, <1>7, <1>8, <1>9 DEF FeedInv

LEMMA AnswerFailsKeeps == FeedInv /\ AnswerFails => FeedInv'
<1> SUFFICES ASSUME FeedInv, AnswerFails PROVE FeedInv'
  OBVIOUS
<1> DEFINE c == [cache EXCEPT !.error = TRUE]
<1>1. FeedTypes /\ ServerFits /\ ListsDistinct /\ WatchFits /\ DrawnIsDismissed /\ AnnouncedIsStored
  BY DEF FeedInv
<1>2. AfterAnswer(c) /\ UNCHANGED <<banner, told>>
  BY DEF AnswerFails
<1>3. c \in CacheType /\ c.rows = cache.rows
  BY <1>1 DEF FeedTypes, CacheType
<1> HIDE DEF c
<1>4. /\ request' \in RequestType /\ IsInjective(request'.items) /\ stale' = FALSE /\ cache' = c
      /\ armed' \in BOOLEAN /\ (armed' => HasMore(cache') /\ ~request'.active)
      /\ UNCHANGED <<server, created, offset, stream>>
  BY <1>1, <1>2, AfterAnswerFits
<1>5. FeedTypes'
  BY <1>1, <1>2, <1>3, <1>4 DEF FeedTypes, CacheType, RequestType
<1>6. ServerFits' /\ ListsDistinct'
  BY <1>1, <1>3, <1>4 DEF ServerFits, ListsDistinct, NoDuplicateRows
<1>7. WatchFits'
  BY <1>4 DEF WatchFits, HasMore
<1>8. DrawnIsDismissed' /\ AnnouncedIsStored'
  BY <1>1, <1>2, <1>3, <1>4 DEF DrawnIsDismissed, AnnouncedIsStored, Visible
<1>9. QED
  BY <1>5, <1>6, <1>7, <1>8 DEF FeedInv

\* What asking, after an effect of the page, leaves to show.
LEMMA AskingKeeps ==
    ASSUME FeedInv, offset' \in Nat, UNCHANGED <<server, created, stale, stream>>,
           /\ cache' \in CacheType /\ cache'.rows = cache.rows /\ request' \in RequestType
           /\ IsInjective(request'.items) /\ (request.active => request'.active),
           armed' \in BOOLEAN, armed' => HasMore(cache') /\ ~request'.active,
           /\ banner' \in [ids : SUBSET (1 .. created), dismissed : SUBSET (1 .. created)]
           /\ banner'.dismissed = banner.dismissed,
           told' = {} \/ (told' = told /\ banner'.ids = banner.ids)
    PROVE  FeedInv'
<1>1. FeedTypes /\ ServerFits /\ ListsDistinct /\ WatchFits /\ DrawnIsDismissed /\ AnnouncedIsStored
  BY DEF FeedInv
<1>2. FeedTypes'
  BY <1>1 DEF FeedTypes, CacheType, RequestType
<1>3. ServerFits' /\ ListsDistinct'
  BY <1>1 DEF ServerFits, ListsDistinct, NoDuplicateRows
<1>4. WatchFits'
  BY <1>1 DEF WatchFits, HasMore
<1>5. DrawnIsDismissed' /\ AnnouncedIsStored'
  BY <1>1 DEF DrawnIsDismissed, AnnouncedIsStored, Visible
<1>6. QED
  BY <1>2, <1>3, <1>4, <1>5 DEF FeedInv

LEMMA ScrollKeeps == FeedInv /\ Scroll => FeedInv'
<1> SUFFICES ASSUME FeedInv, Scroll PROVE FeedInv'
  OBVIOUS
<1> DEFINE at == offset + PageSize
<1>1. FeedTypes /\ ListsDistinct /\ WatchFits
  BY DEF FeedInv
<1>2. /\ offset' = at /\ (IF at # cache.arg THEN Ask(at) ELSE UNCHANGED <<request, cache>>)
      /\ armed' = FALSE /\ UNCHANGED <<server, created, stale, stream, banner, told>>
  BY DEF Scroll, SetOffset
<1>3. at \in Nat
  BY <1>1, FeedAssumption DEF FeedTypes
<1> HIDE DEF at
<1>4. /\ cache' \in CacheType /\ cache'.rows = cache.rows
      /\ request' \in RequestType /\ IsInjective(request'.items) /\ (request.active => request'.active)
  <2>1. CASE at # cache.arg
    BY <1>1, <1>2, <1>3, <2>1, AskKeeps
  <2>2. CASE at = cache.arg
    BY <1>1, <1>2, <2>2 DEF FeedTypes, ListsDistinct, CacheType, RequestType
  <2>3. QED
    BY <2>1, <2>2
<1>5. banner \in [ids : SUBSET (1 .. created), dismissed : SUBSET (1 .. created)]
  BY <1>1 DEF FeedTypes
<1>6. QED
  BY <1>2, <1>3, <1>4, <1>5, AskingKeeps

LEMMA RetryListKeeps == FeedInv /\ RetryList => FeedInv'
<1> SUFFICES ASSUME FeedInv, RetryList PROVE FeedInv'
  OBVIOUS
<1>1. FeedTypes /\ ListsDistinct /\ WatchFits
  BY DEF FeedInv
<1>2. Ask(offset) /\ Rearm(cache', request') /\ UNCHANGED <<server, created, stale, offset, stream, banner, told>>
  BY DEF RetryList
<1>3. /\ offset \in Nat
      /\ banner \in [ids : SUBSET (1 .. created), dismissed : SUBSET (1 .. created)]
  BY <1>1 DEF FeedTypes
<1>4. /\ cache' \in CacheType /\ cache'.rows = cache.rows
      /\ request' \in RequestType /\ IsInjective(request'.items) /\ request'.active
  BY <1>1, <1>2, <1>3, AskKeeps
<1>5. armed' \in BOOLEAN /\ (armed' => HasMore(cache') /\ ~request'.active)
  BY <1>1, <1>2, RearmFits
<1>6. QED
  BY <1>2, <1>3, <1>4, <1>5, AskingKeeps

LEMMA PressRefreshKeeps == FeedInv /\ PressRefresh => FeedInv'
<1> SUFFICES ASSUME FeedInv, PressRefresh PROVE FeedInv'
  OBVIOUS
<1>1. FeedTypes /\ ListsDistinct /\ WatchFits
  BY DEF FeedInv
<1>2. /\ offset' = 0 /\ Ask(offset) /\ banner' = [banner EXCEPT !.ids = {}] /\ told' = {}
      /\ Rearm(cache', request') /\ UNCHANGED <<server, created, stale, stream>>
  BY DEF PressRefresh
<1>3. /\ offset \in Nat /\ offset' \in Nat
      /\ banner \in [ids : SUBSET (1 .. created), dismissed : SUBSET (1 .. created)]
  BY <1>1, <1>2 DEF FeedTypes
<1>4. /\ banner' \in [ids : SUBSET (1 .. created), dismissed : SUBSET (1 .. created)]
      /\ banner'.dismissed = banner.dismissed
  BY <1>2, <1>3
<1>5. /\ cache' \in CacheType /\ cache'.rows = cache.rows
      /\ request' \in RequestType /\ IsInjective(request'.items) /\ request'.active
  BY <1>1, <1>2, <1>3, AskKeeps
<1>6. armed' \in BOOLEAN /\ (armed' => HasMore(cache') /\ ~request'.active)
  BY <1>1, <1>2, RearmFits
<1>7. QED
  BY <1>2, <1>3, <1>4, <1>5, <1>6, AskingKeeps

LEMMA FeedStepKeeps == FeedInv /\ [FeedNext]_feedVars => FeedInv'
<1> SUFFICES ASSUME FeedInv, [FeedNext]_feedVars PROVE FeedInv'
  OBVIOUS
<1>1. CASE TaskEnters
  BY <1>1, TaskEntersKeeps
<1>2. ASSUME NEW t \in 1 .. created, NEW announced \in BOOLEAN, TaskLeaves(t, announced)
      PROVE  FeedInv'
  BY <1>2, TaskLeavesKeeps
<1>3. CASE StreamBreaks
  BY <1>3 DEF StreamBreaks, FeedInv, FeedTypes, ServerFits, ListsDistinct, NoDuplicateRows, WatchFits,
              HasMore, DrawnIsDismissed, AnnouncedIsStored, Visible
<1>4. CASE ServerReads
  BY <1>4, ServerReadsKeeps
<1>5. CASE AnswerArrives
  BY <1>5, AnswerArrivesKeeps
<1>6. CASE AnswerFails
  BY <1>6, AnswerFailsKeeps
<1>7. CASE Scroll
  BY <1>7, ScrollKeeps
<1>8. CASE RetryList
  BY <1>8, RetryListKeeps
<1>9. CASE PressRefresh
  BY <1>9, PressRefreshKeeps
<1>10. CASE UNCHANGED feedVars
  BY <1>10 DEF feedVars, FeedInv, FeedTypes, ServerFits, ListsDistinct, NoDuplicateRows, WatchFits,
               HasMore, DrawnIsDismissed, AnnouncedIsStored, Visible
<1>11. QED
  BY <1>1, <1>2, <1>3, <1>4, <1>5, <1>6, <1>7, <1>8, <1>9, <1>10 DEF FeedNext

\* What the invariant says of the list that is shown.
LEMMA FeedInvGives == FeedInv => FeedTypeOK /\ NoDuplicateRows /\ EnteredIsAnnounced
<1> SUFFICES ASSUME FeedInv PROVE FeedTypeOK /\ NoDuplicateRows /\ EnteredIsAnnounced
  OBVIOUS
<1>1. FeedTypes /\ ServerFits /\ ListsDistinct /\ WatchFits /\ DrawnIsDismissed /\ AnnouncedIsStored
  BY DEF FeedInv
<1>2. Range(server) \subseteq 1 .. created /\ Visible(cache) \subseteq 1 .. created
  BY <1>1, ListRange DEF FeedTypes, Visible
<1>3. banner \in [{"ids", "dismissed"} -> SUBSET (1 .. created)]
  BY <1>1 DEF FeedTypes
<1>4. created <= MaxTasks
  BY <1>1, FeedAssumption DEF FeedTypes
<1>5. FeedTypeOK
  BY <1>1, <1>2, <1>3, <1>4 DEF FeedTypeOK, FeedTypes, WatchFits
<1>6. EnteredIsAnnounced
  BY <1>1 DEF EnteredIsAnnounced, NewTaskIds, DrawnIsDismissed, AnnouncedIsStored
<1>7. QED
  BY <1>1, <1>5, <1>6 DEF ListsDistinct

-----------------------------------------------------------------------------
(* The page of a task.                                                       *)

LEMMA PagesConstants ==
    /\ First \in Tasks /\ Shared \subseteq Tasks /\ Texts # {}
    /\ None \notin Texts /\ None \notin Tasks /\ None \notin Slots
BY PagesAssumption DEF Task!TaskPageAssumption

LEMMA RowFits ==
    ASSUME NEW st \in Task!Statuses
    PROVE  Task!Row(st) \in Task!RowRecord
<1>1. (CHOOSE x \in Texts : TRUE) \in Texts
  BY PagesConstants
<1>2. QED
  BY <1>1 DEF Task!Row, Task!RowRecord

LEMMA NoOpFits == Task!NoOp \in Task!OpRecord /\ Task!NoOp.phase = "none" /\ Task!NoOp.kind = "none"
BY DEF Task!NoOp, Task!OpRecord, Task!Kinds, Task!Phases

LEMMA NoViewFits ==
    /\ Task!NoView \in Task!ViewRecord /\ Task!NoView.id = None /\ Task!NoView.status = "queued"
BY DEF Task!NoView, Task!ViewRecord, Task!Statuses

LEMMA PageInitHolds == Task!PageInit => Task!PageInv
<1> SUFFICES ASSUME Task!PageInit PROVE Task!PageInv
  OBVIOUS
<1>1. /\ url = First /\ view = Task!NoView /\ fetch = [active |-> TRUE, error |-> FALSE]
      /\ drafts = Task!NoDrafts /\ open = {} /\ captured = None /\ source = FALSE
      /\ ops = [s \in Slots |-> Task!NoOp]
  BY DEF Task!PageInit
<1>2. row \in [Tasks -> Task!RowRecord]
  <2>1. PICK st \in {"queued", "failed"} :
          row = [t \in Tasks |-> Task!Row(IF t = First THEN st ELSE "queued")]
    BY DEF Task!PageInit
  <2>2. \A t \in Tasks : (IF t = First THEN st ELSE "queued") \in Task!Statuses
    BY DEF Task!Statuses
  <2>3. \A t \in Tasks : Task!Row(IF t = First THEN st ELSE "queued") \in Task!RowRecord
    BY <2>2, RowFits
  <2>4. QED
    BY <2>1, <2>3
<1>3. ops \in [Slots -> Task!OpRecord] /\ \A s \in Slots : ops[s].phase = "none" /\ ops[s].kind = "none"
  BY <1>1, NoOpFits
<1>4. Task!PageTypes
  BY <1>1, <1>2, <1>3, NoViewFits, PagesConstants DEF Task!PageTypes, Task!NoDrafts
<1>5. Task!ViewFits /\ Task!DialogFits /\ Task!FreshCopy
  BY <1>1, NoViewFits DEF Task!ViewFits, Task!DialogFits, Task!FreshCopy
<1>6. Task!RequestsFit /\ Task!FreshPublish
  BY <1>3 DEF Task!RequestsFit, Task!FreshPublish
<1>7. QED
  BY <1>4, <1>5, <1>6 DEF Task!PageInv

\* When a row is stored the page goes on showing its copy, which is fresh no more
\* if the text of the row has changed.
LEMMA StoreFits ==
    ASSUME Task!PageInv, NEW t \in Tasks, NEW r \in Task!RowRecord, NEW s, Task!Store(t, r, s)
    PROVE  /\ row' \in [Tasks -> Task!RowRecord] /\ row' = [row EXCEPT ![t] = r]
           /\ view' \in Task!ViewRecord /\ view'.id = view.id /\ view'.status = view.status
           /\ view'.text = view.text
           /\ Task!FreshCopy'
<1>1. row \in [Tasks -> Task!RowRecord] /\ view \in Task!ViewRecord
  BY DEF Task!PageInv, Task!PageTypes
<1>2. row' = [row EXCEPT ![t] = r]
  BY DEF Task!Store
<1>3. row' \in [Tasks -> Task!RowRecord]
  BY <1>1, <1>2
<1>4. CASE view.id = t /\ r.text # row[t].text
  <2>1. view' = [view EXCEPT !.fresh = FALSE]
    BY <1>4 DEF Task!Store
  <2>2. /\ view' \in Task!ViewRecord /\ view'.id = view.id /\ view'.status = view.status
        /\ view'.text = view.text /\ view'.fresh = FALSE
    BY <1>1, <2>1 DEF Task!ViewRecord
  <2>3. QED
    BY <1>2, <1>3, <2>2 DEF Task!FreshCopy
<1>5. CASE ~(view.id = t /\ r.text # row[t].text)
  <2>1. view' = view
    BY <1>5 DEF Task!Store
  <2>2. ASSUME view.id # None, view.fresh
        PROVE  row'[view.id].text = view.text
    <3>1. view.id \in Tasks /\ row[view.id].text = view.text
      BY <1>1, <2>2 DEF Task!PageInv, Task!FreshCopy, Task!ViewRecord
    <3>2. row'[view.id].text = row[view.id].text
      BY <1>1, <1>2, <1>5, <3>1
    <3>3. QED
      BY <3>1, <3>2
  <2>3. QED
    BY <1>1, <1>2, <1>3, <2>1, <2>2 DEF Task!FreshCopy
<1>6. QED
  BY <1>4, <1>5

\* Requests that are still fresh after it are about a row whose text is the same.
LEMMA OutdateFits ==
    ASSUME Task!PageInv, NEW t \in Tasks, NEW r \in Task!RowRecord, NEW s,
           NEW o, o = Task!Outdate(t, r, s)
    PROVE  /\ o \in [Slots -> Task!OpRecord]
           /\ \A q \in Slots : /\ o[q].kind = ops[q].kind /\ o[q].id = ops[q].id
                               /\ o[q].text = ops[q].text /\ o[q].phase = ops[q].phase
                               /\ (q # s /\ o[q].fresh =>
                                     ops[q].fresh /\ (ops[q].id = t => r.text = row[t].text))
<1>1. ops \in [Slots -> Task!OpRecord]
  BY DEF Task!PageInv, Task!PageTypes
<1>2. o = [q \in Slots |-> IF q # s /\ ops[q].id = t /\ r.text # row[t].text
                           THEN [ops[q] EXCEPT !.fresh = FALSE] ELSE ops[q]]
  BY DEF Task!Outdate
<1>3. ASSUME NEW q \in Slots
      PROVE  /\ o[q] \in Task!OpRecord
             /\ o[q].kind = ops[q].kind /\ o[q].id = ops[q].id
             /\ o[q].text = ops[q].text /\ o[q].phase = ops[q].phase
             /\ (q # s /\ o[q].fresh => ops[q].fresh /\ (ops[q].id = t => r.text = row[t].text))
  <2>1. ops[q] \in Task!OpRecord
    BY <1>1
  <2>2. CASE q # s /\ ops[q].id = t /\ r.text # row[t].text
    <3>1. o[q] = [ops[q] EXCEPT !.fresh = FALSE]
      BY <1>2, <2>2
    <3>2. QED
      BY <2>1, <2>2, <3>1 DEF Task!OpRecord
  <2>3. CASE ~(q # s /\ ops[q].id = t /\ r.text # row[t].text)
    <3>1. o[q] = ops[q]
      BY <1>2, <2>3
    <3>2. QED
      BY <2>1, <2>3, <3>1
  <2>4. QED
    BY <2>2, <2>3
<1>4. QED
  BY <1>2, <1>3

\* The invariant after a row has been stored, with what is to be shown of the requests.
LEMMA StoredKeeps ==
    ASSUME Task!PageInv, NEW t \in Tasks, NEW r \in Task!RowRecord, NEW s, Task!Store(t, r, s),
           UNCHANGED <<url, fetch, drafts, tab, open, captured, source>>,
           ops' \in [Slots -> Task!OpRecord], Task!RequestsFit', Task!FreshPublish'
    PROVE  Task!PageInv'
<1>1. /\ row' \in [Tasks -> Task!RowRecord] /\ view' \in Task!ViewRecord /\ view'.id = view.id
      /\ view'.status = view.status /\ view'.text = view.text /\ Task!FreshCopy'
  BY StoreFits
<1>2. Task!PageTypes'
  BY <1>1 DEF Task!PageInv, Task!PageTypes, Task!RowRecord, Task!ViewRecord, Task!OpRecord
<1>3. Task!ViewFits' /\ Task!DialogFits'
  BY <1>1 DEF Task!PageInv, Task!ViewFits, Task!DialogFits, Task!Mounted
<1>4. QED
  BY <1>1, <1>2, <1>3 DEF Task!PageInv

LEMMA ElsewhereKeeps ==
    ASSUME Task!PageInv, NEW t \in Tasks, NEW r \in Task!RowRecord, Task!Elsewhere(t, r)
    PROVE  Task!PageInv'
<1>1. /\ Task!Store(t, r, None) /\ ops' = Task!Outdate(t, r, None)
      /\ UNCHANGED <<url, fetch, drafts, tab, open, captured, source>>
  BY DEF Task!Elsewhere
<1>2. row' = [row EXCEPT ![t] = r] /\ row \in [Tasks -> Task!RowRecord]
  BY <1>1, StoreFits DEF Task!PageInv, Task!PageTypes
<1>3. /\ ops' \in [Slots -> Task!OpRecord]
      /\ \A q \in Slots : /\ ops'[q].kind = ops[q].kind /\ ops'[q].id = ops[q].id
                          /\ ops'[q].text = ops[q].text /\ ops'[q].phase = ops[q].phase
                          /\ (q # None /\ ops'[q].fresh =>
                                ops[q].fresh /\ (ops[q].id = t => r.text = row[t].text))
  BY <1>1, OutdateFits
<1>4. Task!RequestsFit'
  BY <1>3 DEF Task!PageInv, Task!RequestsFit
<1>5. Task!FreshPublish'
  <2> SUFFICES ASSUME NEW q \in Slots, ops'[q].kind = "publish", ops'[q].phase = "publish", ops'[q].fresh
               PROVE  row'[ops'[q].id].text = ops'[q].text
    BY DEF Task!FreshPublish
  <2>1. ops[q].fresh /\ (ops[q].id = t => r.text = row[t].text) /\ ops[q].id # None
    BY <1>3, PagesConstants DEF Task!PageInv, Task!RequestsFit
  <2>2. row[ops[q].id].text = ops[q].text /\ ops[q].id \in Tasks
    BY <1>3, <2>1 DEF Task!PageInv, Task!FreshPublish, Task!PageTypes, Task!OpRecord
  <2>3. row'[ops[q].id].text = row[ops[q].id].text
    BY <1>2, <2>1, <2>2
  <2>4. QED
    BY <1>3, <2>2, <2>3
<1>6. QED
  BY <1>1, <1>3, <1>4, <1>5, StoredKeeps

\* The server serves the request in slot s.
LEMMA ServedKeeps ==
    ASSUME Task!PageInv, NEW s \in Slots, ops[s].phase # "none", NEW r \in Task!RowRecord,
           NEW ph \in Task!Phases \ {"patch"}, ph = "publish" => r.text = ops[s].text,
           Task!Served(s, r, ph)
    PROVE  Task!PageInv'
<1> DEFINE t == ops[s].id
           o == Task!Outdate(t, r, s)
<1>1. t \in Tasks
  BY DEF Task!PageInv, Task!RequestsFit, Task!PageTypes, Task!OpRecord
<1>2. /\ Task!Store(t, r, s) /\ ops' = [o EXCEPT ![s].phase = ph]
      /\ UNCHANGED <<url, fetch, drafts, tab, open, captured, source>>
  BY DEF Task!Served
<1>3. row' = [row EXCEPT ![t] = r] /\ row \in [Tasks -> Task!RowRecord]
  BY <1>1, <1>2, StoreFits DEF Task!PageInv, Task!PageTypes
<1>4. /\ o \in [Slots -> Task!OpRecord]
      /\ \A q \in Slots : /\ o[q].kind = ops[q].kind /\ o[q].id = ops[q].id
                          /\ o[q].text = ops[q].text /\ o[q].phase = ops[q].phase
                          /\ (q # s /\ o[q].fresh =>
                                ops[q].fresh /\ (ops[q].id = t => r.text = row[t].text))
  BY <1>1, OutdateFits
<1> HIDE DEF o
<1>5. /\ ops' \in [Slots -> Task!OpRecord] /\ ops'[s].phase = ph
      /\ ops'[s].id = ops[s].id /\ ops'[s].text = ops[s].text
      /\ \A q \in Slots \ {s} : ops'[q] = o[q]
  <2>1. o[s] \in Task!OpRecord
    BY <1>4
  <2>2. [o[s] EXCEPT !.phase = ph] \in Task!OpRecord
    BY <2>1 DEF Task!OpRecord
  <2>3. ops' = [o EXCEPT ![s] = [o[s] EXCEPT !.phase = ph]]
    BY <1>2
  <2>4. ops'[s] = [o[s] EXCEPT !.phase = ph] /\ ops' \in [Slots -> Task!OpRecord]
    BY <1>4, <2>2, <2>3
  <2>5. ops'[s].phase = ph /\ ops'[s].id = o[s].id /\ ops'[s].text = o[s].text
    BY <2>1, <2>4 DEF Task!OpRecord
  <2>6. QED
    BY <1>4, <2>3, <2>4, <2>5
<1>6. Task!RequestsFit'
  <2> SUFFICES ASSUME NEW q \in Slots
               PROVE  /\ ops'[q].phase # "none" => ops'[q].id # None
                      /\ ops'[q].phase = "patch" => ops'[q].text # None
    BY DEF Task!RequestsFit
  <2>1. CASE q = s
    BY <1>1, <1>5, <2>1, PagesConstants
  <2>2. CASE q # s
    BY <1>4, <1>5, <2>2 DEF Task!PageInv, Task!RequestsFit
  <2>3. QED
    BY <2>1, <2>2
<1>7. Task!FreshPublish'
  <2> SUFFICES ASSUME NEW q \in Slots, ops'[q].kind = "publish", ops'[q].phase = "publish", ops'[q].fresh
               PROVE  row'[ops'[q].id].text = ops'[q].text
    BY DEF Task!FreshPublish
  <2>1. CASE q = s
    BY <1>1, <1>3, <1>5, <2>1
  <2>2. CASE q # s
    <3>1. /\ ops[q].fresh /\ (ops[q].id = t => r.text = row[t].text) /\ ops[q].kind = "publish"
          /\ ops[q].phase = "publish" /\ ops'[q].id = ops[q].id /\ ops'[q].text = ops[q].text
      BY <1>4, <1>5, <2>2
    <3>2. row[ops[q].id].text = ops[q].text /\ ops[q].id # None /\ ops[q].id \in Tasks \cup {None}
      BY <3>1 DEF Task!PageInv, Task!FreshPublish, Task!RequestsFit, Task!PageTypes, Task!OpRecord
    <3>3. row'[ops[q].id].text = row[ops[q].id].text
      BY <1>3, <3>1, <3>2
    <3>4. QED
      BY <3>1, <3>2, <3>3
  <2>3. QED
    BY <2>1, <2>2
<1>8. QED
  BY <1>1, <1>2, <1>5, <1>6, <1>7, StoredKeeps

\* The server and other users.
LEMMA ServerStepKeeps == Task!PageInv /\ Task!ServerNext => Task!PageInv'
<1> SUFFICES ASSUME Task!PageInv, Task!ServerNext PROVE Task!PageInv'
  OBVIOUS
<1>1. row \in [Tasks -> Task!RowRecord] /\ ops \in [Slots -> Task!OpRecord]
  BY DEF Task!PageInv, Task!PageTypes
<1>2. \A t \in Tasks, st \in Task!Statuses : [row[t] EXCEPT !.status = st] \in Task!RowRecord
  BY <1>1 DEF Task!RowRecord
<1>3. \A t \in Tasks, x \in Texts :
        [row[t] EXCEPT !.text = x] \in Task!RowRecord /\ [row[t] EXCEPT !.text = x].text = x
  BY <1>1 DEF Task!RowRecord
<1>4. ASSUME NEW t \in Shared,
             \/ Task!Starts(t) \/ Task!Finishes(t) \/ Task!OtherUserCancels(t)
             \/ Task!OtherUserRetries(t) \/ Task!OtherUserEdits(t)
      PROVE  Task!PageInv'
  <2>1. t \in Tasks
    BY PagesConstants
  <2>2. ASSUME NEW st \in Task!Statuses, Task!Elsewhere(t, [row[t] EXCEPT !.status = st])
        PROVE  Task!PageInv'
    <3>1. [row[t] EXCEPT !.status = st] \in Task!RowRecord
      BY <1>2, <2>1
    <3>2. QED
      BY <2>1, <2>2, <3>1, ElsewhereKeeps
  <2>3. ASSUME NEW x \in Texts, Task!Elsewhere(t, [row[t] EXCEPT !.text = x])
        PROVE  Task!PageInv'
    <3>1. [row[t] EXCEPT !.text = x] \in Task!RowRecord
      BY <1>3, <2>1
    <3>2. QED
      BY <2>1, <2>3, <3>1, ElsewhereKeeps
  <2>4. CASE Task!Starts(t)
    <3>1. "running" \in Task!Statuses
      BY DEF Task!Statuses
    <3>2. QED
      BY <2>2, <2>4, <3>1 DEF Task!Starts
  <2>5. CASE Task!Finishes(t)
    <3>1. "failed" \in Task!Statuses /\ "done" \in Task!Statuses
      BY DEF Task!Statuses
    <3>2. CASE Task!Elsewhere(t, [row[t] EXCEPT !.status = "failed"])
      BY <2>2, <3>1, <3>2
    <3>3. ASSUME NEW x \in Texts, Task!Elsewhere(t, [row[t] EXCEPT !.status = "done", !.text = x])
          PROVE  Task!PageInv'
      <4>1. [row[t] EXCEPT !.status = "done", !.text = x] \in Task!RowRecord
        BY <1>1, <2>1, <3>1 DEF Task!RowRecord
      <4>2. QED
        BY <2>1, <3>3, <4>1, ElsewhereKeeps
    <3>4. QED
      BY <2>5, <3>2, <3>3 DEF Task!Finishes
  <2>6. CASE Task!OtherUserCancels(t)
    <3>1. "cancelled" \in Task!Statuses
      BY DEF Task!Statuses
    <3>2. QED
      BY <2>2, <2>6, <3>1 DEF Task!OtherUserCancels
  <2>7. CASE Task!OtherUserRetries(t)
    <3>1. "queued" \in Task!Statuses
      BY DEF Task!Statuses
    <3>2. QED
      BY <2>2, <2>7, <3>1 DEF Task!OtherUserRetries
  <2>8. CASE Task!OtherUserEdits(t)
    BY <2>3, <2>8 DEF Task!OtherUserEdits
  <2>9. QED
    BY <1>4, <2>4, <2>5, <2>6, <2>7, <2>8
<1>5. ASSUME NEW s \in Slots,
             \/ Task!ServePatch(s) \/ Task!ServePublish(s) \/ Task!ServeRetry(s)
             \/ Task!ServeRemove(s) \/ Task!Breaks(s)
      PROVE  Task!PageInv'
  <2> DEFINE t == ops[s].id
  <2>1. ops[s].phase # "none"
    BY <1>5 DEF Task!ServePatch, Task!ServePublish, Task!ServeRetry, Task!ServeRemove, Task!Breaks
  <2>2. t \in Tasks
    BY <1>1, <2>1 DEF Task!PageInv, Task!RequestsFit, Task!OpRecord
  <2>3. row[t] \in Task!RowRecord
    BY <1>1, <2>2
  <2>4. /\ "ok" \in Task!Phases \ {"patch"} /\ "clash" \in Task!Phases \ {"patch"}
        /\ "error" \in Task!Phases \ {"patch"} /\ "publish" \in Task!Phases \ {"patch"}
        /\ "ok" # "publish" /\ "clash" # "publish" /\ "error" # "publish"
    BY DEF Task!Phases
  <2>5. ASSUME NEW r \in Task!RowRecord,
               \/ Task!Served(s, r, "ok") \/ Task!Served(s, r, "clash") \/ Task!Served(s, r, "error")
        PROVE  Task!PageInv'
    BY <2>1, <2>4, <2>5, ServedKeeps
  <2>6. CASE Task!ServePatch(s)
    <3> DEFINE r == [row[t] EXCEPT !.text = ops[s].text]
    <3>1. ops[s].text \in Texts
      BY <1>1, <2>6 DEF Task!ServePatch, Task!PageInv, Task!RequestsFit, Task!OpRecord
    <3>2. r \in Task!RowRecord /\ r.text = ops[s].text
      BY <1>3, <2>2, <3>1
    <3> HIDE DEF r
    <3>3. \/ Task!Served(s, r, "publish") \/ Task!Served(s, r, "ok")
          \/ Task!Served(s, row[t], "error")
      BY <2>6 DEF Task!ServePatch, r
    <3>4. QED
      BY <2>1, <2>3, <2>4, <2>5, <3>2, <3>3, ServedKeeps
  <2>7. CASE Task!ServePublish(s)
    <3>1. [row[t] EXCEPT !.status = "published"] \in Task!RowRecord
      BY <1>2, <2>2 DEF Task!Statuses
    <3>2. ASSUME NEW x \in Texts
          PROVE  [row[t] EXCEPT !.status = "conflict", !.theirs = x] \in Task!RowRecord
      BY <2>3 DEF Task!RowRecord, Task!Statuses
    <3>3. \/ Task!Served(s, [row[t] EXCEPT !.status = "published"], "ok")
          \/ \E x \in Texts : Task!Served(s, [row[t] EXCEPT !.status = "conflict", !.theirs = x], "clash")
          \/ Task!Served(s, row[t], "error")
      BY <2>7 DEF Task!ServePublish
    <3>4. QED
      BY <2>3, <2>5, <3>1, <3>2, <3>3
  <2>8. CASE Task!ServeRetry(s)
    <3>1. [row[t] EXCEPT !.status = "queued", !.theirs = None] \in Task!RowRecord
      BY <2>3 DEF Task!RowRecord, Task!Statuses
    <3>2. \/ Task!Served(s, [row[t] EXCEPT !.status = "queued", !.theirs = None], "ok")
          \/ Task!Served(s, row[t], "clash") \/ Task!Served(s, row[t], "error")
      BY <2>8 DEF Task!ServeRetry
    <3>3. QED
      BY <2>3, <2>5, <3>1, <3>2
  <2>9. CASE Task!ServeRemove(s)
    <3>1. [row[t] EXCEPT !.status = "gone"] \in Task!RowRecord
      BY <1>2, <2>2 DEF Task!Statuses
    <3>2. Task!Served(s, [row[t] EXCEPT !.status = "gone"], "ok") \/ Task!Served(s, row[t], "error")
      BY <2>9 DEF Task!ServeRemove
    <3>3. QED
      BY <2>3, <2>5, <3>1, <3>2
  <2>10. CASE Task!Breaks(s)
    BY <2>3, <2>5, <2>10 DEF Task!Breaks
  <2>11. QED
    BY <1>5, <2>6, <2>7, <2>8, <2>9, <2>10
<1>6. QED
  BY <1>4, <1>5 DEF Task!ServerNext

\* Steps that leave the rows alone: what they do to the requests of the page.
OpsFit == ops' \in [Slots -> Task!OpRecord] /\ Task!RequestsFit' /\ Task!FreshPublish'

LEMMA SameOpsFit ==
    ASSUME Task!PageInv, UNCHANGED <<row, ops>>
    PROVE  OpsFit
BY DEF OpsFit, Task!PageInv, Task!PageTypes, Task!RequestsFit, Task!FreshPublish, Task!OpRecord,
       Task!Kinds, Task!Phases, Task!Statuses

LEMMA ChangedOpFits ==
    ASSUME Task!PageInv, row' = row, NEW s \in Slots, NEW op \in Task!OpRecord,
           ops' = [ops EXCEPT ![s] = op],
           op.phase # "none" => op.id # None, op.phase = "patch" => op.text # None,
           op.kind = "publish" /\ op.phase = "publish" /\ op.fresh => row[op.id].text = op.text
    PROVE  OpsFit
<1>1. ops \in [Slots -> Task!OpRecord]
  BY DEF Task!PageInv, Task!PageTypes
<1>2. /\ ops' \in [Slots -> Task!OpRecord] /\ ops'[s] = op
      /\ \A q \in Slots \ {s} : ops'[q] = ops[q]
  BY <1>1
<1>3. Task!RequestsFit'
  BY <1>2 DEF Task!PageInv, Task!RequestsFit
<1>4. Task!FreshPublish'
  BY <1>2 DEF Task!PageInv, Task!FreshPublish
<1>5. QED
  BY <1>2, <1>3, <1>4 DEF OpsFit, Task!OpRecord, Task!Kinds, Task!Phases, Task!Statuses

LEMMA DoneFits ==
    ASSUME Task!PageInv, row' = row, NEW s \in Slots, Task!Done(s)
    PROVE  OpsFit
<1>1. ops' = [ops EXCEPT ![s] = Task!NoOp]
  BY DEF Task!Done
<1>2. QED
  BY <1>1, NoOpFits, ChangedOpFits

LEMMA RequestedFits ==
    ASSUME Task!PageInv, UNCHANGED <<row, view>>, view.id # None,
           NEW kind \in Task!Kinds, NEW text \in Texts \cup {None}, NEW phase \in Task!Phases,
           phase = "patch" => text # None,
           kind = "publish" /\ phase = "publish" => text = view.text,
           Task!Request(Task!Op(kind, text, phase))
    PROVE  OpsFit
<1> DEFINE op == Task!Op(kind, text, phase)
<1>1. view \in Task!ViewRecord
  BY DEF Task!PageInv, Task!PageTypes
<1>2. /\ op \in Task!OpRecord /\ op.kind = kind /\ op.id = view.id /\ op.text = text
      /\ op.phase = phase /\ (op.fresh <=> view.fresh)
  <2>1. (IF kind = "publish" THEN view.status ELSE None) \in Task!Statuses \cup {None}
    BY <1>1 DEF Task!ViewRecord
  <2>2. QED
    BY <1>1, <2>1 DEF Task!Op, Task!OpRecord, Task!ViewRecord
<1>3. PICK s \in Slots : ops' = [ops EXCEPT ![s] = op]
  <2>1. Task!Free1 # {} /\ ops' = [ops EXCEPT ![CHOOSE s \in Task!Free1 : TRUE] = op]
    BY DEF Task!Request
  <2>2. (CHOOSE s \in Task!Free1 : TRUE) \in Slots
    BY <2>1 DEF Task!Free1
  <2>3. QED
    BY <2>1, <2>2
<1> HIDE DEF op
<1>4. op.kind = "publish" /\ op.phase = "publish" /\ op.fresh => row[op.id].text = op.text
  BY <1>2 DEF Task!PageInv, Task!FreshCopy
<1>5. QED
  BY <1>2, <1>3, <1>4, ChangedOpFits

\* The invariant after a step that changes neither row nor view.
LEMMA UnstoredKeeps ==
    ASSUME Task!PageInv, UNCHANGED <<row, view>>, OpsFit,
           url' \in Tasks \cup {None}, fetch' \in [active : BOOLEAN, error : BOOLEAN],
           drafts' \in [diff : Texts \cup {None}, conflict : Texts \cup {None}],
           open' \subseteq {"publish", "conflict", "retry", "remove"},
           captured' \in Texts \cup {None}, "publish" \in open' => captured' # None,
           source' => url' # None /\ ~fetch'.error /\ view.id # None /\ view.status = "running"
    PROVE  Task!PageInv'
<1>1. Task!PageTypes'
  BY DEF OpsFit, Task!PageInv, Task!PageTypes, Task!RowRecord, Task!ViewRecord, Task!OpRecord
<1>2. Task!ViewFits' /\ Task!DialogFits' /\ Task!FreshCopy'
  BY DEF Task!PageInv, Task!ViewFits, Task!DialogFits, Task!FreshCopy, Task!Mounted
<1>3. QED
  BY <1>1, <1>2 DEF OpsFit, Task!PageInv

\* What the invariant says of the fields.
LEMMA PageFields ==
    ASSUME Task!PageInv
    PROVE  /\ row \in [Tasks -> Task!RowRecord] /\ view \in Task!ViewRecord
           /\ url \in Tasks \cup {None} /\ fetch \in [active : BOOLEAN, error : BOOLEAN]
           /\ drafts \in [diff : Texts \cup {None}, conflict : Texts \cup {None}]
           /\ open \subseteq {"publish", "conflict", "retry", "remove"}
           /\ captured \in Texts \cup {None} /\ ("publish" \in open => captured # None)
           /\ (source => url # None /\ ~fetch.error /\ view.id # None /\ view.status = "running")
           /\ (view.id # None => view.text \in Texts) /\ (view.id = None => view.status = "queued")
BY DEF Task!PageInv, Task!PageTypes, Task!ViewFits, Task!DialogFits, Task!Mounted

\* The user types, presses and moves about.
LEMMA TypingKeeps ==
    ASSUME Task!PageInv,
           \/ \E x \in Texts : Task!TypeDiff(x) \/ Task!TypeConflict(x)
           \/ Task!Discard
    PROVE  Task!PageInv'
<1> DEFINE Drafted == \/ \E x \in Texts, base \in Texts \cup {None} :
                            Task!Draft("diff", x, base) \/ Task!Draft("conflict", x, base)
                      \/ drafts' = [drafts EXCEPT !.diff = None]
<1>1. UNCHANGED <<row, url, view, fetch, open, captured, ops, source>> /\ Drafted
  <2>1. ASSUME view.id # None
        PROVE  view.text \in Texts /\ Task!BaseConflict \in Texts
    BY <2>1, PageFields DEF Task!BaseConflict, Task!ViewRecord
  <2>2. ASSUME NEW x \in Texts, Task!TypeDiff(x)
        PROVE  UNCHANGED <<row, url, view, fetch, open, captured, ops, source>> /\ Drafted
    BY <2>1, <2>2 DEF Task!TypeDiff, Task!Edit, Task!Free, Task!Mounted
  <2>3. ASSUME NEW x \in Texts, Task!TypeConflict(x)
        PROVE  UNCHANGED <<row, url, view, fetch, open, captured, ops, source>> /\ Drafted
    BY <2>1, <2>3 DEF Task!TypeConflict, Task!Edit, Task!Free, Task!Mounted
  <2>4. CASE Task!Discard
    BY <2>4 DEF Task!Discard, Task!Edit
  <2>5. QED
    BY <2>2, <2>3, <2>4
<1>2. drafts' \in [diff : Texts \cup {None}, conflict : Texts \cup {None}]
  <2>1. drafts \in [diff : Texts \cup {None}, conflict : Texts \cup {None}]
    BY PageFields
  <2>2. ASSUME NEW x \in Texts, NEW base \in Texts \cup {None},
               Task!Draft("diff", x, base) \/ Task!Draft("conflict", x, base)
        PROVE  drafts' \in [diff : Texts \cup {None}, conflict : Texts \cup {None}]
    <3>1. (IF x = base THEN None ELSE x) \in Texts \cup {None}
      OBVIOUS
    <3>2. QED
      BY <2>1, <2>2, <3>1 DEF Task!Draft
  <2>3. QED
    BY <1>1, <2>1, <2>2
<1>3. OpsFit
  BY <1>1, SameOpsFit
<1>4. QED
  BY <1>1, <1>2, <1>3, PageFields, UnstoredKeeps

\* The dialogs, and the tabs.
LEMMA DialogKeeps ==
    ASSUME Task!PageInv,
           \/ Task!SaveDiff \/ Task!OpenPublish \/ Task!Retry \/ Task!OpenRemove
           \/ \E t \in {"diff", "logs", "conflict"} : Task!SwitchTab(t)
           \/ Task!ConfirmPublish \/ Task!OpenConflict \/ Task!RetryAnyway \/ Task!CreateNew
           \/ Task!ConfirmRemove
           \/ \E d \in {"publish", "conflict", "retry", "remove"} : Task!CloseDialog(d)
    PROVE  Task!PageInv'
<1> DEFINE Shown == UNCHANGED <<row, url, view, fetch, drafts, source>>
           Closed == open' \subseteq open /\ captured' \in {captured, None}
                     /\ ("publish" \in open' => captured' = captured)
<1>1. /\ view \in Task!ViewRecord /\ drafts \in [diff : Texts \cup {None}, conflict : Texts \cup {None}]
      /\ open \subseteq {"publish", "conflict", "retry", "remove"} /\ captured \in Texts \cup {None}
      /\ ("publish" \in open => captured # None) /\ (view.id # None => view.text \in Texts)
  BY PageFields
<1>2. /\ {"save", "publish", "retry", "create", "remove"} \subseteq Task!Kinds
      /\ {"patch", "publish", "patient", "force", "create", "remove"} \subseteq Task!Phases
  BY DEF Task!Kinds, Task!Phases
<1>3. ASSUME Shown, OpsFit, Closed
      PROVE  Task!PageInv'
  BY <1>1, <1>3, PageFields, UnstoredKeeps
<1>4. ASSUME NEW kind \in {"save", "retry", "create", "remove"},
             NEW text \in Texts \cup {None},
             NEW phase \in {"patch", "patient", "force", "create", "remove"},
             phase = "patch" => text # None, Shown, Task!Mounted,
             Task!Request(Task!Op(kind, text, phase)), Closed
      PROVE  Task!PageInv'
  <2>1. kind \in Task!Kinds /\ phase \in Task!Phases /\ kind # "publish" /\ view.id # None
    BY <1>2, <1>4 DEF Task!Mounted
  <2>2. OpsFit
    BY <1>4, <2>1, RequestedFits
  <2>3. QED
    BY <1>3, <1>4, <2>2
<1>5. CASE Task!SaveDiff
  <2>1. /\ Shown /\ Task!Mounted /\ Closed /\ drafts.diff \in Texts \cup {None} /\ drafts.diff # None
        /\ Task!Request(Task!Op("save", drafts.diff, "patch"))
    BY <1>1, <1>5 DEF Task!SaveDiff, Task!Press, Task!Free
  <2>2. QED
    BY <1>4, <2>1
<1>6. CASE Task!OpenPublish
  <2>1. Shown /\ ops' = ops /\ open' = {"publish"} /\ view.id # None
    BY <1>6 DEF Task!OpenPublish, Task!Press, Task!Free, Task!Mounted
  <2>2. captured' = Task!DiffContent \/ captured' = Task!ConflictContent
    BY <1>6 DEF Task!OpenPublish
  <2>3. Task!DiffContent \in Texts /\ Task!ConflictContent \in Texts
    BY <1>1, <2>1 DEF Task!DiffContent, Task!ConflictContent, Task!BaseConflict, Task!ViewRecord
  <2>4. captured' \in Texts /\ captured' # None
    BY <2>2, <2>3, PagesConstants
  <2>5. OpsFit
    BY <2>1, SameOpsFit
  <2>6. QED
    BY <2>1, <2>4, <2>5, PageFields, UnstoredKeeps
<1>7. CASE Task!Retry
  <2>1. /\ Shown /\ Task!Mounted /\ Closed /\ Task!Request(Task!Op("retry", None, "patient"))
    BY <1>1, <1>7 DEF Task!Retry, Task!Press, Task!Free
  <2>2. QED
    BY <1>4, <2>1
<1>8. CASE Task!OpenRemove
  <2>1. Shown /\ ops' = ops /\ open' = {"remove"} /\ captured' = captured
    BY <1>8 DEF Task!OpenRemove, Task!Press
  <2>2. OpsFit
    BY <2>1, SameOpsFit
  <2>3. QED
    BY <1>1, <2>1, <2>2, PageFields, UnstoredKeeps
<1>9. ASSUME NEW t \in {"diff", "logs", "conflict"}, Task!SwitchTab(t)
      PROVE  Task!PageInv'
  <2>1. Shown /\ Closed /\ ops' = ops
    BY <1>9 DEF Task!SwitchTab
  <2>2. QED
    BY <1>3, <2>1, SameOpsFit
<1>10. CASE Task!ConfirmPublish
  <2> DEFINE phase == IF Task!PatchFirst(captured) THEN "patch" ELSE "publish"
  <2>1. /\ Shown /\ "publish" \in open /\ view.id # None /\ Closed
        /\ Task!Request(Task!Op("publish", captured, phase))
    BY <1>10 DEF Task!ConfirmPublish, Task!InDialog, Task!Mounted
  <2>2. phase \in Task!Phases /\ "publish" \in Task!Kinds /\ (phase = "publish" => captured = view.text)
    BY <1>2 DEF Task!PatchFirst
  <2> HIDE DEF phase
  <2>3. OpsFit
    BY <1>1, <2>1, <2>2, RequestedFits
  <2>4. QED
    BY <1>3, <2>1, <2>3
<1>11. CASE Task!OpenConflict
  <2>1. Shown /\ Closed /\ ops' = ops
    BY <1>11 DEF Task!OpenConflict, Task!InDialog
  <2>2. QED
    BY <1>3, <2>1, SameOpsFit
<1>12. CASE Task!RetryAnyway
  <2>1. /\ Shown /\ Task!Mounted /\ Closed /\ Task!Request(Task!Op("retry", None, "force"))
    BY <1>12 DEF Task!RetryAnyway, Task!InDialog
  <2>2. QED
    BY <1>4, <2>1
<1>13. CASE Task!CreateNew
  <2>1. /\ Shown /\ Task!Mounted /\ Closed /\ Task!Request(Task!Op("create", None, "create"))
    BY <1>13 DEF Task!CreateNew, Task!InDialog
  <2>2. QED
    BY <1>4, <2>1
<1>14. CASE Task!ConfirmRemove
  <2>1. /\ Shown /\ Task!Mounted /\ Closed /\ Task!Request(Task!Op("remove", None, "remove"))
    BY <1>14 DEF Task!ConfirmRemove, Task!InDialog
  <2>2. QED
    BY <1>4, <2>1
<1>15. ASSUME NEW d \in {"publish", "conflict", "retry", "remove"}, Task!CloseDialog(d)
       PROVE  Task!PageInv'
  <2>1. Shown /\ Closed /\ ops' = ops
    BY <1>15 DEF Task!CloseDialog, Task!InDialog
  <2>2. QED
    BY <1>3, <2>1, SameOpsFit
<1>16. QED
  BY <1>5, <1>6, <1>7, <1>8, <1>9, <1>10, <1>11, <1>12, <1>13, <1>14, <1>15

\* Another task, or none, is shown.
LEMMA GoToKeeps ==
    ASSUME Task!PageInv, NEW t \in Tasks \cup {None}, row' = row, OpsFit, Task!GoTo(t)
    PROVE  Task!PageInv'
<1>1. url' = t /\ fetch' = [active |-> t # None, error |-> FALSE]
  BY DEF Task!GoTo
<1>2. fetch' \in [active : BOOLEAN, error : BOOLEAN] /\ ~fetch'.error
  BY <1>1
<1>3. CASE t = None
  <2>1. /\ drafts' = Task!NoDrafts /\ open' = {} /\ captured' = None /\ source' = FALSE
        /\ view' = Task!NoView
    BY <1>3 DEF Task!GoTo, Task!Unmount
  <2>2. Task!PageTypes'
    BY <1>1, <1>2, <2>1, NoViewFits, PageFields DEF OpsFit, Task!PageTypes, Task!NoDrafts, Task!RowRecord,
       Task!ViewRecord, Task!OpRecord
  <2>3. Task!ViewFits' /\ Task!DialogFits' /\ Task!FreshCopy'
    BY <2>1, NoViewFits DEF Task!ViewFits, Task!DialogFits, Task!FreshCopy
  <2>4. QED
    BY <2>2, <2>3 DEF Task!PageInv, OpsFit
<1>4. CASE t # None
  <2>1. /\ UNCHANGED <<view, drafts, captured, open>>
        /\ source' = IF fetch.error THEN view.status = "running" ELSE source
    BY <1>4 DEF Task!GoTo, Task!ShownAgain
  <2>2. source' => url' # None /\ ~fetch'.error /\ view.id # None /\ view.status = "running"
    BY <1>1, <1>2, <1>4, <2>1, PageFields
  <2>3. QED
    BY <1>1, <1>2, <2>1, <2>2, PageFields, UnstoredKeeps
<1>5. QED
  BY <1>3, <1>4

LEMMA UserStepKeeps == Task!PageInv /\ Task!UserNext => Task!PageInv'
<1> SUFFICES ASSUME Task!PageInv, Task!UserNext PROVE Task!PageInv'
  OBVIOUS
<1>1. ASSUME NEW t \in Tasks \cup {None}, Task!Leave(t)
      PROVE  Task!PageInv'
  <2>1. Task!GoTo(t) /\ UNCHANGED <<row, ops>>
    BY <1>1 DEF Task!Leave
  <2>2. QED
    BY <2>1, SameOpsFit, GoToKeeps
<1>2. QED
  BY <1>1, TypingKeeps, DialogKeeps DEF Task!UserNext

\* The row arrives, and the stream and the timer that ask for it again.
LEMMA FetchKeeps ==
    ASSUME Task!PageInv, Task!FetchAnswers \/ Task!FetchFails \/ Task!Poll \/ Task!StatusEvent
    PROVE  Task!PageInv'
<1>1. CASE Task!FetchAnswers
  <2>1. /\ url # None /\ row' = row /\ ops' = ops
        /\ view' = [id |-> url, status |-> row[url].status, text |-> row[url].text,
                    theirs |-> row[url].theirs, fresh |-> TRUE]
        /\ source' = IF <<view.id, view.status>> # <<url, row[url].status>> \/ fetch.error
                     THEN row[url].status = "running" ELSE source
        /\ fetch' = [active |-> FALSE, error |-> FALSE]
        /\ UNCHANGED <<url, drafts, open, captured>>
    BY <1>1 DEF Task!FetchAnswers
  <2>2. url \in Tasks /\ row[url] \in Task!RowRecord
    BY <2>1, PageFields
  <2>3. /\ view' \in Task!ViewRecord /\ view'.id = url /\ view'.status = row[url].status
        /\ view'.text = row[url].text /\ view'.text \in Texts
    BY <2>1, <2>2 DEF Task!RowRecord, Task!ViewRecord
  <2>4. fetch' \in [active : BOOLEAN, error : BOOLEAN] /\ ~fetch'.error
    BY <2>1
  <2>5. source' => row[url].status = "running"
    <3>1. CASE <<view.id, view.status>> # <<url, row[url].status>> \/ fetch.error
      BY <2>1, <3>1
    <3>2. CASE ~(<<view.id, view.status>> # <<url, row[url].status>> \/ fetch.error)
      <4>1. source' = source /\ view.status = row[url].status
        BY <2>1, <3>2
      <4>2. QED
        BY <4>1, PageFields
    <3>3. QED
      BY <3>1, <3>2
  <2>6. OpsFit
    BY <2>1, SameOpsFit
  <2>7. Task!PageTypes'
    BY <2>1, <2>3, <2>4, <2>6, PageFields DEF OpsFit, Task!PageTypes, Task!RowRecord, Task!ViewRecord,
       Task!OpRecord
  <2>8. Task!ViewFits' /\ Task!DialogFits' /\ Task!FreshCopy'
    BY <2>1, <2>3, <2>4, <2>5, PageFields, PagesConstants
       DEF Task!ViewFits, Task!DialogFits, Task!FreshCopy, Task!Mounted
  <2>9. QED
    BY <2>6, <2>7, <2>8 DEF Task!PageInv, OpsFit
<1>2. CASE Task!FetchFails
  <2>1. /\ fetch' = [active |-> FALSE, error |-> TRUE] /\ drafts' = Task!NoDrafts
        /\ open' = {} /\ captured' = None /\ source' = FALSE
        /\ UNCHANGED <<row, url, view, ops>>
    BY <1>2 DEF Task!FetchFails, Task!Unmount
  <2>2. /\ fetch' \in [active : BOOLEAN, error : BOOLEAN] /\ OpsFit
        /\ drafts' \in [diff : Texts \cup {None}, conflict : Texts \cup {None}]
    BY <2>1, SameOpsFit DEF Task!NoDrafts
  <2>3. QED
    BY <2>1, <2>2, PageFields, UnstoredKeeps
<1>3. ASSUME Task!Refetch
      PROVE  fetch' \in [active : BOOLEAN, error : BOOLEAN] /\ (fetch'.error <=> fetch.error)
  BY <1>3, PageFields DEF Task!Refetch
<1>4. CASE Task!Poll
  <2>1. UNCHANGED <<row, url, view, drafts, open, captured, ops, source>> /\ Task!Refetch
    BY <1>4 DEF Task!Poll
  <2>2. QED
    BY <1>3, <2>1, SameOpsFit, PageFields, UnstoredKeeps
<1>5. CASE Task!StatusEvent
  <2>1. /\ UNCHANGED <<row, url, view, open, captured, ops>> /\ Task!Refetch
        /\ source' = FALSE /\ drafts' = Task!NoDrafts
    BY <1>5 DEF Task!StatusEvent
  <2>2. drafts' \in [diff : Texts \cup {None}, conflict : Texts \cup {None}]
    BY <2>1 DEF Task!NoDrafts
  <2>3. QED
    BY <1>3, <2>1, <2>2, SameOpsFit, PageFields, UnstoredKeeps
<1>6. QED
  BY <1>1, <1>2, <1>4, <1>5

\* The request in slot s is answered.
LEMMA AnsweredKeeps ==
    ASSUME Task!PageInv, NEW s \in Slots,
           \/ Task!AnswerError(s) \/ Task!AnswerSave(s) \/ Task!AnswerPublish(s) \/ Task!AnswerClash(s)
           \/ Task!RowReread(s) \/ Task!AnswerRetry(s) \/ Task!AnswerChanged(s)
           \/ Task!AnswerCreate(s) \/ Task!AnswerRemove(s)
    PROVE  Task!PageInv'
<1>1. ASSUME row' = row, Task!Done(s)
      PROVE  OpsFit
  BY <1>1, DoneFits
<1>2. ASSUME Task!RefetchIfShown
      PROVE  fetch' \in [active : BOOLEAN, error : BOOLEAN] /\ (fetch'.error <=> fetch.error)
  <2>1. fetch \in [active : BOOLEAN, error : BOOLEAN]
    BY PageFields
  <2>2. QED
    BY <1>2, <2>1 DEF Task!RefetchIfShown, Task!Refetch
<1>3. /\ Task!NoDrafts \in [diff : Texts \cup {None}, conflict : Texts \cup {None}]
      /\ [drafts EXCEPT !.diff = None] \in [diff : Texts \cup {None}, conflict : Texts \cup {None}]
  BY PageFields DEF Task!NoDrafts
<1>4. ASSUME UNCHANGED <<row, url, view, source>>, OpsFit,
             fetch' \in [active : BOOLEAN, error : BOOLEAN], fetch'.error <=> fetch.error,
             drafts' \in [diff : Texts \cup {None}, conflict : Texts \cup {None}],
             open' \subseteq open \cup {"conflict", "retry"}, captured' = captured
      PROVE  Task!PageInv'
  <2>1. open' \subseteq {"publish", "conflict", "retry", "remove"} /\ ("publish" \in open' => captured' # None)
    BY <1>4, PageFields
  <2>2. QED
    BY <1>4, <2>1, PageFields, UnstoredKeeps
<1>5. CASE Task!AnswerError(s)
  <2>1. Task!Done(s) /\ UNCHANGED <<row, url, view, fetch, drafts, open, captured, source>>
    BY <1>5 DEF Task!AnswerError
  <2>2. QED
    BY <1>1, <1>4, <2>1, PageFields
<1>6. CASE Task!AnswerSave(s)
  <2>1. /\ Task!Done(s) /\ Task!RefetchIfShown /\ drafts' = [drafts EXCEPT !.diff = None]
        /\ UNCHANGED <<row, url, view, open, captured, source>>
    BY <1>6 DEF Task!AnswerSave
  <2>2. QED
    BY <1>1, <1>2, <1>3, <1>4, <2>1
<1>7. CASE Task!AnswerPublish(s)
  <2>1. /\ Task!Done(s) /\ Task!RefetchIfShown /\ drafts' = Task!NoDrafts
        /\ UNCHANGED <<row, url, view, open, captured, source>>
    BY <1>7 DEF Task!AnswerPublish
  <2>2. QED
    BY <1>1, <1>2, <1>3, <1>4, <2>1
<1>8. CASE Task!AnswerClash(s)
  <2>1. /\ ops' = [ops EXCEPT ![s] = [ops[s] EXCEPT !.phase = "reread"]] /\ Task!RefetchIfShown
        /\ open' \subseteq open \cup {"conflict"} /\ ops[s].phase = "clash"
        /\ UNCHANGED <<row, url, view, drafts, captured, source>>
    BY <1>8 DEF Task!AnswerClash
  <2> DEFINE op == [ops[s] EXCEPT !.phase = "reread"]
  <2>2. op \in Task!OpRecord /\ op.phase = "reread" /\ op.id = ops[s].id
    BY DEF Task!PageInv, Task!PageTypes, Task!OpRecord, Task!Phases
  <2>3. ops[s].id # None
    BY <2>1 DEF Task!PageInv, Task!RequestsFit
  <2> HIDE DEF op
  <2>4. OpsFit
    <3>1. ops' = [ops EXCEPT ![s] = op]
      BY <2>1 DEF op
    <3>2. QED
      BY <2>1, <2>2, <2>3, <3>1, ChangedOpFits
  <2>5. QED
    BY <1>2, <1>4, <2>1, <2>4, PageFields
<1>9. CASE Task!RowReread(s)
  <2>1. Task!Done(s) /\ UNCHANGED <<row, url, view, fetch, drafts, open, captured, source>>
    BY <1>9 DEF Task!RowReread
  <2>2. QED
    BY <1>1, <1>4, <2>1, PageFields
<1>10. CASE Task!AnswerRetry(s)
  <2>1. /\ Task!Done(s) /\ Task!RefetchIfShown /\ drafts' = Task!NoDrafts /\ open' = open \ {"retry"}
        /\ UNCHANGED <<row, url, view, captured, source>>
    BY <1>10 DEF Task!AnswerRetry
  <2>2. QED
    BY <1>1, <1>2, <1>3, <1>4, <2>1
<1>11. CASE Task!AnswerChanged(s)
  <2>1. /\ Task!Done(s) /\ open' \subseteq open \cup {"retry"}
        /\ UNCHANGED <<row, url, view, fetch, drafts, captured, source>>
    BY <1>11 DEF Task!AnswerChanged
  <2>2. QED
    BY <1>1, <1>4, <2>1, PageFields
<1>12. CASE Task!AnswerCreate(s)
  <2>1. Task!Done(s) /\ row' = row
    BY <1>12 DEF Task!AnswerCreate
  <2>2. OpsFit
    BY <1>1, <2>1
  <2>3. CASE url = None
    <3>1. UNCHANGED <<url, view, fetch, drafts, open, captured, source>>
      BY <1>12, <2>3 DEF Task!AnswerCreate
    <3>2. QED
      BY <1>4, <2>1, <2>2, <3>1, PageFields
  <2>4. CASE url # None
    <3>1. /\ url' \in Tasks /\ fetch' = [active |-> TRUE, error |-> FALSE]
          /\ open' = open \ {"retry"} /\ UNCHANGED <<view, drafts, captured>>
          /\ source' = IF fetch.error THEN view.status = "running" ELSE source
      BY <1>12, <2>4 DEF Task!AnswerCreate, Task!ShownAgain
    <3>2. fetch' \in [active : BOOLEAN, error : BOOLEAN] /\ ~fetch'.error /\ url' # None
      BY <3>1, PagesConstants
    <3>3. source' => url' # None /\ ~fetch'.error /\ view.id # None /\ view.status = "running"
      BY <3>1, <3>2, PageFields
    <3>4. QED
      BY <2>1, <2>2, <3>1, <3>2, <3>3, PageFields, UnstoredKeeps
  <2>5. QED
    BY <2>3, <2>4
<1>13. CASE Task!AnswerRemove(s)
  <2>1. Task!Done(s) /\ Task!GoTo(None) /\ row' = row
    BY <1>13 DEF Task!AnswerRemove
  <2>2. QED
    BY <1>1, <2>1, GoToKeeps
<1>14. QED
  BY <1>5, <1>6, <1>7, <1>8, <1>9, <1>10, <1>11, <1>12, <1>13

LEMMA PageStepKeeps == Task!PageInv /\ [Task!PageNext]_onePageVars => Task!PageInv'
<1> SUFFICES ASSUME Task!PageInv, [Task!PageNext]_onePageVars PROVE Task!PageInv'
  OBVIOUS
<1>1. CASE Task!PageNext
  <2>1. Task!ServerNext => Task!PageInv'
    BY ServerStepKeeps
  <2>2. Task!UserNext => Task!PageInv'
    BY UserStepKeeps
  <2>3. Task!AnswerNext => Task!PageInv'
    BY FetchKeeps, AnsweredKeeps DEF Task!AnswerNext
  <2>4. QED
    BY <1>1, <2>1, <2>2, <2>3 DEF Task!PageNext
<1>2. CASE UNCHANGED onePageVars
  <2>1. /\ UNCHANGED <<row, url, view, fetch, drafts, open, captured, ops, source>>
    BY <1>2 DEF onePageVars
  <2>2. QED
    BY <2>1, SameOpsFit, PageFields, UnstoredKeeps
<1>3. QED
  BY <1>1, <1>2

LEMMA PageInvGives == Task!PageInv => Task!PageTypeOK
<1> SUFFICES ASSUME Task!PageInv PROVE Task!PageTypeOK
  OBVIOUS
<1>1. \A t \in Tasks : row[t].status \in Task!Statuses /\ row[t].text \in Texts
  BY PageFields DEF Task!RowRecord
<1>2. view.id \in Tasks \cup {None}
  BY PageFields DEF Task!ViewRecord
<1>3. QED
  BY <1>1, <1>2, PageFields DEF Task!PageTypeOK, Task!Mounted

-----------------------------------------------------------------------------
(* Both pages.                                                               *)

PagesInv == FeedInv /\ Task!PageInv

LEMMA PagesInvHolds == TaskPagesSpec => []PagesInv
<1>1. TaskPagesInit => PagesInv
  BY FeedInitHolds, PageInitHolds DEF TaskPagesInit, PagesInv
<1>2. PagesInv /\ [TaskPagesNext]_taskPagesVars => PagesInv'
  <2> SUFFICES ASSUME PagesInv, [TaskPagesNext]_taskPagesVars PROVE PagesInv'
    OBVIOUS
  <2>1. [FeedNext]_feedVars /\ [Task!PageNext]_onePageVars
    BY DEF TaskPagesNext, taskPagesVars
  <2>2. QED
    BY <2>1, FeedStepKeeps, PageStepKeeps DEF PagesInv
<1>3. QED
  BY <1>1, <1>2, PTL DEF TaskPagesSpec

\* Both pages are of their types: the list watches for its end only while there is
\* more and nothing is fetched, the stream of events is open only while the page of
\* a task shows it running, and the publish dialog always holds a text.
THEOREM PagesAreOfType == TaskPagesSpec => []TaskPagesTypeOK
<1>1. PagesInv => TaskPagesTypeOK
  BY FeedInvGives, PageInvGives DEF PagesInv, TaskPagesTypeOK
<1>2. QED
  BY <1>1, PagesInvHolds, PTL

\* However the pages fetched overlap, and whatever enters or leaves the list between
\* two of them, no task has two rows.
THEOREM RowsAreDistinct == TaskPagesSpec => []NoDuplicateRows
<1>1. PagesInv => NoDuplicateRows
  BY FeedInvGives DEF PagesInv
<1>2. QED
  BY <1>1, PagesInvHolds, PTL

\* A task announced to the page is dismissed by having been drawn, or is counted by
\* the banner until its button is pressed.
THEOREM AnnouncedIsCounted == TaskPagesSpec => []EnteredIsAnnounced
<1>1. PagesInv => EnteredIsAnnounced
  BY FeedInvGives DEF PagesInv
<1>2. QED
  BY <1>1, PagesInvHolds, PTL

\* The text the publish dialog was opened with is the text of the row when it is
\* published, unless the row was changed after the page had read it.
THEOREM ConfirmedIsPublished == TaskPagesSpec => ConfirmedTextPublished
<1> DEFINE Published ==
      \A s \in Slots :
        ops[s].kind = "publish" /\ ops[s].phase = "publish" /\ ops'[s].phase = "ok"
        => row[ops[s].id].text = ops[s].text \/ ~ops[s].fresh
<1>1. PagesInv => [Published]_(Task!pageVars)
  BY DEF PagesInv, Task!PageInv, Task!FreshPublish
<1>2. TaskPagesSpec => [][Published]_(Task!pageVars)
  BY <1>1, PagesInvHolds, PTL
<1>3. QED
  BY <1>2 DEF ConfirmedTextPublished, Task!ConfirmedTextPublished
=============================================================================
