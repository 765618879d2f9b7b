-------------------------- MODULE NodeCacheProofs --------------------------
(***************************************************************************)
(* The limits of the node cache hold for any number of nodes and keys, any *)
(* limits and any length of time.                                          *)
(***************************************************************************)
EXTENDS NodeCache, SequenceFacts, FiniteSetTheorems, TLAPS

-----------------------------------------------------------------------------
(* There is an entry to evict *)

Entries(c) == DOMAIN c \subseteq Slot /\ \A s \in DOMAIN c : c[s] \in Entry

LEMMA LRUExists ==
    ASSUME NEW c, Entries(c), NEW n, SlotsOf(c, n) # {}
    PROVE  LRU(c, n) # {}
<1> DEFINE times == {c[s].lastAccessed : s \in SlotsOf(c, n)}
<1>1. times \in SUBSET Nat /\ times # {}
    BY DEF Entries, SlotsOf, Entry
<1>2. PICK x \in times : \A y \in times : x <= y
    BY <1>1, LeastNumber
<1> DEFINE eldest == {s \in SlotsOf(c, n) : c[s].lastAccessed = x}
           counts == {c[s].hits : s \in eldest}
<1>3. counts \in SUBSET Nat /\ counts # {}
    BY <1>2 DEF Entries, SlotsOf, Entry
<1>4. PICK h \in counts : \A y \in counts : h <= y
    BY <1>3, LeastNumber
<1>5. PICK s \in eldest : c[s].hits = h
    BY <1>4
<1>6. ASSUME NEW t \in SlotsOf(c, n)
      PROVE  Older(c[s], c[t])
    <2>1. c[s].lastAccessed \in Nat /\ c[t].lastAccessed \in Nat
          /\ c[s].lastAccessed <= c[t].lastAccessed
        BY <1>2, <1>5 DEF Entries, SlotsOf, Entry
    <2>2. c[t].lastAccessed = x => c[s].hits <= c[t].hits
        BY <1>4, <1>5
    <2> QED BY <1>5, <2>1, <2>2 DEF Older
<1> QED BY <1>5, <1>6 DEF LRU

LEMMA GlobalLRUExists ==
    ASSUME NEW c, Entries(c), DOMAIN c # {}
    PROVE  GlobalLRU(c) # {}
<1> DEFINE times == {c[s].lastAccessed : s \in DOMAIN c}
<1>1. times \in SUBSET Nat /\ times # {}
    BY DEF Entries, Entry
<1>2. PICK x \in times : \A y \in times : x <= y
    BY <1>1, LeastNumber
<1> QED BY <1>2 DEF GlobalLRU

-----------------------------------------------------------------------------
(* What evictions and writes do *)

LEMMA Kept ==
    ASSUME NEW c, Entries(c), IsFiniteSet(DOMAIN c), NEW S \in SUBSET DOMAIN c
    PROVE  /\ Entries(Keep(c, S))
           /\ DOMAIN Keep(c, S) = S
           /\ IsFiniteSet(S)
BY FS_Subset DEF Entries, Keep

LEMMA Evicted ==
    ASSUME NEW c, Entries(c), IsFiniteSet(DOMAIN c), NEW V \in SUBSET DOMAIN c,
           NEW d \in Evict(c, V)
    PROVE  /\ Entries(d)
           /\ IsFiniteSet(DOMAIN d)
           /\ DOMAIN d \subseteq DOMAIN c
           /\ V = {} => d = c
           /\ V # {} => \E s \in V : DOMAIN d = DOMAIN c \ {s}
<1>1. CASE V = {}
    BY <1>1 DEF Evict
<1>2. CASE V # {}
    <2>1. PICK s \in V : d = Keep(c, DOMAIN c \ {s})
        BY <1>2 DEF Evict, Without
    <2> QED BY <1>2, <2>1, Kept
<1> QED BY <1>1, <1>2

\* The entries of one node, when an entry goes.
LEMMA SlotsFinite ==
    ASSUME NEW c, IsFiniteSet(DOMAIN c), NEW n
    PROVE  IsFiniteSet(SlotsOf(c, n)) /\ Cardinality(SlotsOf(c, n)) \in Nat
BY FS_Subset, FS_CardinalityType DEF SlotsOf

LEMMA SlotsMonotone ==
    ASSUME NEW c, IsFiniteSet(DOMAIN c), NEW d, DOMAIN d \subseteq DOMAIN c, NEW n
    PROVE  /\ SlotsOf(d, n) \subseteq SlotsOf(c, n)
           /\ Cardinality(SlotsOf(d, n)) \in Nat
           /\ Cardinality(SlotsOf(d, n)) <= Cardinality(SlotsOf(c, n))
<1>1. SlotsOf(d, n) \in SUBSET SlotsOf(c, n)
    BY DEF SlotsOf
<1>2. IsFiniteSet(SlotsOf(c, n))
    BY SlotsFinite
<1> QED BY <1>1, <1>2, FS_Subset, FS_CardinalityType

LEMMA RoomInNode ==
    ASSUME NEW c, Entries(c), IsFiniteSet(DOMAIN c), NEW n,
           NEW d \in MakeRoomInNode(c, n)
    PROVE  /\ Entries(d)
           /\ IsFiniteSet(DOMAIN d)
           /\ DOMAIN d \subseteq DOMAIN c
           /\ \/ /\ d = c
                 /\ \/ ~(Cardinality(SlotsOf(c, n)) >= options[n].maxEntries)
                    \/ SlotsOf(c, n) = {}
              \/ \E s \in SlotsOf(c, n) : DOMAIN d = DOMAIN c \ {s}
<1>1. LRU(c, n) \in SUBSET SlotsOf(c, n) /\ SlotsOf(c, n) \in SUBSET DOMAIN c
    BY DEF LRU, SlotsOf
<1>2. CASE ~(Cardinality(SlotsOf(c, n)) >= options[n].maxEntries)
    BY <1>2 DEF MakeRoomInNode
<1>3. CASE Cardinality(SlotsOf(c, n)) >= options[n].maxEntries
    <2> DEFINE V == LRU(c, n)
    <2>1. d \in Evict(c, V)
        BY <1>3 DEF MakeRoomInNode
    <2>2. V \in SUBSET DOMAIN c
        BY <1>1
    <2> HIDE DEF V
    <2>3. /\ Entries(d) /\ IsFiniteSet(DOMAIN d) /\ DOMAIN d \subseteq DOMAIN c
          /\ V = {} => d = c
          /\ V # {} => \E s \in V : DOMAIN d = DOMAIN c \ {s}
        BY <2>1, <2>2, Evicted
    <2>4. V = {} => SlotsOf(c, n) = {}
        BY LRUExists DEF V
    <2>5. V \subseteq SlotsOf(c, n)
        BY <1>1 DEF V
    <2> QED BY <2>3, <2>4, <2>5
<1> QED BY <1>2, <1>3

LEMMA RoomInCache ==
    ASSUME NEW c, Entries(c), IsFiniteSet(DOMAIN c),
           NEW d \in MakeRoomInCache(c)
    PROVE  /\ Entries(d)
           /\ IsFiniteSet(DOMAIN d)
           /\ DOMAIN d \subseteq DOMAIN c
           /\ \/ d = c /\ (~(Total(c) >= GlobalMax) \/ DOMAIN c = {})
              \/ Total(c) >= GlobalMax /\ \E s \in DOMAIN c : DOMAIN d = DOMAIN c \ {s}
<1>1. GlobalLRU(c) \in SUBSET DOMAIN c
    BY DEF GlobalLRU
<1>2. CASE ~(Total(c) >= GlobalMax)
    BY <1>2 DEF MakeRoomInCache
<1>3. CASE Total(c) >= GlobalMax
    <2> DEFINE V == GlobalLRU(c)
    <2>1. d \in Evict(c, V)
        BY <1>3 DEF MakeRoomInCache
    <2>2. V \in SUBSET DOMAIN c
        BY <1>1
    <2> HIDE DEF V
    <2>3. /\ Entries(d) /\ IsFiniteSet(DOMAIN d) /\ DOMAIN d \subseteq DOMAIN c
          /\ V = {} => d = c
          /\ V # {} => \E s \in V : DOMAIN d = DOMAIN c \ {s}
        BY <2>1, <2>2, Evicted
    <2>4. V = {} => DOMAIN c = {}
        BY GlobalLRUExists DEF V
    <2> QED BY <1>3, <2>2, <2>3, <2>4
<1> QED BY <1>2, <1>3

-----------------------------------------------------------------------------
(* The invariant *)

\* The limit in force is no larger than the largest one.
LimitBelowPeak == \A n \in Node : options[n].maxEntries <= peak[n]

Inv ==
    /\ TypeOK
    /\ IsFiniteSet(DOMAIN cache)
    /\ WithinGlobalLimit
    /\ LimitBelowPeak
    /\ WithinNodeLimit

LEMMA InvInit == Init => Inv
<1> SUFFICES ASSUME Init PROVE Inv
    OBVIOUS
<1> USE CacheAssumption DEF Init
<1>1. DOMAIN cache = {}
    OBVIOUS
<1>2. TypeOK
    BY DEF TypeOK, Slot, Entry, Option
<1>3. IsFiniteSet(DOMAIN cache) /\ WithinGlobalLimit
    BY <1>1, FS_EmptySet DEF WithinGlobalLimit, Total, AtLeastOne
<1>4. LimitBelowPeak
    BY DEF LimitBelowPeak
<1>5. WithinNodeLimit
    <2>1. \A n \in Node : SlotsOf(cache, n) = {}
        BY <1>1 DEF SlotsOf
    <2> QED BY <2>1, FS_EmptySet DEF WithinNodeLimit, AtLeastOne
<1> QED BY <1>2, <1>3, <1>4, <1>5 DEF Inv

\* Entries go, or change in place.
LEMMA NoNewEntry ==
    ASSUME Inv, Entries(cache'), DOMAIN cache' \subseteq DOMAIN cache,
           UNCHANGED <<options, peak>>
    PROVE  /\ IsFiniteSet(DOMAIN cache')
           /\ WithinGlobalLimit' /\ LimitBelowPeak' /\ WithinNodeLimit'
<1>1. /\ IsFiniteSet(DOMAIN cache')
      /\ Total(cache') \in Nat /\ Total(cache') <= Total(cache) /\ Total(cache) \in Nat
    BY FS_Subset, FS_CardinalityType DEF Inv, Total
<1>2. WithinGlobalLimit'
    BY <1>1, CacheAssumption DEF Inv, WithinGlobalLimit, AtLeastOne
<1>3. LimitBelowPeak'
    BY DEF Inv, LimitBelowPeak
<1>4. ASSUME NEW n \in Node
      PROVE  Cardinality(SlotsOf(cache', n)) <= AtLeastOne(peak[n])
    <2>1. /\ Cardinality(SlotsOf(cache', n)) \in Nat
          /\ Cardinality(SlotsOf(cache', n)) <= Cardinality(SlotsOf(cache, n))
        BY SlotsMonotone DEF Inv
    <2>2. Cardinality(SlotsOf(cache, n)) \in Nat
        BY SlotsFinite DEF Inv
    <2>3. Cardinality(SlotsOf(cache, n)) <= AtLeastOne(peak[n]) /\ AtLeastOne(peak[n]) \in Nat
        BY DEF Inv, WithinNodeLimit, TypeOK, AtLeastOne
    <2> QED BY <2>1, <2>2, <2>3
<1>5. WithinNodeLimit'
    BY <1>4 DEF WithinNodeLimit
<1> QED BY <1>1, <1>2, <1>3, <1>5

-----------------------------------------------------------------------------
(* Writes *)

\* A write makes room in its node, which gives c, then in the cache, which gives d, and
\* adds its entry to d.
LEMMA WriteMakesRoom ==
    ASSUME Inv, NEW n \in Node, NEW k \in Key, NEW ttl \in Nat, Set(n, k, ttl)
    PROVE  \E c, d, e :
             /\ c \in MakeRoomInNode(cache, n)
             /\ d \in MakeRoomInCache(c)
             /\ e \in Entry
             /\ Entries(c) /\ IsFiniteSet(DOMAIN c) /\ DOMAIN c \subseteq DOMAIN cache
             /\ Entries(d) /\ IsFiniteSet(DOMAIN d) /\ DOMAIN d \subseteq DOMAIN c
             /\ Entries(cache')
             /\ DOMAIN cache' = DOMAIN d \cup {<<n, k>>}
<1> DEFINE e == [expiresAt |-> IF ttl > 0 THEN clock + ttl ELSE 0,
                 lastAccessed |-> clock, hits |-> 0]
<1>1. PICK c \in MakeRoomInNode(cache, n) :
         \E d \in MakeRoomInCache(c) : cache' = With(d, <<n, k>>, e)
    BY DEF Set
<1>2. PICK d \in MakeRoomInCache(c) : cache' = With(d, <<n, k>>, e)
    BY <1>1
<1>3. e \in Entry
    BY DEF Inv, TypeOK, Entry
<1>4. Entries(cache) /\ IsFiniteSet(DOMAIN cache)
    BY DEF Inv, TypeOK, Entries
<1>5. Entries(c) /\ IsFiniteSet(DOMAIN c) /\ DOMAIN c \subseteq DOMAIN cache
    BY <1>4, RoomInNode
<1>6. Entries(d) /\ IsFiniteSet(DOMAIN d) /\ DOMAIN d \subseteq DOMAIN c
    BY <1>5, RoomInCache
<1> HIDE DEF e
<1>7. DOMAIN cache' = DOMAIN d \cup {<<n, k>>}
    BY <1>2 DEF With
<1>8. Entries(cache')
    BY <1>2, <1>3, <1>6, <1>7 DEF With, Entries, Slot
<1> QED BY <1>3, <1>5, <1>6, <1>7, <1>8

LEMMA WriteIsSet ==
    ASSUME Inv, Write
    PROVE  \E n \in Node, k \in Key, ttl \in Nat : Set(n, k, ttl)
BY CacheAssumption DEF Write, Precompute, Inv, TypeOK, Option

LEMMA WriteKeepsInv ==
    ASSUME Inv, NEW n \in Node, NEW k \in Key, NEW ttl \in Nat, Set(n, k, ttl)
    PROVE  Inv'
<1>1. PICK c, d :
         /\ c \in MakeRoomInNode(cache, n)
         /\ d \in MakeRoomInCache(c)
         /\ Entries(c) /\ IsFiniteSet(DOMAIN c) /\ DOMAIN c \subseteq DOMAIN cache
         /\ Entries(d) /\ IsFiniteSet(DOMAIN d) /\ DOMAIN d \subseteq DOMAIN c
         /\ Entries(cache')
         /\ DOMAIN cache' = DOMAIN d \cup {<<n, k>>}
    BY WriteMakesRoom
<1>2. UNCHANGED <<options, clock, peak>>
    BY DEF Set
<1>3. TypeOK'
    BY <1>1, <1>2 DEF Inv, TypeOK, Entries
<1>4. IsFiniteSet(DOMAIN cache')
    BY <1>1, FS_AddElement
<1>5. LimitBelowPeak'
    BY <1>2 DEF Inv, LimitBelowPeak
<1>6. WithinGlobalLimit'
    <2>1. /\ Total(cache) \in Nat /\ Total(c) \in Nat /\ Total(d) \in Nat /\ Total(cache') \in Nat
          /\ Total(c) <= Total(cache) /\ Total(cache') <= Total(d) + 1
        BY <1>1, <1>4, FS_Subset, FS_CardinalityType, FS_AddElement DEF Inv, Total
    <2>2. CASE d = c /\ ~(Total(c) >= GlobalMax)
        BY <2>1, <2>2, CacheAssumption DEF WithinGlobalLimit, AtLeastOne
    <2>3. CASE d = c /\ DOMAIN c = {}
        <3>1. Total(d) = 0
            BY <2>3, FS_EmptySet DEF Total
        <3> QED BY <2>1, <3>1, CacheAssumption DEF WithinGlobalLimit, AtLeastOne
    <2>4. CASE \E s \in DOMAIN c : DOMAIN d = DOMAIN c \ {s}
        <3>1. Total(d) = Total(c) - 1
            BY <1>1, <2>4, FS_RemoveElement DEF Total
        <3> QED BY <2>1, <3>1, CacheAssumption DEF Inv, WithinGlobalLimit, AtLeastOne
    <2>5. \/ d = c /\ (~(Total(c) >= GlobalMax) \/ DOMAIN c = {})
          \/ Total(c) >= GlobalMax /\ \E s \in DOMAIN c : DOMAIN d = DOMAIN c \ {s}
        BY <1>1, RoomInCache
    <2> QED BY <2>2, <2>3, <2>4, <2>5
<1>7. ASSUME NEW m \in Node
      PROVE  Cardinality(SlotsOf(cache', m)) <= AtLeastOne(peak[m])
    <2>1. Cardinality(SlotsOf(cache, m)) <= AtLeastOne(peak[m])
          /\ options[m].maxEntries <= peak[m] /\ options[m].maxEntries \in Nat /\ peak[m] \in Nat
        BY DEF Inv, WithinNodeLimit, LimitBelowPeak, TypeOK, Option
    <2>2. /\ Cardinality(SlotsOf(d, m)) <= Cardinality(SlotsOf(c, m))
          /\ Cardinality(SlotsOf(c, m)) <= Cardinality(SlotsOf(cache, m))
          /\ Cardinality(SlotsOf(d, m)) \in Nat
          /\ Cardinality(SlotsOf(c, m)) \in Nat
          /\ Cardinality(SlotsOf(cache, m)) \in Nat
        BY <1>1, SlotsMonotone, SlotsFinite DEF Inv
    <2>3. CASE m # n
        <3>1. SlotsOf(cache', m) = SlotsOf(d, m)
            BY <1>1, <2>3 DEF SlotsOf
        <3> QED BY <2>1, <2>2, <3>1 DEF AtLeastOne
    <2>4. CASE m = n
        <3>1. SlotsOf(cache', m) = SlotsOf(d, m) \cup {<<n, k>>}
            BY <1>1, <2>4 DEF SlotsOf
        <3>2. /\ Cardinality(SlotsOf(cache', m)) \in Nat
              /\ Cardinality(SlotsOf(cache', m)) <= Cardinality(SlotsOf(d, m)) + 1
            <4> DEFINE S == SlotsOf(d, m)
            <4>1. IsFiniteSet(S)
                BY <1>1, SlotsFinite
            <4>2. Cardinality(S) \in Nat
                BY <2>2
            <4>3. SlotsOf(cache', m) = S \cup {<<n, k>>}
                BY <3>1
            <4> HIDE DEF S
            <4>4. Cardinality(S \cup {<<n, k>>}) =
                    IF <<n, k>> \in S THEN Cardinality(S) ELSE Cardinality(S) + 1
                BY <4>1, FS_AddElement
            <4>5. /\ Cardinality(SlotsOf(cache', m)) \in Nat
                  /\ Cardinality(SlotsOf(cache', m)) <= Cardinality(S) + 1
                BY <4>2, <4>3, <4>4
            <4> QED BY <4>5 DEF S
        <3>3. CASE ~(Cardinality(SlotsOf(cache, n)) >= options[n].maxEntries)
            BY <2>1, <2>2, <2>4, <3>2, <3>3 DEF AtLeastOne
        <3>4. CASE SlotsOf(cache, n) = {}
            <4>1. Cardinality(SlotsOf(cache, n)) = 0
                BY <3>4, FS_EmptySet
            <4> QED BY <2>1, <2>2, <2>4, <3>2, <4>1 DEF AtLeastOne
        <3>5. CASE \E s \in SlotsOf(cache, n) : DOMAIN c = DOMAIN cache \ {s}
            <4>1. PICK s \in SlotsOf(cache, n) : DOMAIN c = DOMAIN cache \ {s}
                BY <3>5
            <4>2. SlotsOf(c, n) = SlotsOf(cache, n) \ {s}
                BY <4>1 DEF SlotsOf
            <4>3. Cardinality(SlotsOf(c, n)) = Cardinality(SlotsOf(cache, n)) - 1
                BY <4>1, <4>2, SlotsFinite, FS_RemoveElement DEF Inv
            <4> QED BY <2>1, <2>2, <2>4, <3>2, <4>3 DEF AtLeastOne
        <3>6. Entries(cache) /\ IsFiniteSet(DOMAIN cache)
            BY DEF Inv, TypeOK, Entries
        <3>7. \/ ~(Cardinality(SlotsOf(cache, n)) >= options[n].maxEntries)
              \/ SlotsOf(cache, n) = {}
              \/ \E s \in SlotsOf(cache, n) : DOMAIN c = DOMAIN cache \ {s}
            BY <1>1, <3>6, RoomInNode
        <3> QED BY <3>3, <3>4, <3>5, <3>7
    <2> QED BY <2>3, <2>4
<1>8. WithinNodeLimit'
    BY <1>2, <1>7 DEF WithinNodeLimit
<1> QED BY <1>3, <1>4, <1>5, <1>6, <1>8 DEF Inv

\* A node that has made room has made it for the cache.
LEMMA RoomMadeOnce ==
    ASSUME Inv, NEW n \in Node, NEW c \in MakeRoomInNode(cache, n), NEW d \in MakeRoomInCache(c)
    PROVE  c = cache \/ d = c
<1>1. Entries(cache) /\ IsFiniteSet(DOMAIN cache)
    BY DEF Inv, TypeOK, Entries
<1>2. /\ Entries(c) /\ IsFiniteSet(DOMAIN c)
      /\ c = cache \/ \E s \in DOMAIN cache : DOMAIN c = DOMAIN cache \ {s}
    <2>1. /\ Entries(c) /\ IsFiniteSet(DOMAIN c)
          /\ c = cache \/ \E s \in SlotsOf(cache, n) : DOMAIN c = DOMAIN cache \ {s}
        BY <1>1, RoomInNode
    <2> QED BY <2>1 DEF SlotsOf
<1>3. d = c \/ (Total(c) >= GlobalMax /\ DOMAIN c # {})
    BY <1>2, RoomInCache
<1>4. ASSUME NEW s \in DOMAIN cache, DOMAIN c = DOMAIN cache \ {s},
             Total(c) >= GlobalMax, DOMAIN c # {}
      PROVE  FALSE
    <2>1. Total(c) \in Nat /\ Total(c) = Total(cache) - 1 /\ Total(cache) \in Nat
        BY <1>1, <1>2, <1>4, FS_RemoveElement, FS_CardinalityType DEF Total
    <2>2. Total(c) # 0
        BY <1>2, <1>4, FS_EmptySet DEF Total
    <2>3. Total(cache) <= AtLeastOne(GlobalMax)
        BY DEF Inv, WithinGlobalLimit
    <2> QED BY <1>4, <2>1, <2>2, <2>3, CacheAssumption DEF AtLeastOne
<1> QED BY <1>2, <1>3, <1>4

LEMMA WriteEvicts ==
    ASSUME Inv, NEW n \in Node, NEW k \in Key, NEW ttl \in Nat, Set(n, k, ttl)
    PROVE  ~(Cardinality(DOMAIN cache \ DOMAIN cache') > 1)
<1> DEFINE gone == DOMAIN cache \ DOMAIN cache'
<1>1. PICK c, d :
         /\ c \in MakeRoomInNode(cache, n)
         /\ d \in MakeRoomInCache(c)
         /\ Entries(c) /\ IsFiniteSet(DOMAIN c)
         /\ DOMAIN cache' = DOMAIN d \cup {<<n, k>>}
    BY WriteMakesRoom
<1>2. Entries(cache) /\ IsFiniteSet(DOMAIN cache)
    BY DEF Inv, TypeOK, Entries
<1>3. \/ c = cache
      \/ \E s \in DOMAIN cache : DOMAIN c = DOMAIN cache \ {s}
    <2>1. c \in MakeRoomInNode(cache, n)
        BY <1>1
    <2>2. c = cache \/ \E s \in SlotsOf(cache, n) : DOMAIN c = DOMAIN cache \ {s}
        BY <1>2, <2>1, RoomInNode
    <2> QED BY <2>2 DEF SlotsOf
<1>4. d = c \/ \E s \in DOMAIN c : DOMAIN d = DOMAIN c \ {s}
    BY <1>1, RoomInCache
<1>5. c = cache \/ d = c
    BY <1>1, RoomMadeOnce
<1>6. PICK s : gone \subseteq {s}
    BY <1>1, <1>3, <1>4, <1>5
<1> HIDE DEF gone
<1>7. /\ IsFiniteSet({s}) /\ Cardinality({s}) = 1
    BY FS_Singleton
<1>8. ~(Cardinality(gone) > 1)
    BY <1>6, <1>7, FS_Subset, FS_CardinalityType
<1> QED BY <1>8 DEF gone

\* The entry that goes is one of those that were to be chosen from.
LEMMA Victim ==
    ASSUME NEW c, NEW V \in SUBSET DOMAIN c, NEW d \in Evict(c, V), NEW s \in DOMAIN c \ DOMAIN d
    PROVE  s \in V
BY DEF Evict, Without, Keep

\* Whichever of the two limits made an entry of a node go, the node keeps none that was
\* not used for longer.
LEMMA WriteEvictsEldest ==
    ASSUME Inv, NEW n \in Node, NEW k \in Key, NEW ttl \in Nat, Set(n, k, ttl),
           NEW s \in DOMAIN cache \ DOMAIN cache', NEW t \in DOMAIN cache, s[1] = t[1]
    PROVE  ~(cache[t].lastAccessed < cache[s].lastAccessed)
<1>1. PICK c, d :
         /\ c \in MakeRoomInNode(cache, n)
         /\ d \in MakeRoomInCache(c)
         /\ DOMAIN cache' = DOMAIN d \cup {<<n, k>>}
    BY WriteMakesRoom
<1>2. c = cache \/ d = c
    BY <1>1, RoomMadeOnce
<1>3. s \notin DOMAIN d
    BY <1>1
<1>4. cache[s].lastAccessed \in Nat /\ cache[t].lastAccessed \in Nat
    BY DEF Inv, TypeOK, Entry
<1>5. CASE c = cache
    <2>1. d # cache
        BY <1>3
    <2>2. d \in Evict(cache, GlobalLRU(cache))
        BY <1>1, <1>5, <2>1 DEF MakeRoomInCache
    <2>3. GlobalLRU(cache) \in SUBSET DOMAIN cache
        BY DEF GlobalLRU
    <2>4. s \in GlobalLRU(cache)
        BY <1>3, <2>2, <2>3, Victim
    <2> QED BY <1>4, <2>4 DEF GlobalLRU
<1>6. CASE d = c /\ c # cache
    <2>1. c \in Evict(cache, LRU(cache, n))
        BY <1>1, <1>6 DEF MakeRoomInNode
    <2>2. LRU(cache, n) \in SUBSET DOMAIN cache
        BY DEF LRU, SlotsOf
    <2>3. s \in LRU(cache, n)
        BY <1>3, <1>6, <2>1, <2>2, Victim
    <2>4. t \in SlotsOf(cache, n)
        BY <2>3 DEF LRU, SlotsOf
    <2>5. Older(cache[s], cache[t])
        BY <2>3, <2>4 DEF LRU
    <2> QED BY <1>4, <2>5 DEF Older
<1> QED BY <1>2, <1>5, <1>6

\* Every step keeps the invariant.
LEMMA InvStep == Inv /\ [Next]_vars => Inv'
<1> SUFFICES ASSUME Inv, [Next]_vars PROVE Inv'
    OBVIOUS
<1>1. Entries(cache) /\ IsFiniteSet(DOMAIN cache)
    BY DEF Inv, TypeOK, Entries
<1>2. ASSUME Entries(cache'), DOMAIN cache' \subseteq DOMAIN cache,
             UNCHANGED <<options, peak>>, clock' \in Nat
      PROVE  Inv'
    <2>1. TypeOK'
        BY <1>2 DEF Inv, TypeOK, Entries
    <2> QED BY <1>2, <2>1, NoNewEntry DEF Inv
<1>3. ASSUME NEW S \in SUBSET DOMAIN cache, cache' = Keep(cache, S),
             UNCHANGED <<options, clock, peak>>
      PROVE  Inv'
    <2>1. clock' \in Nat
        BY <1>3 DEF Inv, TypeOK
    <2> QED BY <1>1, <1>2, <1>3, <2>1, Kept
<1>4. ASSUME NEW slots, Invalidate(slots)
      PROVE  Inv'
    <2>1. DOMAIN cache \ slots \in SUBSET DOMAIN cache
        OBVIOUS
    <2> QED BY <1>3, <1>4, <2>1 DEF Invalidate
<1>5. CASE Write
    BY <1>5, WriteIsSet, WriteKeepsInv
<1>6. ASSUME NEW n \in Node, NEW k \in Key, Get(n, k)
      PROVE  Inv'
    <2>1. CASE cache' = Without(cache, <<n, k>>)
        <3>1. DOMAIN cache \ {<<n, k>>} \in SUBSET DOMAIN cache
            OBVIOUS
        <3> QED BY <1>3, <1>6, <2>1, <3>1 DEF Get, Without
    <2>2. CASE cache' = [cache EXCEPT ![<<n, k>>].lastAccessed = clock,
                                      ![<<n, k>>].hits = @ + 1]
        <3>1. DOMAIN cache' = DOMAIN cache
            BY <2>2
        <3>2. Entries(cache')
            BY <1>1, <2>2 DEF Entries, Entry, Inv, TypeOK
        <3>3. UNCHANGED <<options, clock, peak>> /\ clock \in Nat
            BY <1>6 DEF Get, Inv, TypeOK
        <3> QED BY <1>2, <3>1, <3>2, <3>3
    <2> QED BY <1>6, <2>1, <2>2 DEF Get
<1>7. ASSUME NEW n \in Node, NEW o \in OptionChoice, SetNodeOptions(n, o)
      PROVE  Inv'
    <2>1. o \in Option /\ o.maxEntries \in Nat
        BY CacheAssumption DEF OptionChoice, Option
    <2>2. /\ cache' = cache /\ clock' = clock
          /\ options' = [options EXCEPT ![n] = o]
          /\ peak' = [peak EXCEPT ![n] = IF SlotsOf(cache, n) = {} \/ o.maxEntries > @
                                         THEN o.maxEntries ELSE @]
        BY <1>7 DEF SetNodeOptions
    <2>3. TypeOK'
        BY <2>1, <2>2 DEF Inv, TypeOK
    <2>4. LimitBelowPeak'
        BY <2>1, <2>2 DEF Inv, LimitBelowPeak, TypeOK, Option
    <2>5. WithinNodeLimit'
        <3>1. ASSUME NEW m \in Node
              PROVE  Cardinality(SlotsOf(cache, m)) <= AtLeastOne(peak'[m])
            <4>1. /\ Cardinality(SlotsOf(cache, m)) <= AtLeastOne(peak[m])
                  /\ peak[m] \in Nat
                BY DEF Inv, WithinNodeLimit, TypeOK
            <4>2. Cardinality(SlotsOf(cache, m)) \in Nat
                BY <1>1, SlotsFinite
            <4>3. CASE peak'[m] = peak[m]
                BY <4>1, <4>3
            <4>4. CASE SlotsOf(cache, m) = {} /\ peak'[m] \in Nat
                <5>1. Cardinality(SlotsOf(cache, m)) = 0
                    BY <4>4, FS_EmptySet
                <5> QED BY <4>4, <5>1 DEF AtLeastOne
            <4>5. CASE peak'[m] \in Nat /\ peak'[m] > peak[m]
                BY <4>1, <4>2, <4>5 DEF AtLeastOne
            <4>6. \/ peak'[m] = peak[m]
                  \/ SlotsOf(cache, m) = {} /\ peak'[m] \in Nat
                  \/ peak'[m] \in Nat /\ peak'[m] > peak[m]
                BY <2>1, <2>2 DEF Inv, TypeOK
            <4> QED BY <4>3, <4>4, <4>5, <4>6
        <3> QED BY <2>2, <3>1 DEF WithinNodeLimit
    <2>6. IsFiniteSet(DOMAIN cache') /\ WithinGlobalLimit'
        BY <2>2 DEF Inv, WithinGlobalLimit
    <2> QED BY <2>3, <2>4, <2>5, <2>6 DEF Inv
<1>8. CASE Tick
    <2>1. clock' \in Nat /\ UNCHANGED <<cache, options, peak>>
        BY <1>8 DEF Tick, Inv, TypeOK
    <2> QED BY <1>1, <1>2, <2>1
<1>9. CASE UNCHANGED vars
    BY <1>1, <1>2, <1>9 DEF vars, Inv, TypeOK
<1> QED
    BY <1>4, <1>5, <1>6, <1>7, <1>8, <1>9
    DEF Next, Write, InvalidateKey, InvalidateNode, InvalidateAll, Cleanup

LEMMA Invariant == Spec => []Inv
BY InvInit, InvStep, PTL DEF Spec

-----------------------------------------------------------------------------
(* Theorems *)

\* The entries and options of the cache keep their types.
THEOREM TypeCorrect == Spec => []TypeOK
<1>1. Inv => TypeOK
    BY DEF Inv
<1> QED BY <1>1, Invariant, PTL

\* The cache never holds more entries than its limit, or than one if that is 0.
THEOREM GlobalLimit == Spec => []WithinGlobalLimit
<1>1. Inv => WithinGlobalLimit
    BY DEF Inv
<1> QED BY <1>1, Invariant, PTL

\* No node holds more entries than the largest limit it had while it held any.
THEOREM NodeLimit == Spec => []WithinNodeLimit
<1>1. Inv => WithinNodeLimit
    BY DEF Inv
<1> QED BY <1>1, Invariant, PTL

\* A write evicts at most one entry, of its own node or of the whole cache, and none that is
\* younger than one its node keeps.
THEOREM EldestEvicted == Spec => EvictsLeastRecent
<1>1. ASSUME Inv, Write
      PROVE  LET gone == DOMAIN cache \ DOMAIN cache'
                 kept == DOMAIN cache \cap DOMAIN cache'
             IN  /\ Cardinality(gone) <= 1
                 /\ ~\E s \in gone, t \in kept :
                        s[1] = t[1] /\ cache[t].lastAccessed < cache[s].lastAccessed
    <2>1. PICK n \in Node, k \in Key, ttl \in Nat : Set(n, k, ttl)
        BY <1>1, WriteIsSet
    <2>2. IsFiniteSet(DOMAIN cache)
        BY <1>1 DEF Inv, TypeOK
    <2>3. Cardinality(DOMAIN cache \ DOMAIN cache') \in Nat
        BY <2>2, FS_Difference, FS_CardinalityType
    <2>4. Cardinality(DOMAIN cache \ DOMAIN cache') <= 1
        BY <1>1, <2>1, <2>3, WriteEvicts
    <2> QED BY <1>1, <2>1, <2>4, WriteEvictsEldest
<1>2. Inv => [ Write =>
          LET gone == DOMAIN cache \ DOMAIN cache'
              kept == DOMAIN cache \cap DOMAIN cache'
          IN  /\ Cardinality(gone) <= 1
              /\ ~\E s \in gone, t \in kept :
                     s[1] = t[1] /\ cache[t].lastAccessed < cache[s].lastAccessed ]_vars
    BY <1>1
<1> QED BY <1>2, Invariant, PTL DEF EvictsLeastRecent
=============================================================================
