------------------------------ MODULE NodeCache ------------------------------
(***************************************************************************)
(* The built-in cache of computed values (engine/node-cache.ts): entries   *)
(* per node with a time to live, limits per node and for the whole cache,  *)
(* and the eviction of the entry that was not used for longest.            *)
(*                                                                         *)
(* Values and hit counts per node are left out.  Of entries that are       *)
(* equally old any may be evicted, where the code takes the first in the   *)
(* order of insertion.  Keys are not empty, as JSON.stringify makes them.  *)
(***************************************************************************)
EXTENDS Integers, FiniteSets

CONSTANTS
    Node,
    Key,           \* cache keys
    GlobalMax,     \* globalOptions.maxEntries
    DefaultTtl,    \* globalOptions.defaultTtl
    Limit,         \* limits that options of a node may give
    Ttl,           \* times to live that options or a call may give; 0: for ever
    MaxClock,      \* bound: the clock
    MaxHits        \* bound: the hits of an entry

ASSUME CacheAssumption ==
    /\ GlobalMax \in Nat
    /\ DefaultTtl \in Nat
    /\ Limit \subseteq Nat
    /\ Ttl \subseteq Nat

VARIABLES
    cache,         \* the entries, by <<node, key>>
    options,       \* what is in force for each node
    clock,         \* Date.now()
    peak           \* history: the largest limit of a node since it had no entries

vars == <<cache, options, clock, peak>>

\* A key stands for the inputs of a computation, with the configuration where the
\* invalidation strategy says so.
Slot == Node \X Key
Entry == [expiresAt : Nat, lastAccessed : Nat, hits : Nat]
Option == [enabled : BOOLEAN, maxEntries : Nat, ttl : Nat]

TypeOK ==
    /\ DOMAIN cache \subseteq Slot
    /\ \A s \in DOMAIN cache : cache[s] \in Entry
    /\ options \in [Node -> Option]
    /\ clock \in Nat
    /\ peak \in [Node -> Nat]

-----------------------------------------------------------------------------
(* Entries *)

Total(c) == Cardinality(DOMAIN c)
SlotsOf(c, n) == {s \in DOMAIN c : s[1] = n}
Keep(c, slots) == [s \in slots |-> c[s]]
Without(c, s) == Keep(c, DOMAIN c \ {s})
ByKeyOnly(c, s, e) == [t \in DOMAIN c \cup {s[2]} |-> IF t = s[2] THEN e ELSE c[t]] \* mutant
With(c, s, e) == [t \in DOMAIN c \cup {s} |-> IF t = s THEN e ELSE c[t]]

Expired(e) == e.expiresAt > 0 /\ e.expiresAt < clock

\* evictLRU of a node: the entries it may take.
Older(e, f) ==
    \/ e.lastAccessed < f.lastAccessed
    \/ e.lastAccessed = f.lastAccessed /\ e.hits <= f.hits
Newest(c, n) ==                                                       \* mutant
    {s \in SlotsOf(c, n) : \A t \in SlotsOf(c, n) : Older(c[t], c[s])}
LRU(c, n) == {s \in SlotsOf(c, n) : \A t \in SlotsOf(c, n) : Older(c[s], c[t])}

\* evictGlobalLRU, which does not look at hits.
GlobalLRU(c) ==
    {s \in DOMAIN c : \A t \in DOMAIN c : c[s].lastAccessed <= c[t].lastAccessed}

\* What is left when one of `victims`, if there are any, has gone.
Evict(c, victims) == IF victims = {} THEN {c} ELSE {Without(c, s) : s \in victims}

OneTooMany(c, n) ==                                                   \* mutant
    IF Cardinality(SlotsOf(c, n)) > options[n].maxEntries THEN Evict(c, LRU(c, n)) ELSE {c}
MakeRoomInNode(c, n) ==
    IF Cardinality(SlotsOf(c, n)) >= options[n].maxEntries THEN Evict(c, LRU(c, n)) ELSE {c}

AllowOneMore(c) == IF Total(c) > GlobalMax THEN Evict(c, GlobalLRU(c)) ELSE {c}    \* mutant
StaleTotal(c) == IF Total(cache) >= GlobalMax THEN Evict(c, GlobalLRU(c)) ELSE {c}  \* mutant
MakeRoomInCache(c) == IF Total(c) >= GlobalMax THEN Evict(c, GlobalLRU(c)) ELSE {c}

-----------------------------------------------------------------------------
(* Operations *)

\* set, with the time to live that the call or else the node gives.
Set(n, k, ttl) ==
    /\ options[n].enabled
    /\ LET e == [expiresAt |-> IF ttl > 0 THEN clock + ttl ELSE 0,
                 lastAccessed |-> clock,
                 hits |-> 0] IN
       \E c \in MakeRoomInNode(cache, n) :
       \E d \in MakeRoomInCache(c) :
          cache' = With(d, <<n, k>>, e)
    /\ UNCHANGED <<options, clock, peak>>

\* precomputeNode of the engine, whose result may come at any time.
Precompute(n, k) == Set(n, k, options[n].ttl)

\* get, when it finds the entry: one that has expired is removed.
Get(n, k) ==
    /\ options[n].enabled
    /\ <<n, k>> \in DOMAIN cache
    /\ \/ /\ Expired(cache[<<n, k>>])
          /\ cache' = Without(cache, <<n, k>>)
       \/ /\ ~Expired(cache[<<n, k>>])
          /\ cache[<<n, k>>].hits < MaxHits
          /\ cache' = [cache EXCEPT ![<<n, k>>].lastAccessed = clock,
                                    ![<<n, k>>].hits = @ + 1]
    /\ UNCHANGED <<options, clock, peak>>

\* setNodeOptions: entries that exceed a lower limit stay.
SetNodeOptions(n, o) ==
    /\ options' = [options EXCEPT ![n] = o]
    /\ peak' = [peak EXCEPT ![n] = IF SlotsOf(cache, n) = {} \/ o.maxEntries > @
                                   THEN o.maxEntries ELSE @]
    /\ UNCHANGED <<cache, clock>>

Invalidate(slots) ==
    /\ slots # {}
    /\ cache' = Keep(cache, DOMAIN cache \ slots)
    /\ UNCHANGED <<options, clock, peak>>

\* clearCache with a node, a call with a key, and clearCache.
InvalidateNode(n) == Invalidate(SlotsOf(cache, n))
InvalidateKey(n, k) == Invalidate({<<n, k>>} \cap DOMAIN cache)
InvalidateAll == Invalidate(DOMAIN cache)

\* cleanup, by the engine's timer.
Cleanup == Invalidate({s \in DOMAIN cache : Expired(cache[s])})

Tick ==
    /\ clock < MaxClock
    /\ clock' = clock + 1
    /\ UNCHANGED <<cache, options, peak>>

Init ==
    /\ cache = [s \in {} |-> 0]
    /\ options = [n \in Node |->
                    [enabled |-> TRUE, maxEntries |-> GlobalMax, ttl |-> DefaultTtl]]
    /\ clock = 1
    /\ peak = [n \in Node |-> GlobalMax]

OptionChoice == [enabled : BOOLEAN, maxEntries : Limit, ttl : Ttl]

Next ==
    \/ \E n \in Node, k \in Key :
          \/ Precompute(n, k)
          \/ \E ttl \in Ttl : Set(n, k, ttl)
          \/ Get(n, k)
          \/ InvalidateKey(n, k)
    \/ \E n \in Node : InvalidateNode(n)
    \/ \E n \in Node, o \in OptionChoice : SetNodeOptions(n, o)
    \/ InvalidateAll
    \/ Cleanup
    \/ Tick

Spec == Init /\ [][Next]_vars

-----------------------------------------------------------------------------
(* Properties *)

AtLeastOne(n) == IF n = 0 THEN 1 ELSE n

\* "Maximum number of entries in engine cache": the cache as a whole never exceeds it,
\* except that a limit of 0 lets one entry in.
WithinGlobalLimit == Total(cache) <= AtLeastOne(GlobalMax)

\* The entries of a node never exceed the largest limit that it had since it was last
\* given one while empty: a lower limit is not enforced at once, but they grow no more.
WithinNodeLimit ==
    \A n \in Node : Cardinality(SlotsOf(cache, n)) <= AtLeastOne(peak[n])

Write == \E n \in Node, k \in Key : Precompute(n, k) \/ \E ttl \in Ttl : Set(n, k, ttl)

\* A write costs at most one entry, for when the node has made room, the cache has room;
\* and it takes none whose node keeps one that was not used for longer.
EvictsLeastRecent ==
    [][ Write =>
          LET gone == DOMAIN cache \ DOMAIN cache'
              kept == DOMAIN cache \cap DOMAIN cache'
          IN  /\ Cardinality(gone) <= 1
              /\ ~\E s \in gone, t \in kept :
                     s[1] = t[1] /\ cache[t].lastAccessed < cache[s].lastAccessed ]_vars
=============================================================================
