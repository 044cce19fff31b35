------------------------------- MODULE Caching ------------------------------
(***************************************************************************)
(* core/caching: the local cache, and the manager of two tiers over it.    *)
(***************************************************************************)
EXTENDS Integers, Sequences, FiniteSets, SequencesExt, FiniteSetsExt

-----------------------------------------------------------------------------
(* l1_local.py: the process-local cache with its index of tags, its        *)
(* running totals and LRU eviction. Every method holds the lock, so each   *)
(* is one step. cache.order lists the keys by last access, oldest first;   *)
(* an entry's lifetime is a flag that Expire raises.                       *)
CONSTANTS
    LocalKeys, Tags,
    Sizes,       \* sizes a value can have
    MaxEntries,
    MaxSize

VARIABLE cache

Absent == [size |-> 0, tags |-> {}, expired |-> FALSE]

LocalTypeOK ==
    /\ cache.entry \in [LocalKeys -> [size: Sizes \cup {0}, tags: SUBSET Tags, expired: BOOLEAN]]
    /\ IsInjective(cache.order) /\ Range(cache.order) \subseteq LocalKeys
    /\ cache.index \in [Tags -> SUBSET LocalKeys]
    /\ cache.count \in Int /\ cache.total \in Int

LocalInit ==
    cache = [entry |-> [k \in LocalKeys |-> Absent],
             order |-> <<>>,
             index |-> [t \in Tags |-> {}],
             count |-> 0,
             total |-> 0]

Present(c) == Range(c.order)

Without(order, S) ==
    LET kept[n \in 0..Len(order)] ==
            IF n = 0 THEN <<>>
            ELSE IF order[n] \in S THEN kept[n - 1]
            ELSE Append(kept[n - 1], order[n])
    IN  kept[Len(order)]

\* _remove_entry, for several keys.
Removed(c, S) ==
    LET gone == S \cap Present(c)
    IN  [c EXCEPT !.entry = [k \in LocalKeys |-> IF k \in gone THEN Absent ELSE @[k]],
                  !.order = Without(@, gone),
                  !.index = [t \in Tags |-> @[t] \ {k \in gone : t \in c.entry[k].tags}],
                  !.count = @ - Cardinality(gone),
                  !.total = @ - MapThenSumSet(LAMBDA k : c.entry[k].size, gone)]

\* How many of n entries select_for_eviction returns: a slice up to
\* n - max_entries + 1, which counts from the end when it is negative.
Selected(n) ==
    LET evict == n - MaxEntries + 1
    IN  IF evict >= 0 THEN Min({evict, n}) ELSE Max({0, n + evict})

Oldest(c, n) == Range(SubSeq(c.order, 1, n))

\* _enforce_limits. The first loop runs once, since it evicts one more than it has
\* to. The second evicts the oldest, one at a time, until the total fits or nothing
\* is selected.
Enforce(c) ==
    LET n == Len(c.order)
        fit == IF n > MaxEntries THEN Removed(c, Oldest(c, Selected(n))) ELSE c
        after(m) == Removed(fit, Oldest(fit, m))
        stops == {m \in 0..Len(fit.order) : \/ after(m).total <= MaxSize
                                            \/ Selected(Len(fit.order) - m) = 0}
    IN  after(Min(stops))

\* Mutant: what an entry had before is not taken out of the totals and the index.
StoredOver(c, k, size, tags) ==
    [c EXCEPT !.entry[k] = [size |-> size, tags |-> tags, expired |-> FALSE],
              !.order = Append(Without(@, {k}), k),
              !.index = [t \in Tags |-> IF t \in tags THEN @[t] \cup {k} ELSE @[t]],
              !.count = IF k \in Present(c) THEN @ ELSE @ + 1,
              !.total = @ + size]

Stored(c, k, size, tags) ==
    LET old == c.entry[k].tags
    IN  [c EXCEPT !.entry[k] = [size |-> size, tags |-> tags, expired |-> FALSE],
                  !.order = Append(Without(@, {k}), k),
                  !.index = [t \in Tags |-> IF t \in tags THEN @[t] \cup {k}
                                            ELSE IF t \in old THEN @[t] \ {k} ELSE @[t]],
                  !.count = IF k \in Present(c) THEN @ ELSE @ + 1,
                  !.total = @ - c.entry[k].size + size]

SetLocal(k, size, tags) == cache' = Enforce(Stored(cache, k, size, tags))

\* get, and exists, which does not count as an access.
GetLocal(k) ==
    /\ k \in Present(cache)
    /\ cache' = IF cache.entry[k].expired THEN Removed(cache, {k})
                ELSE [cache EXCEPT !.order = Append(Without(@, {k}), k)]

Exists(k) ==
    /\ k \in Present(cache) /\ cache.entry[k].expired
    /\ cache' = Removed(cache, {k})

RefreshTtl(k) ==
    /\ k \in Present(cache)
    /\ cache' = [cache EXCEPT !.entry[k].expired = FALSE]

\* delete and invalidate
Delete(k) == k \in Present(cache) /\ cache' = Removed(cache, {k})

InvalidateByTag(t) == cache' = Removed(cache, cache.index[t])

InvalidateAll == cache' = Removed(cache, Present(cache))

CleanupExpired == cache' = Removed(cache, {k \in Present(cache) : cache.entry[k].expired})

\* The lifetime of an entry ends.
Expire(k) ==
    /\ k \in Present(cache)
    /\ cache' = [cache EXCEPT !.entry[k].expired = TRUE]

LocalNext ==
    \/ \E k \in LocalKeys :
        \/ \E size \in Sizes, tags \in SUBSET Tags : SetLocal(k, size, tags)
        \/ GetLocal(k)
        \/ Exists(k)
        \/ RefreshTtl(k)
        \/ Delete(k)
        \/ Expire(k)
    \/ \E t \in Tags : InvalidateByTag(t)
    \/ InvalidateAll
    \/ CleanupExpired

----------------------------------------------------------------------------
(* Properties *)

\* The index of tags, the count and the total size, kept up by hand in every
\* operation, describe exactly the entries there are; an entry replaced under other
\* tags is not found under its old ones.
BooksMatch ==
    /\ \A t \in Tags : cache.index[t] = {k \in Present(cache) : t \in cache.entry[k].tags}
    /\ cache.count = Cardinality(Present(cache))
    /\ cache.total = MapThenSumSet(LAMBDA k : cache.entry[k].size, Present(cache))

\* There are never more entries than max_entries, and a cache with that many is
\* within its size. With fewer, the size is not enforced: see Selected.
LimitsKept ==
    /\ cache.count <= MaxEntries
    /\ cache.count = MaxEntries => cache.total <= MaxSize

-----------------------------------------------------------------------------
(* MultiTierCacheManager over one L1, one L2 and the broadcaster of a      *)
(* node, its requests in threads, and the messages of other nodes. L1      *)
(* keeps its entries at most for a time, so it may drop any of them at any *)
(* time (see the local cache); so may L2. A value is the version of the    *)
(* data at the source it was loaded from.                                  *)
CONSTANTS
    Keys,
    Tagged,      \* the keys set with the tag, and with the prefix, that are invalidated
    Threads,
    MaxSource,   \* bound: how often the data of a key changes
    MaxWrites,   \* bound: writes to L2
    MaxSynced,   \* bound: version numbers of entries synced from peers
    None

VARIABLES
    source,      \* [Keys -> Nat]: the data behind the cache
    l1, l2,      \* [Keys -> value or None], [Keys -> record or NoEntry]
    counter,     \* _version_counter of L2
    doing,       \* [Threads -> record]: get_or_set or compare-and-set under way
    clean,       \* keys invalidated since their data changed, and not written since with older data
    synced       \* an entry of a peer was stored

tiersVars == <<source, l1, l2, counter, doing, clean, synced>>

Values == 0..MaxSource
NoEntry == [value |-> None, version |-> 0]
Idle == [op |-> "idle", key |-> None, value |-> None, version |-> 0]

TiersTypeOK ==
    /\ source \in [Keys -> Values]
    /\ l1 \in [Keys -> Values \cup {None}]
    /\ l2 \in [Keys -> [value: Values \cup {None}, version: 0..(MaxWrites + MaxSynced)]]
    /\ counter \in 0..MaxWrites
    /\ doing \in [Threads -> [op: {"idle", "load", "swap"}, key: Keys \cup {None},
                              value: Values \cup {None}, version: 0..(MaxWrites + MaxSynced)]]
    /\ clean \subseteq Keys
    /\ synced \in BOOLEAN

TiersInit ==
    /\ source = [k \in Keys |-> 0]
    /\ l1 = [k \in Keys |-> None]
    /\ l2 = [k \in Keys |-> NoEntry]
    /\ counter = 0
    /\ doing = [t \in Threads |-> Idle]
    /\ clean = {}
    /\ synced = FALSE

\* The data changes; who changes it invalidates afterwards, or not.
SourceChanges(k) ==
    /\ source[k] < MaxSource
    /\ source' = [source EXCEPT ![k] = @ + 1]
    /\ clean' = clean \ {k}
    /\ UNCHANGED <<l1, l2, counter, doing, synced>>

\* A tier drops an entry: it expired or was evicted.
Drop(k) ==
    /\ \/ l1' = [l1 EXCEPT ![k] = None] /\ UNCHANGED l2
       \/ l2' = [l2 EXCEPT ![k] = NoEntry] /\ UNCHANGED l1
    /\ UNCHANGED <<source, counter, doing, clean, synced>>

\* What get returns.
Lookup(k) == IF l1[k] # None THEN l1[k] ELSE l2[k].value

\* get: a hit in L2 is copied to L1.
Get(k) ==
    /\ l1' = [l1 EXCEPT ![k] = Lookup(k)]
    /\ UNCHANGED <<source, l2, counter, doing, clean, synced>>

\* L2DistributedCache.set gives the entry the next version of this node.
Put(k, v) ==
    /\ counter < MaxWrites
    /\ counter' = counter + 1
    /\ l2' = [l2 EXCEPT ![k] = [value |-> v, version |-> counter + 1]]
    /\ clean' = IF v = source[k] THEN clean ELSE clean \ {k}

\* set writes both tiers under the manager's lock.
Set(k, v) ==
    /\ v \in 0..source[k]
    /\ l1' = [l1 EXCEPT ![k] = v]
    /\ Put(k, v)
    /\ UNCHANGED <<source, doing, synced>>

\* get_or_set holds no lock: it looks, loads, and sets what it loaded.
StartLoad(t, k) ==
    /\ doing[t] = Idle /\ Lookup(k) = None
    /\ doing' = [doing EXCEPT ![t] = [op |-> "load", key |-> k, value |-> source[k], version |-> 0]]
    /\ UNCHANGED <<source, l1, l2, counter, clean, synced>>

FinishLoad(t) ==
    /\ doing[t].op = "load"
    /\ l1' = [l1 EXCEPT ![doing[t].key] = doing[t].value]
    /\ Put(doing[t].key, doing[t].value)
    /\ doing' = [doing EXCEPT ![t] = Idle]
    /\ UNCHANGED <<source, synced>>

\* Mutant: only L1 forgets the key, as invalidate_by_tag does.
InvalidateL1(k) ==
    /\ l1' = [l1 EXCEPT ![k] = None]
    /\ clean' = clean \cup {k}
    /\ UNCHANGED <<source, l2, counter, doing, synced>>

\* delete and invalidate
Invalidate(k) ==
    /\ l1' = [l1 EXCEPT ![k] = None]
    /\ l2' = [l2 EXCEPT ![k] = NoEntry]
    /\ clean' = clean \cup {k}
    /\ UNCHANGED <<source, counter, doing, synced>>

\* invalidate_by_tag, invalidate_by_prefix and, with all keys, invalidate_all: L2
\* keeps the entries, and the next get copies them back.
InvalidateMany(S) ==
    /\ l1' = [k \in Keys |-> IF k \in S THEN None ELSE l1[k]]
    /\ UNCHANGED <<source, l2, counter, doing, clean, synced>>

\* A client reads an entry with its version, and later replaces it if the version
\* is still the same.
ReadForSwap(t, k) ==
    /\ doing[t] = Idle /\ l2[k] # NoEntry
    /\ doing' = [doing EXCEPT ![t] = [op |-> "swap", key |-> k, value |-> l2[k].value,
                                      version |-> l2[k].version]]
    /\ UNCHANGED <<source, l1, l2, counter, clean, synced>>

\* Mutant: the version is not compared.
SwapAnyVersion(t) ==
    /\ doing[t].op = "swap"
    /\ IF l2[doing[t].key] # NoEntry
       THEN Put(doing[t].key, source[doing[t].key])
       ELSE UNCHANGED <<l2, counter, clean>>
    /\ doing' = [doing EXCEPT ![t] = Idle]
    /\ UNCHANGED <<source, l1, synced>>

\* compare_and_set, which leaves L1 as it is.
Swap(t) ==
    /\ doing[t].op = "swap"
    /\ IF l2[doing[t].key] # NoEntry /\ l2[doing[t].key].version = doing[t].version
       THEN Put(doing[t].key, source[doing[t].key])
       ELSE UNCHANGED <<l2, counter, clean>>
    /\ doing' = [doing EXCEPT ![t] = Idle]
    /\ UNCHANGED <<source, l1, synced>>

\* sync_entry: an entry a peer wrote replaces one with a smaller version, whichever
\* of the two is the later; each node counts its versions for itself.
SyncEntry(k, v, version) ==
    /\ v \in 0..source[k]
    /\ l2[k].version < version
    /\ l2' = [l2 EXCEPT ![k] = [value |-> v, version |-> version]]
    /\ clean' = IF v = source[k] THEN clean ELSE clean \ {k}
    /\ synced' = TRUE
    /\ UNCHANGED <<source, l1, counter, doing>>

\* apply_invalidation. receive_event, where the events of other nodes arrive,
\* does not call the handlers: it changes neither tier.
ApplyInvalidation(k) ==
    /\ l2' = [l2 EXCEPT ![k] = NoEntry]
    /\ UNCHANGED <<source, l1, counter, doing, clean, synced>>

TiersNext ==
    \/ \E k \in Keys :
        \/ SourceChanges(k)
        \/ Drop(k)
        \/ Get(k)
        \/ \E v \in Values : Set(k, v)
        \/ Invalidate(k)
        \/ \E v \in Values, n \in 1..MaxSynced : SyncEntry(k, v, n)
        \/ ApplyInvalidation(k)
    \/ \E S \in {Tagged, Keys} : InvalidateMany(S)
    \/ \E t \in Threads, k \in Keys : StartLoad(t, k) \/ ReadForSwap(t, k)
    \/ \E t \in Threads : FinishLoad(t) \/ Swap(t)

----------------------------------------------------------------------------
(* Properties *)

\* Once the data of a key has changed and the key was invalidated, neither tier has
\* the old data and no read brings it back; only a write of old data does, such as
\* that of a load which began before.
StaleOnlyByWriters ==
    \A k \in clean : {l1[k], l2[k].value} \subseteq {source[k], None}

\* A swap replaces what its caller read: nothing another client stored in between
\* is lost. Entries of peers have versions that this node uses again, so this holds
\* until one is stored.
SwapReplacesRead ==
    \A t \in Threads :
        (~synced /\ doing[t].op = "swap" /\ doing'[t] = Idle /\ counter' # counter) =>
            l2[doing[t].key].value = doing[t].value
=============================================================================
