----------------------------- MODULE TableCache -----------------------------
(***************************************************************************)
(* The cache of open tables of a leveldb (util/cache.cc under              *)
(* db/table_cache.cc; Table::BlockReader uses the same cache in the same   *)
(* way).  Clients - readers, iterators, compactions - look a table up,     *)
(* open its file outside the mutex when it is not there, insert it, use it *)
(* and release it; DeleteObsoleteFiles evicts the tables no version lists. *)
(***************************************************************************)
EXTENDS Naturals, Sequences, FiniteSets, Functions

CONSTANTS Clients,
          Tables,         \* numbers of table files
          Hash,           \* hash of a number
          Capacity,       \* capacity_ of the shard
          SmallestTable   \* the first length of the hash table, 4

ASSUME TableCacheAssumption ==
    /\ IsFiniteSet(Clients)
    /\ Tables \subseteq Nat \ {0} /\ Hash \in [Tables -> Nat]
    /\ Capacity \in Nat /\ SmallestTable \in Nat \ {0}

VARIABLES entry,      \* the handles, by address; key 0 is free memory
          buckets,    \* table_: the handles in each slot
          elems,      \* elems_
          lru,        \* lru_: handles only the cache has, the oldest first
          inUse,      \* in_use_
          usage,      \* usage_
          client,     \* what each client does
          live        \* the tables some version lists

cacheVars == <<entry, buckets, elems, lru, inUse, usage, client, live>>

Addresses == 1 .. Capacity + 2 * Cardinality(Clients)
cache == [entry |-> entry, buckets |-> buckets, elems |-> elems, lru |-> lru, inUse |-> inUse, usage |-> usage]
Becomes(c) == /\ entry' = c.entry /\ buckets' = c.buckets /\ elems' = c.elems
              /\ lru' = c.lru /\ inUse' = c.inUse /\ usage' = c.usage

None == 0
Free == [key |-> None, refs |-> 0, inCache |-> FALSE]
-----------------------------------------------------------------------------
(* HandleTable: chains, in an array that grows with what it holds.  No     *)
(* chain has a key twice, so a chain is the set of its handles.            *)
Slot(b, t) == (Hash[t] % Len(b)) + 1
FindPointer(c, t) == {a \in c.buckets[Slot(c.buckets, t)] : c.entry[a].key = t}
TableLookup(c, t) == IF FindPointer(c, t) = {} THEN None ELSE CHOOSE a \in FindPointer(c, t) : TRUE

(* Resize, called with one handle more than there are slots: the length,   *)
(* doubled until the handles fit, becomes twice what it was, and every     *)
(* handle goes to its new slot.                                            *)
Resize(c) ==
    LET longer == [i \in 1 .. 2 * Len(c.buckets) |-> {}]
    IN  [c EXCEPT !.buckets = [i \in DOMAIN longer |->
            {a \in UNION Range(c.buckets) : Slot(longer, c.entry[a].key) = i}]]

(* Insert takes the place of a handle with the same key, or the last one.  *)
TableInsert(c, a) ==
    LET t == c.entry[a].key
        old == FindPointer(c, t)
        d == [c EXCEPT !.buckets[Slot(c.buckets, t)] = (@ \ old) \cup {a},
                       !.elems = IF old = {} THEN @ + 1 ELSE @]
    IN  IF d.elems > Len(d.buckets) THEN Resize(d) ELSE d

TableRemove(c, t) ==
    [c EXCEPT !.buckets[Slot(c.buckets, t)] = @ \ FindPointer(c, t),
              !.elems = IF FindPointer(c, t) = {} THEN @ ELSE @ - 1]
-----------------------------------------------------------------------------
(* LRUCache: references, and the two lists they put a handle on.           *)
Without(list, a) == LET i == CHOOSE i \in DOMAIN list : list[i] = a
                    IN  IF a \in Range(list) THEN SubSeq(list, 1, i - 1) \o SubSeq(list, i + 1, Len(list))
                        ELSE list

Ref(c, a) ==
    LET moved == IF c.entry[a].refs = 1 /\ c.entry[a].inCache
                 THEN [c EXCEPT !.lru = Without(@, a), !.inUse = @ \cup {a}] ELSE c
    IN  [moved EXCEPT !.entry[a].refs = @ + 1]

(* The deleter closes the file and the handle is freed.                    *)
Unref(c, a) ==
    LET d == [c EXCEPT !.entry[a].refs = @ - 1]
    IN  IF d.entry[a].refs = 0 THEN [d EXCEPT !.entry[a] = Free]
        ELSE IF d.entry[a].refs = 1 /\ d.entry[a].inCache
        THEN [d EXCEPT !.inUse = @ \ {a}, !.lru = Append(@, a)]
        ELSE d

(* FinishErase: the handle, out of table_ already, leaves its list too.    *)
FinishErase(c, a) ==
    IF a = None THEN c
    ELSE Unref([c EXCEPT !.lru = Without(@, a), !.inUse = @ \ {a}, !.usage = @ - 1,
                         !.entry[a].inCache = FALSE], a)

(* Removing the n oldest handles of lru_ from the hash table and from the  *)
(* cache, which has the only reference to them.                            *)
EraseOldest(c, n) ==
    LET erased == Range(SubSeq(c.lru, 1, n))
    IN  [c EXCEPT !.entry = [a \in DOMAIN @ |-> IF a \in erased THEN Free ELSE @[a]],
                  !.buckets = [i \in DOMAIN @ |-> @[i] \ erased],
                  !.elems = @ - n, !.usage = @ - n,
                  !.lru = SubSeq(@, n + 1, Len(@))]

(* Fault: one handle too many stays. *)
EvictsAt(c, n) == c.usage - n > Capacity + 1

(* The loop that evicts goes on, after n handles.                          *)
Evicts(c, n) == c.usage - n > Capacity

EvictOldest(c) == LET most == {n \in 0 .. Len(c.lru) : \A k \in 0 .. n - 1 : Evicts(c, k)}
                  IN  EraseOldest(c, CHOOSE n \in most : \A k \in most : k <= n)

Caches == Capacity > 0

(* Insert: the handle belongs to the client and, with a capacity, to the   *)
(* cache, which gives up what it had for the key and then the oldest.      *)
InsertHandle(c, a, t) ==
    LET new == [key |-> t, refs |-> IF Caches THEN 2 ELSE 1, inCache |-> Caches]
        added == [c EXCEPT !.entry[a] = new, !.inUse = @ \cup {a}, !.usage = @ + 1]
    IN  IF Caches THEN EvictOldest(FinishErase(TableInsert(added, a), TableLookup(c, t)))
        ELSE [c EXCEPT !.entry[a] = new]
-----------------------------------------------------------------------------
Holds(c, a) == client[c].pc = "uses" /\ client[c].handle = a
Does(c, pc, t, a) == client' = [client EXCEPT ![c] = [pc |-> pc, table |-> t, handle |-> a]]

(* FindTable, for a table of a version the client has a reference on.      *)
FindTable(c, t) ==
    /\ client[c].pc = "idle"
    /\ t \in live
    /\ LET a == TableLookup(cache, t)
       IN  IF a = None THEN Does(c, "opens", t, None) /\ Becomes(cache)
           ELSE Does(c, "uses", t, a) /\ Becomes(Ref(cache, a))
    /\ UNCHANGED live

OpenFails(c) == client[c].pc = "opens" /\ Does(c, "idle", None, None) /\ Becomes(cache) /\ UNCHANGED live

(* The file is open; Insert, with the mutex again.                         *)
CacheInsert(c) ==
    /\ client[c].pc = "opens"
    /\ LET a == CHOOSE b \in Addresses : entry[b] = Free
       IN  Does(c, "uses", client[c].table, a) /\ Becomes(InsertHandle(cache, a, client[c].table))
    /\ UNCHANGED live

(* Get ends, or the iterator is deleted: UnrefEntry, then the version.     *)
Release(c) ==
    /\ client[c].pc = "uses"
    /\ Becomes(Unref(cache, client[c].handle))
    /\ Does(c, "idle", None, None)
    /\ UNCHANGED live

(* Fault: a table is evicted although somebody reads its version. *)
ObsoleteEarly(t) == t \in live

Obsolete(t) == t \in live /\ \A c \in Clients : client[c].table # t

(* DeleteObsoleteFiles: Evict a table that no version lists any more.      *)
Evict(t) ==
    /\ Obsolete(t)
    /\ Becomes(FinishErase(TableRemove(cache, t), TableLookup(cache, t)))
    /\ live' = live \ {t}
    /\ UNCHANGED client

Prune == Becomes(EraseOldest(cache, Len(lru))) /\ UNCHANGED <<client, live>>
-----------------------------------------------------------------------------
CacheInit ==
    /\ entry = [a \in Addresses |-> Free]
    /\ buckets = [i \in 1 .. SmallestTable |-> {}] /\ elems = 0
    /\ lru = << >> /\ inUse = {} /\ usage = 0
    /\ client = [c \in Clients |-> [pc |-> "idle", table |-> None, handle |-> None]]
    /\ live = Tables

CacheNext == \/ \E c \in Clients : (\E t \in Tables : FindTable(c, t)) \/ OpenFails(c) \/ CacheInsert(c) \/ Release(c)
             \/ (\E t \in Tables : Evict(t)) \/ Prune

CacheSpec == CacheInit /\ [][CacheNext]_cacheVars
-----------------------------------------------------------------------------
OpenTables == {a \in Addresses : entry[a] # Free}
Cached == {a \in OpenTables : entry[a].inCache}

(* Whoever evicts and whoever inserts the table a second time: what a      *)
(* client uses stays open, is the table it asked for, and is closed with   *)
(* its last reference.                                                     *)
HeldStaysOpen ==
    /\ \A c \in Clients, a \in Addresses : Holds(c, a) => entry[a].key = client[c].table
    /\ \A a \in OpenTables : entry[a].refs = Cardinality({c \in Clients : Holds(c, a)})
                                             + (IF entry[a].inCache THEN 1 ELSE 0)

(* The hash table, through all its resizing, finds exactly what the cache  *)
(* has, the two lists share it out by references, and usage_ counts it.    *)
ListsAgree ==
    /\ \A t \in Tables : LET a == TableLookup(cache, t)
                         IN  IF a = None THEN ~\E b \in Cached : entry[b].key = t
                             ELSE a \in Cached /\ entry[a].key = t /\ \A b \in Cached : entry[b].key = t => b = a
    /\ Range(lru) = {a \in Cached : entry[a].refs = 1} /\ Len(lru) = Cardinality(Range(lru))
    /\ Caches => inUse = Cached \ Range(lru)
    /\ usage = Cardinality(Cached) /\ usage = elems

(* However many threads open the same table at once, no more files are     *)
(* open than the capacity and one for each client but one: of the clients  *)
(* with a table of their own, the last to insert shares its with the cache.*)
OpenIsBounded == Caches => Cardinality(OpenTables) < Capacity + Cardinality(Clients)

(* A table that DeleteObsoleteFiles has evicted is not brought back by a   *)
(* client that was just opening it: its file is really closed.             *)
EvictedStaysOut == \A a \in OpenTables : entry[a].key \in live

(* Handles, hash table and lists of the cache tell the same story.         *)
CacheIsSound == HeldStaysOpen /\ ListsAgree /\ EvictedStaysOut
=============================================================================
