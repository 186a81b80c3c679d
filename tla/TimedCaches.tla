------------------------------ MODULE TimedCaches ------------------------------
(***************************************************************************)
(* TimedLruCache (ds/timed_lru_cache.h) and TimeCache (ds/timed_cache.h):  *)
(* an index by key over a list in the order of use and a set in the order  *)
(* of expiry, or over the set alone.  Every operation is one critical      *)
(* section.  An iterator of the index is the item it points to.  Times are *)
(* those of expiry; checkTimeout may be given any time.                    *)
(* The operations that read, expired() and the hit counts change nothing   *)
(* here: expired() of TimeCache puts the same item back.                   *)
(***************************************************************************)
EXTENDS Naturals, Sequences, FiniteSets

CONSTANTS Keys,        \* naturals: the set of expiry is ordered by time and key
          Vals, Times,
          MaxSize, Elasticity

ASSUME CacheAssumption ==
    /\ Keys \subseteq Nat /\ Times \subseteq Nat
    /\ MaxSize \in Nat /\ Elasticity \in Nat

VARIABLES
    lruKeys,       \* TimedLruCache::m_keys
    lruIndex,      \* the keys of m_cache
    lruTimed,      \* m_timed
    called,        \* history: the operation of TimedLruCache called last
    tcTimed,       \* TimeCache::m_timed
    tcIndex,       \* m_cache
    overwritten    \* history: keys that TimeCache was given while it had them

cacheVars == <<lruKeys, lruIndex, lruTimed, called, tcTimed, tcIndex, overwritten>>

Item(k, v, t) == [key |-> k, val |-> v, ts |-> t]

NoIndex == [k \in {} |-> Item(0, 0, 0)]

CacheInit ==
    /\ lruKeys = <<>> /\ lruIndex = {} /\ lruTimed = {} /\ called = <<"none">>
    /\ tcTimed = {} /\ tcIndex = NoIndex
    /\ overwritten = {}

\* How many entries prune() removes from a cache of n entries.
Excess(n) == IF MaxSize = 0 \/ n < MaxSize + Elasticity THEN 0 ELSE n - MaxSize

(***************************************************************************)
(* TimedLruCache.                                                          *)
(***************************************************************************)
Position(k) == CHOOSE i \in 1..Len(lruKeys) : lruKeys[i].key = k
Stamp(i) == <<lruKeys[i].ts, lruKeys[i].key>>
Erased(s, i) == [j \in 1..(Len(s) - 1) |-> IF j < i THEN s[j] ELSE s[j + 1]]
Spliced(item) == <<item>> \o Erased(lruKeys, Position(item.key))

\* The members of a set of positions, in order.
Ascending(P) ==
    {at \in [1..Cardinality(P) -> P] :
        \A i, j \in DOMAIN at : i < j => at[i] < at[j]}

\* mutant: the stamp in m_timed stays when the expiry changes
LruSetKeepsStamp(k, v, t) ==
    /\ k \in lruIndex
    /\ lruKeys' = Spliced(Item(k, v, t))
    /\ UNCHANGED <<lruIndex, lruTimed>>

\* set() of a key that is present: taken out of m_timed before ts is changed.
LruReset(k, v, t) ==
    /\ k \in lruIndex
    /\ lruKeys' = Spliced(Item(k, v, t))
    /\ lruTimed' = (lruTimed \ {Stamp(Position(k))}) \cup {<<t, k>>}
    /\ UNCHANGED lruIndex

\* set() of a new key, then prune() from the back of the list.
LruAdd(k, v, t) ==
    LET all == <<Item(k, v, t)>> \o lruKeys
        cut == Len(all) - Excess(Cardinality(lruIndex) + 1)
        out == {all[i] : i \in (cut + 1)..Len(all)}
    IN  /\ k \notin lruIndex
        /\ lruKeys' = SubSeq(all, 1, cut)
        /\ lruIndex' = (lruIndex \cup {k}) \ {i.key : i \in out}
        /\ lruTimed' = (lruTimed \cup {<<t, k>>}) \ {<<i.ts, i.key>> : i \in out}

LruGet(k) ==
    /\ k \in lruIndex
    /\ lruKeys' = Spliced(lruKeys[Position(k)])
    /\ UNCHANGED <<lruIndex, lruTimed>>

LruDel(k) ==
    /\ k \in lruIndex
    /\ lruTimed' = lruTimed \ {Stamp(Position(k))}
    /\ lruKeys' = Erased(lruKeys, Position(k))
    /\ lruIndex' = lruIndex \ {k}

LruClear == lruKeys' = <<>> /\ lruIndex' = {} /\ lruTimed' = {}

LruCheckTimeout(t) ==
    LET out == {p \in lruTimed : p[1] <= t}
        keys == {p[2] : p \in out}
        stay == {i \in 1..Len(lruKeys) : lruKeys[i].key \notin keys}
    IN  /\ out # {}
        /\ \E at \in Ascending(stay) : lruKeys' = [i \in DOMAIN at |-> lruKeys[at[i]]]
        /\ lruIndex' = lruIndex \ keys
        /\ lruTimed' = lruTimed \ out

(***************************************************************************)
(* TimeCache.  set() of a key that is present erases it from the index     *)
(* only: its item stays in m_timed, and takes the new entry with it when   *)
(* it expires or is pruned.  An item of the same time and key is kept.     *)
(***************************************************************************)
Before(i, j) == i.ts < j.ts \/ (i.ts = j.ts /\ i.key <= j.key)

Without(index, S) == [k \in DOMAIN index \ S |-> index[k]]
KeysOf(items) == {i.key : i \in items}

\* What prune() takes from the front of m_timed until the index is small enough.
Pruned(timed, index) ==
    LET enough(P) == Cardinality(DOMAIN index \ KeysOf(P)) <= MaxSize
        fronts == {{j \in timed : Before(j, i)} : i \in timed}
    IN  IF Excess(Cardinality(DOMAIN index)) = 0 THEN {}
        ELSE CHOOSE P \in fronts :
                enough(P) /\ \A Q \in fronts : enough(Q) => P \subseteq Q

TcSet(k, v, t) ==
    LET same  == {i \in tcTimed : i.ts = t /\ i.key = k}
        item  == IF same = {} THEN Item(k, v, t) ELSE CHOOSE i \in same : TRUE
        timed == tcTimed \cup {item}
        index == [j \in DOMAIN tcIndex \cup {k} |-> IF j = k THEN item ELSE tcIndex[j]]
        out   == Pruned(timed, index)
    IN  /\ tcTimed' = timed \ out
        /\ tcIndex' = Without(index, KeysOf(out))
        /\ overwritten' = IF k \in DOMAIN tcIndex THEN overwritten \cup {k} ELSE overwritten

TcDel(k) ==
    /\ k \in DOMAIN tcIndex
    /\ tcTimed' = tcTimed \ {tcIndex[k]}
    /\ tcIndex' = Without(tcIndex, {k})
    /\ UNCHANGED overwritten

TcClear == tcTimed' = {} /\ tcIndex' = NoIndex /\ overwritten' = {}

\* mutant: the index keeps what expired
TcCheckTimeoutKeeps(t) ==
    /\ tcTimed' = {i \in tcTimed : i.ts > t}
    /\ UNCHANGED <<tcIndex, overwritten>>

TcCheckTimeout(t) ==
    LET out == {i \in tcTimed : i.ts <= t}
    IN  /\ out # {}
        /\ tcTimed' = tcTimed \ out
        /\ tcIndex' = Without(tcIndex, KeysOf(out))
        /\ UNCHANGED overwritten

-------------------------------------------------------------------------------
Calls(op) == called' = op

LruStep ==
    \/ \E k \in Keys, v \in Vals, t \in Times :
          (LruReset(k, v, t) \/ LruAdd(k, v, t)) /\ Calls(<<"set", k, v, t>>)
    \/ \E k \in Keys : LruGet(k) /\ Calls(<<"get", k>>)
    \/ \E k \in Keys : LruDel(k) /\ Calls(<<"del", k>>)
    \/ LruClear /\ Calls(<<"clear">>)
    \/ \E t \in Times : LruCheckTimeout(t) /\ Calls(<<"checkTimeout", t>>)

TcStep ==
    \/ \E k \in Keys, v \in Vals, t \in Times : TcSet(k, v, t)
    \/ \E k \in Keys : TcDel(k)
    \/ TcClear
    \/ \E t \in Times : TcCheckTimeout(t)

\* The two caches have nothing to do with each other: one of them is in use.
CacheNext ==
    \/ LruStep /\ tcTimed = {} /\ UNCHANGED <<tcTimed, tcIndex, overwritten>>
    \/ TcStep /\ called = <<"none">> /\ UNCHANGED <<lruKeys, lruIndex, lruTimed, called>>

CacheSpec == CacheInit /\ [][CacheNext]_cacheVars
-------------------------------------------------------------------------------
(***************************************************************************)
(* TimedLruCache keeps the promise of ExpiringMap, looked at through its   *)
(* index: list, index and set of expiry stay in step when an expiry is     *)
(* changed, and prune and checkTimeout remove the entries they mean.       *)
(***************************************************************************)
LruEntries ==
    [k \in lruIndex |-> [val |-> lruKeys[Position(k)].val, ts |-> lruKeys[Position(k)].ts]]

Map == INSTANCE ExpiringMap WITH entries <- LruEntries, call <- called

LruImplementsMap == Map!Spec

(***************************************************************************)
(* Every entry of TimeCache is in its set of expiry, so that it expires    *)
(* and prune() always finds something to remove; and a key that was never  *)
(* set while it was present has one item only, so that it cannot go early. *)
(***************************************************************************)
EntriesExpire ==
    \A k \in DOMAIN tcIndex :
        /\ tcIndex[k] \in tcTimed
        /\ k \notin overwritten => {i \in tcTimed : i.key = k} = {tcIndex[k]}
===============================================================================
