------------------------------ MODULE ExpiringMap ------------------------------
(***************************************************************************)
(* What a cache with expiry times promises: a map from keys to values.     *)
(* A set() may evict other entries once there are too many, never the new  *)
(* one, and leaves as many as the cache is meant for; otherwise an entry   *)
(* goes when it is deleted or when the timeouts are checked at its time.   *)
(***************************************************************************)
EXTENDS Naturals, FiniteSets

CONSTANTS Keys, Vals, Times,
          MaxSize, Elasticity   \* prune to MaxSize, if not 0, once there are this many more

VARIABLES entries,   \* a function from the keys that are present
          call       \* the operation called last

Only(S) == [k \in S |-> entries[k]]

Init == entries = [k \in {} |-> 0] /\ call = <<"none">>

Crowded(n) == MaxSize > 0 /\ n > MaxSize /\ n >= MaxSize + Elasticity

Set(k, v, t, evicted) ==
    LET keys == (DOMAIN entries \cup {k}) \ evicted
    IN  /\ call' = <<"set", k, v, t>>
        /\ evicted # {} <=> Crowded(Cardinality(DOMAIN entries \cup {k}))
        /\ evicted # {} => Cardinality(keys) = MaxSize
        /\ entries' = [j \in keys |-> IF j = k THEN [val |-> v, ts |-> t] ELSE entries[j]]

Get(k) == call' = <<"get", k>> /\ UNCHANGED entries

Del(k) == call' = <<"del", k>> /\ entries' = Only(DOMAIN entries \ {k})

Clear == call' = <<"clear">> /\ entries' = Only({})

CheckTimeout(t) ==
    /\ call' = <<"checkTimeout", t>>
    /\ entries' = Only({k \in DOMAIN entries : entries[k].ts > t})

Next ==
    \/ \E k \in Keys, v \in Vals, t \in Times :
          \E evicted \in SUBSET (DOMAIN entries \ {k}) : Set(k, v, t, evicted)
    \/ \E k \in Keys : Get(k) \/ Del(k)
    \/ Clear
    \/ \E t \in Times : CheckTimeout(t)

Spec == Init /\ [][Next]_<<entries, call>>
===============================================================================
