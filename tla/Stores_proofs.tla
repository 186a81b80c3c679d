----------------------------- MODULE Stores_proofs -----------------------------
(***************************************************************************)
(* Proofs about what is kept and must not go stale: the variables of the   *)
(* configuration, for any number of threads, values and seconds, the       *)
(* entries of TimeCache and TimedLruCache, for any keys, values, times and *)
(* sizes, and the bytes of a ByteArray, for any size of its nodes, and     *)
(* what its encodings of numbers return, for integers of any width.        *)
(***************************************************************************)
EXTENDS Config, TimedCaches, ByteArray, FiniteSetTheorems, SequenceTheorems, WellFoundedInduction, TLAPS

(* Config.                                                                 *)
Setting(p) == thread[p] \in {"notify", "assign"}
Active(p)  == thread[p] # "ready"

(***************************************************************************)
(* As long as no two calls of setValue overlapped, one thread at most is in*)
(* setValue.  The listeners know the value that is there, or the one this  *)
(* thread is about to assign.                                              *)
(***************************************************************************)
ListenersInv ==
    ~overlap =>
        /\ \A p, q \in Threads : Setting(p) /\ Setting(q) => p = q
        /\ \A p \in Threads : thread[p] = "assign" => told = new[p]
        /\ (\A p \in Threads : thread[p] # "assign") => told = val

(***************************************************************************)
(* Times of modification grow, and one that was noted belongs to the file  *)
(* as it is unless it was changed again in the same second.                *)
(***************************************************************************)
TimesInv == noted <= mtime /\ mtime <= now

(***************************************************************************)
(* After the last load began nobody else set the value, and no second load *)
(* began before it ended: one thread at most does anything.                *)
(***************************************************************************)
OneActive ==
    ~loads /\ ~manual => \A p, q \in Threads : Active(p) /\ Active(q) => p = q

(***************************************************************************)
(* A file that is noted is about to be read, or its value is on the way, or*)
(* it is the value of the variable.                                        *)
(***************************************************************************)
LoadInv ==
    /\ noted = mtime /\ file \notin Bad
    /\ ~twice /\ ~loads /\ ~overlap /\ ~manual
    => \/ \E p \in Threads : thread[p] = "load"
       \/ \E p \in Threads : Setting(p) /\ new[p] = file
       \/ (\A p \in Threads : ~Active(p)) /\ val = file

ConfigInv == ConfigTypeOK /\ ListenersInv /\ TimesInv /\ OneActive /\ LoadInv

-----------------------------------------------------------------------------
LEMMA ConfigInitial == ConfigInit => ConfigInv
<1> SUFFICES ASSUME ConfigInit PROVE ConfigInv
  OBVIOUS
<1>1. Initial \in Values
  BY ConfigAssumption DEF Initial
<1>2. ConfigTypeOK
  BY <1>1 DEF ConfigInit, ConfigTypeOK
<1> QED
  BY <1>2
  DEF ConfigInit, ConfigInv, ListenersInv, TimesInv, OneActive, LoadInv, Setting, Active

(* Types. *)
LEMMA ConfigTypeStep == ConfigTypeOK /\ [ConfigNext]_configVars => ConfigTypeOK'
<1> SUFFICES ASSUME ConfigTypeOK, [ConfigNext]_configVars PROVE ConfigTypeOK'
  OBVIOUS
<1> USE DEF ConfigTypeOK, Reaches
<1>1. ASSUME NEW p \in Threads, TellListeners(p) PROVE ConfigTypeOK'
  BY <1>1 DEF TellListeners, Told
<1>2. ASSUME NEW p \in Threads, Assign(p) PROVE ConfigTypeOK'
  BY <1>2 DEF Assign
<1>3. ASSUME NEW p \in Threads, NoteTime(p) PROVE ConfigTypeOK'
  BY <1>3 DEF NoteTime, Noted, Others
<1>4. ASSUME NEW p \in Threads, LoadFile(p) PROVE ConfigTypeOK'
  BY <1>4 DEF LoadFile, Others
<1>5. ASSUME NEW p \in Setters, NEW v \in Values, BeginSet(p, v) PROVE ConfigTypeOK'
  BY <1>5 DEF BeginSet, Others
<1>6. ASSUME NEW c \in Values \cup Bad, Edit(c) PROVE ConfigTypeOK'
  BY <1>6 DEF Edit
<1>7. CASE Tick
  BY <1>7 DEF Tick
<1>8. CASE UNCHANGED configVars
  BY <1>8 DEF configVars
<1> QED
  BY <1>1, <1>2, <1>3, <1>4, <1>5, <1>6, <1>7, <1>8 DEF ConfigNext

(* Every step preserves the invariant.                                     *)
LEMMA ConfigStep == ConfigInv /\ [ConfigNext]_configVars => ConfigInv'
<1> SUFFICES ASSUME ConfigInv, [ConfigNext]_configVars PROVE ConfigInv'
  OBVIOUS
<1>0. ConfigTypeOK /\ ConfigTypeOK'
  BY ConfigTypeStep DEF ConfigInv
<1> DEFINE Rest == ListenersInv /\ TimesInv /\ OneActive /\ LoadInv
<1>r. Rest
  BY DEF ConfigInv
<1>1. ASSUME NEW p \in Threads, TellListeners(p) PROVE Rest'
  <2> USE <1>0, <1>1 DEF ConfigTypeOK, TellListeners, Reaches, Told
  <2>1. ListenersInv'
    BY <1>r DEF ListenersInv, Setting
  <2>2. TimesInv' /\ OneActive'
    BY <1>r DEF TimesInv, OneActive, Active
  <2>3. LoadInv'
    BY <1>r DEF LoadInv, OneActive, Setting, Active
  <2> QED
    BY <2>1, <2>2, <2>3
<1>2. ASSUME NEW p \in Threads, Assign(p) PROVE Rest'
  <2> USE <1>0, <1>2 DEF ConfigTypeOK, Assign, Reaches
  <2>1. ListenersInv'
    BY <1>r DEF ListenersInv, Setting
  <2>2. TimesInv' /\ OneActive'
    BY <1>r DEF TimesInv, OneActive, Active
  <2>3. LoadInv'
    BY <1>r DEF LoadInv, OneActive, Setting, Active
  <2> QED
    BY <2>1, <2>2, <2>3
<1>3. ASSUME NEW p \in Threads, NoteTime(p) PROVE Rest'
  <2> USE <1>0, <1>3 DEF ConfigTypeOK, NoteTime, Noted, Reaches, Others
  <2>1. ListenersInv'
    BY <1>r DEF ListenersInv, Setting
  <2>2. TimesInv'
    BY <1>r DEF TimesInv
  <2>4. ASSUME ~loads' PROVE \A r \in Threads \ {p} : thread[r] = "ready"
    <3>1. ~\E r \in Threads \ {p} : thread[r] \in {"load", "notify", "assign"}
      BY <2>4
    <3> QED
      BY <3>1
  <2>5. OneActive'
    BY <2>4 DEF OneActive, Active
  <2>3. LoadInv'
    BY DEF LoadInv
  <2> QED
    BY <2>1, <2>2, <2>3, <2>5
<1>4. ASSUME NEW p \in Threads, LoadFile(p) PROVE Rest'
  <2> USE <1>0, <1>4 DEF ConfigTypeOK, LoadFile, Reaches, Others
  <2>1. ListenersInv'
    BY <1>r DEF ListenersInv, Setting
  <2>2. TimesInv' /\ OneActive'
    BY <1>r DEF TimesInv, OneActive, Active
  <2>3. LoadInv'
    BY DEF LoadInv, Setting
  <2> QED
    BY <2>1, <2>2, <2>3
<1>5. ASSUME NEW p \in Setters, NEW v \in Values, BeginSet(p, v) PROVE Rest'
  <2> USE <1>0, <1>5 DEF ConfigTypeOK, BeginSet, Reaches, Others, Threads
  <2>1. ListenersInv'
    BY <1>r DEF ListenersInv, Setting
  <2>2. TimesInv' /\ OneActive' /\ LoadInv'
    BY <1>r DEF TimesInv, OneActive, LoadInv
  <2> QED
    BY <2>1, <2>2
<1>6. ASSUME NEW c \in Values \cup Bad, Edit(c) PROVE Rest'
  <2> USE <1>0, <1>6 DEF ConfigTypeOK, Edit
  <2>1. ListenersInv' /\ TimesInv' /\ OneActive'
    BY <1>r DEF ListenersInv, TimesInv, OneActive, Setting, Active
  <2>2. ~(noted' = mtime' /\ ~twice')
    <3>1. noted <= mtime /\ mtime <= now
      BY <1>r DEF TimesInv
    <3>2. CASE mtime = now
      BY <3>2
    <3>3. CASE mtime # now
      BY <3>1, <3>3
    <3> QED
      BY <3>2, <3>3
  <2>3. LoadInv'
    BY <2>2 DEF LoadInv
  <2> QED
    BY <2>1, <2>3
<1>7. ASSUME Tick PROVE Rest'
  BY <1>0, <1>7, <1>r
  DEF Tick, ConfigTypeOK, ListenersInv, TimesInv, OneActive, LoadInv, Setting, Active
<1>8. ASSUME UNCHANGED configVars PROVE Rest'
  BY <1>8, <1>r
  DEF configVars, ListenersInv, TimesInv, OneActive, LoadInv, Setting, Active
<1> QED
  BY <1>0, <1>1, <1>2, <1>3, <1>4, <1>5, <1>6, <1>7, <1>8 DEF ConfigNext, ConfigInv

(* Whatever the threads and the file do, the invariant holds.              *)
THEOREM ConfigInvariant == ConfigSpec => []ConfigInv
<1> QED
  BY ConfigInitial, ConfigStep, PTL DEF ConfigSpec

(* The variables have their types: only what was parsed becomes a value.   *)
THEOREM ConfigTypes == ConfigSpec => []ConfigTypeOK
<1>1. ConfigInv => ConfigTypeOK
  BY DEF ConfigInv
<1> QED
  BY <1>1, ConfigInvariant, PTL

(* What the listeners of a variable were told last is its value when no    *)
(* call of setValue is under way, unless two of them overlapped            *)
(* (config2.h:291-329).                                                    *)
THEOREM ListenersKnowTheValue == ConfigSpec => []ListenersFollow
<1>1. ConfigInv => ListenersFollow
  BY DEF ConfigInv, ListenersInv, ListenersFollow, Quiet
<1> QED
  BY <1>1, ConfigInvariant, PTL

(* A file LoadFromConfDir has noted is the value of the variable when the  *)
(* threads are done, although it is noted before it is read                *)
(* (config2.cpp:35-85).                                                    *)
THEOREM NotedFileIsLoaded == ConfigSpec => []LoadedFileCounts
<1>1. ConfigInv => LoadedFileCounts
  BY DEF ConfigInv, LoadInv, LoadedFileCounts, Setting
<1> QED
  BY <1>1, ConfigInvariant, PTL

-----------------------------------------------------------------------------
(* TimedCaches.                                                            *)

Items == [key : Keys, val : Vals, ts : Times]

(* An entry of the index is the item for its key, in the set of expiry; a  *)
(* key that was never set while it was present has no other item, nor one  *)
(* that stayed when its entry went.                                        *)
TcInv ==
    /\ tcTimed \subseteq Items /\ IsFiniteSet(tcTimed)
    /\ \A k \in DOMAIN tcIndex :
          k \in Keys /\ tcIndex[k] \in tcTimed /\ tcIndex[k].key = k
    /\ \A i \in tcTimed :
          i.key \in overwritten \/ (i.key \in DOMAIN tcIndex /\ tcIndex[i.key] = i)

(* The front of m_timed up to an item.                                     *)
Front(timed, i) == {j \in timed : Before(j, i)}

Enough(index, P) == Cardinality(DOMAIN index \ KeysOf(P)) <= MaxSize

LEMMA OrderOfItems ==
  ASSUME NEW i \in Items, NEW j \in Items, NEW l \in Items
  PROVE  /\ Before(i, i)
         /\ Before(i, j) \/ Before(j, i)
         /\ Before(i, j) /\ Before(j, l) => Before(i, l)
<1>1. \A o \in Items : o.ts \in Nat /\ o.key \in Nat
  BY CacheAssumption DEF Items
<1>2. /\ i.ts \in Nat /\ j.ts \in Nat /\ l.ts \in Nat
      /\ i.key \in Nat /\ j.key \in Nat /\ l.key \in Nat
  BY <1>1
<1> QED
  BY <1>2 DEF Before

Less == {p \in Nat \X Nat : p[1] < p[2]}

LEMMA LessWellFounded == IsWellFoundedOn(Less, Nat)
  BY NatLessThanWellFounded DEF OpToRel, Less

(* Of a set of items there is one for which a natural number is least.     *)
LEMMA LeastItem ==
  ASSUME NEW T, T # {}, NEW measure \in [T -> Nat]
  PROVE  \E i \in T : \A j \in T : measure[i] <= measure[j]
<1> DEFINE image == {measure[i] : i \in T}
<1>1. image \in SUBSET Nat /\ image # {}
  OBVIOUS
<1>2. PICK n \in image : \A m \in image : <<m, n>> \notin Less
  BY <1>1, LessWellFounded, WFMin
<1>3. ASSUME NEW m \in image PROVE n <= m
  <2> HIDE DEF image
  <2>1. n \in Nat /\ m \in Nat /\ <<m, n>> \notin Less
    BY <1>1, <1>2
  <2> QED
    BY <2>1 DEF Less
<1> QED
  BY <1>3

(* prune() takes a front of m_timed, and there is one that is enough.      *)
LEMMA PruneTakesAFront ==
  ASSUME NEW timed \in SUBSET Items, IsFiniteSet(timed), NEW index,
         \A k \in DOMAIN index : index[k] \in timed /\ index[k].key = k
  PROVE  /\ Pruned(timed, index) \subseteq timed
         /\ Excess(Cardinality(DOMAIN index)) # 0 => Enough(index, Pruned(timed, index))
<1> DEFINE fronts == {Front(timed, i) : i \in timed}
<1>1. CASE Excess(Cardinality(DOMAIN index)) = 0
  BY <1>1 DEF Pruned
<1>2. ASSUME Excess(Cardinality(DOMAIN index)) # 0
      PROVE  timed # {}
  <2>1. SUFFICES ASSUME timed = {} PROVE FALSE
    OBVIOUS
  <2>2. DOMAIN index = {}
    BY <2>1
  <2> QED
    BY <1>2, <2>2, FS_EmptySet, CacheAssumption DEF Excess
<1>3. \A i \in timed : /\ Front(timed, i) \in SUBSET timed
                       /\ IsFiniteSet(Front(timed, i))
                       /\ Cardinality(Front(timed, i)) \in Nat
  BY FS_Subset, FS_CardinalityType DEF Front
<1>4. \A i, j \in timed : Front(timed, i) \subseteq Front(timed, j) \/ Front(timed, j) \subseteq Front(timed, i)
  BY OrderOfItems DEF Front
<1>5. ASSUME timed # {}
      PROVE  \E i \in timed : Front(timed, i) = timed
  <2> DEFINE rest == [i \in timed |-> Cardinality(timed \ Front(timed, i))]
  <2>1. \A i \in timed : IsFiniteSet(timed \ Front(timed, i)) /\ rest[i] \in Nat
    BY FS_Difference, FS_CardinalityType, <1>3
  <2>2. rest \in [timed -> Nat]
    BY <2>1
  <2> HIDE DEF rest
  <2>3. PICK i \in timed : \A j \in timed : rest[i] <= rest[j]
    BY <1>5, <2>2, LeastItem
  <2>4. ASSUME NEW j \in timed, j \notin Front(timed, i)
        PROVE  FALSE
    <3>1. timed \ Front(timed, j) \subseteq timed \ Front(timed, i)
      BY <2>4, OrderOfItems DEF Front
    <3>2. j \in Front(timed, j)
      BY OrderOfItems DEF Front
    <3>3. timed \ Front(timed, j) # timed \ Front(timed, i)
      BY <2>4, <3>2
    <3>4. /\ Cardinality(timed \ Front(timed, j)) <= Cardinality(timed \ Front(timed, i))
          /\ Cardinality(timed \ Front(timed, j)) # Cardinality(timed \ Front(timed, i))
      BY <2>1, <3>1, <3>3, FS_Subset
    <3>5. rest[i] <= rest[j] /\ rest[j] <= rest[i] /\ rest[i] # rest[j]
      BY <2>3, <3>4 DEF rest
    <3>6. rest[i] \in Nat /\ rest[j] \in Nat
      BY <2>1
    <3> QED
      BY <3>5, <3>6
  <2> QED
    BY <2>4 DEF Front
<1>6. Enough(index, timed)
  <2>1. DOMAIN index \ KeysOf(timed) = {}
    BY DEF KeysOf
  <2> QED
    BY <2>1, FS_EmptySet, CacheAssumption DEF Enough
<1>7. ASSUME timed # {}
      PROVE  \E P \in fronts : Enough(index, P) /\ \A Q \in fronts : Enough(index, Q) => P \subseteq Q
  <2> DEFINE good == {i \in timed : Enough(index, Front(timed, i))}
  <2> DEFINE size == [i \in good |-> Cardinality(Front(timed, i))]
  <2>1. good # {}
    BY <1>5, <1>6, <1>7
  <2>2. size \in [good -> Nat]
    BY <1>3
  <2>3. PICK i \in good : \A j \in good : size[i] <= size[j]
    <3> HIDE DEF size, good
    <3> QED
      BY <2>1, <2>2, LeastItem
  <2>4. ASSUME NEW j \in good PROVE Front(timed, i) \subseteq Front(timed, j)
    <3>1. CASE Front(timed, j) \subseteq Front(timed, i)
      <4>1. Cardinality(Front(timed, i)) <= Cardinality(Front(timed, j))
        BY <2>3
      <4>2. Front(timed, j) = Front(timed, i)
        BY <1>3, <3>1, <4>1, FS_Subset
      <4> QED
        BY <4>2
    <3> QED
      BY <1>4, <3>1
  <2> QED
    BY <2>4
<1>8. CASE Excess(Cardinality(DOMAIN index)) # 0
  <2> DEFINE P == CHOOSE P \in fronts :
                    Enough(index, P) /\ \A Q \in fronts : Enough(index, Q) => P \subseteq Q
  <2>1. Pruned(timed, index) = P
    BY <1>8 DEF Pruned, Enough, Front
  <2>2. P \in fronts /\ Enough(index, P)
    <3> HIDE DEF fronts
    <3> QED
      BY <1>2, <1>7, <1>8
  <2> QED
    BY <1>3, <2>1, <2>2
<1> QED
  BY <1>1, <1>8

(* set() of a key, whether it is there or not.                             *)
LEMMA TcSetStep ==
  ASSUME TcInv, NEW k \in Keys, NEW v \in Vals, NEW t \in Times, TcSet(k, v, t)
  PROVE  TcInv'
<1> DEFINE same  == {i \in tcTimed : i.ts = t /\ i.key = k}
           item  == IF same = {} THEN Item(k, v, t) ELSE CHOOSE i \in same : TRUE
           timed == tcTimed \cup {item}
           index == [j \in DOMAIN tcIndex \cup {k} |-> IF j = k THEN item ELSE tcIndex[j]]
           out   == Pruned(timed, index)
<1>1. item \in Items /\ item.key = k /\ (item \in tcTimed \/ same = {})
  <2>1. CASE same = {}
    BY <2>1 DEF Item, Items
  <2>2. CASE same # {}
    BY <2>2 DEF TcInv
  <2> QED
    BY <2>1, <2>2
<1>2. /\ tcTimed' = timed \ out
      /\ tcIndex' = Without(index, KeysOf(out))
      /\ overwritten' = IF k \in DOMAIN tcIndex THEN overwritten \cup {k} ELSE overwritten
  BY DEF TcSet
<1> HIDE DEF item
<1>3. timed \subseteq Items /\ IsFiniteSet(timed)
  BY <1>1, FS_AddElement DEF TcInv
<1>4. \A j \in DOMAIN index : j \in Keys /\ index[j] \in timed /\ index[j].key = j
  BY <1>1 DEF TcInv
<1>5. \A i \in timed : i.key \in overwritten' \/ (i.key \in DOMAIN index /\ index[i.key] = i)
  BY <1>1, <1>2 DEF TcInv
<1> HIDE DEF index, timed
<1>6. out \subseteq timed
  BY <1>3, <1>4, PruneTakesAFront
<1> HIDE DEF out
<1>7. /\ DOMAIN tcIndex' = DOMAIN index \ KeysOf(out)
      /\ \A j \in DOMAIN tcIndex' : tcIndex'[j] = index[j]
  BY <1>2 DEF Without
<1>8. \A j \in DOMAIN index \ KeysOf(out) : index[j] \notin out
  BY <1>4 DEF KeysOf
<1>9. ASSUME NEW i \in timed \ out
      PROVE  i.key \in overwritten' \/ (i.key \in DOMAIN tcIndex' /\ tcIndex'[i.key] = i)
  <2>1. SUFFICES ASSUME i.key \in DOMAIN index, index[i.key] = i, i.key \notin overwritten'
                 PROVE  i.key \notin KeysOf(out)
    BY <1>5, <1>7
  <2>2. SUFFICES ASSUME NEW o \in out, o.key = i.key PROVE FALSE
    BY DEF KeysOf
  <2>3. index[o.key] = o
    BY <1>5, <1>6, <2>1, <2>2
  <2> QED
    BY <2>1, <2>2, <2>3
<1>10. IsFiniteSet(timed \ out)
  BY <1>3, FS_Difference
<1> QED
  BY <1>2, <1>3, <1>4, <1>7, <1>8, <1>9, <1>10 DEF TcInv

(* The other calls.                                                        *)
LEMMA TcRemoveStep ==
  ASSUME TcInv,
         \/ \E k \in Keys : TcDel(k)
         \/ \E t \in Times : TcCheckTimeout(t)
  PROVE  TcInv'
<1>1. PICK out, S :
         /\ out \in SUBSET tcTimed /\ tcTimed' = tcTimed \ out /\ tcIndex' = Without(tcIndex, S)
         /\ KeysOf(out) = S /\ overwritten' = overwritten
  <2>1. ASSUME NEW k \in Keys, TcDel(k)
        PROVE  KeysOf({tcIndex[k]}) = {k} /\ tcIndex[k] \in tcTimed
    BY <2>1 DEF TcDel, TcInv, KeysOf
  <2>2. CASE \E k \in Keys : TcDel(k)
    BY <2>1, <2>2 DEF TcDel
  <2>3. CASE \E t \in Times : TcCheckTimeout(t)
    BY <2>3 DEF TcCheckTimeout
  <2> QED
    BY <2>2, <2>3
<1>2. /\ DOMAIN tcIndex' = DOMAIN tcIndex \ S
      /\ \A j \in DOMAIN tcIndex' : tcIndex'[j] = tcIndex[j]
  BY <1>1 DEF Without
<1>3. \A j \in DOMAIN tcIndex \ S : tcIndex[j] \notin out
  BY <1>1 DEF KeysOf, TcInv
<1>4. ASSUME NEW i \in tcTimed \ out
      PROVE  i.key \in overwritten \/ (i.key \in DOMAIN tcIndex' /\ tcIndex'[i.key] = i)
  <2>1. SUFFICES ASSUME i.key \in DOMAIN tcIndex, tcIndex[i.key] = i, i.key \notin overwritten
                 PROVE  i.key \notin S
    BY <1>2 DEF TcInv
  <2>2. SUFFICES ASSUME NEW o \in out, o.key = i.key PROVE FALSE
    BY <1>1 DEF KeysOf
  <2> QED
    BY <1>1, <2>1, <2>2 DEF TcInv
<1>5. IsFiniteSet(tcTimed \ out)
  BY FS_Difference DEF TcInv
<1> QED
  BY <1>1, <1>2, <1>3, <1>4, <1>5 DEF TcInv

LEMMA TcInvInit == CacheInit => TcInv
  BY FS_EmptySet DEF CacheInit, TcInv, NoIndex

LEMMA TcInvStep == TcInv /\ [CacheNext]_cacheVars => TcInv'
<1> SUFFICES ASSUME TcInv, [CacheNext]_cacheVars PROVE TcInv'
  OBVIOUS
<1>1. CASE UNCHANGED <<tcTimed, tcIndex, overwritten>>
  BY <1>1 DEF TcInv
<1>2. CASE TcStep
  <2>1. CASE TcClear
    BY <2>1, FS_EmptySet DEF TcClear, TcInv, NoIndex
  <2> QED
    BY <1>2, <2>1, TcSetStep, TcRemoveStep DEF TcStep
<1> QED
  BY <1>1, <1>2 DEF CacheNext, cacheVars

(* What TimeCache holds expires, and prune() finds something to remove; a  *)
(* key that was never set while present has one item, of its own time      *)
(* (timed_cache.h: set, del, prune, checkTimeout).                         *)
THEOREM TimedEntriesExpire == CacheSpec => []EntriesExpire
<1>1. TcInv => EntriesExpire
  BY DEF TcInv, EntriesExpire
<1> QED
  BY <1>1, TcInvInit, TcInvStep, PTL DEF CacheSpec

(* Before and after every call, there are fewer entries than would be      *)
(* pruned; the index is finite, as the set of expiry is.                   *)
SmallInv ==
    /\ IsFiniteSet(DOMAIN tcIndex)
    /\ MaxSize > 0 =>
          \/ Cardinality(DOMAIN tcIndex) <= MaxSize
          \/ Cardinality(DOMAIN tcIndex) < MaxSize + Elasticity

LEMMA FewerEntries ==
  ASSUME SmallInv, DOMAIN tcIndex' \subseteq DOMAIN tcIndex
  PROVE  SmallInv'
<1>1. /\ IsFiniteSet(DOMAIN tcIndex')
      /\ Cardinality(DOMAIN tcIndex') <= Cardinality(DOMAIN tcIndex)
      /\ Cardinality(DOMAIN tcIndex') \in Nat /\ Cardinality(DOMAIN tcIndex) \in Nat
  BY FS_Subset, FS_CardinalityType DEF SmallInv
<1>2. SUFFICES ASSUME MaxSize > 0
               PROVE  \/ Cardinality(DOMAIN tcIndex') <= MaxSize
                      \/ Cardinality(DOMAIN tcIndex') < MaxSize + Elasticity
  BY <1>1 DEF SmallInv
<1> QED
  BY <1>1, <1>2, CacheAssumption DEF SmallInv

LEMMA SmallStep == TcInv /\ SmallInv /\ [CacheNext]_cacheVars => SmallInv'
<1> SUFFICES ASSUME TcInv, SmallInv, [CacheNext]_cacheVars PROVE SmallInv'
  OBVIOUS
<1>1. ASSUME NEW k \in Keys, NEW v \in Vals, NEW t \in Times, TcSet(k, v, t)
      PROVE  SmallInv'
  <2> DEFINE same  == {i \in tcTimed : i.ts = t /\ i.key = k}
             item  == IF same = {} THEN Item(k, v, t) ELSE CHOOSE i \in same : TRUE
             timed == tcTimed \cup {item}
             index == [j \in DOMAIN tcIndex \cup {k} |-> IF j = k THEN item ELSE tcIndex[j]]
             out   == Pruned(timed, index)
  <2>1. item \in Items /\ item.key = k
    <3>1. CASE same = {}
      BY <3>1 DEF Item, Items
    <3>2. CASE same # {}
      BY <3>2 DEF TcInv
    <3> QED
      BY <3>1, <3>2
  <2>2. tcIndex' = Without(index, KeysOf(out))
    BY <1>1 DEF TcSet
  <2> HIDE DEF item
  <2>3. timed \in SUBSET Items /\ IsFiniteSet(timed)
    BY <2>1, FS_AddElement DEF TcInv
  <2>4. \A j \in DOMAIN index : index[j] \in timed /\ index[j].key = j
    BY <2>1 DEF TcInv
  <2>5. DOMAIN index = DOMAIN tcIndex \cup {k}
    OBVIOUS
  <2>6. IsFiniteSet(DOMAIN index) /\ Cardinality(DOMAIN index) \in Nat
    BY <2>5, FS_AddElement, FS_CardinalityType DEF SmallInv
  <2> HIDE DEF index, timed
  <2>7. Excess(Cardinality(DOMAIN index)) # 0 => Enough(index, out)
    BY <2>3, <2>4, PruneTakesAFront
  <2> HIDE DEF out
  <2>8. DOMAIN tcIndex' = DOMAIN index \ KeysOf(out)
    BY <2>2 DEF Without
  <2>9. /\ IsFiniteSet(DOMAIN tcIndex') /\ Cardinality(DOMAIN tcIndex') \in Nat
        /\ Cardinality(DOMAIN tcIndex') <= Cardinality(DOMAIN index)
    BY <2>6, <2>8, FS_Subset, FS_CardinalityType
  <2>10. CASE Excess(Cardinality(DOMAIN index)) = 0
    <3>1. MaxSize > 0 => \/ Cardinality(DOMAIN index) <= MaxSize
                        \/ Cardinality(DOMAIN index) < MaxSize + Elasticity
      BY <2>6, <2>10, CacheAssumption DEF Excess
    <3>2. MaxSize > 0 => \/ Cardinality(DOMAIN tcIndex') <= MaxSize
                        \/ Cardinality(DOMAIN tcIndex') < MaxSize + Elasticity
      BY <2>6, <2>9, <3>1, CacheAssumption
    <3> QED
      BY <2>9, <3>2 DEF SmallInv
  <2>11. CASE Excess(Cardinality(DOMAIN index)) # 0
    BY <2>7, <2>8, <2>9, <2>11 DEF Enough, SmallInv
  <2> QED
    BY <2>10, <2>11
<1>2. CASE tcIndex' = tcIndex
  BY <1>2, FewerEntries
<1>3. ASSUME NEW k \in Keys, TcDel(k) PROVE SmallInv'
  BY <1>3, FewerEntries DEF TcDel, Without
<1>4. CASE TcClear
  BY <1>4, FewerEntries DEF TcClear, NoIndex
<1>5. ASSUME NEW t \in Times, TcCheckTimeout(t) PROVE SmallInv'
  BY <1>5, FewerEntries DEF TcCheckTimeout, Without
<1> QED
  BY <1>1, <1>2, <1>3, <1>4, <1>5 DEF CacheNext, TcStep, cacheVars

(* TimeCache never holds MaxSize + Elasticity entries (more than MaxSize,  *)
(* if there is no elasticity): prune() finds as many to remove as it means *)
(* to, although it goes by the items and not by the index.                 *)
THEOREM TimeCacheStaysSmall ==
  CacheSpec => [](MaxSize > 0 => \/ Cardinality(DOMAIN tcIndex) <= MaxSize
                                \/ Cardinality(DOMAIN tcIndex) < MaxSize + Elasticity)
<1>1. CacheInit => SmallInv
  <2> SUFFICES ASSUME CacheInit PROVE SmallInv
    OBVIOUS
  <2>1. DOMAIN tcIndex = {}
    BY DEF CacheInit, NoIndex
  <2> QED
    BY <2>1, FS_EmptySet, CacheAssumption DEF SmallInv
<1>2. SmallInv => (MaxSize > 0 => \/ Cardinality(DOMAIN tcIndex) <= MaxSize
                                 \/ Cardinality(DOMAIN tcIndex) < MaxSize + Elasticity)
  BY DEF SmallInv
<1> QED
  BY <1>1, <1>2, SmallStep, TcInvInit, TcInvStep, PTL DEF CacheSpec

-----------------------------------------------------------------------------
(* TimedLruCache: lists of items without a key twice.                      *)
Listed(s) == {s[i] : i \in 1..Len(s)}
Distinct(s) == \A i, j \in 1..Len(s) : s[i].key = s[j].key => i = j
StampsOf(items) == {<<i.ts, i.key>> : i \in items}

LEMMA ErasedFacts ==
  ASSUME NEW s \in Seq(Items), Distinct(s), NEW p \in 1..Len(s)
  PROVE  /\ Erased(s, p) \in Seq(Items) /\ Distinct(Erased(s, p))
         /\ Listed(Erased(s, p)) = Listed(s) \ {s[p]}
<1> DEFINE n == Len(s)
           r == Erased(s, p)
<1>1. n \in Nat /\ \A i \in 1..n : s[i] \in Items
  OBVIOUS
<1>2. r = [j \in 1..(n - 1) |-> IF j < p THEN s[j] ELSE s[j + 1]]
  BY DEF Erased
<1>3. n - 1 \in Nat
  BY <1>1
<1>4. r \in Seq(Items) /\ Len(r) = n - 1
  <2>1. \A j \in 1..(n - 1) : (IF j < p THEN s[j] ELSE s[j + 1]) \in Items
    BY <1>1
  <2> HIDE DEF n, r
  <2> QED
    BY <1>2, <1>3, <2>1
<1>5. \A i \in 1..(n - 1) : r[i] = s[IF i < p THEN i ELSE i + 1]
  BY <1>2
<1> HIDE DEF n, r
<1>6. Distinct(r)
  <2>1. ASSUME NEW i \in 1..Len(r), NEW j \in 1..Len(r), r[i].key = r[j].key PROVE i = j
    <3>1. PICK a, b : a = (IF i < p THEN i ELSE i + 1) /\ b = (IF j < p THEN j ELSE j + 1)
      OBVIOUS
    <3>2. a \in 1..n /\ b \in 1..n /\ r[i] = s[a] /\ r[j] = s[b]
      BY <1>1, <1>4, <1>5, <3>1
    <3>3. a = b
      BY <2>1, <3>2 DEF Distinct, n
    <3> QED
      BY <1>1, <1>4, <3>1, <3>3
  <2> QED
    BY <2>1 DEF Distinct
<1>7. Listed(r) = Listed(s) \ {s[p]}
  <2>1. ASSUME NEW i \in 1..Len(r) PROVE r[i] \in Listed(s) \ {s[p]}
    <3>1. PICK a : a = (IF i < p THEN i ELSE i + 1)
      OBVIOUS
    <3>2. a \in 1..n /\ a # p /\ r[i] = s[a]
      BY <1>1, <1>4, <1>5, <3>1
    <3>3. s[a] # s[p]
      BY <3>2 DEF Distinct, n
    <3> QED
      BY <3>2, <3>3 DEF Listed, n
  <2>2. ASSUME NEW a \in 1..n, s[a] # s[p] PROVE s[a] \in Listed(r)
    <3>1. CASE a < p
      <4>1. a \in 1..Len(r) /\ r[a] = s[a]
        BY <1>1, <1>4, <1>5, <3>1 DEF n
      <4> QED
        BY <4>1 DEF Listed
    <3>2. CASE a > p
      <4>1. a - 1 \in 1..Len(r) /\ ~(a - 1 < p) /\ (a - 1) + 1 = a
        BY <1>1, <1>4, <3>2 DEF n
      <4>2. r[a - 1] = s[a]
        BY <1>4, <1>5, <4>1
      <4> QED
        BY <4>1, <4>2 DEF Listed
    <3> QED
      BY <1>1, <2>2, <3>1, <3>2 DEF n
  <2> QED
    BY <2>1, <2>2 DEF Listed, n
<1> QED
  BY <1>4, <1>6, <1>7 DEF r

LEMMA PushFacts ==
  ASSUME NEW s \in Seq(Items), Distinct(s), NEW x \in Items, x.key \notin KeysOf(Listed(s))
  PROVE  /\ <<x>> \o s \in Seq(Items) /\ Distinct(<<x>> \o s) /\ Len(<<x>> \o s) = Len(s) + 1
         /\ Listed(<<x>> \o s) = Listed(s) \cup {x}
         /\ (<<x>> \o s)[1] = x
<1> DEFINE r == <<x>> \o s
<1>1. /\ r \in Seq(Items) /\ Len(s) \in Nat /\ Len(r) = Len(s) + 1
      /\ r[1] = x /\ \A i \in 2..Len(r) : r[i] = s[i - 1]
  OBVIOUS
<1> HIDE DEF r
<1>2. \A i \in 1..Len(r) : i = 1 \/ (i \in 2..Len(r) /\ i - 1 \in 1..Len(s) /\ r[i] = s[i - 1])
  BY <1>1
<1>3. \A i \in 1..Len(s) : s[i].key # x.key
  BY DEF KeysOf, Listed
<1>4. Distinct(r)
  <2>1. ASSUME NEW i \in 1..Len(r), NEW j \in 1..Len(r), r[i].key = r[j].key PROVE i = j
    <3>1. CASE i = 1 \/ j = 1
      BY <1>1, <1>2, <1>3, <2>1, <3>1
    <3>2. CASE i # 1 /\ j # 1
      <4>1. i - 1 = j - 1
        BY <1>2, <2>1, <3>2, SMTT(30) DEF Distinct
      <4> QED
        BY <4>1
    <3> QED
      BY <3>1, <3>2
  <2> QED
    BY <2>1 DEF Distinct
<1>5. Listed(r) = Listed(s) \cup {x}
  <2>1. ASSUME NEW i \in 1..Len(r) PROVE r[i] \in Listed(s) \cup {x}
    BY <1>1, <1>2 DEF Listed
  <2>2. ASSUME NEW i \in 1..Len(s) PROVE s[i] \in Listed(r)
    <3>1. i + 1 \in 1..Len(r) /\ i + 1 \in 2..Len(r) /\ (i + 1) - 1 = i
      BY <1>1
    <3>2. r[i + 1] = s[i]
      BY <1>1, <3>1
    <3> QED
      BY <3>1, <3>2 DEF Listed
  <2>3. x \in Listed(r)
    <3>1. 1 \in 1..Len(r)
      BY <1>1
    <3> QED
      BY <1>1, <3>1 DEF Listed
  <2>4. \A z \in Listed(r) : z \in Listed(s) \cup {x}
    BY <2>1 DEF Listed
  <2>5. \A z \in Listed(s) : z \in Listed(r)
    BY <2>2 DEF Listed
  <2> QED
    BY <2>3, <2>4, <2>5
<1> QED
  BY <1>1, <1>4, <1>5 DEF r

LEMMA CutFacts ==
  ASSUME NEW s \in Seq(Items), Distinct(s), NEW c \in 0..Len(s)
  PROVE  /\ SubSeq(s, 1, c) \in Seq(Items) /\ Distinct(SubSeq(s, 1, c)) /\ Len(SubSeq(s, 1, c)) = c
         /\ Listed(SubSeq(s, 1, c)) = Listed(s) \ {s[i] : i \in (c + 1)..Len(s)}
<1> DEFINE r == SubSeq(s, 1, c)
<1>1. r \in Seq(Items) /\ Len(s) \in Nat /\ Len(r) = c /\ \A i \in 1..c : i \in 1..Len(s) /\ r[i] = s[i]
  OBVIOUS
<1> HIDE DEF r
<1>2. Distinct(r)
  BY <1>1 DEF Distinct
<1>3. Listed(r) = Listed(s) \ {s[i] : i \in (c + 1)..Len(s)}
  <2>1. ASSUME NEW i \in 1..c, NEW j \in (c + 1)..Len(s) PROVE s[i] # s[j]
    <3>1. i \in 1..Len(s) /\ j \in 1..Len(s) /\ i # j
      BY <1>1
    <3> QED
      BY <3>1 DEF Distinct
  <2>2. \A i \in 1..Len(s) : i \in 1..c \/ i \in (c + 1)..Len(s)
    BY <1>1
  <2> QED
    BY <1>1, <2>1, <2>2 DEF Listed
<1> QED
  BY <1>1, <1>2, <1>3 DEF r

LEMMA RestFacts ==
  ASSUME NEW s \in Seq(Items), Distinct(s), NEW P \in SUBSET (1..Len(s)), NEW at \in Ascending(P)
  PROVE  /\ [i \in DOMAIN at |-> s[at[i]]] \in Seq(Items)
         /\ Distinct([i \in DOMAIN at |-> s[at[i]]])
         /\ Listed([i \in DOMAIN at |-> s[at[i]]]) = {s[i] : i \in P}
<1> DEFINE n == Cardinality(P)
           r == [i \in DOMAIN at |-> s[at[i]]]
<1>1. Len(s) \in Nat /\ \A i \in 1..Len(s) : s[i] \in Items
  OBVIOUS
<1>2. IsFiniteSet(P) /\ n \in Nat
  <2>1. IsFiniteSet(1..Len(s))
    BY <1>1, FS_Interval
  <2>2. IsFiniteSet(P)
    BY <2>1, FS_Subset
  <2> QED
    BY <2>2, FS_CardinalityType
<1>3. at \in [1..n -> P] /\ \A i, j \in 1..n : i < j => at[i] < at[j]
  BY DEF Ascending
<1> HIDE DEF n
<1>4. \A i, j \in 1..n : at[i] = at[j] => i = j
  <2> SUFFICES ASSUME NEW i \in 1..n, NEW j \in 1..n, at[i] = at[j], i # j PROVE FALSE
    OBVIOUS
  <2>0. at[i] \in P /\ at[j] \in P
    BY <1>3
  <2>1. at[i] \in Nat /\ at[j] \in Nat
    <3>1. at[i] \in 1..Len(s) /\ at[j] \in 1..Len(s)
      BY <2>0
    <3> QED
      BY <3>1
  <2>2. i < j \/ j < i
    BY <1>2
  <2> QED
    BY <1>3, <2>1, <2>2
<1>5. \A a \in P : \E i \in 1..n : at[i] = a
  <2>1. at \in Injection(1..n, P)
    BY <1>3, <1>4 DEF Injection, IsInjective
  <2>2. Cardinality(1..n) = n
    BY <1>2, FS_Interval
  <2>3. at \in Surjection(1..n, P)
    BY <1>2, <2>1, <2>2, FS_Injection DEF n
  <2> QED
    BY <2>3 DEF Surjection
<1>6. r \in Seq(Items) /\ Len(r) = n /\ \A i \in 1..n : r[i] = s[at[i]]
  <2>1. DOMAIN at = 1..n
    BY <1>3
  <2>2. \A i \in 1..n : s[at[i]] \in Items
    BY <1>1, <1>3
  <2> QED
    BY <1>2, <2>1, <2>2
<1> HIDE DEF r
<1>7. \A i \in 1..n : at[i] \in P /\ at[i] \in 1..Len(s)
  <2>1. \A i \in 1..n : at[i] \in P
    BY <1>3
  <2> QED
    BY <2>1
<1>8. Distinct(r)
  <2>1. ASSUME NEW i \in 1..n, NEW j \in 1..n, r[i].key = r[j].key PROVE i = j
    <3>1. s[at[i]].key = s[at[j]].key
      BY <1>6, <2>1
    <3>2. at[i] = at[j]
      BY <1>7, <3>1 DEF Distinct
    <3> QED
      BY <1>4, <3>2
  <2> QED
    BY <1>6, <2>1 DEF Distinct
<1>9. Listed(r) = {s[i] : i \in P}
  <2>1. Listed(r) = {s[at[i]] : i \in 1..n}
    BY <1>6 DEF Listed
  <2>2. \A i \in 1..n : s[at[i]] \in {s[a] : a \in P}
    BY <1>7
  <2>3. \A a \in P : s[a] \in {s[at[i]] : i \in 1..n}
    BY <1>5
  <2> QED
    BY <2>1, <2>2, <2>3
<1> QED
  BY <1>6, <1>8, <1>9 DEF r

LEMMA CountListed ==
  ASSUME NEW s \in Seq(Items), Distinct(s)
  PROVE  IsFiniteSet(KeysOf(Listed(s))) /\ Cardinality(KeysOf(Listed(s))) = Len(s)
<1> DEFINE f == [i \in 1..Len(s) |-> s[i].key]
<1>1. Len(s) \in Nat
  OBVIOUS
<1>2. KeysOf(Listed(s)) = {f[i] : i \in 1..Len(s)}
  BY DEF KeysOf, Listed
<1>3. f \in Bijection(1..Len(s), KeysOf(Listed(s)))
  <2>1. \A i, j \in 1..Len(s) : f[i] = f[j] => i = j
    BY DEF Distinct
  <2>2. f \in [1..Len(s) -> KeysOf(Listed(s))]
    BY <1>2
  <2> HIDE DEF f
  <2> QED
    BY <1>2, <2>1, <2>2 DEF Bijection, Injection, Surjection, IsInjective
<1>4. IsFiniteSet(1..Len(s)) /\ Cardinality(1..Len(s)) = Len(s)
  BY <1>1, FS_Interval
<1>5. ExistsBijection(1..Len(s), KeysOf(Listed(s)))
  BY <1>3 DEF ExistsBijection
<1> QED
  BY <1>4, <1>5, FS_Bijection

-----------------------------------------------------------------------------
(* List, index and set of expiry are about the same items.                 *)
LruInv ==
    /\ lruKeys \in Seq(Items) /\ Distinct(lruKeys)
    /\ lruIndex = KeysOf(Listed(lruKeys))
    /\ lruTimed = StampsOf(Listed(lruKeys))
    /\ ~Map!Crowded(Len(lruKeys))

LEMMA ListedFacts ==
  ASSUME LruInv
  PROVE  /\ \A i, j \in Listed(lruKeys) : i.key = j.key => i = j
         /\ Listed(lruKeys) \subseteq Items
         /\ \A k \in lruIndex :
               /\ Position(k) \in 1..Len(lruKeys) /\ lruKeys[Position(k)].key = k
               /\ lruKeys[Position(k)] \in Listed(lruKeys)
               /\ Stamp(Position(k)) = <<lruKeys[Position(k)].ts, k>>
         /\ lruIndex \subseteq Keys
<1>1. lruKeys \in Seq(Items) /\ Distinct(lruKeys) /\ lruIndex = KeysOf(Listed(lruKeys))
  BY DEF LruInv
<1>2. \A i, j \in Listed(lruKeys) : i.key = j.key => i = j
  BY <1>1 DEF Listed, Distinct
<1>3. Listed(lruKeys) \subseteq Items
  BY <1>1 DEF Listed
<1>4. ASSUME NEW k \in lruIndex
      PROVE  /\ Position(k) \in 1..Len(lruKeys) /\ lruKeys[Position(k)].key = k
             /\ lruKeys[Position(k)] \in Listed(lruKeys)
             /\ Stamp(Position(k)) = <<lruKeys[Position(k)].ts, k>>
  <2>1. \E i \in 1..Len(lruKeys) : lruKeys[i].key = k
    BY <1>1 DEF KeysOf, Listed
  <2>2. Position(k) \in 1..Len(lruKeys) /\ lruKeys[Position(k)].key = k
    BY <2>1 DEF Position
  <2> QED
    BY <2>2 DEF Listed, Stamp
<1>5. lruIndex \subseteq Keys
  BY <1>1, <1>3 DEF KeysOf, Items
<1> QED
  BY <1>2, <1>3, <1>4, <1>5

LEMMA ItemFacts ==
  ASSUME NEW k \in Keys, NEW v \in Vals, NEW t \in Times
  PROVE  /\ Item(k, v, t) \in Items /\ Item(k, v, t).key = k
         /\ Item(k, v, t).val = v /\ Item(k, v, t).ts = t
  BY DEF Item, Items

(* Entries by key depend on the items only.                                *)
EntriesFit ==
    /\ LruEntries = [k \in lruIndex |-> LruEntries[k]]
    /\ DOMAIN LruEntries = lruIndex
    /\ \A i \in Listed(lruKeys) : LruEntries[i.key] = [val |-> i.val, ts |-> i.ts]

LEMMA EntriesOf == LruInv => EntriesFit
<1> SUFFICES ASSUME LruInv PROVE EntriesFit
  OBVIOUS
<1>1. LruEntries = [k \in lruIndex |-> LruEntries[k]] /\ DOMAIN LruEntries = lruIndex
  BY DEF LruEntries
<1>2. ASSUME NEW i \in Listed(lruKeys)
      PROVE  LruEntries[i.key] = [val |-> i.val, ts |-> i.ts]
  <2>1. i.key \in lruIndex
    BY DEF LruInv, KeysOf
  <2>2. lruKeys[Position(i.key)] = i
    BY <2>1, ListedFacts
  <2> QED
    BY <2>1, <2>2 DEF LruEntries
<1> QED
  BY <1>1, <1>2 DEF EntriesFit

(* The item of a key that is taken out of the list, and what is left.      *)
LEMMA TakeOut ==
  ASSUME LruInv, NEW k \in lruIndex, NEW old, old = lruKeys[Position(k)]
  PROVE  /\ old \in Listed(lruKeys) /\ old.key = k /\ old \in Items
         /\ Erased(lruKeys, Position(k)) \in Seq(Items)
         /\ Distinct(Erased(lruKeys, Position(k)))
         /\ Listed(Erased(lruKeys, Position(k))) = Listed(lruKeys) \ {old}
         /\ k \notin KeysOf(Listed(lruKeys) \ {old})
         /\ lruIndex \ {k} = KeysOf(Listed(lruKeys) \ {old})
         /\ lruTimed \ {Stamp(Position(k))} = StampsOf(Listed(lruKeys) \ {old})
<1>1. lruKeys \in Seq(Items) /\ Distinct(lruKeys)
  BY DEF LruInv
<1>2. /\ Position(k) \in 1..Len(lruKeys) /\ old.key = k /\ old \in Listed(lruKeys)
      /\ old \in Items /\ Stamp(Position(k)) = <<old.ts, k>>
  BY ListedFacts
<1>3. \A i \in Listed(lruKeys) : i.key = k => i = old
  BY <1>2, ListedFacts
<1>4. lruIndex = {i.key : i \in Listed(lruKeys)} /\ lruTimed = {<<i.ts, i.key>> : i \in Listed(lruKeys)}
  BY DEF LruInv, KeysOf, StampsOf
<1>5. lruIndex \ {k} = KeysOf(Listed(lruKeys) \ {old}) /\ k \notin KeysOf(Listed(lruKeys) \ {old})
  BY <1>2, <1>3, <1>4 DEF KeysOf
<1>6. lruTimed \ {<<old.ts, k>>} = StampsOf(Listed(lruKeys) \ {old})
  <2>1. \A i \in Listed(lruKeys) : <<i.ts, i.key>> = <<old.ts, k>> <=> i = old
    BY <1>2, <1>3
  <2> QED
    BY <1>4, <2>1 DEF StampsOf
<1>7. /\ Erased(lruKeys, Position(k)) \in Seq(Items)
      /\ Distinct(Erased(lruKeys, Position(k)))
      /\ Listed(Erased(lruKeys, Position(k))) = Listed(lruKeys) \ {old}
  BY <1>1, <1>2, ErasedFacts
<1> QED
  BY <1>2, <1>5, <1>6, <1>7

LEMMA AddedTo ==
  ASSUME NEW L, NEW x
  PROVE  /\ KeysOf(L \cup {x}) = KeysOf(L) \cup {x.key}
         /\ StampsOf(L \cup {x}) = StampsOf(L) \cup {<<x.ts, x.key>>}
  BY DEF KeysOf, StampsOf

(* The item of a key is taken out and put in front, or one in its place.   *)
LEMMA Replaced ==
  ASSUME LruInv, NEW k \in lruIndex, NEW put \in Items, put.key = k,
         lruKeys' = <<put>> \o Erased(lruKeys, Position(k)),
         lruIndex' = lruIndex,
         lruTimed' = (lruTimed \ {Stamp(Position(k))}) \cup {<<put.ts, k>>}
  PROVE  /\ LruInv'
         /\ put \in Listed(lruKeys')
         /\ \A i \in Listed(lruKeys) : i.key # k => i \in Listed(lruKeys')
<1>1. PICK old, rest : old = lruKeys[Position(k)] /\ rest = Erased(lruKeys, Position(k))
  OBVIOUS
<1>2. /\ rest \in Seq(Items) /\ Distinct(rest) /\ Listed(rest) = Listed(lruKeys) \ {old}
      /\ old \in Listed(lruKeys) /\ old.key = k
      /\ k \notin KeysOf(Listed(lruKeys) \ {old})
      /\ lruIndex \ {k} = KeysOf(Listed(lruKeys) \ {old})
      /\ lruTimed \ {Stamp(Position(k))} = StampsOf(Listed(lruKeys) \ {old})
  BY <1>1, TakeOut
<1>3. /\ lruKeys' \in Seq(Items) /\ Distinct(lruKeys')
      /\ Listed(lruKeys') = Listed(rest) \cup {put}
  BY <1>1, <1>2, PushFacts
<1>4. lruIndex' = KeysOf(Listed(lruKeys'))
  <2>1. lruIndex' = (lruIndex \ {k}) \cup {k}
    OBVIOUS
  <2>2. KeysOf(Listed(rest) \cup {put}) = KeysOf(Listed(rest)) \cup {put.key}
    BY AddedTo
  <2> QED
    BY <1>2, <1>3, <2>1, <2>2
<1>5. lruTimed' = StampsOf(Listed(lruKeys'))
  <2>1. StampsOf(Listed(rest) \cup {put}) = StampsOf(Listed(rest)) \cup {<<put.ts, put.key>>}
    BY AddedTo
  <2> QED
    BY <1>2, <1>3, <2>1
<1>6. Len(lruKeys') = Len(lruKeys)
  <2>1. Cardinality(KeysOf(Listed(lruKeys))) = Len(lruKeys)
    BY CountListed DEF LruInv
  <2>2. Cardinality(KeysOf(Listed(lruKeys'))) = Len(lruKeys')
    <3>1. PICK s : s = lruKeys'
      OBVIOUS
    <3>2. Cardinality(KeysOf(Listed(s))) = Len(s)
      BY <1>3, <3>1, CountListed
    <3> QED
      BY <3>1, <3>2
  <2> QED
    BY <1>4, <2>1, <2>2 DEF LruInv
<1>7. \A i \in Listed(lruKeys) : i.key # k => i \in Listed(lruKeys')
  BY <1>2, <1>3
<1>8. put \in Listed(lruKeys')
  BY <1>3
<1>9. ~Map!Crowded(Len(lruKeys'))
  BY <1>6 DEF LruInv
<1> QED
  BY <1>3, <1>4, <1>5, <1>7, <1>8, <1>9, Zenon DEF LruInv

LEMMA SameCardinality ==
  ASSUME NEW S
  PROVE  Map!Cardinality(S) = Cardinality(S)
  BY Zenon DEF Cardinality, Map!Cardinality

(* A set() of the cache is a Set of the map, by the items before and after.*)
LEMMA SetsEntry ==
  ASSUME LruInv, LruInv', NEW k \in Keys, NEW v \in Vals, NEW t \in Times,
         called' = <<"set", k, v, t>>,
         NEW evicted \in SUBSET (lruIndex \ {k}),
         lruIndex' = (lruIndex \cup {k}) \ evicted,
         Item(k, v, t) \in Listed(lruKeys'),
         \A i \in Listed(lruKeys) : i.key # k /\ i.key \notin evicted => i \in Listed(lruKeys'),
         evicted # {} <=> Map!Crowded(Cardinality(lruIndex \cup {k})),
         evicted # {} => Cardinality(lruIndex') = MaxSize
  PROVE  Map!Next
<1>0. EntriesFit /\ EntriesFit'
  BY EntriesOf, PTL
<1>1. /\ LruEntries' = [j \in lruIndex' |-> LruEntries'[j]]
      /\ \A i \in Listed(lruKeys') : LruEntries'[i.key] = [val |-> i.val, ts |-> i.ts]
  BY <1>0 DEF EntriesFit
<1>2. DOMAIN LruEntries = lruIndex
  BY <1>0 DEF EntriesFit
<1>3. LruEntries'[k] = [val |-> v, ts |-> t]
  BY <1>1, ItemFacts
<1>4. ASSUME NEW j \in lruIndex', j # k PROVE LruEntries'[j] = LruEntries[j]
  <2>1. j \in lruIndex /\ j \notin evicted
    BY <1>4
  <2>2. PICK i \in Listed(lruKeys) : i.key = j
    BY <2>1 DEF LruInv, KeysOf
  <2>3. i \in Listed(lruKeys')
    BY <1>4, <2>1, <2>2
  <2> QED
    BY <1>0, <1>1, <2>2, <2>3 DEF EntriesFit
<1>5. LruEntries' = [j \in (lruIndex \cup {k}) \ evicted |->
                       IF j = k THEN [val |-> v, ts |-> t] ELSE LruEntries[j]]
  BY <1>1, <1>3, <1>4
<1>6. Map!Set(k, v, t, evicted)
  <2>1. PICK keys : keys = (DOMAIN LruEntries \cup {k}) \ evicted
    OBVIOUS
  <2>2. keys = lruIndex' /\ DOMAIN LruEntries \cup {k} = lruIndex \cup {k}
    BY <1>2, <2>1
  <2>3. evicted # {} => Cardinality(keys) = MaxSize
    BY <2>2
  <2>4. evicted # {} <=> Map!Crowded(Cardinality(DOMAIN LruEntries \cup {k}))
    BY <2>2
  <2>5. LruEntries' = [j \in keys |-> IF j = k THEN [val |-> v, ts |-> t] ELSE LruEntries[j]]
    BY <1>2, <1>5, <2>1
  <2> QED
    BY <2>1, <2>3, <2>4, <2>5, SameCardinality, Zenon DEF Map!Set
<1> QED
  BY <1>2, <1>6 DEF Map!Next

(* Items go, and nothing else changes.                                     *)
LEMMA LosesItems ==
  ASSUME LruInv, LruInv', NEW S \in SUBSET Keys, lruIndex' = lruIndex \cap S,
         Listed(lruKeys') \subseteq Listed(lruKeys)
  PROVE  LruEntries' = [j \in lruIndex \cap S |-> LruEntries[j]]
<1>0. EntriesFit /\ EntriesFit'
  BY EntriesOf, PTL
<1>1. /\ LruEntries' = [j \in lruIndex' |-> LruEntries'[j]]
      /\ \A i \in Listed(lruKeys') : LruEntries'[i.key] = [val |-> i.val, ts |-> i.ts]
  BY <1>0 DEF EntriesFit
<1>2. ASSUME NEW j \in lruIndex' PROVE LruEntries'[j] = LruEntries[j]
  <2>1. lruIndex' = KeysOf(Listed(lruKeys'))
    BY DEF LruInv
  <2>2. PICK i \in Listed(lruKeys') : i.key = j
    BY <2>1 DEF KeysOf
  <2> QED
    BY <1>0, <1>1, <2>2 DEF EntriesFit
<1> QED
  BY <1>1, <1>2

LEMMA LruResetStep ==
  ASSUME LruInv, NEW k \in Keys, NEW v \in Vals, NEW t \in Times, LruReset(k, v, t),
         Calls(<<"set", k, v, t>>)
  PROVE  LruInv' /\ Map!Next
<1>1. PICK put : put = Item(k, v, t)
  OBVIOUS
<1>2. put \in Items /\ put.key = k /\ put.ts = t
  BY <1>1, ItemFacts
<1>3. /\ k \in lruIndex /\ lruKeys' = <<put>> \o Erased(lruKeys, Position(k))
      /\ lruTimed' = (lruTimed \ {Stamp(Position(k))}) \cup {<<put.ts, k>>}
      /\ lruIndex' = lruIndex
  BY <1>1, <1>2 DEF LruReset, Spliced
<1>4. /\ LruInv' /\ put \in Listed(lruKeys')
      /\ \A i \in Listed(lruKeys) : i.key # k => i \in Listed(lruKeys')
  BY <1>2, <1>3, Replaced
<1>5. lruIndex \cup {k} = lruIndex /\ Cardinality(lruIndex) = Len(lruKeys)
  <2>1. Cardinality(KeysOf(Listed(lruKeys))) = Len(lruKeys)
    BY CountListed DEF LruInv
  <2> QED
    BY <1>3, <2>1 DEF LruInv
<1>6. ~Map!Crowded(Cardinality(lruIndex \cup {k}))
  BY <1>5 DEF LruInv
<1>7. Map!Next
  <2>1. PICK evicted \in SUBSET (lruIndex \ {k}) : evicted = {}
    OBVIOUS
  <2> QED
    <3>1. called' = <<"set", k, v, t>>
      BY DEF Calls
    <3>2. lruIndex' = (lruIndex \cup {k}) \ evicted
      BY <1>3, <2>1
    <3>3. Item(k, v, t) \in Listed(lruKeys')
      BY <1>1, <1>4
    <3>4. \A i \in Listed(lruKeys) : i.key # k /\ i.key \notin evicted => i \in Listed(lruKeys')
      BY <1>4
    <3>5. evicted # {} <=> Map!Crowded(Cardinality(lruIndex \cup {k}))
      BY <1>6, <2>1
    <3>6. evicted # {} => Cardinality(lruIndex') = MaxSize
      BY <2>1
    <3> QED
      BY <1>4, <3>1, <3>2, <3>3, <3>4, <3>5, <3>6, SetsEntry
<1> QED
  BY <1>4, <1>7

LEMMA LruGetStep ==
  ASSUME LruInv, NEW k \in Keys, LruGet(k), Calls(<<"get", k>>)
  PROVE  LruInv' /\ Map!Next
<1>1. PICK old : old = lruKeys[Position(k)]
  OBVIOUS
<1>2. k \in lruIndex /\ UNCHANGED <<lruIndex, lruTimed>>
  BY DEF LruGet
<1>3. /\ old \in Listed(lruKeys) /\ old.key = k /\ old \in Items
      /\ Stamp(Position(k)) = <<old.ts, k>>
  BY <1>1, <1>2, ListedFacts
<1>4. <<old.ts, k>> \in lruTimed
  BY <1>3 DEF LruInv, StampsOf
<1>5. /\ lruKeys' = <<old>> \o Erased(lruKeys, Position(k))
      /\ lruTimed' = (lruTimed \ {Stamp(Position(k))}) \cup {<<old.ts, k>>}
  BY <1>1, <1>2, <1>3, <1>4 DEF LruGet, Spliced
<1>6. /\ LruInv' /\ old \in Listed(lruKeys')
      /\ \A i \in Listed(lruKeys) : i.key # k => i \in Listed(lruKeys')
  BY <1>2, <1>3, <1>5, Replaced
<1>7. \A i \in Listed(lruKeys) : i \in Listed(lruKeys')
  BY <1>3, <1>6, ListedFacts
<1>8. LruEntries' = LruEntries
  <2>0. EntriesFit /\ EntriesFit'
    BY <1>6, EntriesOf, PTL
  <2>1. /\ LruEntries' = [j \in lruIndex' |-> LruEntries'[j]]
        /\ \A i \in Listed(lruKeys') : LruEntries'[i.key] = [val |-> i.val, ts |-> i.ts]
    BY <2>0 DEF EntriesFit
  <2>2. ASSUME NEW j \in lruIndex PROVE LruEntries'[j] = LruEntries[j]
    <3>1. PICK i \in Listed(lruKeys) : i.key = j
      BY DEF LruInv, KeysOf
    <3> QED
      BY <1>7, <2>0, <2>1, <3>1 DEF EntriesFit
  <2>3. LruEntries = [j \in lruIndex |-> LruEntries[j]]
    BY <2>0 DEF EntriesFit
  <2> QED
    BY <1>2, <2>1, <2>2, <2>3
<1>9. Map!Next
  BY <1>8 DEF Map!Next, Map!Get, Calls
<1> QED
  BY <1>6, <1>9

(* The items that are listed change to some of them.                       *)
LEMMA Fewer ==
  ASSUME LruInv, NEW L \in SUBSET Listed(lruKeys),
         lruKeys' \in Seq(Items), Distinct(lruKeys'), Listed(lruKeys') = L,
         lruIndex' = KeysOf(L), lruTimed' = StampsOf(L)
  PROVE  LruInv'
<1>1. PICK s : s = lruKeys'
  OBVIOUS
<1>2. Cardinality(KeysOf(L)) = Len(s)
  BY <1>1, CountListed
<1>3. IsFiniteSet(KeysOf(Listed(lruKeys))) /\ Cardinality(KeysOf(Listed(lruKeys))) = Len(lruKeys)
  BY CountListed DEF LruInv
<1>4. KeysOf(L) \subseteq KeysOf(Listed(lruKeys))
  BY DEF KeysOf
<1>5. Len(s) <= Len(lruKeys)
  BY <1>2, <1>3, <1>4, FS_Subset
<1>6. Len(s) \in Nat /\ Len(lruKeys) \in Nat
  BY <1>1 DEF LruInv
<1>7. ~Map!Crowded(Len(lruKeys'))
  <2>1. ~Map!Crowded(Len(lruKeys))
    BY DEF LruInv
  <2> QED
    BY <1>1, <1>5, <1>6, <2>1, CacheAssumption DEF Map!Crowded
<1> QED
  BY <1>7 DEF LruInv

LEMMA LruDelStep ==
  ASSUME LruInv, NEW k \in Keys, LruDel(k), Calls(<<"del", k>>)
  PROVE  LruInv' /\ Map!Next
<1>1. PICK old, rest : old = lruKeys[Position(k)] /\ rest = Erased(lruKeys, Position(k))
  OBVIOUS
<1>2. /\ k \in lruIndex /\ lruKeys' = rest
      /\ lruTimed' = lruTimed \ {Stamp(Position(k))} /\ lruIndex' = lruIndex \ {k}
  BY <1>1 DEF LruDel
<1>3. PICK L : L = Listed(lruKeys) \ {old}
  OBVIOUS
<1>4. /\ rest \in Seq(Items) /\ Distinct(rest) /\ Listed(rest) = L
      /\ lruIndex \ {k} = KeysOf(L)
      /\ lruTimed \ {Stamp(Position(k))} = StampsOf(L)
  BY <1>1, <1>2, <1>3, TakeOut
<1>5. LruInv'
  BY <1>2, <1>3, <1>4, Fewer
<1>6. LruEntries' = [j \in lruIndex \cap (Keys \ {k}) |-> LruEntries[j]]
  <2>1. lruIndex \subseteq Keys
    BY ListedFacts
  <2>2. lruIndex' = lruIndex \cap (Keys \ {k})
    BY <1>2, <2>1
  <2> QED
    BY <1>2, <1>3, <1>4, <1>5, <2>2, LosesItems
<1>7. lruIndex \cap (Keys \ {k}) = DOMAIN LruEntries \ {k}
  <2>1. lruIndex \subseteq Keys
    BY ListedFacts
  <2>2. DOMAIN LruEntries = lruIndex
    BY DEF LruEntries
  <2> QED
    BY <2>1, <2>2
<1>8. Map!Del(k)
  BY <1>6, <1>7 DEF Map!Del, Map!Only, Calls
<1> QED
  BY <1>5, <1>8 DEF Map!Next

LEMMA LruClearStep ==
  ASSUME LruInv, LruClear, Calls(<<"clear">>)
  PROVE  LruInv' /\ Map!Next
<1>1. lruKeys' = <<>> /\ lruIndex' = {} /\ lruTimed' = {}
  BY DEF LruClear
<1>2. PICK L : L = {}
  OBVIOUS
<1>3. /\ L \in SUBSET Listed(lruKeys) /\ lruKeys' \in Seq(Items) /\ Distinct(lruKeys')
      /\ Listed(lruKeys') = L /\ KeysOf(L) = {} /\ StampsOf(L) = {}
  BY <1>1, <1>2 DEF Distinct, Listed, KeysOf, StampsOf
<1>4. LruInv'
  BY <1>1, <1>3, Fewer
<1>5. LruEntries' = [j \in {} |-> LruEntries[j]]
  BY <1>1 DEF LruEntries
<1>6. Map!Clear
  BY <1>5 DEF Map!Clear, Map!Only, Calls
<1> QED
  BY <1>4, <1>6 DEF Map!Next

LEMMA LruCheckTimeoutStep ==
  ASSUME LruInv, NEW t \in Times, LruCheckTimeout(t), Calls(<<"checkTimeout", t>>)
  PROVE  LruInv' /\ Map!Next
<1> DEFINE L == Listed(lruKeys)
<1>1. PICK out, keys, stay :
         /\ out = {p \in lruTimed : p[1] <= t}
         /\ keys = {p[2] : p \in out}
         /\ stay = {i \in 1..Len(lruKeys) : lruKeys[i].key \notin keys}
  OBVIOUS
<1>2. /\ \E at \in Ascending(stay) : lruKeys' = [i \in DOMAIN at |-> lruKeys[at[i]]]
      /\ lruIndex' = lruIndex \ keys
      /\ lruTimed' = lruTimed \ out
  BY <1>1, Zenon DEF LruCheckTimeout
<1>3. lruKeys \in Seq(Items) /\ Distinct(lruKeys) /\ lruIndex = KeysOf(L) /\ lruTimed = StampsOf(L)
  BY DEF LruInv
<1>4. /\ \A i, j \in L : i.key = j.key => i = j
      /\ \A i \in L : i.ts \in Nat /\ i.key \in Keys /\ t \in Nat
  BY ListedFacts, CacheAssumption DEF Items
<1> DEFINE M == {i \in L : ~(i.ts <= t)}
<1>5. keys = {i.key : i \in {j \in L : j.ts <= t}}
  <2>1. \A p \in out : \E i \in L : p = <<i.ts, i.key>> /\ i.ts <= t
    BY <1>1, <1>3 DEF StampsOf
  <2>2. \A i \in L : i.ts <= t => <<i.ts, i.key>> \in out
    BY <1>1, <1>3 DEF StampsOf
  <2> HIDE DEF L
  <2>3. \A p \in out : p[2] \in {i.key : i \in {j \in L : j.ts <= t}}
    BY <2>1
  <2>4. \A i \in L : i.ts <= t => \E p \in out : p[2] = i.key
    BY <2>2
  <2> QED
    BY <1>1, <2>3, <2>4
<1>6. \A i \in L : i.key \in keys <=> i.ts <= t
  BY <1>4, <1>5
<1>7. lruIndex \ keys = KeysOf(M)
  BY <1>3, <1>6 DEF KeysOf
<1>8. lruTimed \ out = StampsOf(M)
  BY <1>1, <1>3 DEF StampsOf
<1>9. lruKeys' \in Seq(Items) /\ Distinct(lruKeys') /\ Listed(lruKeys') = M
  <2>1. PICK at \in Ascending(stay) : lruKeys' = [i \in DOMAIN at |-> lruKeys[at[i]]]
    BY <1>2
  <2>2. stay \in SUBSET (1..Len(lruKeys))
    BY <1>1
  <2>3. /\ lruKeys' \in Seq(Items) /\ Distinct(lruKeys')
        /\ Listed(lruKeys') = {lruKeys[i] : i \in stay}
    BY <1>3, <2>1, <2>2, RestFacts
  <2>4. {lruKeys[i] : i \in stay} = M
    BY <1>1, <1>6 DEF Listed
  <2> QED
    BY <2>3, <2>4
<1> HIDE DEF M
<1>10. M \in SUBSET Listed(lruKeys)
  BY DEF M
<1>11. LruInv'
  BY <1>2, <1>7, <1>8, <1>9, <1>10, Fewer
<1>12. LruEntries' = [j \in lruIndex \cap (Keys \ keys) |-> LruEntries[j]]
  <2>1. lruIndex \subseteq Keys
    BY <1>3, <1>4 DEF KeysOf
  <2>2. lruIndex' = lruIndex \cap (Keys \ keys)
    BY <1>2, <2>1
  <2> QED
    BY <1>9, <1>10, <1>11, <2>2, LosesItems
<1>13. lruIndex \cap (Keys \ keys) = {k \in DOMAIN LruEntries : LruEntries[k].ts > t}
  <2>1. lruIndex \subseteq Keys
    BY <1>3, <1>4 DEF KeysOf
  <2>2. EntriesFit
    BY EntriesOf
  <2>3. ASSUME NEW k \in lruIndex PROVE k \notin keys <=> LruEntries[k].ts > t
    <3>1. PICK i \in L : i.key = k
      BY <1>3 DEF KeysOf
    <3>2. LruEntries[k].ts = i.ts
      <4>1. LruEntries[i.key] = [val |-> i.val, ts |-> i.ts]
        BY <2>2, <3>1 DEF EntriesFit
      <4>2. [val |-> i.val, ts |-> i.ts].ts = i.ts
        OBVIOUS
      <4> QED
        BY <3>1, <4>1, <4>2
    <3> QED
      BY <1>4, <1>6, <3>1, <3>2
  <2> QED
    BY <2>1, <2>2, <2>3 DEF EntriesFit
<1>14. Map!CheckTimeout(t)
  BY <1>12, <1>13 DEF Map!CheckTimeout, Map!Only, Calls
<1> QED
  BY <1>11, <1>14 DEF Map!Next

(* How much prune() leaves of a list of n items.                           *)
LEMMA CutTo ==
  ASSUME NEW n \in Nat \ {0}, NEW c, c = n - Excess(n)
  PROVE  /\ c \in 1..n /\ ~Map!Crowded(c)
         /\ c < n <=> Map!Crowded(n)
         /\ c < n => c = MaxSize
<1>1. CASE MaxSize = 0 \/ n < MaxSize + Elasticity
  BY <1>1, CacheAssumption DEF Excess, Map!Crowded
<1>2. CASE ~(MaxSize = 0 \/ n < MaxSize + Elasticity)
  <2>1. c = MaxSize /\ MaxSize > 0 /\ n >= MaxSize + Elasticity
    BY <1>2, CacheAssumption DEF Excess
  <2> QED
    BY <2>1, CacheAssumption DEF Map!Crowded
<1> QED
  BY <1>1, <1>2

LEMMA LruAddStep ==
  ASSUME LruInv, NEW k \in Keys, NEW v \in Vals, NEW t \in Times, LruAdd(k, v, t),
         Calls(<<"set", k, v, t>>)
  PROVE  LruInv' /\ Map!Next
<1>1. PICK put, all, cut, out, gone :
         /\ put = Item(k, v, t) /\ all = <<put>> \o lruKeys
         /\ cut = Len(all) - Excess(Cardinality(lruIndex) + 1)
         /\ out = {all[i] : i \in (cut + 1)..Len(all)}
         /\ gone = {i.key : i \in out}
  OBVIOUS
<1>2. /\ k \notin lruIndex
      /\ lruKeys' = SubSeq(all, 1, cut)
      /\ lruIndex' = (lruIndex \cup {k}) \ gone
      /\ lruTimed' = (lruTimed \cup {<<t, k>>}) \ {<<i.ts, i.key>> : i \in out}
  BY <1>1 DEF LruAdd
<1>3. put \in Items /\ put.key = k /\ put.ts = t
  BY <1>1, ItemFacts
<1>4. /\ lruKeys \in Seq(Items) /\ Distinct(lruKeys) /\ lruIndex = KeysOf(Listed(lruKeys))
      /\ lruTimed = StampsOf(Listed(lruKeys))
  BY DEF LruInv
<1>5. /\ all \in Seq(Items) /\ Distinct(all) /\ Len(all) = Len(lruKeys) + 1
      /\ Listed(all) = Listed(lruKeys) \cup {put} /\ all[1] = put
  BY <1>1, <1>2, <1>3, <1>4, PushFacts
<1>6. Cardinality(lruIndex) = Len(lruKeys) /\ Len(lruKeys) \in Nat
  BY <1>4, CountListed
<1>7. /\ cut \in 1..Len(all) /\ ~Map!Crowded(cut)
      /\ cut < Len(all) <=> Map!Crowded(Len(all))
      /\ cut < Len(all) => cut = MaxSize
  <2>1. Len(all) \in Nat \ {0} /\ cut = Len(all) - Excess(Len(all))
    BY <1>1, <1>5, <1>6
  <2> QED
    BY <2>1, CutTo
<1>8. /\ lruKeys' \in Seq(Items) /\ Distinct(lruKeys') /\ Len(lruKeys') = cut
      /\ Listed(lruKeys') = Listed(all) \ out
  <2>1. cut \in 0..Len(all)
    BY <1>7
  <2> QED
    BY <1>1, <1>2, <1>5, <2>1, CutFacts
<1>9. out \subseteq Listed(all) /\ put \notin out
  <2>1. ASSUME NEW i \in (cut + 1)..Len(all) PROVE all[i] \in Listed(all) /\ all[i] # put
    <3>1. i \in 1..Len(all) /\ 1 \in 1..Len(all) /\ i # 1
      BY <1>5, <1>6, <1>7
    <3> QED
      BY <1>5, <3>1 DEF Listed, Distinct
  <2> QED
    BY <1>1, <2>1
<1>10. \A i, j \in Listed(all) : i.key = j.key => i = j
  BY <1>5 DEF Listed, Distinct
<1>11. KeysOf(Listed(all)) = lruIndex \cup {k} /\ StampsOf(Listed(all)) = lruTimed \cup {<<t, k>>}
  <2>1. KeysOf(Listed(lruKeys) \cup {put}) = KeysOf(Listed(lruKeys)) \cup {put.key}
    BY AddedTo
  <2>2. StampsOf(Listed(lruKeys) \cup {put}) = StampsOf(Listed(lruKeys)) \cup {<<put.ts, put.key>>}
    BY AddedTo
  <2>3. KeysOf(Listed(all)) = lruIndex \cup {k}
    BY <1>3, <1>4, <1>5, <2>1
  <2>4. StampsOf(Listed(all)) = lruTimed \cup {<<t, k>>}
    BY <1>3, <1>4, <1>5, <2>2
  <2> QED
    BY <2>3, <2>4
<1>12. lruIndex' = KeysOf(Listed(lruKeys'))
  <2>1. ASSUME NEW i \in Listed(all) PROVE i.key \in gone <=> i \in out
    <3>1. gone = {j.key : j \in out}
      BY <1>1
    <3>2. ASSUME NEW j \in out, i.key = j.key PROVE i = j
      BY <1>9, <1>10, <3>2
    <3> QED
      BY <3>1, <3>2
  <2>2. KeysOf(Listed(all)) \ gone = KeysOf(Listed(all) \ out)
    BY <2>1 DEF KeysOf
  <2> QED
    BY <1>2, <1>8, <1>11, <2>2
<1>13. lruTimed' = StampsOf(Listed(lruKeys'))
  <2>1. \A i \in Listed(all) : <<i.ts, i.key>> \in {<<j.ts, j.key>> : j \in out} <=> i \in out
    BY <1>9, <1>10
  <2>2. StampsOf(Listed(all)) \ {<<j.ts, j.key>> : j \in out} = StampsOf(Listed(all) \ out)
    BY <2>1 DEF StampsOf
  <2> QED
    BY <1>2, <1>8, <1>11, <2>2
<1>14. LruInv'
  BY <1>7, <1>8, <1>12, <1>13 DEF LruInv
<1>15. gone \in SUBSET (lruIndex \ {k})
  <2>1. ASSUME NEW i \in out PROVE i.key \in lruIndex /\ i.key # k
    <3>1. i \in Listed(lruKeys)
      BY <1>5, <1>9
    <3> QED
      BY <1>2, <1>4, <3>1 DEF KeysOf
  <2>2. gone = {i.key : i \in out}
    BY <1>1, Zenon
  <2>3. ASSUME NEW g \in gone PROVE g \in lruIndex \ {k}
    <3>1. PICK i \in out : g = i.key
      BY <2>2, Zenon
    <3> QED
      BY <2>1, <3>1, Zenon
  <2> QED
    BY <2>3, Zenon
<1>16. Item(k, v, t) \in Listed(lruKeys')
  BY <1>1, <1>5, <1>8, <1>9
<1>17. \A i \in Listed(lruKeys) : i.key # k /\ i.key \notin gone => i \in Listed(lruKeys')
  BY <1>1, <1>5, <1>8
<1>18. gone # {} <=> cut < Len(all)
  <2>1. gone # {} <=> out # {}
    <3>1. gone = {i.key : i \in out}
      BY <1>1
    <3>2. ASSUME NEW i \in out PROVE i.key \in gone
      BY <3>1
    <3>3. ASSUME NEW g \in gone PROVE out # {}
      BY <3>1
    <3> QED
      BY <3>2, <3>3
  <2>2. out # {} <=> \E i \in (cut + 1)..Len(all) : TRUE
    BY <1>1
  <2>3. (\E i \in (cut + 1)..Len(all) : TRUE) <=> cut < Len(all)
    BY <1>5, <1>6, <1>7
  <2> QED
    BY <2>1, <2>2, <2>3
<1>19. Cardinality(lruIndex \cup {k}) = Len(all)
  <2>1. Cardinality(KeysOf(Listed(all))) = Len(all)
    BY <1>5, CountListed
  <2> QED
    BY <1>11, <2>1
<1>20. Cardinality(lruIndex') = cut
  <2>1. PICK s : s = lruKeys'
    OBVIOUS
  <2>2. Cardinality(KeysOf(Listed(s))) = Len(s)
    BY <1>8, <2>1, CountListed
  <2> QED
    BY <1>8, <1>12, <2>1, <2>2
<1>21. Map!Next
  <2>1. called' = <<"set", k, v, t>>
    BY DEF Calls
  <2>2. gone # {} <=> Map!Crowded(Cardinality(lruIndex \cup {k}))
    BY <1>7, <1>18, <1>19
  <2>3. gone # {} => Cardinality(lruIndex') = MaxSize
    BY <1>7, <1>18, <1>20
  <2> QED
    BY <1>2, <1>14, <1>15, <1>16, <1>17, <2>1, <2>2, <2>3, SetsEntry
<1> QED
  BY <1>14, <1>21

LEMMA LruInvInit == CacheInit => LruInv /\ Map!Init
<1> SUFFICES ASSUME CacheInit PROVE LruInv /\ Map!Init
  OBVIOUS
<1>1. lruKeys = <<>> /\ lruIndex = {} /\ lruTimed = {} /\ called = <<"none">>
  BY DEF CacheInit
<1>2. LruInv
  <2>1. /\ lruKeys \in Seq(Items) /\ Len(lruKeys) = 0 /\ Listed(lruKeys) = {}
        /\ KeysOf({}) = {} /\ StampsOf({}) = {} /\ Distinct(lruKeys)
    BY <1>1 DEF Listed, KeysOf, StampsOf, Distinct
  <2>2. ~Map!Crowded(Len(lruKeys))
    <3>1. MaxSize > 0 => ~(0 > MaxSize)
      BY CacheAssumption
    <3> QED
      BY <2>1, <3>1 DEF Map!Crowded
  <2>3. lruIndex = KeysOf(Listed(lruKeys)) /\ lruTimed = StampsOf(Listed(lruKeys))
    BY <1>1, <2>1
  <2> QED
    BY <2>1, <2>2, <2>3 DEF LruInv
<1>3. Map!Init
  BY <1>1 DEF Map!Init, LruEntries
<1> QED
  BY <1>2, <1>3

LEMMA LruInvStep == LruInv /\ [CacheNext]_cacheVars => LruInv' /\ [Map!Next]_<<LruEntries, called>>
<1> SUFFICES ASSUME LruInv, [CacheNext]_cacheVars
             PROVE  LruInv' /\ [Map!Next]_<<LruEntries, called>>
  OBVIOUS
<1>1. CASE LruStep
  BY <1>1, LruResetStep, LruAddStep, LruGetStep, LruDelStep, LruClearStep, LruCheckTimeoutStep
     DEF LruStep
<1>2. CASE UNCHANGED <<lruKeys, lruIndex, lruTimed, called>>
  BY <1>2 DEF LruInv, Map!Crowded, Listed, LruEntries, Position
<1> QED
  BY <1>1, <1>2 DEF CacheNext, cacheVars

(***************************************************************************)
(* TimedLruCache keeps the promise of ExpiringMap: a set() of a new key    *)
(* evicts others only when there are too many, never the new one, and to   *)
(* the size the cache is meant for; nothing else is lost before its time   *)
(* (timed_lru_cache.h: set, get, del, clear, checkTimeout, prune).         *)
(***************************************************************************)
THEOREM LruIsExpiringMap == CacheSpec => LruImplementsMap
<1> QED
  BY LruInvInit, LruInvStep, PTL DEF CacheSpec, LruImplementsMap, Map!Spec

(* ByteArray.                                                              *)
(* Division by the size of a node.                                         *)
LEMMA DivisionOf ==
  ASSUME NEW p \in Nat
  PROVE  /\ p \div Base \in Nat /\ (p % Base) \in 0..(Base - 1)
         /\ p = (p \div Base) * Base + (p % Base)
  BY ByteAssumption

LEMMA DivisionIs ==
  ASSUME NEW q \in Nat, NEW r \in 0..(Base - 1)
  PROVE  (q * Base + r) \div Base = q /\ ((q * Base + r) % Base) = r
  BY ByteAssumption

LEMMA TimesBase ==
  ASSUME NEW q \in Nat
  PROVE  /\ q * Base \in Nat /\ (q + 1) * Base = q * Base + Base
         /\ q > 0 => q * Base >= Base
         /\ \A m \in Nat : (q + m) * Base = q * Base + m * Base
  BY ByteAssumption

(* A number of bytes further on, by the node and the offset in it.         *)
LEMMA DivisionOfSum ==
  ASSUME NEW p \in Nat, NEW m \in Nat
  PROVE  (p \div Base) + ((p % Base) + m) \div Base = (p + m) \div Base
<1>1. PICK q, r, k : q = p \div Base /\ r = (p % Base) /\ k = r + m
  OBVIOUS
<1>2. q \in Nat /\ r \in 0..(Base - 1) /\ p = q * Base + r
  BY <1>1, DivisionOf
<1>3. k \in Nat
  BY <1>1, <1>2, ByteAssumption
<1>4. PICK d, e : d = k \div Base /\ e = (k % Base)
  OBVIOUS
<1>5. d \in Nat /\ e \in 0..(Base - 1) /\ k = d * Base + e
  BY <1>3, <1>4, DivisionOf
<1>6. q * Base \in Nat /\ d * Base \in Nat /\ (q + d) * Base = q * Base + d * Base
  BY <1>2, <1>5, TimesBase
<1>7. p + m = (q + d) * Base + e
  BY <1>1, <1>2, <1>5, <1>6, ByteAssumption
<1>8. ((q + d) * Base + e) \div Base = q + d
  <2>1. q + d \in Nat
    BY <1>2, <1>5
  <2> QED
    BY <1>5, <2>1, DivisionIs
<1> QED
  BY <1>1, <1>4, <1>7, <1>8

(* The node before a position that begins one, and that of any other.      *)
LEMMA DivisionBefore ==
  ASSUME NEW p \in Nat \ {0}
  PROVE  (p - 1) \div Base = IF (p % Base) = 0 THEN p \div Base - 1 ELSE p \div Base
<1>1. PICK q, r : q = p \div Base /\ r = (p % Base)
  OBVIOUS
<1>2. q \in Nat /\ r \in 0..(Base - 1) /\ p = q * Base + r
  BY <1>1, DivisionOf
<1>3. CASE r = 0
  <2>1. q # 0
    BY <1>2, <1>3, ByteAssumption
  <2>2. q - 1 \in Nat /\ Base - 1 \in 0..(Base - 1)
    BY <1>2, <2>1, ByteAssumption
  <2>3. ((q - 1) + 1) * Base = (q - 1) * Base + Base /\ (q - 1) * Base \in Nat
    BY <2>2, TimesBase
  <2>4. p - 1 = (q - 1) * Base + (Base - 1)
    <3>1. (q - 1) + 1 = q
      BY <1>2
    <3> QED
      BY <1>2, <1>3, <2>3, <3>1, ByteAssumption
  <2>5. ((q - 1) * Base + (Base - 1)) \div Base = q - 1
    BY <2>2, DivisionIs
  <2> QED
    BY <1>1, <1>3, <2>4, <2>5
<1>4. CASE r # 0
  <2>1. r - 1 \in 0..(Base - 1) /\ q * Base \in Nat
    BY <1>2, <1>4, TimesBase, ByteAssumption
  <2>2. p - 1 = q * Base + (r - 1)
    BY <1>2, <2>1, ByteAssumption
  <2>3. (q * Base + (r - 1)) \div Base = q
    BY <1>2, <2>1, DivisionIs
  <2> QED
    BY <1>1, <1>4, <2>2, <2>3
<1> QED
  BY <1>3, <1>4

(***************************************************************************)
(* The chain is of whole nodes, and m_cur is the node of the position; at  *)
(* the end of the chain it is the last node or none.                       *)
(***************************************************************************)
ChainInv ==
    /\ mem \in Seq(Byte) /\ Len(mem) = Nodes * Base /\ Nodes \in Nat \ {0}
    /\ pos \in Nat /\ filled \in Nat /\ pos <= filled /\ filled <= Len(mem)
    /\ IF pos < Len(mem) THEN cur = NodeOf(pos) ELSE cur \in {Nodes, Nodes + 1}

ContentInv ==
    /\ content \in Seq(Byte) /\ Len(content) = filled
    /\ \A i \in 1..filled : content[i] = mem[i]

ByteInv == state = "ok" => ChainInv /\ ContentInv

(* A sequence with another behind it.                                      *)
LEMMA AppendFacts ==
  ASSUME NEW s \in Seq(Byte), NEW t \in Seq(Byte)
  PROVE  /\ s \o t \in Seq(Byte) /\ Len(s \o t) = Len(s) + Len(t)
         /\ \A i \in 1..Len(s) : (s \o t)[i] = s[i]
  OBVIOUS

(* What addCapacity makes of the chain.                                    *)
LEMMA GrownFacts ==
  ASSUME ChainInv, NEW n \in Nat
  PROVE  /\ Missing(n) \in Nat /\ Grown(n) \in Seq(Byte)
         /\ Len(Grown(n)) = (Nodes + Missing(n)) * Base
         /\ Len(mem) <= Len(Grown(n)) /\ pos + n <= Len(Grown(n))
         /\ \A i \in 1..Len(mem) : Grown(n)[i] = mem[i]
         /\ n > 0 /\ pos = Len(mem) => Missing(n) > 0
         /\ Missing(n) = 0 => Len(Grown(n)) = Len(mem)
<1>1. /\ mem \in Seq(Byte) /\ Len(mem) = Nodes * Base /\ Nodes \in Nat \ {0}
      /\ pos \in Nat /\ pos <= Len(mem) /\ Len(mem) \in Nat
  BY DEF ChainInv
<1>2. PICK m : m = Missing(n)
  OBVIOUS
<1>3. /\ m \in Nat /\ m * Base \in Nat /\ pos + n <= Len(mem) + m * Base
      /\ n > 0 /\ pos = Len(mem) => m > 0
  <2>1. CASE n <= Capacity
    BY <1>1, <1>2, <2>1, ByteAssumption DEF Missing, Capacity
  <2>2. CASE ~(n <= Capacity)
    <3>1. PICK k : k = n - Capacity + Base - 1
      OBVIOUS
    <3>2. k \in Nat /\ k >= Base /\ m = k \div Base /\ n - Capacity = k - (Base - 1)
      BY <1>1, <1>2, <2>2, <3>1, ByteAssumption DEF Missing, Capacity
    <3>3. m \in Nat /\ (k % Base) \in 0..(Base - 1) /\ k = m * Base + (k % Base)
      BY <3>2, DivisionOf
    <3>4. m * Base \in Nat
      BY <3>3, TimesBase
    <3>5. n - Capacity <= m * Base
      BY <1>1, <3>2, <3>3, <3>4, ByteAssumption DEF Capacity
    <3>6. m # 0
      BY <3>2, <3>3, <3>4, ByteAssumption
    <3> QED
      BY <1>1, <3>3, <3>4, <3>5, <3>6 DEF Capacity
  <2> QED
    BY <2>1, <2>2
<1>4. Fresh \in Byte
  BY ByteAssumption DEF Fresh
<1>5. Cells(m * Base, Fresh) \in Seq(Byte) /\ Len(Cells(m * Base, Fresh)) = m * Base
  BY <1>3, <1>4 DEF Cells
<1>6. Grown(n) = mem \o Cells(m * Base, Fresh)
  BY <1>2 DEF Grown
<1>7. /\ Grown(n) \in Seq(Byte) /\ Len(Grown(n)) = Len(mem) + m * Base
      /\ \A i \in 1..Len(mem) : Grown(n)[i] = mem[i]
  <2>1. PICK t \in Seq(Byte) : t = Cells(m * Base, Fresh)
    BY <1>5
  <2>2. /\ mem \o t \in Seq(Byte) /\ Len(mem \o t) = Len(mem) + Len(t)
        /\ \A i \in 1..Len(mem) : (mem \o t)[i] = mem[i]
    BY <1>1, AppendFacts
  <2> QED
    BY <1>5, <1>6, <2>1, <2>2
<1>8. (Nodes + m) * Base = Nodes * Base + m * Base
  BY <1>1, <1>3, TimesBase
<1>9. m = 0 => m * Base = 0
  BY ByteAssumption
<1> QED
  BY <1>1, <1>2, <1>3, <1>7, <1>8, <1>9

(* The bytes go where the position is.                                     *)
LEMMA StartIsPlace ==
  ASSUME ChainInv, NEW n \in Nat \ {0}
  PROVE  /\ CurAfter(n) = pos \div Base + 1
         /\ (CurAfter(n) - 1) * Base + (pos % Base) = pos
<1>1. /\ Len(mem) = Nodes * Base /\ Nodes \in Nat \ {0} /\ pos \in Nat /\ pos <= Len(mem) /\ Len(mem) \in Nat
  BY DEF ChainInv
<1>2. CurAfter(n) = pos \div Base + 1
  <2>1. CASE pos < Len(mem)
    <3>1. cur = NodeOf(pos) /\ Capacity # 0
      BY <1>1, <2>1 DEF ChainInv, Capacity
    <3> QED
      BY <3>1 DEF CurAfter, NodeOf
  <2>2. CASE pos = Len(mem)
    <3>1. Missing(n) > 0 /\ Capacity = 0
      <4>1. n > 0 /\ n \in Nat /\ Capacity = 0
        BY <1>1, <2>2 DEF Capacity
      <4>2. Missing(n) > 0
        BY <2>2, <4>1, GrownFacts
      <4> QED
        BY <4>1, <4>2
    <3>2. (Nodes * Base + 0) \div Base = Nodes
      BY <1>1, DivisionIs, ByteAssumption
    <3>3. pos = Nodes * Base + 0
      BY <1>1, <2>2
    <3> QED
      BY <3>1, <3>2, <3>3 DEF CurAfter
  <2> QED
    BY <1>1, <2>1, <2>2
<1>3. pos \div Base \in Nat /\ pos = (pos \div Base) * Base + (pos % Base)
  BY <1>1, DivisionOf
<1>4. CurAfter(n) - 1 = pos \div Base
  BY <1>2, <1>3
<1> QED
  BY <1>2, <1>3, <1>4

\* t is s with n times b behind the first `from` bytes.
IsPut(t, s, from, n, b) ==
    /\ t \in Seq(Byte) /\ Len(t) = Len(s)
    /\ \A i \in 1..Len(s) : t[i] = IF from < i /\ i <= from + n THEN b ELSE s[i]

LEMMA PutFacts ==
  ASSUME NEW s \in Seq(Byte), NEW from \in Nat, NEW n \in Nat, NEW b \in Byte
  PROVE  IsPut(Put(s, from, n, b), s, from, n, b)
<1>1. Len(s) \in Nat /\ \A i \in 1..Len(s) : s[i] \in Byte
  OBVIOUS
<1>2. \A i \in 1..Len(s) : i \in (from + 1)..(from + n) <=> from < i /\ i <= from + n
  BY <1>1
<1>3. Put(s, from, n, b) \in [1..Len(s) -> Byte]
  BY <1>1 DEF Put
<1> QED
  BY <1>1, <1>2, <1>3 DEF Put, IsPut

LEMMA PutAtFacts ==
  ASSUME NEW s \in Seq(Byte), NEW from \in 0..Len(s), NEW n \in Nat, NEW b \in Byte
  PROVE  /\ PutAt(s, from, n, b) \in Seq(Byte)
         /\ Len(PutAt(s, from, n, b)) = IF from + n > Len(s) THEN from + n ELSE Len(s)
         /\ \A i \in 1..Len(PutAt(s, from, n, b)) :
               PutAt(s, from, n, b)[i] = IF from < i /\ i <= from + n THEN b ELSE s[i]
<1>1. Len(s) \in Nat /\ from \in Nat
  OBVIOUS
<1>2. PICK d : d = (IF from + n > Len(s) THEN from + n - Len(s) ELSE 0)
  OBVIOUS
<1>3. d \in Nat /\ Len(s) + d = (IF from + n > Len(s) THEN from + n ELSE Len(s))
  BY <1>1, <1>2
<1>4. Cells(d, b) \in Seq(Byte) /\ Len(Cells(d, b)) = d
  BY <1>3 DEF Cells
<1>5. PICK w : w = s \o Cells(d, b)
  OBVIOUS
<1>6. w \in Seq(Byte) /\ Len(w) = Len(s) + d /\ \A i \in 1..Len(s) : w[i] = s[i]
  <2>1. /\ s \o Cells(d, b) \in Seq(Byte) /\ Len(s \o Cells(d, b)) = Len(s) + Len(Cells(d, b))
        /\ \A i \in 1..Len(s) : (s \o Cells(d, b))[i] = s[i]
    BY <1>4, AppendFacts
  <2> QED
    BY <1>4, <1>5, <2>1
<1>7. PutAt(s, from, n, b) = Put(w, from, n, b)
  BY <1>2, <1>5 DEF PutAt
<1>8. /\ PutAt(s, from, n, b) \in Seq(Byte) /\ Len(PutAt(s, from, n, b)) = Len(w)
      /\ \A i \in 1..Len(w) :
            PutAt(s, from, n, b)[i] = IF from < i /\ i <= from + n THEN b ELSE w[i]
  <2>1. w \in Seq(Byte)
    BY <1>6
  <2>2. IsPut(Put(w, from, n, b), w, from, n, b)
    BY <1>1, <2>1, PutFacts
  <2> QED
    BY <1>7, <2>2 DEF IsPut
<1>9. \A i \in 1..Len(w) : ~(from < i /\ i <= from + n) => i \in 1..Len(s)
  BY <1>1, <1>2, <1>3, <1>6
<1> QED
  BY <1>3, <1>6, <1>8, <1>9

LEMMA WholeNodes ==
  ASSUME NEW q \in Nat
  PROVE  (q * Base) \div Base = q /\ ((q * Base) % Base) = 0
<1>1. q * Base + 0 = q * Base /\ 0 \in 0..(Base - 1)
  BY TimesBase, ByteAssumption
<1> QED
  BY <1>1, DivisionIs

(***************************************************************************)
(* What a write or a recv does to the chain: n bytes are made room for and *)
(* k of them written at the position.                                      *)
(***************************************************************************)
LEMMA ChainAfter ==
  ASSUME ChainInv, ContentInv, NEW n \in Nat \ {0}, NEW k \in 0..n, NEW b \in Byte,
         mem' = Put(Grown(n), (CurAfter(n) - 1) * Base + (pos % Base), k, b),
         pos' = pos + k,
         filled' = IF pos + k > filled THEN pos + k ELSE filled,
         content' = PutAt(content, pos, k, b)
  PROVE  /\ mem' \in Seq(Byte) /\ Nodes' = Nodes + Missing(n) /\ Len(mem') = Nodes' * Base
         /\ Nodes' \in Nat \ {0}
         /\ pos' \in Nat /\ filled' \in Nat /\ pos' <= filled' /\ filled' <= Len(mem')
         /\ ContentInv'
<1>1. /\ mem \in Seq(Byte) /\ Len(mem) \in Nat /\ Nodes \in Nat \ {0}
      /\ pos \in Nat /\ filled \in Nat /\ pos <= filled /\ filled <= Len(mem)
  BY DEF ChainInv
<1>2. /\ Missing(n) \in Nat /\ Grown(n) \in Seq(Byte)
      /\ Len(Grown(n)) = (Nodes + Missing(n)) * Base
      /\ Len(mem) <= Len(Grown(n)) /\ pos + n <= Len(Grown(n))
      /\ \A i \in 1..Len(mem) : Grown(n)[i] = mem[i]
  BY GrownFacts
<1>3. mem' = Put(Grown(n), pos, k, b)
  BY StartIsPlace
<1>4. /\ mem' \in Seq(Byte) /\ Len(mem') = Len(Grown(n))
      /\ \A i \in 1..Len(mem') : mem'[i] = IF pos < i /\ i <= pos + k THEN b ELSE Grown(n)[i]
  <2>1. k \in Nat
    OBVIOUS
  <2>2. PICK g \in Seq(Byte) : g = Grown(n)
    BY <1>2
  <2>3. IsPut(Put(g, pos, k, b), g, pos, k, b)
    BY <1>1, <2>1, PutFacts
  <2> QED
    BY <1>3, <2>2, <2>3 DEF IsPut
<1>5. PICK q : q = Nodes + Missing(n)
  OBVIOUS
<1>6. q \in Nat \ {0} /\ Len(mem') = q * Base
  BY <1>1, <1>2, <1>4, <1>5
<1>7. Nodes' = q
  BY <1>6, WholeNodes DEF Nodes
<1>8. /\ pos' \in Nat /\ filled' \in Nat /\ pos' <= filled' /\ filled' <= Len(mem')
      /\ k \in Nat /\ Len(Grown(n)) \in Nat
  BY <1>1, <1>2, <1>4
<1>9. /\ content \in Seq(Byte) /\ Len(content) = filled
      /\ \A i \in 1..filled : content[i] = mem[i]
  BY DEF ContentInv
<1>10. /\ content' \in Seq(Byte) /\ Len(content') = filled'
       /\ \A i \in 1..filled' : content'[i] = IF pos < i /\ i <= pos + k THEN b ELSE content[i]
  <2>1. pos \in 0..Len(content) /\ k \in Nat
    BY <1>1, <1>8, <1>9
  <2>2. /\ PutAt(content, pos, k, b) \in Seq(Byte)
        /\ Len(PutAt(content, pos, k, b)) = IF pos + k > Len(content) THEN pos + k ELSE Len(content)
        /\ \A i \in 1..Len(PutAt(content, pos, k, b)) :
              PutAt(content, pos, k, b)[i] = IF pos < i /\ i <= pos + k THEN b ELSE content[i]
    BY <1>9, <2>1, PutAtFacts
  <2> QED
    BY <1>9, <2>2
<1>11. ASSUME NEW i \in 1..filled' PROVE content'[i] = mem'[i]
  <2>1. i \in 1..Len(mem')
    BY <1>8, <1>4
  <2>2. CASE pos < i /\ i <= pos + k
    BY <1>4, <1>10, <2>1, <2>2
  <2>3. CASE ~(pos < i /\ i <= pos + k)
    <3>1. i \in 1..filled /\ i \in 1..Len(mem)
      BY <1>1, <1>8, <2>3
    <3> QED
      BY <1>2, <1>4, <1>9, <1>10, <2>1, <2>3, <3>1
  <2> QED
    BY <2>2, <2>3
<1>12. ContentInv'
  BY <1>10, <1>11 DEF ContentInv
<1> QED
  BY <1>2, <1>4, <1>5, <1>6, <1>7, <1>8, <1>12

LEMMA WriteStep ==
  ASSUME ChainInv, ContentInv, NEW n \in Nat \ {0}, NEW b \in Byte, Write(n, b), state' = "ok"
  PROVE  ChainInv' /\ ContentInv'
<1>1. /\ pos \in Nat /\ filled \in Nat /\ pos <= filled
  BY DEF ChainInv
<1>2. PICK start : start = CurAfter(n)
  OBVIOUS
<1>3. /\ mem' = Put(Grown(n), (CurAfter(n) - 1) * Base + (pos % Base), n, b)
      /\ cur' = LastNode(start, n)
      /\ pos' = pos + n /\ filled' = filled + n
      /\ content' = PutAt(content, pos, n, b)
      /\ ~(pos < filled \/ ((pos' % Base) = 0 /\ pos' < Len(mem')))
  BY <1>2 DEF Write, Fault
<1>4. pos = filled
  BY <1>1, <1>3
<1>5. filled' = IF pos + n > filled THEN pos + n ELSE filled
  BY <1>1, <1>3, <1>4
<1>6. /\ mem' \in Seq(Byte) /\ Len(mem') = Nodes' * Base
      /\ Nodes' \in Nat \ {0}
      /\ pos' \in Nat /\ filled' \in Nat /\ pos' <= filled' /\ filled' <= Len(mem')
      /\ ContentInv'
  <2>1. n \in 0..n
    OBVIOUS
  <2> QED
    BY <1>3, <1>5, <2>1, ChainAfter
<1>7. cur' = (pos' - 1) \div Base + 1
  <2>1. start = pos \div Base + 1
    BY <1>2, StartIsPlace
  <2>2. PICK m : m = n - 1
    OBVIOUS
  <2>3. m \in Nat
    BY <2>2
  <2>4. (pos \div Base) + ((pos % Base) + m) \div Base = (pos + m) \div Base
    BY <1>1, <2>3, DivisionOfSum
  <2>5. /\ (pos \div Base) \in Nat /\ (pos % Base) \in Nat
        /\ (pos % Base) + n - 1 = (pos % Base) + m /\ pos' - 1 = pos + m
    <3>1. (pos \div Base) \in Nat /\ (pos % Base) \in 0..(Base - 1)
      BY <1>1, DivisionOf
    <3> QED
      BY <1>1, <1>3, <2>2, <3>1, ByteAssumption
  <2>6. cur' = start + ((pos % Base) + m) \div Base
    BY <1>3, <2>5 DEF LastNode
  <2>7. ((pos % Base) + m) \div Base \in Nat /\ (pos + m) \div Base \in Nat
    BY <1>1, <2>3, <2>5, DivisionOf
  <2> QED
    BY <2>1, <2>4, <2>5, <2>6, <2>7
<1>8. pos' \in Nat \ {0}
  BY <1>1, <1>3
<1>9. (pos' - 1) \div Base = IF (pos' % Base) = 0 THEN pos' \div Base - 1 ELSE pos' \div Base
  <2>1. PICK p \in Nat \ {0} : p = pos'
    BY <1>8
  <2> QED
    BY <2>1, DivisionBefore
<1>10. pos' \div Base \in Nat
  <2>1. PICK p \in Nat : p = pos'
    BY <1>8
  <2> QED
    BY <2>1, DivisionOf
<1>11. IF pos' < Len(mem') THEN cur' = NodeOf(pos)' ELSE cur' \in {Nodes', Nodes' + 1}
  <2>1. CASE pos' < Len(mem')
    BY <1>3, <1>7, <1>9, <2>1 DEF NodeOf
  <2>2. CASE ~(pos' < Len(mem'))
    <3>1. pos' = Nodes' * Base
      BY <1>6, <2>2
    <3>2. PICK q \in Nat : q = Nodes'
      BY <1>6
    <3>3. pos' \div Base = Nodes' /\ (pos' % Base) = 0
      BY <3>1, <3>2, WholeNodes
    <3>4. cur' = Nodes'
      BY <1>6, <1>7, <1>9, <3>3
    <3> QED
      BY <2>2, <3>4
  <2> QED
    BY <2>1, <2>2
<1> QED
  BY <1>6, <1>11 DEF ChainInv

LEMMA FillStep ==
  ASSUME ChainInv, ContentInv, NEW n \in Nat \ {0}, NEW k \in 0..n, NEW b \in Byte,
         Fill(n, k, b), state' = "ok"
  PROVE  ChainInv' /\ ContentInv'
<1>1. /\ pos \in Nat /\ filled \in Nat /\ pos <= filled
      /\ Nodes \in Nat \ {0} /\ Len(mem) = Nodes * Base /\ pos <= Len(mem) /\ Len(mem) \in Nat
  BY DEF ChainInv
<1>2. PICK start : start = CurAfter(n)
  OBVIOUS
<1>3. /\ mem' = Put(Grown(n), (CurAfter(n) - 1) * Base + (pos % Base), k, b)
      /\ cur' = IF k > 0 THEN NodeOf(pos + k) ELSE start
      /\ pos' = pos + k
      /\ filled' = IF pos + k > filled THEN pos + k ELSE filled
      /\ content' = PutAt(content, pos, k, b)
  BY <1>2 DEF Fill, Fault
<1>6. /\ mem' \in Seq(Byte) /\ Len(mem') = Nodes' * Base
      /\ Nodes' \in Nat \ {0}
      /\ pos' \in Nat /\ filled' \in Nat /\ pos' <= filled' /\ filled' <= Len(mem')
      /\ ContentInv'
  BY <1>3, ChainAfter
<1>7. cur' = pos' \div Base + 1
  <2>1. start = pos \div Base + 1
    BY <1>2, StartIsPlace
  <2>2. CASE k > 0
    BY <1>3, <2>2 DEF NodeOf
  <2>3. CASE ~(k > 0)
    <3>1. k = 0 /\ pos' = pos
      BY <1>1, <1>3, <2>3
    <3> QED
      BY <1>3, <2>1, <3>1
  <2> QED
    BY <2>2, <2>3
<1>8. IF pos' < Len(mem') THEN cur' = NodeOf(pos)' ELSE cur' \in {Nodes', Nodes' + 1}
  <2>1. CASE pos' < Len(mem')
    BY <1>7, <2>1 DEF NodeOf
  <2>2. CASE ~(pos' < Len(mem'))
    <3>1. pos' = Nodes' * Base
      BY <1>6, <2>2
    <3>2. PICK q \in Nat : q = Nodes'
      BY <1>6
    <3>3. pos' \div Base = Nodes'
      BY <3>1, <3>2, WholeNodes
    <3> QED
      BY <1>7, <2>2, <3>3
  <2> QED
    BY <2>1, <2>2
<1> QED
  BY <1>6, <1>8 DEF ChainInv

LEMMA ReadStep ==
  ASSUME ChainInv, ContentInv, NEW n \in Nat \ {0}, Read(n)
  PROVE  ChainInv' /\ ContentInv'
<1>1. /\ pos \in Nat /\ filled \in Nat /\ pos + n <= filled /\ filled <= Len(mem) /\ Len(mem) \in Nat
      /\ Len(mem) = Nodes * Base /\ Nodes \in Nat \ {0}
      /\ pos < Len(mem) => cur = NodeOf(pos)
      /\ UNCHANGED <<mem, filled, content>> /\ pos' = pos + n
      /\ cur' = cur + ((pos % Base) + n) \div Base
  BY DEF ChainInv, Read
<1>2. cur' = NodeOf(pos + n)
  <2>1. cur = pos \div Base + 1
    BY <1>1 DEF NodeOf
  <2>2. (pos \div Base) + ((pos % Base) + n) \div Base = (pos + n) \div Base
    BY <1>1, DivisionOfSum
  <2>3. (pos \div Base) \in Nat /\ (pos % Base) + n \in Nat
    <3>1. (pos \div Base) \in Nat /\ (pos % Base) \in 0..(Base - 1)
      BY <1>1, DivisionOf
    <3> QED
      BY <1>1, <3>1, ByteAssumption
  <2>4. ((pos % Base) + n) \div Base \in Nat
    BY <2>3, DivisionOf
  <2> QED
    BY <1>1, <2>1, <2>2, <2>3, <2>4 DEF NodeOf
<1>3. Nodes' = Nodes
  BY <1>1 DEF Nodes
<1>4. IF pos' < Len(mem') THEN cur' = NodeOf(pos)' ELSE cur' \in {Nodes', Nodes' + 1}
  <2>1. CASE pos + n < Len(mem)
    BY <1>1, <1>2, <2>1 DEF NodeOf
  <2>2. CASE ~(pos + n < Len(mem))
    <3>1. pos + n = Nodes * Base
      BY <1>1, <2>2
    <3>2. (pos + n) \div Base = Nodes
      BY <1>1, <3>1, WholeNodes
    <3> QED
      BY <1>1, <1>2, <1>3, <2>2, <3>2 DEF NodeOf
  <2> QED
    BY <2>1, <2>2
<1>5. ChainInv'
  <2>1. mem' \in Seq(Byte) /\ Len(mem') = Nodes' * Base /\ Nodes' \in Nat \ {0}
    BY <1>1, <1>3 DEF ChainInv
  <2>2. pos' \in Nat /\ filled' \in Nat /\ pos' <= filled' /\ filled' <= Len(mem')
    BY <1>1
  <2> QED
    BY <1>4, <2>1, <2>2 DEF ChainInv
<1>6. ContentInv'
  BY <1>1 DEF ContentInv
<1> QED
  BY <1>5, <1>6

(* What becomes part of the array without having been written.             *)
LEMMA ExposedFacts ==
  ASSUME ChainInv, ContentInv, NEW n \in Nat, n <= Len(mem)
  PROVE  /\ Exposed(n) \in Seq(Byte) /\ Len(Exposed(n)) = n
         /\ \A i \in 1..n : Exposed(n)[i] = mem[i]
<1>1. /\ mem \in Seq(Byte) /\ Len(mem) \in Nat /\ filled \in Nat /\ filled <= Len(mem)
      /\ content \in Seq(Byte) /\ Len(content) = filled
      /\ \A i \in 1..filled : content[i] = mem[i]
  BY DEF ChainInv, ContentInv
<1>2. CASE n > filled
  <2>1. PICK t : t = SubSeq(mem, filled + 1, n)
    OBVIOUS
  <2>2. t \in Seq(Byte) /\ Len(t) = n - filled /\ \A i \in 1..(n - filled) : t[i] = mem[filled + i]
    BY <1>1, <1>2, <2>1
  <2>3. Exposed(n) = content \o t
    BY <1>2, <2>1 DEF Exposed
  <2>4. /\ content \o t \in Seq(Byte) /\ Len(content \o t) = n
        /\ \A i \in 1..n : (content \o t)[i] = IF i <= filled THEN content[i] ELSE t[i - filled]
    <3>1. content \in Seq(Byte) /\ t \in Seq(Byte)
      BY <1>1, <2>2, Zenon
    <3>2. /\ content \o t \in Seq(Byte)
          /\ Len(content \o t) = Len(content) + Len(t)
          /\ \A i \in 1..(Len(content) + Len(t)) : (content \o t)[i] =
                IF i <= Len(content) THEN content[i] ELSE t[i - Len(content)]
      BY <3>1, ConcatProperties, Zenon
    <3>3. Len(content) + Len(t) = n
      BY <1>1, <2>2
    <3> QED
      BY <1>1, <3>2, <3>3
  <2>5. ASSUME NEW i \in 1..n PROVE (content \o t)[i] = mem[i]
    <3>1. CASE i <= filled
      BY <1>1, <2>4, <3>1
    <3>2. CASE ~(i <= filled)
      <4>1. i - filled \in 1..(n - filled) /\ filled + (i - filled) = i
        BY <1>1, <3>2
      <4> QED
        BY <2>2, <2>4, <3>2, <4>1
    <3> QED
      BY <3>1, <3>2
  <2> QED
    BY <2>3, <2>4, <2>5
<1>3. CASE ~(n > filled)
  <2>1. Exposed(n) = SubSeq(content, 1, n)
    BY <1>3 DEF Exposed
  <2> QED
    BY <1>1, <1>3, <2>1
<1> QED
  BY <1>2, <1>3

LEMMA SetPosStep ==
  ASSUME ChainInv, ContentInv, NEW v \in Nat, SetPos(v)
  PROVE  ChainInv' /\ ContentInv'
<1>1. /\ v <= Len(mem) /\ pos' = v /\ cur' = NodeOf(v) /\ mem' = mem
      /\ filled' = IF v > filled THEN v ELSE filled
      /\ content' = IF v > filled THEN Exposed(v) ELSE content
  BY DEF SetPos
<1>2. /\ mem \in Seq(Byte) /\ Len(mem) \in Nat /\ filled \in Nat /\ filled <= Len(mem)
      /\ Len(mem) = Nodes * Base /\ Nodes \in Nat \ {0}
  BY DEF ChainInv
<1>3. Nodes' = Nodes
  BY <1>1 DEF Nodes
<1>4. IF pos' < Len(mem') THEN cur' = NodeOf(pos)' ELSE cur' \in {Nodes', Nodes' + 1}
  <2>1. CASE v < Len(mem)
    BY <1>1, <2>1 DEF NodeOf
  <2>2. CASE ~(v < Len(mem))
    <3>1. v = Nodes * Base
      BY <1>1, <1>2, <2>2
    <3>2. v \div Base = Nodes
      BY <1>2, <3>1, WholeNodes
    <3> QED
      BY <1>1, <1>3, <2>2, <3>2 DEF NodeOf
  <2> QED
    BY <2>1, <2>2
<1>5. ChainInv'
  <2>1. pos' \in Nat /\ filled' \in Nat /\ pos' <= filled' /\ filled' <= Len(mem')
    BY <1>1, <1>2
  <2> QED
    BY <1>1, <1>2, <1>3, <1>4, <2>1 DEF ChainInv
<1>6. ContentInv'
  <2>1. CASE v > filled
    BY <1>1, <2>1, ExposedFacts DEF ContentInv
  <2>2. CASE ~(v > filled)
    BY <1>1, <2>2 DEF ContentInv
  <2> QED
    BY <2>1, <2>2
<1> QED
  BY <1>5, <1>6

LEMMA SetSizeStep ==
  ASSUME ChainInv, ContentInv, NEW n \in Nat, SetSize(n)
  PROVE  ChainInv' /\ ContentInv'
<1>1. /\ n <= Len(mem) /\ pos <= n /\ filled' = n /\ content' = Exposed(n)
      /\ UNCHANGED <<mem, cur, pos>>
  BY DEF SetSize
<1>2. ChainInv'
  <2>1. Nodes' = Nodes /\ NodeOf(pos)' = NodeOf(pos)
    BY <1>1 DEF Nodes, NodeOf
  <2> QED
    BY <1>1, <2>1 DEF ChainInv
<1>3. ContentInv'
  BY <1>1, ExposedFacts DEF ContentInv
<1> QED
  BY <1>2, <1>3

(* An empty array of one node.                                             *)
LEMMA OneNode ==
  ASSUME mem \in Seq(Byte), Len(mem) = Base, cur = 1, pos = 0, filled = 0, content = <<>>
  PROVE  ChainInv /\ ContentInv
<1>1. Base = 1 * Base /\ Base \in Nat \ {0}
  BY ByteAssumption
<1>2. Nodes = 1
  BY <1>1, WholeNodes DEF Nodes
<1>3. 0 \div Base = 0
  <2>1. (0 * Base) \div Base = 0 /\ 0 * Base = 0
    BY WholeNodes, ByteAssumption
  <2> QED
    BY <2>1
<1>4. ChainInv
  BY <1>1, <1>2, <1>3 DEF ChainInv, NodeOf
<1> QED
  BY <1>4 DEF ContentInv

LEMMA ClearStep ==
  ASSUME ChainInv, ContentInv, Clear
  PROVE  ChainInv' /\ ContentInv'
<1>1. mem \in Seq(Byte) /\ Len(mem) = Nodes * Base /\ Nodes \in Nat \ {0} /\ Len(mem) >= Base
  <2>1. mem \in Seq(Byte) /\ Len(mem) = Nodes * Base /\ Nodes \in Nat \ {0}
    BY DEF ChainInv
  <2> QED
    BY <2>1, TimesBase
<1>2. SubSeq(mem, 1, Base) \in Seq(Byte) /\ Len(SubSeq(mem, 1, Base)) = Base
  BY <1>1, ByteAssumption
<1>3. mem' \in Seq(Byte) /\ Len(mem') = Base /\ cur' = 1 /\ pos' = 0 /\ filled' = 0 /\ content' = <<>>
  BY <1>2 DEF Clear
<1>4. Base = 1 * Base /\ Base \in Nat \ {0}
  BY ByteAssumption
<1>5. Nodes' = 1
  BY <1>3, <1>4, WholeNodes DEF Nodes
<1>6. 0 \div Base = 0
  <2>1. (0 * Base) \div Base = 0 /\ 0 * Base = 0
    BY WholeNodes, ByteAssumption
  <2> QED
    BY <2>1
<1>7. ChainInv'
  BY <1>3, <1>4, <1>5, <1>6 DEF ChainInv, NodeOf
<1> QED
  BY <1>3, <1>7 DEF ContentInv

LEMMA ByteInvInit == ByteInit => ByteInv
<1> SUFFICES ASSUME ByteInit PROVE ChainInv /\ ContentInv
  BY DEF ByteInv
<1>1. Fresh \in Byte
  BY ByteAssumption DEF Fresh
<1>2. mem \in Seq(Byte) /\ Len(mem) = Base
  BY <1>1, ByteAssumption DEF ByteInit, Cells
<1> QED
  BY <1>2, OneNode DEF ByteInit

(* As long as nothing is misplaced, every call keeps the chain and what it *)
(* holds.                                                                  *)
LEMMA ByteInvStep == ByteInv /\ [ByteNext]_byteVars => ByteInv'
<1> SUFFICES ASSUME ByteInv, [ByteNext]_byteVars, state' = "ok" PROVE ChainInv' /\ ContentInv'
  BY DEF ByteInv
<1>1. CASE ArrayStep
  <2>1. ChainInv /\ ContentInv
    BY <1>1 DEF ArrayStep, ByteInv
  <2>2. pos \in Nat
    BY <2>1 DEF ChainInv
  <2>3. ASSUME NEW n \in 1..(MaxBytes - pos), NEW b \in Byte, Write(n, b)
        PROVE  ChainInv' /\ ContentInv'
    <3>1. n \in Nat \ {0}
      BY <2>2, ByteAssumption
    <3> QED
      BY <2>1, <2>3, <3>1, WriteStep
  <2>4. ASSUME NEW n \in 1..(MaxBytes - pos), NEW b \in Byte, NEW k \in 0..n, Fill(n, k, b)
        PROVE  ChainInv' /\ ContentInv'
    <3>1. n \in Nat \ {0}
      BY <2>2, ByteAssumption
    <3> QED
      BY <2>1, <2>4, <3>1, FillStep
  <2>5. ASSUME NEW n \in 1..MaxBytes, Read(n) PROVE ChainInv' /\ ContentInv'
    <3>1. n \in Nat \ {0}
      BY ByteAssumption
    <3> QED
      BY <2>1, <2>5, <3>1, ReadStep
  <2>6. ASSUME NEW v \in 0..MaxBytes, SetPos(v) \/ SetSize(v) PROVE ChainInv' /\ ContentInv'
    <3>1. v \in Nat
      BY ByteAssumption
    <3> QED
      BY <2>1, <2>6, <3>1, SetPosStep, SetSizeStep
  <2>7. CASE Clear
    BY <2>1, <2>7, ClearStep
  <2> QED
    BY <1>1, <2>3, <2>4, <2>5, <2>6, <2>7 DEF ArrayStep
<1>2. CASE UNCHANGED <<mem, cur, pos, filled, content, state>>
  <2>1. ChainInv /\ ContentInv
    BY <1>2 DEF ByteInv
  <2>2. Nodes' = Nodes /\ NodeOf(pos)' = NodeOf(pos)
    BY <1>2 DEF Nodes, NodeOf
  <2> QED
    BY <1>2, <2>1, <2>2 DEF ChainInv, ContentInv
<1> QED
  BY <1>1, <1>2 DEF ByteNext, byteVars

(* Content and m_cur are what BytesInPlace asks for.                       *)
LEMMA ChainIsContent ==
  ASSUME ChainInv, ContentInv
  PROVE  BytesInPlace
<1>1. /\ mem \in Seq(Byte) /\ Len(mem) \in Nat /\ filled \in Nat /\ filled <= Len(mem)
      /\ content \in Seq(Byte) /\ Len(content) = filled
      /\ \A i \in 1..filled : content[i] = mem[i]
  BY DEF ChainInv, ContentInv
<1>2. SubSeq(mem, 1, filled) = content
  <2>1. PICK s : s = SubSeq(mem, 1, filled)
    OBVIOUS
  <2>2. s \in Seq(Byte) /\ Len(s) = filled /\ \A i \in 1..filled : s[i] = mem[i]
    BY <1>1, <2>1
  <2>3. s = content
    BY <1>1, <2>2
  <2> QED
    BY <2>1, <2>3
<1>3. pos <= filled /\ (pos < Len(mem) => cur = NodeOf(pos))
  BY DEF ChainInv
<1> QED
  BY <1>1, <1>2, <1>3 DEF BytesInPlace

-----------------------------------------------------------------------------
(* ByteArray: what writeToFile writes.                                     *)
(* What holds of m, and of a number when it holds of the next, holds of all*)
(* up to m: else there is a last counterexample.                           *)
LEMMA Downward ==
  ASSUME NEW m \in Nat, NEW S, m \in S, \A k \in 1..m : k # m /\ k + 1 \in S => k \in S
  PROVE  \A k \in 1..m : k \in S
<1> DEFINE rest == {i \in 0..m : m - i \in 1..m /\ m - i \notin S}
<1> SUFFICES ASSUME NEW k \in 1..m, k \notin S PROVE FALSE
  OBVIOUS
<1>1. m - k \in rest
  <2>1. m - k \in 0..m /\ m - (m - k) = k
    OBVIOUS
  <2> QED
    BY <2>1
<1>2. rest \in SUBSET Nat /\ rest # {}
  <2>1. \A i \in rest : i \in Nat
    OBVIOUS
  <2> HIDE DEF rest
  <2> QED
    BY <1>1, <2>1
<1>3. PICK i \in rest : \A j \in rest : <<j, i>> \notin Less
  BY <1>2, LessWellFounded, WFMin
<1>4. i \in 0..m /\ m - i \in 1..m /\ m - i \notin S
  OBVIOUS
<1> HIDE DEF rest
<1>5. i # 0
  BY <1>4
<1>6. i - 1 \in Nat /\ <<i - 1, i>> \in Less
  BY <1>4, <1>5 DEF Less
<1>7. i - 1 \notin rest
  BY <1>3, <1>6
<1>8. m - (i - 1) \in S
  <2>1. i - 1 \in 0..m /\ m - (i - 1) \in 1..m
    BY <1>4, <1>5
  <2> QED
    BY <1>7, <2>1 DEF rest
<1>9. (m - i) + 1 \in S /\ m - i # m
  <2>1. (m - i) + 1 = m - (i - 1) /\ m - i # m
    BY <1>4, <1>5
  <2> QED
    BY <1>8, <2>1
<1> QED
  BY <1>4, <1>9

(***************************************************************************)
(* SavedFrom as an operator of the function it calls.                      *)
(***************************************************************************)
PieceOf(f, k, p) ==
    IF p = filled THEN <<>>
    ELSE IF Common(p) < 0 \/ k > Nodes THEN <<NoByte>>
    ELSE SubSeq(mem, (k - 1) * Base + (p % Base) + 1, (k - 1) * Base + (p % Base) + Common(p))
         \o f[k + 1][p + Common(p)]

FilesOf(f, k) == [p \in 0..filled |-> PieceOf(f, k, p)]

LEMMA FilesDepend ==
  ASSUME NEW f, NEW g, NEW k \in Nat, Nodes \in Nat, k <= Nodes => f[k + 1] = g[k + 1]
  PROVE  FilesOf(f, k) = FilesOf(g, k)
<1>1. ASSUME NEW p \in 0..filled PROVE PieceOf(f, k, p) = PieceOf(g, k, p)
  <2>1. CASE k <= Nodes
    BY <2>1 DEF PieceOf
  <2>2. CASE k > Nodes
    BY <2>2 DEF PieceOf
  <2> QED
    BY <2>1, <2>2
<1> QED
  BY <1>1 DEF FilesOf

(* The function is there: it is made from the end of the chain on.         *)
LEMMA FilesExist ==
  ASSUME Nodes \in Nat
  PROVE  SavedFrom = [k \in 1..(Nodes + 1) |-> FilesOf(SavedFrom, k)]
<1> DEFINE S == {j \in 1..(Nodes + 1) :
                    \E g : g = [k \in j..(Nodes + 1) |-> FilesOf(g, k)]}
<1>1. Nodes + 1 \in S
  <2> DEFINE g == [k \in (Nodes + 1)..(Nodes + 1) |-> FilesOf(0, k)]
  <2>1. ASSUME NEW k \in (Nodes + 1)..(Nodes + 1) PROVE FilesOf(0, k) = FilesOf(g, k)
    <3>1. k \in Nat /\ ~(k <= Nodes)
      OBVIOUS
    <3> HIDE DEF g
    <3> QED
      BY <3>1, FilesDepend
  <2>2. g = [k \in (Nodes + 1)..(Nodes + 1) |-> FilesOf(g, k)]
    <3>1. g = [k \in (Nodes + 1)..(Nodes + 1) |-> FilesOf(0, k)]
      OBVIOUS
    <3> HIDE DEF g
    <3> QED
      BY <2>1, <3>1
  <2> QED
    BY <2>2
<1>2. ASSUME NEW j \in 1..(Nodes + 1), j # Nodes + 1, j + 1 \in S PROVE j \in S
  <2>1. PICK g : g = [k \in (j + 1)..(Nodes + 1) |-> FilesOf(g, k)]
    BY <1>2
  <2> HIDE DEF S
  <2> DEFINE h == [k \in j..(Nodes + 1) |-> IF k = j THEN FilesOf(g, j) ELSE g[k]]
  <2>2. \A k \in (j + 1)..(Nodes + 1) : h[k] = g[k] /\ g[k] = FilesOf(g, k)
    BY <2>1
  <2>3. h[j] = FilesOf(g, j)
    OBVIOUS
  <2>h. h = [k \in j..(Nodes + 1) |-> h[k]]
    OBVIOUS
  <2> HIDE DEF h
  <2>4. ASSUME NEW k \in j..(Nodes + 1) PROVE h[k] = FilesOf(h, k)
    <3>1. k \in Nat /\ (k <= Nodes => k + 1 \in (j + 1)..(Nodes + 1))
      OBVIOUS
    <3>2. k <= Nodes => g[k + 1] = h[k + 1]
      BY <2>2, <3>1
    <3>3. FilesOf(g, k) = FilesOf(h, k)
      BY <3>1, <3>2, FilesDepend
    <3>4. k = j \/ k \in (j + 1)..(Nodes + 1)
      OBVIOUS
    <3> QED
      BY <2>2, <2>3, <3>3, <3>4
  <2>5. h = [k \in j..(Nodes + 1) |-> FilesOf(h, k)]
    BY <2>h, <2>4
  <2> QED
    BY <2>5 DEF S
<1>3. 1 \in S
  <2> HIDE DEF S
  <2>1. Nodes + 1 \in Nat /\ 1 \in 1..(Nodes + 1)
    OBVIOUS
  <2> QED
    BY <1>1, <1>2, <2>1, Downward
<1>4. \E g : g = [k \in 1..(Nodes + 1) |-> FilesOf(g, k)]
  BY <1>3
<1> HIDE DEF S
<1> QED
  BY <1>4 DEF SavedFrom, FilesOf, PieceOf

(* What the calls in writeToFile give, one at a time.                      *)
LEMMA FileFrom ==
  ASSUME Nodes \in Nat, NEW k \in 1..(Nodes + 1), NEW p \in 0..filled
  PROVE  SavedFrom[k][p] = PieceOf(SavedFrom, k, p)
<1>1. SavedFrom[k] = FilesOf(SavedFrom, k)
  <2>1. PICK f : f = SavedFrom
    OBVIOUS
  <2>2. f = [i \in 1..(Nodes + 1) |-> FilesOf(f, i)]
    BY <2>1, FilesExist
  <2> QED
    BY <2>1, <2>2
<1> QED
  BY <1>1 DEF FilesOf

LEMMA JoinFacts ==
  ASSUME NEW s \in Seq(Byte), NEW t \in Seq(Byte)
  PROVE  /\ s \o t \in Seq(Byte) /\ Len(s \o t) = Len(s) + Len(t)
         /\ \A i \in 1..(Len(s) + Len(t)) :
               (s \o t)[i] = IF i <= Len(s) THEN s[i] ELSE t[i - Len(s)]
  OBVIOUS

LEMMA SameSequence ==
  ASSUME NEW s \in Seq(Byte), NEW t \in Seq(Byte), Len(s) = Len(t),
         \A i \in 1..Len(s) : s[i] = t[i]
  PROVE  s = t
  OBVIOUS

(* What lies between two places of a sequence, in two parts.               *)
LEMMA JoinedParts ==
  ASSUME NEW s \in Seq(Byte), NEW a \in Nat, NEW b \in Nat, NEW c \in Nat,
         a <= b, b <= c, c <= Len(s)
  PROVE  SubSeq(s, a + 1, b) \o SubSeq(s, b + 1, c) = SubSeq(s, a + 1, c)
<1>0. Len(s) \in Nat
  OBVIOUS
<1>1. PICK t, u, v : /\ t = SubSeq(s, a + 1, b) /\ u = SubSeq(s, b + 1, c)
                     /\ v = SubSeq(s, a + 1, c)
  OBVIOUS
<1>2. t \in Seq(Byte) /\ Len(t) = b - a /\ \A i \in 1..(b - a) : t[i] = s[a + i]
  BY <1>0, <1>1
<1>3. u \in Seq(Byte) /\ Len(u) = c - b /\ \A i \in 1..(c - b) : u[i] = s[b + i]
  BY <1>0, <1>1
<1>4. v \in Seq(Byte) /\ Len(v) = c - a /\ \A i \in 1..(c - a) : v[i] = s[a + i]
  BY <1>0, <1>1
<1>5. PICK w : w = t \o u
  OBVIOUS
<1>6. /\ w \in Seq(Byte) /\ Len(w) = c - a
      /\ \A i \in 1..(c - a) : w[i] = IF i <= b - a THEN t[i] ELSE u[i - (b - a)]
  <2>1. (b - a) + (c - b) = c - a
    OBVIOUS
  <2>2. /\ w \in Seq(Byte) /\ Len(w) = Len(t) + Len(u)
        /\ \A i \in 1..(Len(t) + Len(u)) : w[i] = IF i <= Len(t) THEN t[i] ELSE u[i - Len(t)]
    BY <1>2, <1>3, <1>5, JoinFacts
  <2> QED
    BY <1>2, <1>3, <2>1, <2>2
<1>7. ASSUME NEW i \in 1..(c - a) PROVE w[i] = v[i]
  <2>1. CASE i <= b - a
    BY <1>2, <1>4, <1>6, <2>1
  <2>2. CASE ~(i <= b - a)
    <3>1. i - (b - a) \in 1..(c - b) /\ b + (i - (b - a)) = a + i
      BY <2>2
    <3> QED
      BY <1>3, <1>4, <1>6, <2>2, <3>1
  <2> QED
    BY <2>1, <2>2
<1>8. w = v
  BY <1>4, <1>6, <1>7, SameSequence
<1> QED
  BY <1>1, <1>5, <1>8

(* From the start of a node on, the rest is taken.                         *)
LEMMA FileFromNode ==
  ASSUME ChainInv, NEW k \in 1..(Nodes + 1), (k - 1) * Base <= filled
  PROVE  SavedFrom[k][(k - 1) * Base] = SubSeq(mem, (k - 1) * Base + 1, filled)
<1>1. /\ mem \in Seq(Byte) /\ Len(mem) = Nodes * Base /\ Nodes \in Nat \ {0}
      /\ filled \in Nat /\ filled <= Len(mem) /\ Len(mem) \in Nat
  BY DEF ChainInv
<1> DEFINE S == {j \in 1..(Nodes + 1) :
                    (j - 1) * Base <= filled =>
                        SavedFrom[j][(j - 1) * Base] = SubSeq(mem, (j - 1) * Base + 1, filled)}
<1>2. ASSUME NEW j \in 1..(Nodes + 1), j # Nodes + 1 => j + 1 \in S PROVE j \in S
  <2> SUFFICES ASSUME (j - 1) * Base <= filled
               PROVE  SavedFrom[j][(j - 1) * Base] = SubSeq(mem, (j - 1) * Base + 1, filled)
    OBVIOUS
  <2>1. PICK p : p = (j - 1) * Base
    OBVIOUS
  <2>2. p \in 0..filled /\ (p % Base) = 0 /\ j * Base = p + Base
    <3>1. j - 1 \in Nat /\ (j - 1) + 1 = j
      OBVIOUS
    <3>2. (j - 1) * Base \in Nat /\ ((j - 1) + 1) * Base = (j - 1) * Base + Base
      BY <3>1, TimesBase
    <3>3. (((j - 1) * Base) % Base) = 0
      BY <3>1, WholeNodes
    <3> QED
      BY <1>1, <2>1, <3>1, <3>2, <3>3
  <2>3. SavedFrom[j][p] = PieceOf(SavedFrom, j, p)
    BY <1>1, <2>2, FileFrom
  <2>4. CASE p = filled
    <3>1. SubSeq(mem, p + 1, filled) = <<>>
      BY <1>1, <2>2, <2>4
    <3> QED
      BY <2>1, <2>3, <2>4, <3>1 DEF PieceOf
  <2>5. CASE p # filled
    <3>1. j <= Nodes
      <4>1. CASE j = Nodes + 1
        BY <1>1, <2>1, <2>2, <2>5, <4>1
      <4> QED
        BY <1>1, <4>1
    <3>2. Common(p) = IF filled - p > Base THEN Base ELSE filled - p
      BY <1>1, <2>2, ByteAssumption DEF Common
    <3>3. Common(p) \in Nat /\ p + Common(p) \in 0..filled
      BY <1>1, <2>2, <3>2, ByteAssumption
    <3>4. PICK c : c = Common(p)
      OBVIOUS
    <3>5. PieceOf(SavedFrom, j, p) = SubSeq(mem, p + 1, p + c) \o SavedFrom[j + 1][p + c]
      <4>1. ~(Common(p) < 0 \/ j > Nodes) /\ p + 0 = p
        BY <1>1, <2>2, <3>1, <3>3
      <4> QED
        BY <2>1, <2>2, <2>5, <3>4, <4>1 DEF PieceOf
    <3>6. SavedFrom[j + 1][p + c] = SubSeq(mem, p + c + 1, filled)
      <4>1. j + 1 \in S /\ (j + 1) - 1 = j
        BY <1>1, <1>2, <3>1
      <4>2. CASE filled - p >= Base
        <5>1. p + c = j * Base /\ j * Base <= filled
          BY <1>1, <2>2, <3>2, <3>4, <4>2, ByteAssumption
        <5>2. SavedFrom[j + 1][j * Base] = SubSeq(mem, j * Base + 1, filled)
          BY <4>1, <5>1
        <5> QED
          BY <5>1, <5>2
      <4>3. CASE filled - p < Base
        <5>1. p + c = filled
          BY <1>1, <2>2, <3>2, <3>4, <4>3, ByteAssumption
        <5>2. SavedFrom[j + 1][filled] = PieceOf(SavedFrom, j + 1, filled)
          BY <1>1, <3>1, FileFrom
        <5>3. SubSeq(mem, filled + 1, filled) = <<>>
          BY <1>1
        <5> QED
          BY <5>1, <5>2, <5>3 DEF PieceOf
      <4> QED
        BY <1>1, <2>2, <4>2, <4>3, ByteAssumption
    <3>7. SubSeq(mem, p + 1, p + c) \o SubSeq(mem, p + c + 1, filled) = SubSeq(mem, p + 1, filled)
      <4>1. PICK e : e = p + c
        OBVIOUS
      <4>2. p \in Nat /\ e \in Nat /\ p <= e /\ e <= filled
        BY <1>1, <2>2, <3>3, <3>4, <4>1
      <4>3. SubSeq(mem, p + 1, e) \o SubSeq(mem, e + 1, filled) = SubSeq(mem, p + 1, filled)
        BY <1>1, <4>2, JoinedParts
      <4> QED
        BY <4>1, <4>3
    <3> QED
      BY <2>1, <2>3, <3>5, <3>6, <3>7
  <2> QED
    BY <2>4, <2>5
<1> HIDE DEF S
<1>3. Nodes + 1 \in S
  BY <1>1, <1>2
<1>4. k \in S
  <2>1. \A j \in 1..(Nodes + 1) : j # Nodes + 1 /\ j + 1 \in S => j \in S
    BY <1>2
  <2> QED
    BY <1>1, <1>3, <2>1, Downward
<1> QED
  BY <1>4 DEF S

(* Elements of Byte are none of them NoByte.                               *)
LEMMA NoByteIsNone ==
  ASSUME NEW s \in Seq(Byte), NEW i \in 1..Len(s)
  PROVE  s[i] # NoByte
<1>1. s[i] \in Byte
  OBVIOUS
<1>2. s[i] \in Nat
  BY <1>1, ByteAssumption
<1> QED
  BY <1>2 DEF NoByte

(* Where the rest and the node have nothing in common behind the offset,   *)
(* the chain is followed to its end and beyond.                            *)
LEMMA FileOfNothing ==
  ASSUME ChainInv, NEW k \in 1..(Nodes + 1), NEW p \in Nat, p < filled, Common(p) = 0
  PROVE  SavedFrom[k][p] = <<NoByte>>
<1>1. mem \in Seq(Byte) /\ Nodes \in Nat /\ filled \in Nat
  BY DEF ChainInv
<1> DEFINE S == {j \in 1..(Nodes + 1) : SavedFrom[j][p] = <<NoByte>>}
<1>2. ASSUME NEW j \in 1..(Nodes + 1), j # Nodes + 1 => j + 1 \in S PROVE j \in S
  <2>1. SavedFrom[j][p] = PieceOf(SavedFrom, j, p)
    BY <1>1, FileFrom
  <2>2. CASE j = Nodes + 1
    <3>1. j > Nodes /\ p # filled
      BY <1>1, <2>2
    <3> QED
      BY <2>1, <3>1 DEF PieceOf
  <2>3. CASE j # Nodes + 1
    <3>1. ~(Common(p) < 0 \/ j > Nodes) /\ p # filled /\ p + Common(p) = p
      BY <1>1, <2>3
    <3>2. SavedFrom[j + 1][p] = <<NoByte>>
      BY <1>2, <2>3
    <3>3. PICK x : x = (j - 1) * Base + (p % Base)
      OBVIOUS
    <3>4. x \in Nat /\ x + Common(p) = x
      <4>1. j - 1 \in Nat
        BY <1>1
      <4>2. (j - 1) * Base \in Nat
        BY <4>1, TimesBase
      <4>3. (p % Base) \in Nat
        BY DivisionOf, ByteAssumption
      <4>4. x \in Nat
        BY <3>3, <4>2, <4>3
      <4> QED
        BY <4>4
    <3>5. PieceOf(SavedFrom, j, p) = SubSeq(mem, x + 1, x) \o <<NoByte>>
      BY <3>1, <3>2, <3>3, <3>4 DEF PieceOf
    <3>6. SubSeq(mem, x + 1, x) = <<>>
      BY <1>1, <3>4
    <3>7. <<>> \o <<NoByte>> = <<NoByte>>
      BY DEF NoByte
    <3> QED
      BY <2>1, <3>5, <3>6, <3>7
  <2> QED
    BY <2>2, <2>3
<1> HIDE DEF S
<1>3. Nodes + 1 \in S
  BY <1>1, <1>2
<1>4. k \in S
  <2>1. \A j \in 1..(Nodes + 1) : j # Nodes + 1 /\ j + 1 \in S => j \in S
    BY <1>2
  <2> QED
    BY <1>1, <1>3, <2>1, Downward
<1> QED
  BY <1>4 DEF S

LEMMA CurInChain ==
  ASSUME ChainInv
  PROVE  /\ cur \in 1..(Nodes + 1)
         /\ pos < Len(mem) =>
               /\ cur \in 1..Nodes /\ cur - 1 = pos \div Base
               /\ (cur - 1) * Base + (pos % Base) = pos
<1>1. /\ Len(mem) = Nodes * Base /\ Nodes \in Nat \ {0} /\ pos \in Nat /\ Len(mem) \in Nat
  BY DEF ChainInv
<1>2. CASE pos < Len(mem)
  <2>1. PICK q, o : q = pos \div Base /\ o = (pos % Base)
    OBVIOUS
  <2>2. q \in Nat /\ o \in 0..(Base - 1) /\ pos = q * Base + o
    BY <1>1, <2>1, DivisionOf
  <2>3. cur = q + 1
    BY <1>2, <2>1 DEF ChainInv, NodeOf
  <2>4. q < Nodes
    BY <1>1, <1>2, <2>2, ByteAssumption
  <2>5. cur - 1 = q /\ cur \in 1..Nodes
    BY <1>1, <2>2, <2>3, <2>4
  <2> QED
    BY <1>1, <2>1, <2>2, <2>5
<1>3. CASE ~(pos < Len(mem))
  BY <1>1, <1>3 DEF ChainInv
<1> QED
  BY <1>2, <1>3

(***************************************************************************)
(* The first piece of a file that begins within a node.                    *)
(***************************************************************************)
LEMMA FirstPiece ==
  ASSUME ChainInv, pos < filled, NEW c \in Nat, c = Common(pos)
  PROVE  Saved = SubSeq(mem, pos + 1, pos + c) \o SavedFrom[cur + 1][pos + c]
<1>1. pos \in Nat /\ filled \in Nat /\ filled <= Len(mem) /\ Len(mem) \in Nat /\ Nodes \in Nat
  BY DEF ChainInv
<1>2. cur \in 1..Nodes /\ (cur - 1) * Base + (pos % Base) = pos
  BY <1>1, CurInChain
<1>3. SavedFrom[cur][pos] = PieceOf(SavedFrom, cur, pos)
  BY <1>1, <1>2, FileFrom
<1>4. pos # filled /\ ~(Common(pos) < 0 \/ cur > Nodes)
  BY <1>1, <1>2
<1> QED
  BY <1>2, <1>3, <1>4 DEF PieceOf, Saved

LEMMA UnreadIsInChain ==
  ASSUME ChainInv, ContentInv
  PROVE  SubSeq(mem, pos + 1, filled) = SubSeq(content, pos + 1, filled)
<1>1. /\ mem \in Seq(Byte) /\ Len(mem) \in Nat /\ filled \in Nat /\ filled <= Len(mem)
      /\ pos \in Nat /\ pos <= filled
      /\ content \in Seq(Byte) /\ Len(content) = filled
      /\ \A i \in 1..filled : content[i] = mem[i]
  BY DEF ChainInv, ContentInv
<1>2. PICK t, u : t = SubSeq(mem, pos + 1, filled) /\ u = SubSeq(content, pos + 1, filled)
  OBVIOUS
<1>3. t \in Seq(Byte) /\ Len(t) = filled - pos /\ \A i \in 1..(filled - pos) : t[i] = mem[pos + i]
  BY <1>1, <1>2
<1>4. u \in Seq(Byte) /\ Len(u) = filled - pos /\ \A i \in 1..(filled - pos) : u[i] = content[pos + i]
  BY <1>1, <1>2
<1>5. \A i \in 1..(filled - pos) : pos + i \in 1..filled
  BY <1>1
<1>6. \A i \in 1..(filled - pos) : t[i] = u[i]
  BY <1>1, <1>3, <1>4, <1>5
<1>7. t = u
  BY <1>3, <1>4, <1>6, SameSequence
<1> QED
  BY <1>2, <1>7

(* It takes the rest: it begins with a node, or fills one.                 *)
LEMMA FileOfNodes ==
  ASSUME ChainInv, (pos % Base) = 0 \/ filled - pos >= Base \/ pos = filled
  PROVE  Saved = SubSeq(mem, pos + 1, filled)
<1>1. /\ mem \in Seq(Byte) /\ Len(mem) \in Nat /\ Nodes \in Nat /\ filled \in Nat /\ filled <= Len(mem)
      /\ pos \in Nat /\ pos <= filled
  BY DEF ChainInv
<1>2. CASE pos = filled
  <2>1. SavedFrom[cur][pos] = PieceOf(SavedFrom, cur, pos)
    BY <1>1, CurInChain, FileFrom
  <2>2. SubSeq(mem, pos + 1, filled) = <<>>
    BY <1>1, <1>2
  <2> QED
    BY <1>2, <2>1, <2>2 DEF PieceOf, Saved
<1>3. CASE pos < filled /\ (pos % Base) = 0
  <2>1. cur \in 1..(Nodes + 1) /\ (cur - 1) * Base + 0 = pos
    BY <1>1, <1>3, CurInChain
  <2>2. (cur - 1) * Base = pos
    <3>1. cur - 1 \in Nat
      BY <1>1, <2>1
    <3>2. (cur - 1) * Base \in Nat
      BY <3>1, TimesBase
    <3> QED
      BY <2>1, <3>2
  <2>3. SavedFrom[cur][(cur - 1) * Base] = SubSeq(mem, (cur - 1) * Base + 1, filled)
    BY <1>1, <2>1, <2>2, FileFromNode
  <2> QED
    BY <2>2, <2>3 DEF Saved
<1>4. CASE pos < filled /\ (pos % Base) # 0 /\ filled - pos >= Base
  <2>1. PICK o : o = (pos % Base)
    OBVIOUS
  <2>2. o \in 0..(Base - 1) /\ o # 0 /\ cur \in 1..Nodes /\ (cur - 1) * Base + o = pos
    <3>1. o \in 0..(Base - 1) /\ o # 0
      BY <1>1, <1>4, <2>1, DivisionOf
    <3>2. pos < Len(mem)
      BY <1>1, <1>4
    <3> QED
      BY <2>1, <3>1, <3>2, CurInChain
  <2>3. Common(pos) = Base - o
    BY <1>1, <1>4, <2>1, ByteAssumption DEF Common
  <2>4. PICK c : c = Common(pos)
    OBVIOUS
  <2>5. c \in Nat /\ pos + c <= filled /\ c = Base - o
    BY <1>1, <1>4, <2>2, <2>3, <2>4, ByteAssumption
  <2>6. pos + c = cur * Base
    <3>1. cur - 1 \in Nat /\ (cur - 1) + 1 = cur
      BY <1>1, <2>2
    <3>2. (cur - 1) * Base \in Nat /\ ((cur - 1) + 1) * Base = (cur - 1) * Base + Base
      BY <3>1, TimesBase
    <3> QED
      BY <2>2, <2>5, <3>1, <3>2, ByteAssumption
  <2>7. SavedFrom[cur + 1][cur * Base] = SubSeq(mem, cur * Base + 1, filled)
    <3>1. cur + 1 \in 1..(Nodes + 1) /\ (cur + 1) - 1 = cur
      BY <1>1, <2>2
    <3>2. PICK k : k = cur + 1
      OBVIOUS
    <3>3. k \in 1..(Nodes + 1) /\ k - 1 = cur /\ (k - 1) * Base <= filled
      BY <2>5, <2>6, <3>1, <3>2
    <3>4. SavedFrom[k][(k - 1) * Base] = SubSeq(mem, (k - 1) * Base + 1, filled)
      BY <3>3, FileFromNode
    <3> QED
      BY <3>2, <3>3, <3>4
  <2>8. Saved = SubSeq(mem, pos + 1, pos + c) \o SavedFrom[cur + 1][pos + c]
    BY <1>4, <2>4, <2>5, FirstPiece
  <2>9. SubSeq(mem, pos + 1, pos + c) \o SubSeq(mem, pos + c + 1, filled) = SubSeq(mem, pos + 1, filled)
    <3>1. PICK e : e = pos + c
      OBVIOUS
    <3>2. e \in Nat /\ pos <= e /\ e <= filled
      BY <1>1, <2>5, <3>1
    <3>3. SubSeq(mem, pos + 1, e) \o SubSeq(mem, e + 1, filled) = SubSeq(mem, pos + 1, filled)
      BY <1>1, <3>2, JoinedParts
    <3> QED
      BY <3>1, <3>3
  <2> QED
    BY <2>6, <2>7, <2>8, <2>9
<1> QED
  BY <1>1, <1>2, <1>3, <1>4

LEMMA LastOf ==
  ASSUME NEW s \in Seq(Byte), NEW e
  PROVE  (s \o <<e>>)[Len(s) + 1] = e
  OBVIOUS

(* Where it does not, it goes beyond the chain before it has taken all.    *)
LEMMA FileGoesBeyond ==
  ASSUME ChainInv, (pos % Base) # 0, filled - pos < Base, pos < filled
  PROVE  \E i \in 1..(filled - pos) : Saved[i] = NoByte
<1>1. /\ mem \in Seq(Byte) /\ Len(mem) \in Nat /\ Nodes \in Nat /\ filled \in Nat /\ filled <= Len(mem)
      /\ pos \in Nat
  BY DEF ChainInv
<1>2. PICK o, n : o = (pos % Base) /\ n = filled - pos
  OBVIOUS
<1>3. /\ o \in 1..(Base - 1) /\ n \in 1..(Base - 1)
      /\ cur \in 1..Nodes /\ (cur - 1) * Base + o = pos
  <2>1. o \in 0..(Base - 1) /\ o # 0
    BY <1>1, <1>2, DivisionOf
  <2>2. pos < Len(mem)
    BY <1>1
  <2>3. o \in 1..(Base - 1) /\ n \in 1..(Base - 1)
    BY <1>1, <1>2, <2>1, ByteAssumption
  <2> QED
    BY <1>2, <2>2, <2>3, CurInChain
<1>4. Common(pos) = n - o
  BY <1>1, <1>2, <1>3, ByteAssumption DEF Common
<1>5. CASE n < o
  <2>1. SavedFrom[cur][pos] = PieceOf(SavedFrom, cur, pos)
    BY <1>1, <1>3, FileFrom
  <2>2. pos # filled /\ Common(pos) < 0
    BY <1>1, <1>3, <1>4, <1>5
  <2>3. Saved = <<NoByte>>
    BY <2>1, <2>2 DEF PieceOf, Saved
  <2>4. Saved[1] = NoByte /\ 1 \in 1..(filled - pos)
    BY <1>1, <2>3
  <2> QED
    BY <2>4
<1>6. CASE n >= o
  <2>1. PICK p : p = pos + (n - o)
    OBVIOUS
  <2>2. p \in Nat /\ p < filled /\ filled - p = o /\ p = (cur - 1) * Base + n
    <3>1. cur - 1 \in Nat
      BY <1>1, <1>3
    <3>2. (cur - 1) * Base \in Nat
      BY <3>1, TimesBase
    <3> QED
      <4>1. PICK b : b = (cur - 1) * Base
        OBVIOUS
      <4>2. b \in Nat /\ b + o = pos /\ Base \in Nat
        BY <1>3, <3>2, <4>1, ByteAssumption
      <4>3. p = b + n
        BY <1>1, <1>3, <2>1, <4>2
      <4>4. p \in Nat /\ p < filled /\ filled - p = o
        <5>1. o \in Nat /\ n \in Nat /\ o >= 1
          BY <1>3, <4>2
        <5>2. pos + n = filled
          BY <1>1, <1>2
        <5> QED
          BY <1>1, <1>6, <2>1, <5>1, <5>2
      <4> QED
        BY <4>1, <4>3, <4>4
  <2>3. (p % Base) = n
    <3>1. cur - 1 \in Nat /\ n \in 0..(Base - 1)
      BY <1>1, <1>3
    <3>2. (((cur - 1) * Base + n) % Base) = n
      BY <3>1, DivisionIs
    <3> QED
      BY <2>2, <3>2
  <2>4. Common(p) = o - n
    BY <1>3, <2>2, <2>3, ByteAssumption DEF Common
  <2>5. SavedFrom[cur + 1][p] = <<NoByte>>
    <3>1. cur + 1 \in 1..(Nodes + 1) /\ p \in 0..filled /\ p # filled
      BY <1>1, <1>3, <2>2
    <3>2. CASE n = o
      <4>1. Common(p) = 0
        BY <1>3, <2>4, <3>2
      <4> QED
        BY <2>2, <3>1, <4>1, FileOfNothing
    <3>3. CASE n > o
      <4>1. Common(p) < 0
        BY <1>3, <2>4, <3>3
      <4>2. SavedFrom[cur + 1][p] = PieceOf(SavedFrom, cur + 1, p)
        BY <1>1, <3>1, FileFrom
      <4> QED
        BY <3>1, <4>1, <4>2 DEF PieceOf
    <3> QED
      BY <1>3, <1>6, <3>2, <3>3
  <2>6. PICK c : c = n - o
    OBVIOUS
  <2>7. c \in Nat /\ c = Common(pos) /\ pos + c = p /\ c + 1 \in 1..(filled - pos) /\ p <= Len(mem)
    <3>1. c \in Nat /\ c = Common(pos) /\ pos + c = p
      BY <1>3, <1>4, <1>6, <2>1, <2>6, ByteAssumption
    <3>2. p <= Len(mem)
      BY <1>1, <2>2
    <3>3. c + 1 \in 1..(filled - pos)
      BY <1>2, <1>3, <1>6, <2>6, <3>1, ByteAssumption
    <3> QED
      BY <3>1, <3>2, <3>3
  <2>8. Saved = SubSeq(mem, pos + 1, p) \o <<NoByte>>
    <3>1. Saved = SubSeq(mem, pos + 1, pos + c) \o SavedFrom[cur + 1][pos + c]
      BY <2>7, FirstPiece
    <3> QED
      BY <2>5, <2>7, <3>1
  <2>9. PICK s : s = SubSeq(mem, pos + 1, p)
    OBVIOUS
  <2>10. s \in Seq(Byte) /\ Len(s) = c
    <3>1. pos \in Nat /\ p \in Nat /\ pos <= p /\ p <= Len(mem) /\ p - pos = c
      BY <1>1, <2>2, <2>7
    <3> QED
      BY <1>1, <2>9, <3>1
  <2>11. Saved[c + 1] = NoByte
    BY <2>8, <2>9, <2>10, LastOf
  <2> QED
    BY <2>7, <2>11
<1> QED
  BY <1>3, <1>5, <1>6

LEMMA FileIsUnread ==
  ASSUME ChainInv, ContentInv
  PROVE  FileTakesUnread
<1>1. /\ Len(mem) \in Nat /\ filled \in Nat /\ filled <= Len(mem) /\ pos \in Nat /\ pos <= filled
      /\ content \in Seq(Byte) /\ Len(content) = filled
  BY DEF ChainInv, ContentInv
<1> DEFINE whole == (pos % Base) = 0 \/ filled - pos >= Base \/ pos = filled
<1>2. CASE whole
  BY <1>2, FileOfNodes, UnreadIsInChain DEF FileTakesUnread
<1>3. CASE ~whole
  <2>1. filled - pos < Base /\ pos < filled
    BY <1>1, <1>3, ByteAssumption
  <2>2. PICK i \in 1..(filled - pos) : Saved[i] = NoByte
    BY <1>3, <2>1, FileGoesBeyond
  <2>3. PICK u : u = SubSeq(content, pos + 1, filled)
    OBVIOUS
  <2>4. u \in Seq(Byte) /\ i \in 1..Len(u)
    BY <1>1, <2>3
  <2>5. u[i] # NoByte
    BY <2>4, NoByteIsNone
  <2> QED
    BY <1>3, <2>2, <2>3, <2>5 DEF FileTakesUnread
<1> QED
  BY <1>2, <1>3

(***************************************************************************)
(* Before anything is misplaced, ByteArray holds what was written, in the  *)
(* nodes its position and m_cur lead to, and a file takes what is unread   *)
(* exactly if that begins with a node or fills one: for any size of node   *)
(* and any sequence of writes, reads, moves and receptions                 *)
(* (bytearray.cpp:352-405, 441-489).                                       *)
(***************************************************************************)
THEOREM BytesAreKept == ByteSpec => []BytesKept
<1>1. ByteInv => BytesKept
  BY ChainIsContent, FileIsUnread DEF ByteInv, BytesKept
<1> QED
  BY <1>1, ByteInvInit, ByteInvStep, PTL DEF ByteSpec
-----------------------------------------------------------------------------
(* ByteArray: numbers.                                                     *)
(* What holds of 0, and of the next number when it holds of one, holds of  *)
(* all up to m.                                                            *)
LEMMA Upward ==
  ASSUME NEW m \in Nat, NEW S, 0 \in S, \A k \in 0..m : k # m /\ k \in S => k + 1 \in S
  PROVE  \A k \in 0..m : k \in S
<1> DEFINE rest == {i \in 0..m : i \notin S}
<1> SUFFICES ASSUME NEW k \in 0..m, k \notin S PROVE FALSE
  OBVIOUS
<1>1. rest \in SUBSET Nat /\ k \in rest
  OBVIOUS
<1>2. PICK i \in rest : \A j \in rest : <<j, i>> \notin Less
  <2> HIDE DEF rest
  <2> QED
    BY <1>1, LessWellFounded, WFMin
<1>3. i \in 0..m /\ i \notin S
  OBVIOUS
<1> HIDE DEF rest
<1>4. i # 0
  BY <1>3
<1>5. i - 1 \in 0..m /\ i - 1 # m /\ (i - 1) + 1 = i /\ <<i - 1, i>> \in Less
  BY <1>3, <1>4 DEF Less
<1>6. i - 1 \in S
  BY <1>2, <1>5 DEF rest
<1> QED
  BY <1>3, <1>5, <1>6

(* Powers of 2.                                                            *)
Top == Width + GroupBits

PowerOf(f, n) == IF n = 0 THEN 1 ELSE 2 * f[n - 1]

LEMMA PowerExists == Power = [n \in 0..Top |-> PowerOf(Power, n)]
<1>1. Top \in Nat
  BY ByteAssumption DEF Top
<1> DEFINE S == {j \in 0..Top : \E g : g = [n \in 0..j |-> PowerOf(g, n)]}
<1>2. 0 \in S
  <2> DEFINE g == [n \in 0..0 |-> 1]
  <2>1. \A n \in 0..0 : PowerOf(g, n) = 1
    BY DEF PowerOf
  <2>2. g = [n \in 0..0 |-> PowerOf(g, n)]
    <3>1. g = [n \in 0..0 |-> 1]
      OBVIOUS
    <3> HIDE DEF g
    <3> QED
      BY <2>1, <3>1
  <2> QED
    BY <1>1, <2>2
<1>3. ASSUME NEW k \in 0..Top, k # Top, k \in S PROVE k + 1 \in S
  <2>1. PICK g : g = [n \in 0..k |-> PowerOf(g, n)]
    BY <1>3
  <2> HIDE DEF S
  <2> DEFINE h == [n \in 0..(k + 1) |-> IF n = k + 1 THEN PowerOf(g, n) ELSE g[n]]
  <2>2. \A n \in 0..k : h[n] = g[n] /\ g[n] = PowerOf(g, n)
    BY <2>1
  <2>3. h[k + 1] = PowerOf(g, k + 1) /\ h = [n \in 0..(k + 1) |-> h[n]]
    OBVIOUS
  <2> HIDE DEF h
  <2>4. ASSUME NEW n \in 0..(k + 1) PROVE h[n] = PowerOf(h, n)
    <3>1. n = k + 1 \/ n \in 0..k
      OBVIOUS
    <3>2. n # 0 => n - 1 \in 0..k
      OBVIOUS
    <3>3. PowerOf(g, n) = PowerOf(h, n)
      BY <2>2, <3>2 DEF PowerOf
    <3> QED
      BY <2>2, <2>3, <3>1, <3>3
  <2>5. h = [n \in 0..(k + 1) |-> PowerOf(h, n)]
    BY <2>3, <2>4
  <2>6. k + 1 \in 0..Top
    BY <1>1, <1>3
  <2> QED
    BY <2>5, <2>6 DEF S
<1>4. Top \in S
  <2> HIDE DEF S
  <2>1. Top \in 0..Top
    BY <1>1
  <2> QED
    BY <1>1, <1>2, <1>3, <2>1, Upward
<1>5. \E g : g = [n \in 0..Top |-> PowerOf(g, n)]
  BY <1>4
<1> HIDE DEF S
<1> QED
  BY <1>5 DEF Power, PowerOf, Top

LEMMA PowerSteps ==
  /\ Top \in Nat /\ Power[0] = 1
  /\ \A n \in 0..Top : n # Top => Power[n + 1] = 2 * Power[n]
<1>1. Top \in Nat
  BY ByteAssumption DEF Top
<1>2. PICK f : f = Power
  OBVIOUS
<1>3. f = [n \in 0..Top |-> PowerOf(f, n)]
  BY <1>2, PowerExists
<1>4. f[0] = 1
  BY <1>1, <1>3 DEF PowerOf
<1>5. ASSUME NEW n \in 0..Top, n # Top PROVE f[n + 1] = 2 * f[n]
  <2>1. n + 1 \in 0..Top /\ n + 1 # 0 /\ (n + 1) - 1 = n
    BY <1>1, <1>5
  <2>2. f[n + 1] = PowerOf(f, n + 1)
    BY <1>3, <2>1
  <2> QED
    BY <2>1, <2>2 DEF PowerOf
<1> QED
  BY <1>1, <1>2, <1>4, <1>5

LEMMA PowerType == \A n \in 0..Top : Power[n] \in Nat /\ Power[n] >= 1
<1> DEFINE S == {n \in 0..Top : Power[n] \in Nat /\ Power[n] >= 1}
<1>1. 0 \in S
  BY PowerSteps
<1>2. ASSUME NEW k \in 0..Top, k # Top, k \in S PROVE k + 1 \in S
  <2>1. k + 1 \in 0..Top /\ Power[k + 1] = 2 * Power[k]
    BY <1>2, PowerSteps
  <2> QED
    BY <1>2, <2>1
<1>3. \A n \in 0..Top : n \in S
  <2> HIDE DEF S
  <2> QED
    BY <1>1, <1>2, PowerSteps, Upward
<1> QED
  BY <1>3

LEMMA PowerSum ==
  ASSUME NEW a \in Nat, NEW b \in Nat, a + b <= Top
  PROVE  Power[a + b] = Power[a] * Power[b]
<1>1. Top \in Nat /\ a \in 0..Top /\ b \in 0..Top
  BY PowerSteps
<1>2. PICK x : x = Power[a] /\ x \in Nat
  BY <1>1, PowerType
<1> DEFINE S == {k \in 0..b : Power[a + k] = x * Power[k]}
<1>3. 0 \in S
  <2>1. a + 0 = a /\ Power[0] = 1
    BY PowerSteps
  <2> QED
    BY <1>2, <2>1
<1>4. ASSUME NEW k \in 0..b, k # b, k \in S PROVE k + 1 \in S
  <2>1. a + k \in 0..Top /\ a + k # Top /\ k \in 0..Top /\ k # Top /\ (a + k) + 1 = a + (k + 1)
    BY <1>1, <1>4
  <2>2. PICK y : y = Power[k] /\ y \in Nat
    BY <2>1, PowerType
  <2>3. Power[a + (k + 1)] = 2 * Power[a + k] /\ Power[k + 1] = 2 * y
    BY <2>1, <2>2, PowerSteps
  <2>4. Power[a + k] = x * y
    BY <1>4, <2>2
  <2>5. 2 * (x * y) = x * (2 * y)
    BY <1>2, <2>2
  <2> QED
    BY <1>4, <2>3, <2>4, <2>5
<1>5. b \in S
  <2> HIDE DEF S
  <2>1. b \in 0..b
    OBVIOUS
  <2> QED
    BY <1>3, <1>4, <2>1, Upward
<1> QED
  BY <1>2, <1>5

LEMMA PowerGrows ==
  ASSUME NEW a \in Nat, NEW b \in Nat, a <= b, b <= Top
  PROVE  Power[a] <= Power[b]
<1>1. PICK c : c = b - a
  OBVIOUS
<1>2. c \in Nat /\ a + c = b /\ a \in 0..Top /\ c \in 0..Top
  BY <1>1, PowerSteps
<1>3. PICK x, y : x = Power[a] /\ y = Power[c]
  OBVIOUS
<1>4. x \in Nat /\ y \in Nat /\ y >= 1
  BY <1>2, <1>3, PowerType
<1>5. Power[b] = x * y
  BY <1>2, <1>3, PowerSum
<1>6. x <= x * y
  BY <1>4
<1> QED
  BY <1>3, <1>5, <1>6

(* Division.                                                               *)
LEMMA DivideBy ==
  ASSUME NEW p \in Nat, NEW b \in Nat \ {0}
  PROVE  /\ p \div b \in Nat /\ (p % b) \in 0..(b - 1)
         /\ p = (p \div b) * b + (p % b)
  OBVIOUS

LEMMA QuotientIs ==
  ASSUME NEW b \in Nat \ {0}, NEW q \in Nat, NEW r \in 0..(b - 1)
  PROVE  (q * b + r) \div b = q /\ ((q * b + r) % b) = r
  OBVIOUS

LEMMA SmallRemainder ==
  ASSUME NEW b \in Nat \ {0}, NEW r \in 0..(b - 1)
  PROVE  r \div b = 0 /\ (r % b) = r
<1>1. 0 * b + r = r
  OBVIOUS
<1> QED
  BY <1>1, QuotientIs

LEMMA DivideTwice ==
  ASSUME NEW v \in Nat, NEW b \in Nat \ {0}, NEW c \in Nat \ {0}
  PROVE  (v \div b) \div c = v \div (b * c)
<1>1. PICK q, r, d, e : q = v \div b /\ r = (v % b) /\ d = q \div c /\ e = (q % c)
  OBVIOUS
<1>2. q \in Nat /\ r \in 0..(b - 1) /\ v = q * b + r
  BY <1>1, DivideBy
<1>3. d \in Nat /\ e \in 0..(c - 1) /\ q = d * c + e
  BY <1>1, <1>2, DivideBy
<1>4. PICK m, t : m = b * c /\ t = e * b + r
  OBVIOUS
<1>5. m \in Nat \ {0}
  BY <1>4
<1>6. v = d * m + t
  <2>1. (d * c + e) * b = d * (b * c) + e * b
    BY <1>3
  <2>2. d * (b * c) \in Nat /\ e * b \in Nat
    BY <1>3
  <2> QED
    BY <1>2, <1>3, <1>4, <2>1, <2>2
<1>7. t \in 0..(m - 1)
  <2>1. (e + 1) * b <= c * b
    BY <1>3
  <2>2. (e + 1) * b = e * b + b /\ c * b = m /\ e * b \in Nat
    BY <1>3, <1>4
  <2> QED
    BY <1>2, <1>4, <1>5, <2>1, <2>2
<1>8. (d * m + t) \div m = d
  BY <1>3, <1>5, <1>7, QuotientIs
<1> QED
  BY <1>1, <1>4, <1>6, <1>8

(* Values.                                                                 *)
HornerOf(f, d, base, i) == IF i > Len(d) THEN 0 ELSE d[i] + base * f[i + 1]

LEMMA ValueExists ==
  ASSUME NEW n \in Nat, NEW d, Len(d) = n, NEW base
  PROVE  \E f : f = [i \in 1..(n + 1) |-> HornerOf(f, d, base, i)] /\ Value(d, base) = f[1]
<1> DEFINE S == {j \in 1..(n + 1) :
                    \E g : g = [k \in j..(n + 1) |-> HornerOf(g, d, base, k)]}
<1>1. n + 1 \in S
  <2> DEFINE g == [k \in (n + 1)..(n + 1) |-> 0]
  <2>1. \A k \in (n + 1)..(n + 1) : HornerOf(g, d, base, k) = 0
    BY DEF HornerOf
  <2>2. g = [k \in (n + 1)..(n + 1) |-> HornerOf(g, d, base, k)]
    <3>1. g = [k \in (n + 1)..(n + 1) |-> 0]
      OBVIOUS
    <3> HIDE DEF g
    <3> QED
      BY <2>1, <3>1
  <2>3. n + 1 \in 1..(n + 1)
    OBVIOUS
  <2> HIDE DEF g
  <2> QED
    BY <2>2, <2>3
<1>2. ASSUME NEW j \in 1..(n + 1), j # n + 1, j + 1 \in S PROVE j \in S
  <2>1. PICK g : g = [k \in (j + 1)..(n + 1) |-> HornerOf(g, d, base, k)]
    BY <1>2
  <2> HIDE DEF S
  <2> DEFINE h == [k \in j..(n + 1) |-> IF k = j THEN HornerOf(g, d, base, j) ELSE g[k]]
  <2>2. \A k \in (j + 1)..(n + 1) : h[k] = g[k] /\ g[k] = HornerOf(g, d, base, k)
    BY <2>1, SMTT(30)
  <2>3. h[j] = HornerOf(g, d, base, j) /\ h = [k \in j..(n + 1) |-> h[k]]
    OBVIOUS
  <2> HIDE DEF h
  <2>4. ASSUME NEW k \in j..(n + 1) PROVE h[k] = HornerOf(h, d, base, k)
    <3>1. k <= n => k + 1 \in (j + 1)..(n + 1)
      OBVIOUS
    <3>2. k > n => k > Len(d)
      OBVIOUS
    <3>3. HornerOf(g, d, base, k) = HornerOf(h, d, base, k)
      <4>1. CASE k <= n
        BY <2>2, <3>1, <4>1 DEF HornerOf
      <4>2. CASE k > n
        BY <3>2, <4>2 DEF HornerOf
      <4> QED
        BY <4>1, <4>2
    <3>4. k = j \/ k \in (j + 1)..(n + 1)
      OBVIOUS
    <3> QED
      BY <2>2, <2>3, <3>3, <3>4
  <2>5. h = [k \in j..(n + 1) |-> HornerOf(h, d, base, k)]
    BY <2>3, <2>4
  <2> QED
    BY <2>5 DEF S
<1>3. 1 \in S
  <2> HIDE DEF S
  <2>1. n + 1 \in Nat /\ 1 \in 1..(n + 1)
    OBVIOUS
  <2>2. \A j \in 1..(n + 1) : j # n + 1 /\ j + 1 \in S => j \in S
    BY <1>2
  <2> QED
    BY <1>1, <2>1, <2>2, Downward
<1>4. PICK g : g = [k \in 1..(n + 1) |-> HornerOf(g, d, base, k)]
  BY <1>3
<1> HIDE DEF S
<1> DEFINE from == CHOOSE f : f = [i \in 1..(Len(d) + 1) |->
                                      IF i > Len(d) THEN 0 ELSE d[i] + base * f[i + 1]]
<1>5. Value(d, base) = from[1]
  BY DEF Value
<1>6. from = [i \in 1..(Len(d) + 1) |-> IF i > Len(d) THEN 0 ELSE d[i] + base * from[i + 1]]
  BY <1>4 DEF HornerOf
<1>7. from = [i \in 1..(n + 1) |-> HornerOf(from, d, base, i)]
  <2> HIDE DEF from
  <2> QED
    BY <1>6 DEF HornerOf
<1> HIDE DEF from
<1> QED
  BY <1>5, <1>7

(* What is left of a number of digits of base b, digit by digit.           *)
LEMMA ValueSteps ==
  ASSUME NEW n \in Nat, NEW d \in [1..n -> Nat], NEW base \in Nat
  PROVE  \E f \in [1..(n + 1) -> Nat] :
            /\ f[n + 1] = 0
            /\ \A i \in 1..n : f[i] = d[i] + base * f[i + 1]
            /\ Value(d, base) = f[1]
<1>1. Len(d) = n
  OBVIOUS
<1>2. PICK f : f = [i \in 1..(n + 1) |-> HornerOf(f, d, base, i)] /\ Value(d, base) = f[1]
  BY <1>1, ValueExists, SMTT(30)
<1>3. f[n + 1] = 0
  <2>1. n + 1 \in 1..(n + 1) /\ n + 1 > Len(d)
    BY <1>1
  <2> QED
    BY <1>2, <2>1 DEF HornerOf
<1>4. \A i \in 1..n : f[i] = d[i] + base * f[i + 1]
  <2> SUFFICES ASSUME NEW i \in 1..n PROVE f[i] = d[i] + base * f[i + 1]
    OBVIOUS
  <2>1. i \in 1..(n + 1) /\ ~(i > Len(d))
    BY <1>1
  <2>2. f[i] = HornerOf(f, d, base, i)
    BY <1>2, <2>1
  <2> QED
    BY <2>1, <2>2 DEF HornerOf
<1> DEFINE S == {i \in 1..(n + 1) : f[i] \in Nat}
<1>5. n + 1 \in S
  BY <1>3
<1>6. ASSUME NEW i \in 1..(n + 1), i # n + 1, i + 1 \in S PROVE i \in S
  <2>1. i \in 1..n /\ d[i] \in Nat /\ f[i + 1] \in Nat
    BY <1>6
  <2>2. base * f[i + 1] \in Nat
    BY <2>1
  <2> QED
    BY <1>4, <2>1, <2>2
<1>7. \A i \in 1..(n + 1) : i \in S
  <2> HIDE DEF S
  <2>1. n + 1 \in Nat
    OBVIOUS
  <2>2. \A i \in 1..(n + 1) : i # n + 1 /\ i + 1 \in S => i \in S
    BY <1>6
  <2> QED
    BY <1>5, <2>1, <2>2, Downward
<1>8. f \in [1..(n + 1) -> Nat]
  <2>1. \A i \in 1..(n + 1) : f[i] \in Nat
    BY <1>7
  <2>2. f = [i \in 1..(n + 1) |-> f[i]]
    BY <1>2
  <2> QED
    BY <2>1, <2>2
<1> QED
  BY <1>2, <1>3, <1>4, <1>8

(* The digits of a number are worth it.                                    *)
LEMMA DigitType ==
  ASSUME NEW bits \in 1..Top, NEW i \in Nat \ {0}, bits * (i - 1) <= Top, NEW v \in Nat
  PROVE  Digit(v, i, bits) \in 0..(Power[bits] - 1)
<1>1. bits * (i - 1) \in 0..Top /\ bits \in 0..Top
  <2>1. bits * (i - 1) \in Nat
    OBVIOUS
  <2> QED
    BY <2>1, PowerSteps
<1>2. PICK p, b : p = Power[bits * (i - 1)] /\ b = Power[bits]
  OBVIOUS
<1>3. p \in Nat \ {0} /\ b \in Nat \ {0}
  BY <1>1, <1>2, PowerType
<1>4. v \div p \in Nat
  BY <1>3, DivideBy
<1>5. ((v \div p) % b) \in 0..(b - 1)
  BY <1>3, <1>4, DivideBy
<1> QED
  BY <1>2, <1>5 DEF Digit

LEMMA TimesSteps ==
  ASSUME NEW bits \in Nat, NEW i \in Nat, NEW n \in Nat, i < n
  PROVE  /\ bits * i \in Nat /\ bits * (i + 1) = bits * i + bits
         /\ bits * (i + 1) <= bits * n
OBVIOUS

LEMMA DigitsWorth ==
  ASSUME NEW bits \in 1..Top, NEW n \in Nat, bits * n <= Top,
         NEW v \in Nat, v < Power[bits * n],
         NEW d \in [1..n -> Nat], \A i \in 1..n : d[i] = Digit(v, i, bits)
  PROVE  Value(d, Power[bits]) = v
<1>1. PICK b : b = Power[bits] /\ b \in Nat \ {0}
  <2>1. bits \in 0..Top
    BY PowerSteps
  <2> QED
    BY <2>1, PowerType
<1>2. PICK f \in [1..(n + 1) -> Nat] :
          /\ f[n + 1] = 0
          /\ \A i \in 1..n : f[i] = d[i] + b * f[i + 1]
          /\ Value(d, b) = f[1]
  BY <1>1, ValueSteps
<1> DEFINE S == {i \in 1..(n + 1) : f[i] = v \div Power[bits * (i - 1)]}
<1>3. n + 1 \in S
  <2>1. bits * n \in 0..Top /\ (n + 1) - 1 = n
    BY PowerSteps
  <2>2. PICK p : p = Power[bits * n] /\ p \in Nat \ {0}
    BY <2>1, PowerType
  <2>3. v \in 0..(p - 1)
    BY <2>2
  <2>4. v \div p = 0
    BY <2>2, <2>3, SmallRemainder
  <2> QED
    BY <1>2, <2>1, <2>2, <2>4
<1>4. ASSUME NEW i \in 1..(n + 1), i # n + 1, i + 1 \in S PROVE i \in S
  <2>1. PICK k : k = i - 1 /\ k \in Nat /\ k < n /\ k + 1 = i /\ i \in 1..n /\ (i + 1) - 1 = i
    BY <1>4, SMTT(30)
  <2>2. bits * k \in Nat /\ bits * i = bits * k + bits /\ bits * i <= bits * n
    BY <2>1, TimesSteps
  <2>3. bits * k \in 0..Top /\ bits * k + bits <= Top
    BY <2>2, PowerSteps, SMTT(30)
  <2>4. PICK p : p = Power[bits * k] /\ p \in Nat \ {0}
    BY <2>3, PowerType
  <2>5. Power[bits * i] = p * b
    BY <1>1, <2>2, <2>3, <2>4, PowerSum
  <2>6. PICK q : q = v \div p
    OBVIOUS
  <2>7. q \in Nat
    BY <2>4, <2>6, DivideBy
  <2>8. f[i + 1] = q \div b
    <3>1. f[i + 1] = v \div Power[bits * i]
      BY <1>4, <2>1
    <3>2. (v \div p) \div b = v \div (p * b)
      BY <1>1, <2>4, DivideTwice
    <3>3. v \div (p * b) = v \div Power[bits * i]
      BY <2>5
    <3> QED
      BY <2>6, <3>1, <3>2, <3>3
  <2>9. d[i] = (q % b)
    BY <1>1, <2>1, <2>4, <2>6 DEF Digit
  <2>10. f[i] = (q % b) + b * (q \div b)
    BY <1>2, <2>1, <2>8, <2>9
  <2>11. (q % b) + b * (q \div b) = q
    <3>1. PICK c, e : c = q \div b /\ e = (q % b)
      OBVIOUS
    <3>2. c \in Nat /\ e \in 0..(b - 1) /\ q = c * b + e
      BY <1>1, <2>7, <3>1, DivideBy
    <3>3. e + b * c = c * b + e
      BY <1>1, <3>2
    <3> QED
      BY <3>1, <3>2, <3>3
  <2> QED
    BY <1>4, <2>1, <2>4, <2>6, <2>10, <2>11
<1>5. 1 \in S
  <2> HIDE DEF S
  <2>1. n + 1 \in Nat /\ 1 \in 1..(n + 1)
    OBVIOUS
  <2>2. \A i \in 1..(n + 1) : i # n + 1 /\ i + 1 \in S => i \in S
    BY <1>4
  <2> QED
    BY <1>3, <2>1, <2>2, Downward
<1>6. f[1] = v \div Power[bits * 0]
  BY <1>5
<1>7. bits * 0 = 0 /\ v \div 1 = v
  OBVIOUS
<1> QED
  BY <1>1, <1>2, <1>6, <1>7, PowerSteps

LEMMA ProductGrows ==
  ASSUME NEW x \in Nat, NEW y \in Nat, x <= y, NEW b \in Nat
  PROVE  x * b <= y * b
<1>1. PICK z : z = y - x /\ z \in Nat
  OBVIOUS
<1>2. y * b = x * b + z * b /\ x * b \in Nat /\ z * b \in Nat
  BY <1>1
<1> QED
  BY <1>2

LEMMA BoundStep ==
  ASSUME NEW b \in Nat \ {0}, NEW p \in Nat, NEW g \in Nat, g + 1 <= p, NEW e \in 0..(b - 1)
  PROVE  e + b * g < p * b
<1>1. (g + 1) * b <= p * b
  BY ProductGrows
<1>2. (g + 1) * b = b * g + b
  OBVIOUS
<1>3. PICK x, y : x = b * g /\ y = p * b
  OBVIOUS
<1>4. x \in Nat /\ y \in Nat
  BY <1>3
<1>5. x + b <= y
  BY <1>1, <1>2, <1>3
<1>6. e + x < y
  BY <1>4, <1>5
<1> QED
  BY <1>3, <1>6

(* Digits below the base are worth less than as many digits can be.        *)
LEMMA ValueBound ==
  ASSUME NEW bits \in 1..Top, NEW n \in Nat, bits * n <= Top,
         NEW d \in [1..n -> 0..(Power[bits] - 1)]
  PROVE  Value(d, Power[bits]) \in Nat /\ Value(d, Power[bits]) < Power[bits * n]
<1>1. PICK b : b = Power[bits] /\ b \in Nat \ {0}
  <2>1. bits \in 0..Top
    BY PowerSteps
  <2> QED
    BY <2>1, PowerType
<1>2. d \in [1..n -> Nat] /\ \A i \in 1..n : d[i] \in 0..(b - 1)
  BY <1>1
<1>3. PICK f \in [1..(n + 1) -> Nat] :
          /\ f[n + 1] = 0
          /\ \A i \in 1..n : f[i] = d[i] + b * f[i + 1]
          /\ Value(d, b) = f[1]
  BY <1>1, <1>2, ValueSteps
<1> DEFINE S == {i \in 1..(n + 1) : f[i] < Power[bits * (n + 1 - i)]}
<1>4. n + 1 \in S
  <2>1. n + 1 - (n + 1) = 0 /\ bits * 0 = 0 /\ n + 1 \in 1..(n + 1)
    OBVIOUS
  <2>2. Power[bits * (n + 1 - (n + 1))] = 1
    BY <2>1, PowerSteps
  <2> QED
    BY <1>3, <2>1, <2>2
<1>5. ASSUME NEW i \in 1..(n + 1), i # n + 1, i + 1 \in S PROVE i \in S
  <2>1. PICK k : k = n - i /\ k \in Nat /\ k < n /\ n + 1 - i = k + 1 /\ n + 1 - (i + 1) = k
                 /\ i \in 1..n
    BY <1>5
  <2>2. bits * k \in Nat /\ bits * (k + 1) = bits * k + bits /\ bits * (k + 1) <= bits * n
    BY <2>1, TimesSteps
  <2>3. bits * k \in 0..Top /\ bits * k + bits <= Top
    BY <2>2, PowerSteps
  <2>4. PICK p : p = Power[bits * k] /\ p \in Nat \ {0}
    BY <2>3, PowerType
  <2>5. Power[bits * (k + 1)] = p * b
    BY <1>1, <2>2, <2>3, <2>4, PowerSum
  <2>6. PICK g : g = f[i + 1] /\ g \in Nat
    BY <2>1
  <2>7. g + 1 <= p
    BY <1>5, <2>1, <2>4, <2>6
  <2>8. f[i] = d[i] + b * g /\ d[i] \in 0..(b - 1)
    BY <1>2, <1>3, <2>1, <2>6
  <2>9. d[i] + b * g < p * b
    BY <1>1, <2>4, <2>6, <2>7, <2>8, BoundStep
  <2> QED
    BY <1>5, <2>1, <2>5, <2>8, <2>9
<1>6. 1 \in S
  <2> HIDE DEF S
  <2>1. n + 1 \in Nat /\ 1 \in 1..(n + 1)
    OBVIOUS
  <2>2. \A i \in 1..(n + 1) : i # n + 1 /\ i + 1 \in S => i \in S
    BY <1>5
  <2> QED
    BY <1>4, <2>1, <2>2, Downward
<1>7. n + 1 - 1 = n /\ 1 \in 1..(n + 1)
  OBVIOUS
<1> QED
  BY <1>1, <1>3, <1>6, <1>7

(* The widths: h bytes are half of one.                                    *)
LEMMA Widths ==
  \E h \in Nat \ {0} :
     /\ Half = ByteBits * h /\ Half \div ByteBits = h
     /\ Width = ByteBits * (2 * h) /\ Width \div ByteBits = 2 * h
     /\ Width = 2 * Half
<1>1. PICK b, m : b = GroupBits + 1 /\ m = 2 * b
  OBVIOUS
<1>2. b \in Nat \ {0} /\ m \in Nat \ {0} /\ Width \in Nat \ {0} /\ (Width % m) = 0
  BY <1>1, ByteAssumption
<1>3. PICK h : h = Width \div m
  OBVIOUS
<1>4. h \in Nat /\ Width = h * m
  BY <1>2, <1>3, DivideBy
<1>5. h # 0
  BY <1>2, <1>4
<1>6. h * b \in Nat /\ b * h \in Nat /\ b * h = h * b /\ h * m = (h * b) * 2 + 0 /\ h * m = (2 * h) * b + 0
      /\ b * (2 * h) = h * m /\ h * b = h * b + 0
  BY <1>1, <1>2, <1>4
<1>7. ((h * b) * 2 + 0) \div 2 = h * b
  BY <1>6, QuotientIs
<1>8. (h * b + 0) \div b = h /\ ((2 * h) * b + 0) \div b = 2 * h
  BY <1>2, <1>4, QuotientIs
<1>9. Half = h * b
  BY <1>4, <1>6, <1>7 DEF Half
<1>10. ByteBits = b
  BY <1>1 DEF ByteBits
<1>11. Half \div b = h
  BY <1>6, <1>8, <1>9
<1>12. Width \div b = 2 * h
  BY <1>4, <1>6, <1>8
<1> QED
  BY <1>4, <1>5, <1>6, <1>9, <1>10, <1>11, <1>12

LEMMA Bits ==
  /\ GroupBits \in 1..Top /\ ByteBits \in 1..Top /\ Half \in 1..Top /\ Width \in 1..Top
  /\ Half < Width /\ ByteBits = GroupBits + 1 /\ ByteBits <= Half
<1>1. PICK h \in Nat \ {0} : Half = ByteBits * h /\ Width = 2 * Half
  BY Widths
<1>2. ByteBits = GroupBits + 1 /\ GroupBits \in Nat \ {0} /\ Width \in Nat \ {0} /\ Top = Width + GroupBits
  BY ByteAssumption DEF ByteBits, Top
<1>3. PICK b : b = ByteBits /\ b \in Nat \ {0}
  BY <1>2
<1>4. b <= b * h /\ b * h \in Nat
  BY <1>3
<1>5. Half \in Nat /\ ByteBits <= Half
  BY <1>1, <1>3, <1>4
<1> QED
  BY <1>1, <1>2, <1>5

LEMMA Groups2 ==
  /\ Group \in Nat \ {0} /\ Group >= 2 /\ Power[ByteBits] = 2 * Group
  /\ Group = Power[GroupBits]
<1>1. GroupBits \in 0..Top /\ GroupBits # Top /\ 1 <= GroupBits /\ GroupBits <= Top
  BY Bits
<1>2. Power[GroupBits + 1] = 2 * Power[GroupBits]
  BY <1>1, PowerSteps
<1>3. 0 \in 0..Top /\ 0 # Top /\ 0 + 1 = 1 /\ Power[0] = 1
  BY <1>1, PowerSteps
<1>4. Power[1] = 2
  BY <1>3, PowerSteps
<1>5. Power[1] <= Power[GroupBits]
  BY <1>1, PowerGrows
<1>6. Power[GroupBits] \in Nat
  BY <1>1, PowerType
<1> QED
  BY <1>2, <1>4, <1>5, <1>6, Bits DEF Group

(* Rounds of a loop: the first number that satisfies what ends it.         *)
LEMMA FirstRound ==
  ASSUME NEW m \in Nat \ {0}, NEW S, m \in S
  PROVE  \E n \in 1..m : n \in S /\ \A i \in 1..(n - 1) : i \notin S
<1> DEFINE ends == {i \in 1..m : i \in S}
<1>1. ends \in SUBSET Nat /\ m \in ends
  OBVIOUS
<1>2. PICK n \in ends : \A j \in ends : <<j, n>> \notin Less
  <2> HIDE DEF ends
  <2> QED
    BY <1>1, LessWellFounded, WFMin
<1>3. n \in 1..m /\ n \in S
  OBVIOUS
<1>4. ASSUME NEW i \in 1..(n - 1), i \in S PROVE FALSE
  <2>1. i \in ends /\ i < n /\ i \in Nat /\ n \in Nat
    BY <1>3, <1>4
  <2> HIDE DEF ends
  <2> QED
    BY <1>2, <2>1 DEF Less
<1> QED
  BY <1>3, <1>4

(* The writer's.                                                           *)
Rounds == Width \div GroupBits + 1

LEMMA RoundsType ==
  /\ Rounds \in Nat \ {0} /\ GroupBits * Rounds <= Top /\ Width <= GroupBits * Rounds
<1>1. PICK g, w, q, r : g = GroupBits /\ w = Width /\ q = w \div g /\ r = (w % g)
  OBVIOUS
<1>2. g \in Nat \ {0} /\ w \in Nat
  BY <1>1, ByteAssumption
<1>3. q \in Nat /\ r \in 0..(g - 1) /\ w = q * g + r
  BY <1>1, <1>2, DivideBy
<1>4. g * (q + 1) = q * g + g /\ q * g \in Nat
  BY <1>2, <1>3
<1>5. Rounds = q + 1 /\ Top = w + g
  BY <1>1 DEF Rounds, Top
<1> QED
  BY <1>1, <1>2, <1>3, <1>4, <1>5

LEMMA TimesGrows ==
  ASSUME NEW g \in Nat, NEW i \in Nat, NEW n \in Nat, i <= n
  PROVE  g * i \in Nat /\ g * i <= g * n
<1>1. i * g <= n * g
  BY ProductGrows
<1>2. i * g = g * i /\ n * g = g * n /\ g * i \in Nat
  OBVIOUS
<1> QED
  BY <1>1, <1>2

Ended(v, n) == v < Power[GroupBits * n] /\ (n > 1 => v >= Power[GroupBits * (n - 1)])

LEMMA SizeIs ==
  ASSUME NEW v \in Nat, v < Power[Width]
  PROVE  Size(v) \in 1..Rounds /\ Ended(v, Size(v))
<1> DEFINE S == {n \in 1..Rounds : v < Power[GroupBits * n]}
<1>1. Rounds \in S
  <2>1. Rounds \in 1..Rounds /\ GroupBits * Rounds \in 0..Top /\ Width \in 0..Top
    BY RoundsType, Bits
  <2>2. Power[Width] <= Power[GroupBits * Rounds]
    BY <2>1, RoundsType, PowerGrows
  <2>3. Power[Width] \in Nat /\ Power[GroupBits * Rounds] \in Nat
    BY <2>1, PowerType
  <2> QED
    BY <2>1, <2>2, <2>3
<1>2. PICK n \in 1..Rounds : n \in S /\ \A i \in 1..(n - 1) : i \notin S
  <2> HIDE DEF S
  <2> QED
    BY <1>1, RoundsType, FirstRound
<1>3. n > 1 => v >= Power[GroupBits * (n - 1)]
  <2> SUFFICES ASSUME n > 1 PROVE v >= Power[GroupBits * (n - 1)]
    OBVIOUS
  <2>1. n - 1 \in 1..(n - 1) /\ n - 1 \in 1..Rounds /\ n - 1 \in Nat /\ n - 1 <= Rounds
        /\ Rounds \in Nat
    BY RoundsType
  <2>2. GroupBits * (n - 1) \in 0..Top
    <3>1. GroupBits * (n - 1) \in Nat /\ GroupBits * (n - 1) <= GroupBits * Rounds
      BY <2>1, Bits, TimesGrows
    <3>2. GroupBits * Rounds \in Nat /\ Top \in Nat
      BY RoundsType, Bits, PowerSteps
    <3> QED
      BY <3>1, <3>2, RoundsType
  <2>3. Power[GroupBits * (n - 1)] \in Nat
    BY <2>2, PowerType
  <2>4. ~(v < Power[GroupBits * (n - 1)])
    BY <1>2, <2>1
  <2> QED
    BY <2>3, <2>4
<1>4. Ended(v, n)
  BY <1>2, <1>3 DEF Ended
<1>5. Size(v) = CHOOSE i \in 1..Rounds : Ended(v, i)
  BY DEF Size, Rounds, Ended
<1> QED
  BY <1>4, <1>5

(* The reader's.                                                           *)
Left(bytes, width, n) ==
  /\ n = Groups(width) \/ n > Len(bytes) \/ ~More(bytes[n])
  /\ \A i \in 1..(n - 1) : i <= Len(bytes) /\ More(bytes[i])

LEMMA LastReadHolds ==
  ASSUME NEW bytes, Len(bytes) \in Nat, NEW width, Groups(width) \in Nat \ {0}
  PROVE  /\ LastRead(bytes, width) \in 1..Groups(width)
         /\ Left(bytes, width, LastRead(bytes, width))
<1> DEFINE S == {n \in 1..Groups(width) : n = Groups(width) \/ n > Len(bytes) \/ ~More(bytes[n])}
<1>1. Groups(width) \in S
  OBVIOUS
<1>2. PICK n \in 1..Groups(width) : n \in S /\ \A i \in 1..(n - 1) : i \notin S
  <2> HIDE DEF S
  <2> QED
    BY <1>1, FirstRound
<1>3. ASSUME NEW i \in 1..(n - 1) PROVE ~(i > Len(bytes)) /\ More(bytes[i])
  <2>1. i \in 1..Groups(width)
    OBVIOUS
  <2> QED
    BY <1>2, <2>1
<1>4. \A i \in 1..(n - 1) : i <= Len(bytes) /\ More(bytes[i])
  BY <1>3
<1>5. Left(bytes, width, n)
  BY <1>2, <1>4 DEF Left
<1>6. LastRead(bytes, width) = CHOOSE i \in 1..Groups(width) : Left(bytes, width, i)
  BY DEF LastRead, Left
<1> QED
  BY <1>5, <1>6

LEMMA LastReadIs ==
  ASSUME NEW bytes, Len(bytes) \in Nat, NEW width, Groups(width) \in Nat \ {0},
         NEW n \in 1..Groups(width), Left(bytes, width, n)
  PROVE  LastRead(bytes, width) = n
<1>1. PICK m \in 1..Groups(width) : m = LastRead(bytes, width) /\ Left(bytes, width, m)
  BY LastReadHolds
<1>2. CASE m < n
  <2>1. m \in 1..(n - 1) /\ m # Groups(width)
    BY <1>2
  <2>2. m <= Len(bytes) /\ More(bytes[m])
    BY <2>1 DEF Left
  <2> QED
    BY <1>1, <2>1, <2>2 DEF Left
<1>3. CASE n < m
  <2>1. n \in 1..(m - 1) /\ n # Groups(width)
    BY <1>3
  <2>2. n <= Len(bytes) /\ More(bytes[n])
    BY <1>1, <2>1 DEF Left
  <2> QED
    BY <2>1, <2>2 DEF Left
<1> QED
  BY <1>1, <1>2, <1>3

LEMMA GroupsType ==
  ASSUME NEW width \in 1..Width
  PROVE  /\ Groups(width) \in Nat \ {0} /\ width <= GroupBits * Groups(width)
         /\ GroupBits * Groups(width) <= Top
<1>1. PICK g, q, r : g = GroupBits /\ q = (width + g - 1) \div g /\ r = ((width + g - 1) % g)
  OBVIOUS
<1>2. g \in Nat \ {0} /\ width \in Nat \ {0} /\ width <= Width /\ Width \in Nat
  BY <1>1, ByteAssumption
<1>3. width + g - 1 \in Nat
  BY <1>2
<1>4. q \in Nat /\ r \in 0..(g - 1) /\ width + g - 1 = q * g + r
  BY <1>1, <1>2, <1>3, DivideBy
<1>5. q * g = g * q /\ q * g \in Nat
  BY <1>2, <1>4
<1>6. q # 0
  <2>1. q = 0 => q * g = 0
    BY <1>2
  <2> QED
    BY <1>2, <1>4, <2>1
<1>7. Groups(width) = q /\ Top = Width + g
  BY <1>1 DEF Groups, Top
<1> QED
  BY <1>1, <1>2, <1>4, <1>5, <1>6, <1>7

(* A varint that fits the width it is read with comes back.                *)
LEMMA VarintReturns ==
  ASSUME NEW width \in 1..Width, NEW v \in Nat, v < Power[width]
  PROVE  ReadVarint(Varint(v), width) = v
<1>1. width \in 0..Top /\ Width \in 0..Top /\ GroupBits \in 0..Top /\ width \in Nat /\ width <= Width
  BY Bits, PowerSteps
<1>2. Power[width] \in Nat \ {0} /\ Power[Width] \in Nat /\ Power[width] <= Power[Width]
  BY <1>1, PowerType, PowerGrows
<1>3. PICK n \in 1..Rounds : n = Size(v) /\ Ended(v, n)
  BY <1>2, SizeIs
<1>4. PICK m \in Nat \ {0} : m = Groups(width) /\ width <= GroupBits * m /\ GroupBits * m <= Top
  BY GroupsType
<1>5. PICK b : b = Group /\ b \in Nat \ {0}
  BY Groups2
<1>6. n <= m
  <2> SUFFICES ASSUME n > m PROVE FALSE
    BY <1>3, RoundsType
  <2>1. n > 1 /\ m <= n - 1 /\ n - 1 \in Nat /\ n - 1 <= Rounds
    BY <1>3, RoundsType
  <2>2. GroupBits * m \in Nat /\ GroupBits * m <= GroupBits * (n - 1)
        /\ GroupBits * (n - 1) \in Nat /\ GroupBits * (n - 1) <= GroupBits * Rounds
    BY <2>1, Bits, RoundsType, TimesGrows
  <2>3. PICK e : e = GroupBits * (n - 1) /\ e \in 0..Top /\ width <= e
    BY <1>1, <1>4, <2>2, RoundsType, PowerSteps
  <2>4. Power[width] <= Power[e] /\ Power[e] \in Nat
    BY <1>1, <2>3, PowerGrows, PowerType
  <2>5. v >= Power[e]
    BY <1>3, <2>1, <2>3 DEF Ended
  <2> QED
    BY <1>2, <2>4, <2>5
<1>7. GroupBits * n \in Nat /\ GroupBits * n <= Top
  <2>1. GroupBits * n \in Nat /\ GroupBits * n <= GroupBits * m /\ GroupBits * m \in Nat
    BY <1>6, Bits, TimesGrows
  <2> QED
    BY <1>4, <2>1, PowerSteps
<1>8. \A i \in 1..n : Digit(v, i, GroupBits) \in 0..(b - 1)
  <2> SUFFICES ASSUME NEW i \in 1..n PROVE Digit(v, i, GroupBits) \in 0..(b - 1)
    OBVIOUS
  <2>1. GroupBits * (i - 1) \in Nat /\ GroupBits * (i - 1) <= GroupBits * n
    BY Bits, TimesGrows
  <2>2. GroupBits * (i - 1) <= Top
    BY <1>7, <2>1, PowerSteps
  <2> QED
    BY <1>5, <2>2, DigitType, Bits DEF Group
<1>9. PICK s : s = Varint(v)
  OBVIOUS
<1>10. s = [i \in 1..n |-> Digit(v, i, GroupBits) + IF i < n THEN b ELSE 0]
  BY <1>3, <1>5, <1>9 DEF Varint
<1>11. Len(s) = n
  BY <1>10
<1>12. \A i \in 1..n : s[i] = Digit(v, i, GroupBits) + IF i < n THEN b ELSE 0
  BY <1>10
<1>13. \A i \in 1..n : i < n => More(s[i])
  <2> SUFFICES ASSUME NEW i \in 1..n, i < n PROVE More(s[i])
    OBVIOUS
  <2>1. s[i] = Digit(v, i, GroupBits) + b /\ Digit(v, i, GroupBits) \in 0..(b - 1)
    BY <1>8, <1>12
  <2> QED
    BY <1>5, <2>1 DEF More
<1>14. ~More(s[n])
  <2>1. s[n] = Digit(v, n, GroupBits) + 0 /\ Digit(v, n, GroupBits) \in 0..(b - 1)
    BY <1>8, <1>12
  <2> QED
    BY <1>5, <2>1 DEF More
<1>15. LastRead(s, width) = n
  <2>1. \A i \in 1..(n - 1) : i \in 1..n /\ i < n /\ i <= n
    OBVIOUS
  <2>2. Left(s, width, n)
    BY <1>11, <1>13, <1>14, <2>1 DEF Left
  <2>3. n \in 1..Groups(width)
    BY <1>4, <1>6
  <2> QED
    BY <1>4, <1>11, <2>2, <2>3, LastReadIs
<1>16. \A i \in 1..n : (s[i] % b) = Digit(v, i, GroupBits)
  <2> SUFFICES ASSUME NEW i \in 1..n PROVE (s[i] % b) = Digit(v, i, GroupBits)
    OBVIOUS
  <2>1. PICK x : x = Digit(v, i, GroupBits) /\ x \in 0..(b - 1)
    BY <1>8
  <2>2. s[i] = 1 * b + x \/ s[i] = 0 * b + x
    BY <1>5, <1>12, <2>1
  <2>3. ((1 * b + x) % b) = x /\ ((0 * b + x) % b) = x
    BY <1>5, <2>1, QuotientIs
  <2> QED
    BY <2>1, <2>2, <2>3
<1>17. PICK d : d = [i \in 1..n |-> s[i] % b]
  OBVIOUS
<1>18. d \in [1..n -> Nat] /\ \A i \in 1..n : d[i] = Digit(v, i, GroupBits)
  <2>1. \A i \in 1..n : d[i] = Digit(v, i, GroupBits)
    BY <1>16, <1>17
  <2>2. \A i \in 1..n : d[i] \in Nat
    BY <1>8, <2>1
  <2> QED
    BY <1>17, <2>1, <2>2
<1>19. Value(d, b) = v
  <2>1. v < Power[GroupBits * n]
    BY <1>3 DEF Ended
  <2>2. GroupBits \in 1..Top /\ n \in Nat /\ Power[GroupBits] = b
    BY <1>5, Bits, RoundsType, Groups2
  <2>3. Value(d, Power[GroupBits]) = v
    BY <1>7, <1>18, <2>1, <2>2, DigitsWorth
  <2> QED
    BY <2>2, <2>3
<1>20. (v % Power[width]) = v
  BY <1>2, SmallRemainder
<1>21. ReadVarint(s, width) = Value([i \in 1..n |-> s[i] % b], b) % Power[width]
  BY <1>5, <1>11, <1>15 DEF ReadVarint
<1> QED
  BY <1>9, <1>17, <1>19, <1>20, <1>21

(* Numbers of fixed width: h bytes, whose digits are as they were before   *)
(* the two swaps.                                                          *)
DigitsOf(d, n, v) == \A i \in 1..n : d[i] = Digit(v, i, ByteBits)

LEMMA FixedRead ==
  ASSUME NEW n \in Nat \ {0}, ByteBits * n <= Top, NEW width, width \div ByteBits = n,
         NEW v \in Nat, NEW little \in BOOLEAN
  PROVE  \E d \in [1..n -> 0..(Power[ByteBits] - 1)] :
            /\ DigitsOf(d, n, v)
            /\ ReadFixed(Fixed(v, width, little), little) = Value(d, Power[ByteBits])
<1>1. \A i \in 1..n : Place(i, n, little) \in 1..n /\ Place(Place(i, n, little), n, little) = i
  BY DEF Place
<1>2. \A i \in 1..n : Digit(v, i, ByteBits) \in 0..(Power[ByteBits] - 1)
  <2> SUFFICES ASSUME NEW i \in 1..n PROVE Digit(v, i, ByteBits) \in 0..(Power[ByteBits] - 1)
    OBVIOUS
  <2>1. ByteBits * (i - 1) \in Nat /\ ByteBits * (i - 1) <= ByteBits * n /\ ByteBits * n \in Nat
    BY Bits, TimesGrows
  <2>2. ByteBits * (i - 1) <= Top
    BY <2>1, PowerSteps
  <2> QED
    BY <2>2, DigitType, Bits
<1>3. PICK s : s = Fixed(v, width, little)
  OBVIOUS
<1>4. s = [i \in 1..n |-> Digit(v, Place(i, n, little), ByteBits)]
  BY <1>3 DEF Fixed
<1>5. Len(s) = n
  BY <1>4
<1>6. PICK d : d = [i \in 1..n |-> s[Place(i, n, little)]]
  OBVIOUS
<1>7. \A i \in 1..n : d[i] = Digit(v, i, ByteBits)
  BY <1>1, <1>4, <1>6
<1>8. d \in [1..n -> 0..(Power[ByteBits] - 1)]
  BY <1>2, <1>6, <1>7
<1>9. ReadFixed(s, little) = Value(d, Power[ByteBits])
  BY <1>5, <1>6 DEF ReadFixed
<1>10. DigitsOf(d, n, v)
  BY <1>7 DEF DigitsOf
<1> QED
  BY <1>3, <1>8, <1>9, <1>10

\* A number of fixed width is read as what it is if it fits that width.
LEMMA FixedReturns ==
  ASSUME NEW n \in Nat \ {0}, ByteBits * n <= Top, NEW width, width \div ByteBits = n,
         NEW v \in Nat, NEW little \in BOOLEAN
  PROVE  ReadFixed(Fixed(v, width, little), little) = v <=> v < Power[ByteBits * n]
<1>1. ByteBits \in 1..Top
  BY Bits, PowerSteps
<1>2. PICK d \in [1..n -> 0..(Power[ByteBits] - 1)] :
            /\ DigitsOf(d, n, v)
            /\ ReadFixed(Fixed(v, width, little), little) = Value(d, Power[ByteBits])
  BY <1>1, FixedRead
<1>3. Value(d, Power[ByteBits]) < Power[ByteBits * n]
  BY <1>1, ValueBound
<1>4. ASSUME v < Power[ByteBits * n] PROVE Value(d, Power[ByteBits]) = v
  <2>1. ByteBits \in 0..Top
    BY <1>1
  <2>2. Power[ByteBits] \in Nat
    BY <2>1, PowerType
  <2>3. d \in [1..n -> Nat]
    BY <2>2
  <2> QED
    BY <1>1, <1>2, <1>4, <2>3, DigitsWorth DEF DigitsOf
<1> QED
  BY <1>2, <1>3, <1>4

(* Zigzag.                                                                 *)
LEMMA HalfPower ==
  ASSUME NEW width \in 1..Width
  PROVE  Power[width - 1] \in Nat \ {0} /\ Power[width] = 2 * Power[width - 1]
<1>1. width - 1 \in 0..Top /\ width - 1 # Top /\ (width - 1) + 1 = width
  BY Bits, PowerSteps
<1> QED
  BY <1>1, PowerSteps, PowerType

LEMMA ZigzagReturns ==
  ASSUME NEW width \in 1..Width, NEW v \in Signed(width)
  PROVE  /\ DecodeZigzag(EncodeZigzag(v)) = v
         /\ EncodeZigzag(v) \in Nat /\ EncodeZigzag(v) < Power[width]
<1>1. PICK p : p = Power[width - 1] /\ p \in Nat \ {0} /\ Power[width] = 2 * p
  BY HalfPower
<1>2. v \in -p..(p - 1)
  BY <1>1 DEF Signed
<1>3. CASE v < 0
  <2>1. PICK q : q = -v - 1 /\ q \in Nat /\ q < p /\ v = -q - 1
    BY <1>1, <1>2, <1>3
  <2>2. EncodeZigzag(v) = q * 2 + 1
    BY <1>2, <1>3, <2>1 DEF EncodeZigzag
  <2>3. (q * 2 + 1) \div 2 = q /\ ((q * 2 + 1) % 2) = 1
    BY <2>1, QuotientIs
  <2>4. DecodeZigzag(q * 2 + 1) = -q - 1
    BY <2>3 DEF DecodeZigzag
  <2> QED
    BY <1>1, <2>1, <2>2, <2>4
<1>4. CASE v >= 0
  <2>1. v \in Nat /\ v < p
    BY <1>1, <1>2, <1>4
  <2>2. EncodeZigzag(v) = v * 2 + 0
    BY <2>1 DEF EncodeZigzag
  <2>3. (v * 2 + 0) \div 2 = v /\ ((v * 2 + 0) % 2) = 0
    BY <2>1, QuotientIs
  <2>4. DecodeZigzag(v * 2 + 0) = v
    BY <2>3 DEF DecodeZigzag
  <2> QED
    BY <1>1, <2>1, <2>2, <2>4
<1> QED
  BY <1>1, <1>2, <1>3, <1>4

LEMMA NarrowedReturns ==
  ASSUME NEW v \in Nat
  PROVE  /\ Narrowed(v) \in Nat /\ Narrowed(v) < Power[Half]
         /\ Narrowed(v) = v <=> v < Power[Half]
<1>1. PICK p : p = Power[Half] /\ p \in Nat \ {0}
  <2>1. Half \in 0..Top
    BY Bits, PowerSteps
  <2> QED
    BY <2>1, PowerType
<1>2. (v % p) \in 0..(p - 1)
  BY <1>1, DivideBy
<1>3. v < p => (v % p) = v
  <2> SUFFICES ASSUME v < p PROVE (v % p) = v
    OBVIOUS
  <2>1. v \in 0..(p - 1)
    BY <1>1
  <2> QED
    BY <1>1, <2>1, SmallRemainder
<1> QED
  BY <1>1, <1>2, <1>3 DEF Narrowed

LEMMA NarrowedSignedReturns ==
  ASSUME NEW v \in Int
  PROVE  /\ NarrowedSigned(v) \in Signed(Half)
         /\ NarrowedSigned(v) = v <=> v \in Signed(Half)
<1>1. Half \in 1..Width
  BY Bits
<1>2. PICK p, m : p = Power[Half - 1] /\ p \in Nat \ {0} /\ m = Power[Half] /\ m = 2 * p
  BY <1>1, HalfPower
<1>3. ((v + p) % m) \in 0..(m - 1)
  BY <1>2
<1>4. ASSUME v \in -p..(p - 1) PROVE ((v + p) % m) = v + p
  <2>1. m \in Nat \ {0} /\ v + p \in 0..(m - 1)
    BY <1>2, <1>4
  <2> QED
    BY <2>1, SmallRemainder
<1>5. PICK x, s : x = ((v + p) % m) /\ s = x - p
  OBVIOUS
<1>6. NarrowedSigned(v) = s /\ Signed(Half) = -p..(p - 1)
  BY <1>2, <1>5 DEF NarrowedSigned, Signed
<1>7. x \in 0..(m - 1)
  BY <1>3, <1>5
<1>8. s \in -p..(p - 1)
  <2>1. x \in Int /\ 0 <= x /\ x <= 2 * p - 1
    BY <1>2, <1>7
  <2>2. p \in Int /\ s = x - p
    BY <1>2, <1>5
  <2> QED
    BY <2>1, <2>2
<1>9. ASSUME v \in -p..(p - 1) PROVE s = v
  <2>1. x = v + p
    BY <1>4, <1>5, <1>9
  <2>2. p \in Int /\ s = x - p
    BY <1>2, <1>5
  <2> QED
    BY <2>1, <2>2
<1>10. NarrowedSigned(v) \in Signed(Half)
  BY <1>6, <1>8, Zenon
<1>11. NarrowedSigned(v) = v => v \in Signed(Half)
  BY <1>10, Zenon
<1>12. v \in Signed(Half) => NarrowedSigned(v) = v
  BY <1>6, <1>9, Zenon
<1> QED
  BY <1>10, <1>11, <1>12, Zenon

LEMMA RemainderBelow ==
  ASSUME NEW x \in Nat, NEW b \in Nat \ {0}
  PROVE  (x % b) <= x
<1>1. PICK q, r : q = x \div b /\ r = (x % b)
  OBVIOUS
<1>2. q \in Nat /\ r \in Nat /\ x = q * b + r
  BY <1>1, DivideBy
<1>3. q * b \in Nat
  BY <1>2
<1> QED
  BY <1>1, <1>2, <1>3

LEMMA ValueType ==
  ASSUME NEW m \in Nat, NEW e \in [1..m -> 0..(Group - 1)]
  PROVE  Value(e, Group) \in Nat
<1>1. e \in [1..m -> Nat] /\ Group \in Nat /\ 1 \in 1..(m + 1)
  BY Groups2
<1>2. PICK f \in [1..(m + 1) -> Nat] : Value(e, Group) = f[1]
  BY <1>1, ValueSteps
<1> QED
  BY <1>1, <1>2

(* Fewer and lower digits in a lower base are worth less.                  *)
LEMMA SumGrows ==
  ASSUME NEW a \in Nat, NEW b \in Nat, a <= b, NEW x \in Nat, NEW y \in Nat, x <= y
  PROVE  a * x \in Nat /\ b * y \in Nat /\ a * x <= b * y
<1>1. a * x <= b * x /\ x * b <= y * b
  BY ProductGrows
<1>2. b * x = x * b /\ b * y = y * b /\ a * x \in Nat /\ b * x \in Nat /\ b * y \in Nat
  OBVIOUS
<1> QED
  BY <1>1, <1>2

LEMMA SumsGrow ==
  ASSUME NEW p \in Nat, NEW q \in Nat, p <= q, NEW x \in Nat, NEW y \in Nat, x <= y
  PROVE  p + x <= q + y /\ (p < q => p + x < q + y)
OBVIOUS

LEMMA ValueLess ==
  ASSUME NEW m \in Nat \ {0}, NEW n \in Nat, m <= n, NEW a \in Nat, NEW b \in Nat, a <= b,
         NEW d \in [1..m -> Nat], NEW e \in [1..n -> Nat],
         \A i \in 1..m : d[i] <= e[i], d[1] < e[1]
  PROVE  Value(d, a) < Value(e, b)
<1>1. PICK f \in [1..(m + 1) -> Nat] :
          /\ f[m + 1] = 0
          /\ \A i \in 1..m : f[i] = d[i] + a * f[i + 1]
          /\ Value(d, a) = f[1]
  BY ValueSteps
<1>2. PICK g \in [1..(n + 1) -> Nat] :
          /\ g[n + 1] = 0
          /\ \A i \in 1..n : g[i] = e[i] + b * g[i + 1]
          /\ Value(e, b) = g[1]
  BY ValueSteps
<1>3. ASSUME NEW i \in 1..m, f[i + 1] <= g[i + 1]
      PROVE  \E x, y \in Nat : x <= y /\ f[i] = d[i] + x /\ g[i] = e[i] + y
  <2>1. i \in 1..n /\ i + 1 \in 1..(m + 1) /\ i + 1 \in 1..(n + 1)
    OBVIOUS
  <2>2. PICK p, q \in Nat : p = f[i + 1] /\ q = g[i + 1] /\ p <= q
    BY <1>3, <2>1
  <2>3. a * p \in Nat /\ b * q \in Nat /\ a * p <= b * q
    BY <2>2, SumGrows
  <2>4. f[i] = d[i] + a * p /\ g[i] = e[i] + b * q
    BY <1>1, <1>2, <2>1, <2>2
  <2> QED
    BY <2>3, <2>4
<1> DEFINE S == {i \in 1..(m + 1) : f[i] <= g[i]}
<1>4. m + 1 \in S
  <2>1. m + 1 \in 1..(m + 1) /\ m + 1 \in 1..(n + 1)
    OBVIOUS
  <2>2. g[m + 1] \in Nat
    BY <2>1
  <2> QED
    BY <1>1, <2>1, <2>2
<1>5. ASSUME NEW i \in 1..(m + 1), i # m + 1, i + 1 \in S PROVE i \in S
  <2>1. i \in 1..m /\ i \in 1..n /\ d[i] \in Nat /\ e[i] \in Nat /\ d[i] <= e[i]
    <3> HIDE DEF S
    <3>1. i \in 1..m
      BY <1>5
    <3>2. i \in 1..n
      BY <3>1
    <3> QED
      BY <3>1, <3>2
  <2>2. PICK x, y \in Nat : x <= y /\ f[i] = d[i] + x /\ g[i] = e[i] + y
    BY <1>3, <1>5, <2>1
  <2>3. d[i] + x <= e[i] + y
    BY <2>1, <2>2, SumsGrow
  <2> QED
    BY <1>5, <2>2, <2>3
<1>6. \A i \in 1..(m + 1) : i \in S
  <2> HIDE DEF S
  <2>1. m + 1 \in Nat
    OBVIOUS
  <2>2. \A i \in 1..(m + 1) : i # m + 1 /\ i + 1 \in S => i \in S
    BY <1>5
  <2> QED
    BY <1>4, <2>1, <2>2, Downward
<1>7. 1 \in 1..m /\ 1 \in 1..n /\ 1 + 1 \in 1..(m + 1) /\ f[1 + 1] <= g[1 + 1]
      /\ d[1] \in Nat /\ e[1] \in Nat
  <2>1. 1 \in 1..m /\ 1 \in 1..n /\ 1 + 1 \in 1..(m + 1)
    OBVIOUS
  <2> QED
    BY <1>6, <2>1
<1>8. PICK x, y \in Nat : x <= y /\ f[1] = d[1] + x /\ g[1] = e[1] + y
  BY <1>3, <1>7
<1>9. d[1] + x < e[1] + y
  BY <1>7, <1>8, SumsGrow
<1> QED
  BY <1>1, <1>2, <1>8, <1>9

LEMMA ValueOne ==
  ASSUME NEW d \in [1..1 -> Nat], NEW base \in Nat
  PROVE  Value(d, base) = d[1]
<1>1. PICK f \in [1..(1 + 1) -> Nat] :
          /\ f[1 + 1] = 0
          /\ \A i \in 1..1 : f[i] = d[i] + base * f[i + 1]
          /\ Value(d, base) = f[1]
  <2>1. PICK n \in Nat : n = 1
    OBVIOUS
  <2>2. d \in [1..n -> Nat]
    BY <2>1
  <2>3. \E f \in [1..(n + 1) -> Nat] :
           /\ f[n + 1] = 0
           /\ \A i \in 1..n : f[i] = d[i] + base * f[i + 1]
           /\ Value(d, base) = f[1]
    BY <2>2, ValueSteps
  <2> QED
    BY <2>1, <2>3
<1>2. f[1] = d[1] + base * 0 /\ d[1] \in Nat
  BY <1>1
<1> QED
  BY <1>1, <1>2

LEMMA RemainderLow ==
  ASSUME NEW v \in Nat, NEW p \in Nat \ {0}, NEW b \in Nat \ {0}
  PROVE  ((v \div p) % b) * p <= v
<1>4. PICK q, r : q = v \div p /\ r = (v % p)
  OBVIOUS
<1>5. q \in Nat /\ r \in Nat /\ v = q * p + r
  BY <1>4, DivideBy
<1>6. PICK x, c : x = (q % b) /\ c = q \div b
  OBVIOUS
<1>7. x \in Nat /\ c \in Nat /\ q = c * b + x
  BY <1>5, <1>6, DivideBy
<1>8. c * b \in Nat
  BY <1>7
<1>9. x <= q
  BY <1>7, <1>8
<1>10. x * p <= q * p /\ x * p \in Nat /\ q * p \in Nat
  BY <1>5, <1>7, <1>9, ProductGrows
<1>11. x * p <= v
  BY <1>5, <1>10
<1> QED
  BY <1>4, <1>6, <1>11

LEMMA DigitLow ==
  ASSUME NEW bits \in 1..Top, NEW i \in Nat \ {0}, bits * (i - 1) <= Top, NEW v \in Nat
  PROVE  Digit(v, i, bits) * Power[bits * (i - 1)] <= v
<1>1. bits * (i - 1) \in 0..Top /\ bits \in 0..Top
  <2>1. bits * (i - 1) \in Nat
    OBVIOUS
  <2> QED
    BY <2>1, PowerSteps
<1>2. PICK p, b : p = Power[bits * (i - 1)] /\ b = Power[bits]
  OBVIOUS
<1>3. p \in Nat \ {0} /\ b \in Nat \ {0}
  BY <1>1, <1>2, PowerType
<1>4. ((v \div p) % b) * p <= v
  BY <1>3, RemainderLow
<1>5. Digit(v, i, bits) = ((v \div p) % b)
  BY <1>2 DEF Digit
<1> QED
  BY <1>2, <1>4, <1>5

(* The bytes of n * ByteBits bits read as a varint.                        *)
BytesOf(s, n, v, little) ==
  /\ s \in [1..n -> 0..(2 * Group - 1)]
  /\ \A i \in 1..n : s[i] = Digit(v, Place(i, n, little), ByteBits)

LEMMA FloatBytes ==
  ASSUME NEW n \in Nat \ {0}, ByteBits * n <= Top, NEW width, width \div ByteBits = n,
         NEW v \in Nat, NEW little \in BOOLEAN
  PROVE  BytesOf(Fixed(v, width, little), n, v, little)
<1>1. \A i \in 1..n : Place(i, n, little) \in 1..n
  BY DEF Place
<1>2. \A i \in 1..n : Digit(v, i, ByteBits) \in 0..(2 * Group - 1)
  <2> SUFFICES ASSUME NEW i \in 1..n PROVE Digit(v, i, ByteBits) \in 0..(2 * Group - 1)
    OBVIOUS
  <2>1. ByteBits * (i - 1) \in Nat /\ ByteBits * (i - 1) <= ByteBits * n /\ ByteBits * n \in Nat
    BY Bits, TimesGrows
  <2>2. ByteBits * (i - 1) <= Top
    BY <2>1, PowerSteps
  <2>3. Digit(v, i, ByteBits) \in 0..(Power[ByteBits] - 1)
    BY <2>2, DigitType, Bits
  <2> QED
    BY <2>3, Groups2
<1>3. PICK s : s = Fixed(v, width, little)
  OBVIOUS
<1>4. s = [i \in 1..n |-> Digit(v, Place(i, n, little), ByteBits)]
  BY <1>3 DEF Fixed
<1>5. BytesOf(s, n, v, little)
  BY <1>1, <1>2, <1>4 DEF BytesOf
<1> QED
  BY <1>3, <1>5

\* Of a first byte without the bit for more, nothing else is read.
LEMMA FirstOnly ==
  ASSUME NEW n \in Nat \ {0}, NEW s \in [1..n -> Nat], s[1] < Group
  PROVE  ReadVarint(s, Width) = s[1]
<1>1. Len(s) = n /\ 1 \in 1..n /\ s[1] \in Nat
  OBVIOUS
<1>2. Groups(Width) \in Nat \ {0} /\ Group \in Nat \ {0}
  BY Bits, GroupsType, Groups2
<1>3. ~More(s[1])
  BY <1>1, <1>2 DEF More
<1>4. LastRead(s, Width) = 1
  <2>1. Left(s, Width, 1)
    BY <1>3 DEF Left
  <2>2. 1 \in 1..Groups(Width)
    BY <1>2
  <2> QED
    BY <1>1, <1>2, <2>1, <2>2, LastReadIs
<1>5. PICK d : d = [i \in 1..1 |-> s[i] % Group]
  OBVIOUS
<1>6. (s[1] % Group) = s[1]
  <2>1. PICK x, b : x = s[1] /\ b = Group
    OBVIOUS
  <2>2. b \in Nat \ {0} /\ x \in 0..(b - 1)
    BY <1>1, <1>2, <2>1
  <2>3. (x % b) = x
    BY <2>2, SmallRemainder
  <2> QED
    BY <2>1, <2>3
<1>7. d \in [1..1 -> Nat] /\ d[1] = s[1]
  <2>1. \A i \in 1..1 : i = 1
    OBVIOUS
  <2> QED
    BY <1>1, <1>5, <1>6, <2>1
<1>8. Value(d, Group) = s[1]
  BY <1>2, <1>7, ValueOne
<1>9. (s[1] % Power[Width]) = s[1]
  <2>1. GroupBits \in Nat /\ GroupBits <= Width /\ Width <= Top /\ Width \in 0..Top
    BY Bits, PowerSteps
  <2>2. Group <= Power[Width] /\ Power[Width] \in Nat \ {0}
    BY <2>1, PowerGrows, PowerType, Groups2
  <2>3. s[1] \in 0..(Power[Width] - 1)
    BY <1>1, <1>2, <2>2
  <2> QED
    BY <2>2, <2>3, SmallRemainder
<1>10. ~(1 > Len(s))
  BY <1>1
<1>11. ReadVarint(s, Width) = Value([i \in 1..1 |-> s[i] % Group], Group) % Power[Width]
  BY <1>4, <1>10 DEF ReadVarint
<1> QED
  BY <1>5, <1>8, <1>9, <1>11

\* Else it is read as a number of at most n groups, or not at all.
LEMMA MoreRead ==
  ASSUME NEW n \in Nat \ {0}, NEW s \in [1..n -> Nat]
  PROVE  \/ ReadVarint(s, Width) = NoByte
         \/ \E m \in 1..n, d \in [1..n -> 0..(Group - 1)] :
               /\ \A i \in 1..n : d[i] = (s[i] % Group)
               /\ \E e \in [1..m -> 0..(Group - 1)] :
                     /\ \A i \in 1..m : e[i] = d[i]
                     /\ ReadVarint(s, Width) = Value(e, Group) % Power[Width]
<1>1. Len(s) = n
  OBVIOUS
<1>2. Groups(Width) \in Nat \ {0} /\ Group \in Nat \ {0}
  BY Bits, GroupsType, Groups2
<1>3. PICK m : m = LastRead(s, Width) /\ m \in Nat \ {0}
  BY <1>1, <1>2, LastReadHolds
<1>4. CASE m > n
  BY <1>1, <1>3, <1>4 DEF ReadVarint
<1>5. CASE m <= n
  <2>1. \A i \in 1..n : (s[i] % Group) \in 0..(Group - 1)
    BY <1>2, DivideBy
  <2>2. PICK d : d = [i \in 1..n |-> s[i] % Group]
    OBVIOUS
  <2>3. PICK e : e = [i \in 1..m |-> s[i] % Group]
    OBVIOUS
  <2>4. m \in 1..n /\ \A i \in 1..m : i \in 1..n
    BY <1>3, <1>5
  <2>5. d \in [1..n -> 0..(Group - 1)] /\ \A i \in 1..n : d[i] = (s[i] % Group)
    BY <2>1, <2>2
  <2>6. e \in [1..m -> 0..(Group - 1)] /\ \A i \in 1..m : e[i] = d[i]
    BY <2>1, <2>2, <2>3, <2>4
  <2>7. ~(m > Len(s))
    BY <1>1, <1>3, <1>5
  <2>8. ReadVarint(s, Width) = Value([i \in 1..m |-> s[i] % Group], Group) % Power[Width]
    BY <1>3, <2>7 DEF ReadVarint
  <2>9. ReadVarint(s, Width) = Value(e, Group) % Power[Width]
    BY <2>3, <2>8
  <2> QED
    BY <2>4, <2>5, <2>6, <2>9
<1>6. m > n \/ m <= n
  BY <1>3
<1> QED
  BY <1>4, <1>5, <1>6, Zenon

\* Little endian, it is less than what was written.
LEMMA LittleLess ==
  ASSUME NEW n \in Nat \ {0}, ByteBits * n <= Top, NEW v \in Nat, v < Power[ByteBits * n],
         NEW s \in [1..n -> Nat], \A i \in 1..n : s[i] = Digit(v, i, ByteBits), s[1] >= Group,
         NEW m \in 1..n, NEW e \in [1..m -> 0..(Group - 1)],
         \A i \in 1..m : e[i] = (s[i] % Group)
  PROVE  Value(e, Group) < v
<1>1. Group \in Nat \ {0} /\ Power[ByteBits] = 2 * Group /\ ByteBits \in 1..Top
  BY Groups2, Bits
<1>2. Value(s, Power[ByteBits]) = v
  BY <1>1, DigitsWorth
<1>3. \A i \in 1..m : e[i] <= s[i]
  <2> SUFFICES ASSUME NEW i \in 1..m PROVE e[i] <= s[i]
    OBVIOUS
  <2>1. PICK x : x = s[i] /\ x \in Nat
    OBVIOUS
  <2>2. (x % Group) <= x
    BY <1>1, <2>1, RemainderBelow
  <2> QED
    BY <2>1, <2>2
<1>4. e[1] < s[1]
  <2>1. 1 \in 1..m /\ 1 \in 1..n
    OBVIOUS
  <2>2. e[1] \in 0..(Group - 1) /\ s[1] \in Nat
    BY <2>1
  <2> QED
    BY <1>1, <2>2
<1>5. e \in [1..m -> Nat] /\ Group <= 2 * Group /\ 2 * Group \in Nat /\ m \in Nat \ {0} /\ m <= n
  BY <1>1
<1>6. Value(e, Group) < Value(s, 2 * Group)
  BY <1>1, <1>3, <1>4, <1>5, ValueLess
<1> QED
  BY <1>1, <1>2, <1>6

\* So it is big endian.
LEMMA BigLess ==
  ASSUME NEW n \in Nat \ {0}, ByteBits * n <= Top, NEW v \in Nat,
         Digit(v, n, ByteBits) >= Group,
         NEW m \in 1..n, NEW e \in [1..m -> 0..(Group - 1)]
  PROVE  Value(e, Group) < v
<1>1. Group \in Nat \ {0} /\ Group = Power[GroupBits] /\ ByteBits \in 1..Top /\ GroupBits \in 1..Top
      /\ ByteBits = GroupBits + 1
  BY Groups2, Bits
<1>2. PICK k : k = n - 1 /\ k \in Nat
  OBVIOUS
<1>3. PICK g : g = GroupBits /\ g \in Nat
  BY <1>1
<1>4. ByteBits * k \in Nat /\ ByteBits * n = ByteBits * k + g + 1 /\ ByteBits * k = g * k + k
      /\ g * n = g * k + g /\ g * k \in Nat
  <2>1. (g + 1) * k = g * k + k /\ (g + 1) * n = (g + 1) * k + g + 1 /\ g * n = g * k + g
        /\ g * k \in Nat /\ (g + 1) * k \in Nat
    BY <1>2, <1>3
  <2> QED
    BY <1>1, <1>3, <2>1
<1>5. g * m \in Nat /\ g * m <= g * n
  <2>1. m \in Nat /\ m <= n
    OBVIOUS
  <2> QED
    BY <1>3, <2>1, TimesGrows
<1>6. g * m <= g + ByteBits * k /\ g + ByteBits * k <= Top /\ g + ByteBits * k \in Nat
  <2>1. PICK w, x, y, z, t : w = ByteBits * k /\ x = g * k /\ y = g * m /\ z = g * n /\ t = ByteBits * n
    OBVIOUS
  <2>2. w \in Nat /\ x \in Nat /\ y \in Nat /\ t = w + g + 1 /\ w = x + k /\ z = x + g /\ y <= z
    BY <1>4, <1>5, <2>1
  <2>3. t <= Top /\ Top \in Nat
    BY <2>1, PowerSteps
  <2>4. y <= g + w /\ g + w <= Top /\ g + w \in Nat
    BY <1>2, <1>3, <2>2, <2>3
  <2> QED
    BY <2>1, <2>4
<1>7. Value(e, Group) \in Nat /\ Value(e, Group) < Power[g * m]
  <2>1. g * m <= Top /\ m \in Nat
    BY <1>5, <1>6, PowerSteps
  <2> QED
    BY <1>1, <1>3, <2>1, ValueBound
<1>8. Power[g * m] <= Power[g + ByteBits * k]
  BY <1>5, <1>6, PowerGrows
<1>9. PICK p : p = Power[ByteBits * k] /\ p \in Nat \ {0}
  <2>1. ByteBits * k \in 0..Top
    BY <1>3, <1>4, <1>6, PowerSteps
  <2> QED
    BY <2>1, PowerType
<1>10. Power[g + ByteBits * k] = Group * p
  BY <1>1, <1>3, <1>4, <1>6, <1>9, PowerSum
<1>11. PICK x : x = Digit(v, n, ByteBits)
  OBVIOUS
<1>12. ByteBits * (n - 1) <= Top
  BY <1>2, <1>3, <1>4, <1>6, PowerSteps
<1>13. x * p <= v
  BY <1>1, <1>2, <1>9, <1>11, <1>12, DigitLow
<1>14. x \in Nat /\ x >= Group
  <2>1. x \in 0..(Power[ByteBits] - 1)
    BY <1>1, <1>11, <1>12, DigitType
  <2> QED
    BY <1>11, <2>1, Groups2
<1>15. Group * p <= x * p /\ Group * p \in Nat /\ x * p \in Nat
  <2>1. PICK b : b = Group /\ b \in Nat
    BY <1>1
  <2>2. b * p <= x * p /\ b * p \in Nat /\ x * p \in Nat
    BY <1>9, <1>14, <2>1, ProductGrows
  <2> QED
    BY <2>1, <2>2
<1>16. PICK y, z : y = Group * p /\ z = x * p
  OBVIOUS
<1>17. Value(e, Group) < y
  <2>1. Power[g * m] <= y /\ y \in Nat
    BY <1>8, <1>10, <1>15, <1>16
  <2>2. g * m \in 0..Top
    BY <1>5, <1>6, PowerSteps
  <2>3. Power[g * m] \in Nat
    BY <2>2, PowerType
  <2> QED
    BY <1>7, <2>1, <2>3
<1> QED
  BY <1>7, <1>13, <1>15, <1>16, <1>17

LEMMA FloatReturns ==
  ASSUME NEW v \in Unsigned(Width), NEW little \in BOOLEAN
  PROVE  ReadVarint(Fixed(v, Width, little), Width) = v <=> (v = 0 \/ (little /\ v < Group))
<1>1. PICK n \in Nat \ {0} : n > 1 /\ Width \div ByteBits = n /\ Width = ByteBits * n
  <2>1. PICK h \in Nat \ {0} : Width = ByteBits * (2 * h) /\ Width \div ByteBits = 2 * h
    BY Widths
  <2>2. PICK n : n = 2 * h /\ n \in Nat \ {0} /\ n > 1
    OBVIOUS
  <2> QED
    BY <2>1, <2>2
<1>2. ByteBits * n <= Top /\ ByteBits \in 1..Top /\ Width \in 0..Top
  BY <1>1, Bits, PowerSteps
<1>3. PICK b : b = Group /\ b \in Nat \ {0} /\ b >= 2 /\ Power[ByteBits] = 2 * b
  BY Groups2
<1>4. v \in Nat /\ v < Power[ByteBits * n] /\ Power[Width] \in Nat \ {0}
  BY <1>1, <1>2, PowerType DEF Unsigned
<1>5. PICK s : s = Fixed(v, Width, little)
  OBVIOUS
<1>6. s \in [1..n -> 0..(2 * b - 1)] /\ \A i \in 1..n : s[i] = Digit(v, Place(i, n, little), ByteBits)
  <2>1. Width \div ByteBits = n /\ ByteBits * n <= Top /\ v \in Nat
    BY <1>1, <1>2, <1>4
  <2>2. BytesOf(Fixed(v, Width, little), n, v, little)
    BY <2>1, FloatBytes
  <2>3. BytesOf(s, n, v, little)
    BY <1>5, <2>2
  <2> QED
    BY <1>3, <2>3 DEF BytesOf
<1>7. s \in [1..n -> Nat] /\ 1 \in 1..n /\ n \in 1..n
  BY <1>3, <1>6
<1>8. PICK x : x = s[1] /\ x \in Nat
  BY <1>7
<1>9. little => x = (v % (2 * b))
  <2>1. s[1] = Digit(v, Place(1, n, little), ByteBits)
    BY <1>6, <1>7
  <2>2. ByteBits * (1 - 1) = 0 /\ v \div 1 = v
    BY <1>2, <1>4
  <2>3. Digit(v, 1, ByteBits) = (v % (2 * b))
    BY <1>3, <2>2, PowerSteps DEF Digit
  <2> QED
    BY <1>8, <2>1, <2>3 DEF Place
<1>10. ~little => x = Digit(v, n, ByteBits)
  <2>1. s[1] = Digit(v, Place(1, n, little), ByteBits)
    BY <1>6, <1>7
  <2>2. ~little => Place(1, n, little) = n
    BY DEF Place
  <2> QED
    BY <1>8, <2>1, <2>2
\* At least twice the top byte.
<1>11. ~little /\ x # 0 => x < v
  <2> SUFFICES ASSUME ~little, x # 0 PROVE x < v
    OBVIOUS
  <2>1. PICK k : k = n - 1 /\ k \in Nat /\ k >= 1
    BY <1>1
  <2>2. ByteBits * k \in Nat /\ ByteBits * k <= ByteBits * n /\ ByteBits * 1 <= ByteBits * k
    BY <1>2, <2>1, TimesGrows
  <2>3. 1 <= ByteBits * k /\ ByteBits * k <= Top
    BY <1>2, <2>2, PowerSteps
  <2>4. PICK p : p = Power[ByteBits * k] /\ p \in Nat
    <3>1. ByteBits * k \in 0..Top
      BY <2>2, <2>3, PowerSteps
    <3> QED
      BY <3>1, PowerType
  <2>5. p >= 2
    <3>1. 0 \in 0..Top /\ 0 # Top /\ 0 + 1 = 1
      BY <1>2, PowerSteps
    <3>2. Power[1] = 2
      BY <3>1, PowerSteps
    <3>3. Power[1] <= Power[ByteBits * k]
      BY <2>2, <2>3, PowerGrows
    <3> QED
      BY <2>4, <3>2, <3>3
  <2>6. x * p <= v
    BY <1>2, <1>4, <1>10, <2>1, <2>3, <2>4, DigitLow
  <2>7. x * 2 <= x * p /\ x * p \in Nat
    <3>1. 2 * x <= p * x /\ 2 * x = x * 2 /\ p * x = x * p /\ x * p \in Nat
      BY <1>8, <2>4, <2>5, ProductGrows
    <3> QED
      BY <3>1
  <2>8. PICK y : y = x * p /\ y \in Nat
    BY <2>7
  <2> QED
    BY <1>4, <1>8, <2>6, <2>7, <2>8
<1>12. CASE x < b
  <2>1. ReadVarint(s, Width) = x
    BY <1>3, <1>7, <1>8, <1>12, FirstOnly
  <2>2. CASE little
    <3>1. v < b => (v % (2 * b)) = v
      <4> SUFFICES ASSUME v < b PROVE (v % (2 * b)) = v
        OBVIOUS
      <4>1. PICK c : c = 2 * b /\ c \in Nat \ {0} /\ v \in 0..(c - 1)
        BY <1>3, <1>4
      <4> QED
        BY <4>1, SmallRemainder
    <3>2. x = v <=> v < b
      BY <1>9, <1>12, <2>2, <3>1
    <3>3. v = 0 => v < b
      BY <1>3
    <3> QED
      BY <1>3, <1>5, <2>1, <2>2, <3>2, <3>3
  <2>3. CASE ~little
    <3>1. v = 0 => x = 0
      BY <1>4, <1>8, <1>11, <2>3
    <3>2. x = v <=> v = 0
      BY <1>4, <1>8, <1>11, <2>3, <3>1
    <3> QED
      BY <1>5, <2>1, <2>3, <3>2
  <2> QED
    BY <2>2, <2>3
<1>13. CASE x >= b
  <2>1. v # 0 /\ (little => v >= b)
    <3>1. (v % (2 * b)) <= v
      <4>1. PICK c : c = 2 * b /\ c \in Nat \ {0}
        BY <1>3
      <4> QED
        BY <1>4, <4>1, RemainderBelow
    <3>2. little => v >= b
      BY <1>3, <1>4, <1>8, <1>9, <1>13, <3>1
    <3>3. ~little => v # 0
      BY <1>3, <1>4, <1>8, <1>11, <1>13
    <3> QED
      BY <1>3, <3>2, <3>3
  <2>2. ASSUME NEW m \in 1..n, NEW e \in [1..m -> 0..(Group - 1)],
               \A i \in 1..m : e[i] = (s[i] % Group)
        PROVE  Value(e, Group) < v /\ Value(e, Group) \in Nat
    <3>1. CASE little
      <4>1. \A i \in 1..n : s[i] = Digit(v, i, ByteBits)
        BY <1>6, <3>1 DEF Place
      <4> QED
        <5>1. s[1] >= Group
          BY <1>3, <1>8, <1>13
        <5>2. Value(e, Group) < v
          BY <1>2, <1>4, <1>7, <2>2, <4>1, <5>1, LittleLess
        <5> QED
          BY <2>2, <5>2, ValueType
    <3>2. CASE ~little
      <4>1. Digit(v, n, ByteBits) >= Group
        BY <1>3, <1>8, <1>10, <1>13, <3>2
      <4> QED
        BY <1>2, <1>4, <2>2, <4>1, BigLess, ValueType
    <3> QED
      BY <3>1, <3>2
  <2>3. ReadVarint(s, Width) # v
    <3>1. CASE ReadVarint(s, Width) = NoByte
      BY <1>4, <3>1 DEF NoByte
    <3>2. CASE ReadVarint(s, Width) # NoByte
      <4>1. PICK m \in 1..n, d \in [1..n -> 0..(Group - 1)] :
               /\ \A i \in 1..n : d[i] = (s[i] % Group)
               /\ \E e \in [1..m -> 0..(Group - 1)] :
                     /\ \A i \in 1..m : e[i] = d[i]
                     /\ ReadVarint(s, Width) = Value(e, Group) % Power[Width]
        BY <1>7, <3>2, MoreRead
      <4>2. PICK e \in [1..m -> 0..(Group - 1)] :
                     /\ \A i \in 1..m : e[i] = d[i]
                     /\ ReadVarint(s, Width) = Value(e, Group) % Power[Width]
        BY <4>1
      <4>3. \A i \in 1..m : e[i] = (s[i] % Group)
        BY <4>1, <4>2
      <4>4. PICK r : r = Value(e, Group) /\ r \in Nat /\ r < v
        BY <2>2, <4>3
      <4>5. (r % Power[Width]) <= r /\ (r % Power[Width]) \in Nat
        <5>1. PICK c : c = Power[Width] /\ c \in Nat \ {0}
          BY <1>4
        <5>2. (r % c) <= r /\ (r % c) \in Nat
          <6>1. (r % c) <= r
            BY <4>4, <5>1, RemainderBelow
          <6>2. (r % c) \in 0..(c - 1)
            BY <4>4, <5>1, DivideBy
          <6> QED
            BY <5>1, <6>1, <6>2
        <5> QED
          BY <5>1, <5>2
      <4> QED
        BY <1>4, <4>2, <4>4, <4>5
    <3> QED
      BY <3>1, <3>2
  <2> QED
    BY <1>3, <1>4, <1>5, <2>1, <2>3
<1> QED
  BY <1>3, <1>8, <1>12, <1>13

(* What WriteNumbers makes.                                                *)
Written ==
  \E little \in BOOLEAN :
     \/ \E v \in Unsigned(Half) :
           number = [type |-> "uint32", value |-> v, bytes |-> Varint(v), little |-> little]
     \/ \E v \in Signed(Half) :
           number = [type |-> "int32", value |-> v, bytes |-> Varint(EncodeZigzag(v)),
                     little |-> little]
     \/ \E v \in Signed(Width) :
           number = [type |-> "int64", value |-> v,
                     bytes |-> Varint(EncodeZigzag(NarrowedSigned(v))), little |-> little]
     \/ \E v \in Unsigned(Width), t \in {"uint64", "stringVint"} :
           number = [type |-> t, value |-> v, bytes |-> Varint(Narrowed(v)), little |-> little]
     \/ \E v \in Unsigned(Width), t \in {"fixed", "float", "string64"} :
           number = [type |-> t, value |-> v, bytes |-> Fixed(v, Width, little),
                     little |-> little]
     \/ \E v \in Unsigned(Width) :
           number = [type |-> "string16", value |-> v, bytes |-> Fixed(v, Half, little),
                     little |-> little]

NumberInv == number = NoNumber \/ Written

LEMMA NumberStep ==
  ASSUME NumberInv, [ByteNext]_byteVars
  PROVE  NumberInv'
<1>1. CASE UNCHANGED number
  BY <1>1 DEF NumberInv, Written
<1>2. CASE WriteNumbers
  <2>1. PICK little \in BOOLEAN :
        \/ \E v \in Unsigned(Half) : WriteNumber("uint32", v, Varint(v), little)
        \/ \E v \in Signed(Half) : WriteNumber("int32", v, Varint(EncodeZigzag(v)), little)
        \/ \E v \in Signed(Width) :
              WriteNumber("int64", v, Varint(EncodeZigzag(NarrowedSigned(v))), little)
        \/ \E v \in Unsigned(Width) :
              \/ WriteNumber("uint64", v, Varint(Narrowed(v)), little)
              \/ WriteNumber("fixed", v, Fixed(v, Width, little), little)
              \/ WriteNumber("float", v, Fixed(v, Width, little), little)
              \/ WriteNumber("string16", v, Fixed(v, Half, little), little)
              \/ WriteNumber("string64", v, Fixed(v, Width, little), little)
              \/ WriteNumber("stringVint", v, Varint(Narrowed(v)), little)
    BY <1>2 DEF WriteNumbers
  <2>2. Written'
    BY <2>1, Zenon DEF Written, WriteNumber
  <2> QED
    BY <2>2 DEF NumberInv
<1> QED
  BY <1>1, <1>2 DEF ByteNext, byteVars

LEMMA PowerOfWidths ==
  /\ Power[Half] \in Nat \ {0} /\ Power[Width] \in Nat \ {0} /\ Power[Half] <= Power[Width]
<1>1. Half \in 0..Top /\ Width \in 0..Top /\ Half \in Nat /\ Width \in Nat /\ Half <= Width
      /\ Width <= Top
  BY Bits, PowerSteps
<1> QED
  BY <1>1, PowerType, PowerGrows

(* A number comes back as it was written, or not, as NumbersReturn says.   *)
LEMMA NumbersReturned ==
  ASSUME NumberInv
  PROVE  NumbersReturn
<1> SUFFICES ASSUME number # NoNumber PROVE NumbersReturn
  BY DEF NumbersReturn
<1>1. PICK little \in BOOLEAN :
     \/ \E v \in Unsigned(Half) :
           number = [type |-> "uint32", value |-> v, bytes |-> Varint(v), little |-> little]
     \/ \E v \in Signed(Half) :
           number = [type |-> "int32", value |-> v, bytes |-> Varint(EncodeZigzag(v)),
                     little |-> little]
     \/ \E v \in Signed(Width) :
           number = [type |-> "int64", value |-> v,
                     bytes |-> Varint(EncodeZigzag(NarrowedSigned(v))), little |-> little]
     \/ \E v \in Unsigned(Width), t \in {"uint64", "stringVint"} :
           number = [type |-> t, value |-> v, bytes |-> Varint(Narrowed(v)), little |-> little]
     \/ \E v \in Unsigned(Width), t \in {"fixed", "float", "string64"} :
           number = [type |-> t, value |-> v, bytes |-> Fixed(v, Width, little),
                     little |-> little]
     \/ \E v \in Unsigned(Width) :
           number = [type |-> "string16", value |-> v, bytes |-> Fixed(v, Half, little),
                     little |-> little]
  BY DEF NumberInv, Written
<1>2. Half \in 1..Width /\ Width \in 1..Width
  BY Bits
<1>3. ASSUME NEW v \in Unsigned(Half),
             number = [type |-> "uint32", value |-> v, bytes |-> Varint(v), little |-> little]
      PROVE  NumbersReturn
  <2>1. v \in Nat /\ v < Power[Half]
    BY PowerOfWidths DEF Unsigned
  <2>2. ReadVarint(Varint(v), Half) = v
    BY <1>2, <2>1, VarintReturns
  <2>3. ReadBack = number.value /\ number.type = "uint32"
    BY <1>3, <2>2 DEF ReadBack
  <2> QED
    BY <2>3 DEF NumbersReturn
<1>4. ASSUME NEW v \in Signed(Half),
             number = [type |-> "int32", value |-> v, bytes |-> Varint(EncodeZigzag(v)),
                       little |-> little]
      PROVE  NumbersReturn
  <2>1. DecodeZigzag(EncodeZigzag(v)) = v /\ EncodeZigzag(v) \in Nat
        /\ EncodeZigzag(v) < Power[Half]
    BY <1>2, ZigzagReturns
  <2>2. ReadVarint(Varint(EncodeZigzag(v)), Half) = EncodeZigzag(v)
    BY <1>2, <2>1, VarintReturns
  <2>3. ReadBack = number.value /\ number.type = "int32"
    BY <1>4, <2>1, <2>2 DEF ReadBack
  <2> QED
    BY <2>3 DEF NumbersReturn
<1>5. ASSUME NEW v \in Signed(Width),
             number = [type |-> "int64", value |-> v,
                       bytes |-> Varint(EncodeZigzag(NarrowedSigned(v))), little |-> little]
      PROVE  NumbersReturn
  <2>1. PICK w : w = NarrowedSigned(v) /\ w \in Signed(Half) /\ (w = v <=> v \in Signed(Half))
    <3>1. Power[Width - 1] \in Nat
      BY <1>2, HalfPower
    <3>2. v \in Int
      BY <3>1 DEF Signed
    <3> QED
      BY <3>2, NarrowedSignedReturns
  <2>2. DecodeZigzag(EncodeZigzag(w)) = w /\ EncodeZigzag(w) \in Nat
        /\ EncodeZigzag(w) < Power[Half]
    BY <1>2, <2>1, ZigzagReturns
  <2>3. EncodeZigzag(w) < Power[Width]
    BY <2>2, PowerOfWidths
  <2>4. ReadVarint(Varint(EncodeZigzag(w)), Width) = EncodeZigzag(w)
    BY <1>2, <2>2, <2>3, VarintReturns
  <2>5. ReadBack = w /\ number.type = "int64" /\ number.value = v
    BY <1>5, <2>1, <2>2, <2>4 DEF ReadBack
  <2> QED
    BY <2>1, <2>5, Zenon DEF NumbersReturn
<1>6. ASSUME NEW v \in Unsigned(Width), NEW t \in {"uint64", "stringVint"},
             number = [type |-> t, value |-> v, bytes |-> Varint(Narrowed(v)),
                       little |-> little]
      PROVE  NumbersReturn
  <2>1. v \in Nat
    BY PowerOfWidths DEF Unsigned
  <2>2. PICK w : w = Narrowed(v) /\ w \in Nat /\ w < Power[Half] /\ (w = v <=> v < Power[Half])
    BY <2>1, NarrowedReturns
  <2>3. ReadVarint(Varint(w), Width) = w
    <3>1. w < Power[Width]
      BY <2>2, PowerOfWidths
    <3> QED
      BY <1>2, <2>2, <3>1, VarintReturns
  <2>4. ReadBack = w /\ number.type = t /\ number.value = v
    <3>1. CASE t = "uint64"
      BY <1>6, <2>2, <2>3, <3>1 DEF ReadBack
    <3>2. CASE t = "stringVint"
      BY <1>6, <2>2, <2>3, <3>2 DEF ReadBack
    <3> QED
      BY <3>1, <3>2
  <2>5. v < Power[Half] <=> v \in Unsigned(Half)
    BY <2>1, PowerOfWidths DEF Unsigned
  <2>6. ReadBack = number.value <=> number.value \in Unsigned(Half)
    BY <2>2, <2>4, <2>5
  <2>7. number.type = "uint64" \/ number.type = "stringVint"
    BY <2>4
  <2> QED
    BY <2>6, <2>7 DEF NumbersReturn
<1>7. ASSUME NEW v \in Unsigned(Width), NEW t \in {"fixed", "float", "string64"},
             number = [type |-> t, value |-> v, bytes |-> Fixed(v, Width, little),
                       little |-> little]
      PROVE  NumbersReturn
  <2>1. CASE t = "float"
    <3>1. ReadBack = ReadVarint(Fixed(v, Width, little), Width)
      BY <1>7, <2>1 DEF ReadBack
    <3>2. number.type = "float" /\ number.value = v /\ number.little = little
      BY <1>7, <2>1
    <3>3. ReadBack = v <=> (v = 0 \/ (little /\ v < Group))
      BY <3>1, FloatReturns
    <3> QED
      BY <3>2, <3>3 DEF NumbersReturn
  <2>2. CASE t # "float"
    <3>1. PICK h \in Nat \ {0} : Width = ByteBits * (2 * h) /\ Width \div ByteBits = 2 * h
      BY Widths
    <3>2. PICK n : n = 2 * h /\ n \in Nat \ {0}
      OBVIOUS
    <3>3. Width \div ByteBits = n /\ ByteBits * n <= Top /\ v \in Nat /\ v < Power[ByteBits * n]
      BY <3>1, <3>2, Bits, PowerOfWidths DEF Unsigned
    <3>4. ReadFixed(Fixed(v, Width, little), little) = v
      BY <3>2, <3>3, FixedReturns
    <3>5. ReadBack = number.value /\ number.type \in {"fixed", "string64"}
      <4>1. CASE t = "fixed"
        BY <1>7, <3>4, <4>1 DEF ReadBack
      <4>2. CASE t = "string64"
        BY <1>7, <3>4, <4>2 DEF ReadBack
      <4> QED
        BY <2>2, <4>1, <4>2
    <3> QED
      BY <3>5 DEF NumbersReturn
  <2> QED
    BY <2>1, <2>2
<1>8. ASSUME NEW v \in Unsigned(Width),
             number = [type |-> "string16", value |-> v, bytes |-> Fixed(v, Half, little),
                       little |-> little]
      PROVE  NumbersReturn
  <2>1. PICK h \in Nat \ {0} : Half = ByteBits * h /\ Half \div ByteBits = h
    BY Widths
  <2>2. ByteBits * h <= Top /\ v \in Nat
    BY <2>1, Bits, PowerOfWidths DEF Unsigned
  <2>3. ReadFixed(Fixed(v, Half, little), little) = v <=> v < Power[ByteBits * h]
    BY <2>1, <2>2, FixedReturns
  <2>4. v < Power[ByteBits * h] <=> v \in Unsigned(Half)
    BY <2>1, <2>2, PowerOfWidths DEF Unsigned
  <2>5. ReadBack = ReadFixed(Fixed(v, Half, little), little)
        /\ number.type = "string16" /\ number.value = v
    BY <1>8 DEF ReadBack
  <2> QED
    BY <2>3, <2>4, <2>5 DEF NumbersReturn
<1> QED
  BY <1>1, <1>3, <1>4, <1>5, <1>6, <1>7, <1>8

(***************************************************************************)
(* A number is read back as it was written, of either sign and in either   *)
(* byte order, exactly if it is of a type, or fits the part of it, that    *)
(* NumbersReturn names (writeUint32 to readStringVint).                    *)
(***************************************************************************)
THEOREM NumbersComeBack == ByteSpec => []NumbersReturn
<1>1. ByteInit => NumberInv
  BY DEF ByteInit, NumberInv
<1>2. NumberInv /\ [ByteNext]_byteVars => NumberInv'
  BY NumberStep
<1>3. NumberInv => NumbersReturn
  BY NumbersReturned
<1> QED
  BY <1>1, <1>2, <1>3, PTL DEF ByteSpec
===============================================================================
