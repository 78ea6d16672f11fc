-------------------------- MODULE SchemaCacheProofs --------------------------
(***************************************************************************)
(* The schema cache loses no entry and outgrows no cap, for any number of  *)
(* processes, keys and calls.                                              *)
(***************************************************************************)
EXTENDS SchemaCache, TLAPS, FiniteSetTheorems

LEMMA InitProtects == CacheInit => LockProtects
<1> SUFFICES ASSUME CacheInit PROVE LockProtects
  OBVIOUS
<1>1. CacheTypeOK
  BY CallsAreNat, AbsentIsNoProcess, AbsentIsNothing
     DEF CacheInit, CacheTypeOK, Caches, NothingCached, Resting, Locked
<1>2. WithinCap
  <2>1. Cached(cache) = {}
    BY DEF CacheInit, Cached, NothingCached
  <2> QED BY <2>1, FS_EmptySet, CapIsNat DEF WithinCap
<1> QED BY <1>1, <1>2, AbsentIsNoProcess
        DEF CacheInit, LockProtects, ReturnedIsCached, Locked

\* What insert/3 writes is the published map, or the published map with one
\* more entry that fits under the cap.
LEMMA InsertionAdds ==
  ASSUME LockProtects, NEW p \in Processes, place[p] = "putting"
  PROVE  /\ Inserted(p) \in Caches
         /\ \A k \in Cached(cache) : Inserted(p)[k] = cache[k]
         /\ Cardinality(Cached(Inserted(p))) <= MaxEntries
         /\ \/ key[p] \in Cached(Inserted(p))
            \/ /\ Inserted(p) = cache
               /\ Cardinality(Cached(cache)) = MaxEntries
         /\ Cached(cache) \subseteq Cached(Inserted(p))
         /\ Cardinality(Cached(cache)) <= Cardinality(Cached(Inserted(p)))
<1> DEFINE C == Cached(cache)
<1>1. snapshot[p] = cache /\ cache \in Caches /\ key[p] \in Keys
  BY DEF LockProtects, CacheTypeOK
<1>2. IsFiniteSet(C) /\ Cardinality(C) \in Nat /\ Cardinality(C) <= MaxEntries
  BY KeysFinite, FS_Subset, FS_CardinalityType DEF Cached, LockProtects, WithinCap
<1>3. Compiled(p) \in Schemas /\ Compiled(p) # Absent
  <2>1. calls[p] \in 1..MaxCalls
    BY CallsAreNat DEF LockProtects, CacheTypeOK, Resting
  <2> QED BY <1>1, <2>1, AbsentIsNothing DEF Compiled, Schemas
<1>4. CASE key[p] \notin C /\ Cardinality(C) < MaxEntries
  <2>1. Inserted(p) = [cache EXCEPT ![key[p]] = Compiled(p)]
    BY <1>1, <1>4 DEF Inserted
  <2>2. Inserted(p) \in Caches /\ \A k \in C : Inserted(p)[k] = cache[k]
    BY <1>1, <1>3, <1>4, <2>1 DEF Caches, Cached
  <2>3. Cached(Inserted(p)) = C \cup {key[p]}
    BY <1>1, <1>3, <2>1 DEF Caches, Cached
  <2>4. Cardinality(C \cup {key[p]}) = Cardinality(C) + 1
    BY <1>2, <1>4, FS_AddElement
  <2> QED BY <1>2, <1>4, <2>2, <2>3, <2>4, CapIsNat
<1>5. CASE ~(key[p] \notin C /\ Cardinality(C) < MaxEntries)
  <2>1. Inserted(p) = cache
    BY <1>1, <1>5 DEF Inserted
  <2> QED BY <1>1, <1>2, <1>5, <2>1, CapIsNat
<1> QED BY <1>4, <1>5

LEMMA NextProtects == LockProtects /\ [CacheNext]_cacheVars => LockProtects'
<1> SUFFICES ASSUME LockProtects, [CacheNext]_cacheVars PROVE LockProtects'
  OBVIOUS
<1> USE DEF Resting, Locked
<1>1. ASSUME NEW p \in Processes, NEW k \in Keys, Call(p, k)
      PROVE  LockProtects'
  <2>1. CacheTypeOK'
    <3>1. calls[p] \in 0..MaxCalls /\ calls[p] + 1 \in 0..MaxCalls
      BY <1>1, CallsAreNat DEF LockProtects, CacheTypeOK, Call
    <3> QED BY <1>1, <3>1 DEF LockProtects, CacheTypeOK, Call
  <2>2. WithinCap'
    BY <1>1 DEF LockProtects, WithinCap, Call, Cached
  <2>3. ReturnedIsCached'
    BY <1>1 DEF LockProtects, ReturnedIsCached, CacheTypeOK, Call, Cached
  <2> QED BY <1>1, <2>1, <2>2, <2>3 DEF LockProtects, CacheTypeOK, Call
<1>2. ASSUME NEW p \in Processes, Compute(p)
      PROVE  LockProtects'
  <2>1. PICK next \in {"locking", "raised"} : place' = [place EXCEPT ![p] = next]
    BY <1>2 DEF Compute
  <2>2. CacheTypeOK'
    BY <1>2, <2>1 DEF LockProtects, CacheTypeOK, Compute
  <2>3. WithinCap' /\ ReturnedIsCached'
    BY <1>2, <2>1 DEF LockProtects, CacheTypeOK, WithinCap, ReturnedIsCached, Compute, Cached
  <2> QED BY <1>2, <2>1, <2>2, <2>3 DEF LockProtects, CacheTypeOK, Compute
<1>3. ASSUME NEW p \in Processes, Lock(p)
      PROVE  LockProtects'
  <2>1. CacheTypeOK'
    BY <1>3 DEF LockProtects, CacheTypeOK, Lock
  <2>2. WithinCap' /\ ReturnedIsCached'
    BY <1>3 DEF LockProtects, CacheTypeOK, WithinCap, ReturnedIsCached, Lock, Cached
  <2> QED BY <1>3, <2>1, <2>2, AbsentIsNoProcess DEF LockProtects, CacheTypeOK, Lock
<1>4. ASSUME NEW p \in Processes, ReadMap(p)
      PROVE  LockProtects'
  <2>1. CacheTypeOK'
    BY <1>4 DEF LockProtects, CacheTypeOK, ReadMap
  <2>2. WithinCap' /\ ReturnedIsCached'
    BY <1>4 DEF LockProtects, CacheTypeOK, WithinCap, ReturnedIsCached, ReadMap, Cached
  <2> QED BY <1>4, <2>1, <2>2 DEF LockProtects, CacheTypeOK, ReadMap
<1>5. ASSUME NEW p \in Processes, Put(p)
      PROVE  LockProtects'
  <2>1. place[p] = "putting" /\ inserter = p
    BY <1>5 DEF Put, LockProtects
  <2>2. NothingCached \in Caches
    BY DEF NothingCached, Caches
  <2>3. CacheTypeOK'
    BY <1>5, <2>1, <2>2, InsertionAdds DEF LockProtects, CacheTypeOK, Put
  <2>4. WithinCap'
    BY <1>5, <2>1, InsertionAdds DEF WithinCap, Put, Cached
  <2>5. ReturnedIsCached'
    <3> SUFFICES ASSUME NEW q \in Processes, place'[q] = "returned"
                 PROVE  \/ key[q] \in Cached(Inserted(p))
                        \/ Cardinality(Cached(Inserted(p))) = MaxEntries
      BY <1>5 DEF ReturnedIsCached, Put, Cached
    <3>1. CASE q = p
      BY <2>1, <3>1, InsertionAdds
    <3>2. CASE q # p
      <4>1. key[q] \in Cached(cache) \/ Cardinality(Cached(cache)) = MaxEntries
        BY <1>5, <3>2 DEF LockProtects, CacheTypeOK, ReturnedIsCached, Put
      <4>2. Cardinality(Cached(Inserted(p))) \in Nat
        BY KeysFinite, FS_Subset, FS_CardinalityType DEF Cached
      <4> QED BY <2>1, <4>1, <4>2, CapIsNat, InsertionAdds
    <3> QED BY <3>1, <3>2
  <2> QED BY <1>5, <2>1, <2>3, <2>4, <2>5, AbsentIsNoProcess
          DEF LockProtects, CacheTypeOK, Put
<1>6. ASSUME NEW p \in Processes, CallerKilled(p)
      PROVE  LockProtects'
  <2>1. NothingCached \in Caches
    BY DEF NothingCached, Caches
  <2>2. CacheTypeOK'
    BY <1>6, <2>1 DEF LockProtects, CacheTypeOK, CallerKilled
  <2>3. WithinCap' /\ ReturnedIsCached'
    BY <1>6 DEF LockProtects, CacheTypeOK, WithinCap, ReturnedIsCached, CallerKilled, Cached
  <2> QED BY <1>6, <2>2, <2>3, AbsentIsNoProcess DEF LockProtects, CacheTypeOK, CallerKilled
<1>7. ASSUME UNCHANGED cacheVars PROVE LockProtects'
  BY <1>7 DEF LockProtects, CacheTypeOK, WithinCap, ReturnedIsCached, Cached, cacheVars
<1> QED BY <1>1, <1>2, <1>3, <1>4, <1>5, <1>6, <1>7 DEF CacheNext, Step

\* The lock protects the insertion of the cache: the inductive invariant.
THEOREM LockProtectsAlways == CacheSpec => []LockProtects
<1> QED BY InitProtects, NextProtects, PTL DEF CacheSpec

\* The persistent_term never holds more schemas than the cap of insert/3.
THEOREM WithinCapHolds == CacheSpec => []WithinCap
<1>1. LockProtects => WithinCap
  BY DEF LockProtects
<1> QED BY <1>1, LockProtectsAlways, PTL

\* A call of cached/3 that has returned leaves its key published, unless the
\* cap kept it out.
THEOREM ReturnedIsCachedHolds == CacheSpec => []ReturnedIsCached
<1>1. LockProtects => ReturnedIsCached
  BY DEF LockProtects
<1> QED BY <1>1, LockProtectsAlways, PTL

LEMMA StepKeepsEntries ==
  ASSUME LockProtects, [CacheNext]_cacheVars
  PROVE  [\A k \in Cached(cache) : cache'[k] = cache[k]]_cache
<1>1. ASSUME NEW p \in Processes, Put(p)
      PROVE  \A k \in Cached(cache) : cache'[k] = cache[k]
  <2>1. place[p] = "putting" /\ cache' = Inserted(p)
    BY <1>1 DEF Put
  <2> QED BY <2>1, InsertionAdds
<1>2. CASE UNCHANGED cache
  BY <1>2
<1>3. UNCHANGED cache \/ \E p \in Processes : Put(p)
  BY DEF CacheNext, Step, Call, Compute, Lock, ReadMap, CallerKilled, cacheVars
<1> QED BY <1>1, <1>2, <1>3

\* No concurrent miss of cached/3 drops or replaces an entry another process
\* has published.
THEOREM EntriesStayHolds == CacheSpec => EntriesStay
<1>1. LockProtects /\ [CacheNext]_cacheVars =>
        [\A k \in Cached(cache) : cache'[k] = cache[k]]_cache
  BY StepKeepsEntries
<1> QED BY <1>1, LockProtectsAlways, PTL DEF CacheSpec, EntriesStay

=============================================================================
