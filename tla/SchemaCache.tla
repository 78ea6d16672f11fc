----------------------------- MODULE SchemaCache -----------------------------
(***************************************************************************)
(* Onchain.ABI.Alloy.cached/3: one compiled schema per key, published in a *)
(* single persistent_term.  The term is a whole map, so an insertion reads *)
(* it, adds an entry and writes it back, under a :global lock; compilation *)
(* runs outside the lock, and looking a key up takes no lock at all.       *)
(* Onchain.ABI.AlloyEvents keeps its own cache in the same way; its        *)
(* compilation uses this one, with neither lock held.                      *)
(***************************************************************************)
EXTENDS Naturals, FiniteSets

CONSTANTS
  Processes,   \* processes that encode or decode
  Keys,        \* {types, topic0}, or {kind, selector}
  MaxEntries,  \* the cap, 1024
  MaxCalls,    \* bound: calls of one process
  Absent

ASSUME KeysFinite == IsFiniteSet(Keys)
ASSUME CapIsNat == MaxEntries \in Nat
ASSUME CallsAreNat == MaxCalls \in Nat
ASSUME AbsentIsNoProcess == Absent \notin Processes

VARIABLES
  cache,    \* the persistent_term
  inserter, \* holder of the :global lock
  place,    \* where each process stands
  key,      \* the key of its last call
  snapshot, \* the map it has read inside the lock
  calls     \* calls made, per process

cacheVars == <<cache, inserter, place, key, snapshot, calls>>

\* A compiled schema is a fresh reference: it is named by the call that
\* compiled it.
Schemas == [key: Keys, by: Processes, nth: 1..MaxCalls]

ASSUME AbsentIsNothing == Absent \notin Schemas \cup Keys

Caches == [Keys -> Schemas \cup {Absent}]

NothingCached == [k \in Keys |-> Absent]

Cached(map) == {k \in Keys : map[k] # Absent}

Locked == {"reading", "putting"}
Resting == {"idle", "returned", "raised"}

CacheInit ==
  /\ cache = NothingCached
  /\ inserter = Absent
  /\ place = [p \in Processes |-> "idle"]
  /\ key = [p \in Processes |-> Absent]
  /\ snapshot = [p \in Processes |-> NothingCached]
  /\ calls = [p \in Processes |-> 0]

-----------------------------------------------------------------------------
\* The lookup: a hit returns what is published.
Call(p, k) ==
  /\ place[p] \in Resting
  /\ calls[p] < MaxCalls
  /\ calls' = [calls EXCEPT ![p] = @ + 1]
  /\ key' = [key EXCEPT ![p] = k]
  /\ place' = [place EXCEPT ![p] =
                 IF k \in Cached(cache) THEN "returned" ELSE "computing"]
  /\ UNCHANGED <<cache, inserter, snapshot>>

\* compute.() compiles the schema, or raises: nothing is locked then.
Compute(p) ==
  /\ place[p] = "computing"
  /\ \E next \in {"locking", "raised"} : place' = [place EXCEPT ![p] = next]
  /\ UNCHANGED <<cache, inserter, key, snapshot, calls>>

\* Faulty variant: the insertion does not wait for its turn.
LockUnguarded(p) ==
  /\ place[p] = "locking"
  /\ inserter' = p
  /\ place' = [place EXCEPT ![p] = "reading"]
  /\ UNCHANGED <<cache, key, snapshot, calls>>

Lock(p) ==
  /\ place[p] = "locking"
  /\ inserter = Absent
  /\ inserter' = p
  /\ place' = [place EXCEPT ![p] = "reading"]
  /\ UNCHANGED <<cache, key, snapshot, calls>>

\* insert/3 reads the map.
ReadMap(p) ==
  /\ place[p] = "reading"
  /\ snapshot' = [snapshot EXCEPT ![p] = cache]
  /\ place' = [place EXCEPT ![p] = "putting"]
  /\ UNCHANGED <<cache, inserter, key, calls>>

Compiled(p) == [key |-> key[p], by |-> p, nth |-> calls[p]]

\* Faulty variant: an entry that is already there is replaced.
InsertedOver(p) ==
  LET map == snapshot[p] IN
  IF Cardinality(Cached(map)) < MaxEntries
    THEN [map EXCEPT ![key[p]] = Compiled(p)] ELSE cache

\* What the term holds after insert/3: the snapshot with the new entry, unless
\* the key is there already or the cap is reached.
Inserted(p) ==
  LET map == snapshot[p] IN
  IF key[p] \notin Cached(map) /\ Cardinality(Cached(map)) < MaxEntries
    THEN [map EXCEPT ![key[p]] = Compiled(p)] ELSE cache

\* Faulty variant: the lock is not given back.
PutHolding(p) ==
  /\ place[p] = "putting"
  /\ cache' = Inserted(p)
  /\ place' = [place EXCEPT ![p] = "returned"]
  /\ snapshot' = [snapshot EXCEPT ![p] = NothingCached]
  /\ UNCHANGED <<inserter, key, calls>>

\* insert/3 writes; :global.trans gives the lock back; the call returns the
\* schema it compiled, published or not.
Put(p) ==
  /\ place[p] = "putting"
  /\ cache' = Inserted(p)
  /\ inserter' = Absent
  /\ place' = [place EXCEPT ![p] = "returned"]
  /\ snapshot' = [snapshot EXCEPT ![p] = NothingCached]
  /\ UNCHANGED <<key, calls>>

\* The process is killed inside the call; :global drops its lock.
CallerKilled(p) ==
  /\ place[p] \notin Resting \cup {"dead"}
  /\ place' = [place EXCEPT ![p] = "dead"]
  /\ inserter' = IF inserter = p THEN Absent ELSE inserter
  /\ snapshot' = [snapshot EXCEPT ![p] = NothingCached]
  /\ UNCHANGED <<cache, key, calls>>

Step(p) == Compute(p) \/ Lock(p) \/ ReadMap(p) \/ Put(p)

CacheNext ==
  \E p \in Processes :
    \/ \E k \in Keys : Call(p, k)
    \/ Step(p)
    \/ CallerKilled(p)

\* A process that has called goes on.  :global.trans retries for ever, and the
\* calls are finitely many: weak fairness lets each have its turn.
CacheFairness == \A p \in Processes : WF_cacheVars(Step(p))

CacheSpec == CacheInit /\ [][CacheNext]_cacheVars /\ CacheFairness

-----------------------------------------------------------------------------
(* Properties. *)

CacheTypeOK ==
  /\ cache \in Caches
  /\ inserter \in Processes \cup {Absent}
  /\ place \in [Processes -> Resting \cup Locked \cup {"computing", "locking", "dead"}]
  /\ key \in [Processes -> Keys \cup {Absent}]
  /\ snapshot \in [Processes -> Caches]
  /\ calls \in [Processes -> 0..MaxCalls]
  /\ \A p \in Processes : place[p] \notin {"idle", "dead"} =>
       key[p] \in Keys /\ calls[p] > 0

\* "The cap bounds retained NIF resources": however the misses interleave, no
\* more schemas are published than the cap allows.
WithinCap == Cardinality(Cached(cache)) <= MaxEntries

\* "Without the lock a concurrent miss can publish a stale snapshot and drop
\* another process's entry": a published entry never goes and never changes,
\* whoever inserts, raises or is killed meanwhile.
EntriesStay ==
  [][\A k \in Cached(cache) : cache'[k] = cache[k]]_cache

\* No insertion is lost: a call that has returned leaves its key published,
\* unless the cap is what kept it out.
ReturnedIsCached ==
  \A p \in Processes : place[p] = "returned" =>
    key[p] \in Cached(cache) \/ Cardinality(Cached(cache)) = MaxEntries

\* Every miss ends, whoever dies holding the lock: the calls are finitely many,
\* and a time comes when none is under way.
EveryCallEnds ==
  <>[](\A p \in Processes : place[p] \in Resting \cup {"dead"})

\* The inductive invariant: only the holder is between its read and its write,
\* so what it has read is still what is published.
LockProtects ==
  /\ CacheTypeOK /\ WithinCap /\ ReturnedIsCached
  /\ \A p \in Processes : place[p] \in Locked <=> inserter = p
  /\ \A p \in Processes : place[p] = "putting" => snapshot[p] = cache

=============================================================================
