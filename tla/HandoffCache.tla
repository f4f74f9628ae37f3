---------------------------- MODULE HandoffCache ----------------------------
(***************************************************************************)
(* The cache of image descriptions (handoff_cache.rs): an LRU map from     *)
(* digests to descriptions with an age.  Each operation runs under the     *)
(* cache's lock.                                                           *)
(***************************************************************************)
EXTENDS Naturals, Sequences, SequencesExt

CONSTANTS
  Digests,    \* images, by their digest
  CacheSize,  \* the capacity
  CacheTtl    \* the time to live, in steps of the clock

ASSUME HandoffCacheAssumption == CacheSize \in Nat \ {0} /\ CacheTtl \in Nat \ {0}

VARIABLE lru  \* the entries, most recently used first, with ages capped at CacheTtl

Entry == [digest : Digests, age : 0..CacheTtl]
CacheInit == lru = <<>>

InCache(d) == \E e \in ToSet(lru) : e.digest = d
EntryOf(d) == CHOOSE e \in ToSet(lru) : e.digest = d
IsHit(d) == InCache(d) /\ EntryOf(d).age < CacheTtl
Without(s, d) ==
  IF \E i \in DOMAIN s : s[i].digest = d
  THEN RemoveAt(s, CHOOSE i \in DOMAIN s : s[i].digest = d)
  ELSE s

\* An expired entry is taken out.
Get(d) == lru' = IF IsHit(d) THEN <<EntryOf(d)>> \o Without(lru, d) ELSE Without(lru, d)

\* The most recently used entry makes way (a seeded fault).
SetOverNewest(d) ==
  lru' = <<[digest |-> d, age |-> 0]>> \o
           Without(IF Len(lru) >= CacheSize THEN Tail(lru) ELSE lru, d)

\* A full cache gives up its last entry, even one for a digest it holds.
Set(d) ==
  lru' = <<[digest |-> d, age |-> 0]>> \o
           Without(IF Len(lru) >= CacheSize THEN Front(lru) ELSE lru, d)

CacheTick ==
  lru' = [i \in DOMAIN lru |-> [lru[i] EXCEPT !.age = IF @ < CacheTtl THEN @ + 1 ELSE @]]
=============================================================================
