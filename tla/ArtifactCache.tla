--------------------------- MODULE ArtifactCache ---------------------------
(***************************************************************************)
(* The bounded FIFO cache of local analysis artifacts                      *)
(* (glass-lint-core/src/analysis/local.rs) as operators on its deque.  A   *)
(* key stands for everything that can change a local analysis (source      *)
(* text, language, normalization, environment, local limits, version), so  *)
(* the artifact that an analysis of key k yields is written k itself.      *)
(***************************************************************************)
EXTENDS Integers, Sequences

CONSTANTS Keys,         \* artifact cache keys
          Fingerprint,  \* key -> its 64-bit hash; keys may collide
          MaxEntries,   \* ArtifactCache::MAX_ENTRIES
          Miss          \* no artifact for a key

ASSUME CacheAssumption ==
  /\ MaxEntries \in Nat \ {0}
  /\ Fingerprint \in [Keys -> Nat]
  /\ Miss \notin Keys

Entry == [key : Keys, artifact : Keys]

Matches(e, k) == Fingerprint[e.key] = Fingerprint[k] /\ e.key = k

Positions(entries, k) == {n \in DOMAIN entries : Matches(entries[n], k)}

First(S) == CHOOSE n \in S : \A m \in S : n <= m

Lookup(entries, k) ==
  IF Positions(entries, k) = {} THEN Miss
  ELSE entries[First(Positions(entries, k))].artifact

(* An exact match is replaced where it stands; a new key enters at the back, *)
(* pushing the oldest entry out of a full cache.                             *)
Insert(entries, k, a) ==
  IF Positions(entries, k) # {}
    THEN [entries EXCEPT ![First(Positions(entries, k))].artifact = a]
    ELSE Append(IF Len(entries) >= MaxEntries THEN Tail(entries) ELSE entries,
                [key |-> k, artifact |-> a])

CachedKeys(entries) == {entries[n].key : n \in DOMAIN entries}

(* What every reachable cache is: bounded, one entry per key, and each entry *)
(* holding the artifact of its own key.                                      *)
Bounded(entries)    == Len(entries) <= MaxEntries
UniqueKeys(entries) == \A m, n \in DOMAIN entries : entries[m].key = entries[n].key => m = n
Sound(entries)      == \A n \in DOMAIN entries : entries[n].artifact = entries[n].key
=============================================================================
